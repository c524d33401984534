---------------------------- MODULE GzipStreams -----------------------------
(***************************************************************************)
(* A gzip file written through a GzipOStream and read back through a       *)
(* GzipIStream: whatever the writer has left on the disk, closed, failed   *)
(* or cut by the end of its process, is what the reader opens.  A file may *)
(* come from elsewhere as well.  The reading begins when the writing is    *)
(* over.                                                                   *)
(***************************************************************************)
EXTENDS GzipWriter

CONSTANTS
  Data, Expand,  \* the compressed data, as in GzipReader
  OtherFiles     \* files that come from elsewhere

VARIABLES
  rpc, rfailed,  \* pc and mfailed of the reader, its file is the disk
  pos, avail, direct, input_eof, member_end, zs, pending, ret, mbuffer, out,
  ended, faulted

R == INSTANCE GzipReader
       WITH Files <- OtherFiles, file <- disk, pc <- rpc, mfailed <- rfailed

reader == <<rpc, rfailed, pos, avail, direct, input_eof, member_end, zs,
            pending, ret, mbuffer, out, ended, faulted>>

\* Each character the application writes is compressed to a token of its own.
ASSUME CharsAssumption ==
  /\ R!ReaderConstants
  /\ IsInjective(Chars) /\ Range(Chars) \subseteq Data
  /\ \A c \in Range(Chars) : Expand[c] = <<c>>

allVars == <<vars, reader>>

StreamsInit ==
  /\ disk \in OtherFiles \cup {<< >>}
  /\ pc = "closed" /\ then = "app" /\ put = << >> /\ next = << >>
  /\ inside = << >> /\ file = << >> /\ written = << >>
  /\ mfailed = FALSE /\ closed = FALSE /\ opens = 0
  /\ R!Unopened

\* A file from elsewhere is not written to.
Writing ==
  /\ opens > 0 \/ disk = << >>
  /\ rpc = "closed" /\ ~rfailed /\ Next /\ UNCHANGED reader

\* The application opens what it has written, or what it has been given.
Reading == pc \in {"closed", "dead"} /\ R!Next /\ UNCHANGED vars

StreamsNext == Writing \/ Reading

StreamsSpec == StreamsInit /\ [][StreamsNext]_allVars

\* A call of the writer runs to its end, whether the application makes another
\* is its own matter; a reading goes on until its end or its failure.
StreamsFairSpec ==
  /\ StreamsSpec
  /\ WF_allVars(rpc = "closed" /\ Inner /\ UNCHANGED reader)
  /\ WF_allVars(rpc # "closed" /\ Reading)

-----------------------------------------------------------------------------
EndMeansComplete == R!EndMeansComplete
CompleteIsRead   == R!CompleteIsRead

\* What the application has written and closed with success it reads back,
\* character by character, and never gets a failure but one of the system.  A
\* file whose close failed, or whose writer died, reads to its end only when
\* nothing of it is missing -- but for the one cut before its second byte,
\* which is no gzip file to the reader and is read as it is.
ReadBackWhole ==
  /\ ended /\ opens > 0 /\ Len(disk) >= 2 => out = written
  /\ rfailed /\ closed => faulted

\* Every call of the writer returns, and every reading ends with the end of the
\* file or with a failure.
CallsReturn ==
  /\ [](pc \in {"deflate", "finish", "fclose"} =>
          <>(pc \in {"app", "closed", "dead"}))
  /\ [](rpc # "closed" => <>(ended \/ rfailed))
=============================================================================
