----------------------------- MODULE GzipWriter -----------------------------
(***************************************************************************)
(* GzipOStream over GzipStreamBuf in the write mode: characters collect in *)
(* the put area, overflow and sync hand them to the deflate, close writes  *)
(* the rest and the trailer.  "The close() tells if the whole file is      *)
(* written."                                                               *)
(*                                                                         *)
(* The deflate (zlib) keeps what it has consumed for as long as it wants   *)
(* and writes it out in order, after the header it begins with; the        *)
(* compressed bytes of a character are that character, End is the end of   *)
(* the stream and its trailer.  fwrite may take a part only, fclose may    *)
(* fail to write what the C library kept, the process may die.             *)
(***************************************************************************)
EXTENDS Naturals, Sequences, SequencesExt

CONSTANTS
  Chunk,      \* the size of the put area
  Chars,      \* the characters the application writes to each file
  MaxOpens,   \* a bound on the files written through one stream
  Faults      \* may the operating system or zlib fail?

ASSUME SizeAssumption  == Chunk \in Nat \ {0} /\ MaxOpens \in Nat
ASSUME FaultAssumption == Faults \in BOOLEAN
ASSUME TextAssumption  == Chars \in Seq(Range(Chars))

VARIABLES
  pc,        \* where the stream is
  then,      \* where write_buffer returns to
  put,       \* the put area, from pbase to pptr
  next,      \* next_in: what of the put area the deflate has not consumed
  inside,    \* what the deflate has consumed and not written out
  file,      \* what has been handed to fwrite
  disk,      \* the file after fclose
  mfailed,   \* the first error has occurred
  closed,    \* what the last close returned
  written,   \* the characters the application has written since the open
  opens

vars == <<pc, then, put, next, inside, file, disk, mfailed, closed, written, opens>>

\* The header of the gzip stream, which begins with its magic bytes.
Header == <<"1", "2">>
End    == "T"

\* The whole file of some characters.
Gzip(text) == Header \o Append(text, End)

Init ==
  /\ pc = "closed" /\ then = "app"
  /\ put = << >> /\ next = << >> /\ inside = << >>
  /\ file = << >> /\ disk = << >>
  /\ mfailed = FALSE /\ closed = FALSE
  /\ written = << >> /\ opens = 0

\* open forgets the previous failure and truncates the file; the compression
\* may refuse to start after that.
Open ==
  /\ pc = "closed" /\ opens < MaxOpens
  /\ opens' = opens + 1
  /\ closed' = FALSE
  /\ \/ /\ pc' = "app" /\ mfailed' = FALSE
        /\ put' = << >> /\ inside' = Header
        /\ file' = << >> /\ disk' = << >> /\ written' = << >>
     \/ /\ Faults
        /\ mfailed' = TRUE
        /\ disk' \in {disk, << >>}
        /\ UNCHANGED <<pc, put, inside, file, written>>
  /\ UNCHANGED <<then, next>>

\* A close of a stream that is not open repeats the result of the last one.
CloseClosed ==
  /\ pc = "closed"
  /\ closed' = ~mfailed
  /\ UNCHANGED <<pc, then, put, next, inside, file, disk, mfailed, written, opens>>

\* Some call hands the put area to write_buffer, which does nothing after a
\* failure.
WriteBuffer(return, refused) ==
  IF mfailed
  THEN pc' = refused /\ UNCHANGED <<then, next>>
  ELSE pc' = "deflate" /\ then' = return /\ next' = put

\* The application writes a character; a full put area overflows first.  A
\* failed buffer refuses the character then.
PutChar ==
  /\ pc = "app" /\ Len(written) < Len(Chars)
  /\ LET c == Chars[Len(written) + 1]
     IN  /\ written' = Append(written, c)
         /\ IF Len(put) < Chunk
            THEN put' = Append(put, c) /\ UNCHANGED <<pc, then, next>>
            ELSE WriteBuffer("overflow", "app") /\ UNCHANGED put
  /\ UNCHANGED <<inside, file, disk, mfailed, closed, opens>>

Sync ==
  /\ pc = "app"
  /\ WriteBuffer("app", "app")
  /\ UNCHANGED <<put, inside, file, disk, mfailed, closed, written, opens>>

Close ==
  /\ pc = "app"
  /\ WriteBuffer("finish", "fclose")
  /\ UNCHANGED <<put, inside, file, disk, mfailed, closed, written, opens>>

\* One deflate call and the fwrite of what it gives: k characters go in, m
\* come out.  A short fwrite fails the buffer, the rest is lost.
DeflateCall ==
  /\ pc = "deflate" /\ next # << >>
  /\ \E k \in 1..Len(next) :
       LET held == inside \o SubSeq(next, 1, k)
       IN  \E m \in 0..Len(held) :
             /\ inside' = SubSeq(held, m + 1, Len(held))
             /\ next' = SubSeq(next, k + 1, Len(next))
             /\ \/ file' = file \o SubSeq(held, 1, m) /\ UNCHANGED <<pc, mfailed>>
                \/ /\ Faults
                   /\ \E j \in 0..m : file' = file \o SubSeq(held, 1, j)
                   /\ mfailed' = TRUE
                   /\ pc' = IF then = "finish" THEN "fclose" ELSE "app"
  /\ UNCHANGED <<then, put, disk, closed, written, opens>>

\* Mutant: the character that caused the overflow is dropped.
DeflateEndDropping ==
  /\ pc = "deflate" /\ next = << >>
  /\ put' = << >>
  /\ pc' = IF then = "finish" THEN "finish" ELSE "app"
  /\ UNCHANGED <<then, next, inside, file, disk, mfailed, closed, written, opens>>

\* The put area is consumed and emptied; an overflow then takes its character.
DeflateEnd ==
  /\ pc = "deflate" /\ next = << >>
  /\ put' = IF then = "overflow" THEN <<Last(written)>> ELSE << >>
  /\ pc' = IF then = "finish" THEN "finish" ELSE "app"
  /\ UNCHANGED <<then, next, inside, file, disk, mfailed, closed, written, opens>>

\* One deflate call of the Z_FINISH loop: the rest, then the trailer.
Finish ==
  /\ pc = "finish"
  /\ LET rest == Append(inside, End)
     IN  \E m \in 1..Len(rest) :
           \/ /\ file' = file \o SubSeq(rest, 1, m)
              /\ inside' = SubSeq(inside, m + 1, Len(inside))
              /\ pc' = IF m = Len(rest) THEN "fclose" ELSE "finish"
              /\ UNCHANGED mfailed
           \/ /\ Faults
              /\ \E j \in 0..(m - 1) : file' = file \o SubSeq(rest, 1, j)
              /\ mfailed' = TRUE
              /\ pc' = "fclose"
              /\ UNCHANGED inside
  /\ UNCHANGED <<then, put, next, disk, closed, written, opens>>

\* Mutant: what fclose returns is not looked at.
FcloseUnchecked ==
  /\ pc = "fclose"
  /\ pc' = "closed"
  /\ \/ disk' = file
     \/ Faults /\ \E n \in 0..Len(file) : disk' = SubSeq(file, 1, n)
  /\ closed' = ~mfailed
  /\ UNCHANGED <<then, put, next, inside, file, mfailed, written, opens>>

\* fclose writes what the C library still keeps of the file.
Fclose ==
  /\ pc = "fclose"
  /\ pc' = "closed"
  /\ \/ disk' = file /\ closed' = ~mfailed /\ UNCHANGED mfailed
     \/ /\ Faults
        /\ \E n \in 0..Len(file) : disk' = SubSeq(file, 1, n)
        /\ mfailed' = TRUE /\ closed' = FALSE
  /\ UNCHANGED <<then, put, next, inside, file, written, opens>>

\* The process ends in the middle: of what was handed to fwrite the C library
\* may still have kept a part.
Die ==
  /\ pc # "closed" /\ pc # "dead" /\ Faults
  /\ pc' = "dead" /\ closed' = FALSE
  /\ \E n \in 0..Len(file) : disk' = SubSeq(file, 1, n)
  /\ UNCHANGED <<then, put, next, inside, file, mfailed, written, opens>>

Inner == DeflateCall \/ DeflateEnd \/ Finish \/ Fclose

Next == Open \/ CloseClosed \/ PutChar \/ Sync \/ Close \/ Inner \/ Die

Spec == Init /\ [][Next]_vars

-----------------------------------------------------------------------------
\* A close that succeeds has written the whole file: every character the
\* application wrote, once and in order, and the end of the stream, although
\* the characters went through three buffers and any earlier call may have
\* failed with nobody looking.
CloseTellsTheTruth ==
  pc = "closed" /\ opens > 0 /\ closed => disk = Gzip(written)

\* Until the first error no character is lost or doubled between the file, the
\* deflate and the put area.
NothingLost ==
  pc = "app" /\ ~mfailed => file \o inside \o put = Header \o written
=============================================================================
