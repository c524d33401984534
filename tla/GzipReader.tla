----------------------------- MODULE GzipReader -----------------------------
(***************************************************************************)
(* GzipIStream over GzipStreamBuf in the read mode.  The file is read a    *)
(* chunk at a time; the inflate (zlib) gives the characters of a chunk     *)
(* piece by piece and is started again for every concatenated member.      *)
(*                                                                         *)
(* A file is a sequence of tokens: "1" and "2" are the magic bytes with    *)
(* the rest of the header, "T" is a trailer that checks out, "x" a byte    *)
(* the format forbids, and every other token is compressed data that       *)
(* Expand turns into none, one or more characters.                         *)
(***************************************************************************)
EXTENDS Naturals, Sequences, SequencesExt

CONSTANTS
  Chunk,     \* the size of the input and of the output buffer
  Data,      \* the tokens of compressed data
  Expand,    \* the characters each of them stands for
  Files,     \* the files: sequences of tokens
  Faults     \* may fread fail?

VARIABLES
  pc,          \* where the read is
  file,        \* the file
  pos,         \* how much of it fread has given
  avail,       \* next_in .. avail_in
  direct,      \* the file is not a gzip one
  input_eof,   \* fread has reached the end of the file
  member_end,  \* the inflate has verified a trailer
  zs,          \* what the inflate expects next
  pending,     \* characters the inflate holds for want of room
  ret,         \* what inflate returned
  mbuffer,     \* the output buffer
  out,         \* the characters the application has got
  mfailed,
  ended,       \* the application has been told of the end of the file
  faulted      \* fread has failed

vars == <<pc, file, pos, avail, direct, input_eof, member_end, zs, pending, ret,
          mbuffer, out, mfailed, ended, faulted>>

Tokens == Data \cup {"1", "2", "T", "x"}

\* What the constants have to be.
ReaderConstants ==
  /\ Chunk \in Nat /\ Chunk >= 2
  /\ Data \cap {"1", "2", "T", "x"} = {}
  /\ Expand \in [Data -> Seq(Data)]
  /\ Files \subseteq Seq(Tokens)
  /\ Faults \in BOOLEAN

AtMost(a, b) == IF a < b THEN a ELSE b

\* What the next fread gives, and whether it is short.
Got     == SubSeq(file, pos + 1, AtMost(pos + Chunk, Len(file)))
IsShort == Len(Got) < Chunk

\* A stream that has not opened its file.
Unopened ==
  /\ pc = "closed" /\ pos = 0 /\ avail = << >> /\ input_eof = FALSE
  /\ direct = FALSE /\ member_end = FALSE /\ zs = "id1"
  /\ pending = << >> /\ ret = "ok" /\ mbuffer = << >>
  /\ out = << >> /\ mfailed = FALSE /\ ended = FALSE /\ faulted = FALSE

Init == file \in Files /\ Unopened

\* open reads the first chunk and tells a gzip file by its magic bytes; the
\* fopen, the fread or the start of the inflate may fail.
Open ==
  /\ pc = "closed" /\ ~mfailed
  /\ \/ /\ pos' = AtMost(Chunk, Len(file))
        /\ avail' = SubSeq(file, 1, pos')
        /\ input_eof' = (pos' < Chunk)
        /\ direct' = ~(pos' >= 2 /\ file[1] = "1" /\ file[2] = "2")
        /\ pc' = "app"
        /\ UNCHANGED <<mfailed, faulted>>
     \/ /\ Faults
        /\ mfailed' = TRUE /\ faulted' = TRUE
        /\ UNCHANGED <<pc, pos, avail, input_eof, direct>>
  /\ UNCHANGED <<file, member_end, zs, pending, ret, mbuffer, out, ended>>

\* Mutant: the output buffer keeps what has been handed out.
UnderflowKeeping ==
  /\ pc = "app" /\ ~mfailed /\ ~ended
  /\ pc' = IF direct THEN "direct" ELSE "refill"
  /\ UNCHANGED <<file, pos, avail, direct, input_eof, member_end, zs, pending,
                 ret, mbuffer, out, mfailed, ended, faulted>>

\* underflow: the application asks for more and has not been refused yet.
Underflow ==
  /\ pc = "app" /\ ~mfailed /\ ~ended
  /\ pc' = IF direct THEN "direct" ELSE "refill"
  /\ mbuffer' = << >>
  /\ UNCHANGED <<file, pos, avail, direct, input_eof, member_end, zs, pending,
                 ret, out, mfailed, ended, faulted>>

Fail == mfailed' = TRUE /\ pc' = "app"

\* fread into a buffer: count short of Chunk is the end or an error.
Fread ==
  /\ pos' = pos + Len(Got)
  /\ input_eof' = (input_eof \/ IsShort)

\* The read of a file which is no gzip one, as it is.
ReadDirect ==
  /\ pc = "direct"
  /\ \/ /\ avail # << >>
        /\ out' = out \o avail /\ avail' = << >>
        /\ pc' = "app"
        /\ UNCHANGED <<pos, input_eof, mfailed, ended, faulted>>
     \/ /\ avail = << >> /\ input_eof
        /\ ended' = TRUE /\ pc' = "app"
        /\ UNCHANGED <<pos, input_eof, avail, out, mfailed, faulted>>
     \/ /\ avail = << >> /\ ~input_eof
        /\ Fread
        /\ out' = out \o Got
        /\ ended' = (Got = << >>)
        /\ pc' = "app"
        /\ UNCHANGED <<avail, mfailed, faulted>>
     \/ /\ avail = << >> /\ ~input_eof /\ Faults
        /\ Fail /\ faulted' = TRUE
        /\ UNCHANGED <<pos, input_eof, avail, out, ended>>
  /\ UNCHANGED <<file, direct, member_end, zs, pending, ret, mbuffer>>

\* The head of the loop of read_buffer.
Refill ==
  /\ pc = "refill"
  /\ \/ /\ avail = << >> /\ ~input_eof
        /\ Fread
        /\ avail' = Got
        /\ pc' = "member"
        /\ UNCHANGED <<mfailed, faulted>>
     \/ /\ avail = << >> /\ ~input_eof /\ Faults
        /\ Fail /\ faulted' = TRUE
        /\ UNCHANGED <<pos, input_eof, avail>>
     \/ /\ avail # << >> \/ input_eof
        /\ pc' = "member"
        /\ UNCHANGED <<pos, input_eof, avail, mfailed, faulted>>
  /\ UNCHANGED <<file, direct, member_end, zs, pending, ret, mbuffer, out, ended>>

\* Mutant: the end of the input is the end of the file, member or no member.
NextMemberUnverified ==
  /\ pc = "member"
  /\ IF avail = << >>
     THEN /\ ended' = input_eof
          /\ pc' = IF input_eof THEN "app" ELSE "refill"
          /\ UNCHANGED <<member_end, zs>>
     ELSE /\ pc' = "inflate"
          /\ member_end' = FALSE
          /\ zs' = IF member_end THEN "id1" ELSE zs
          /\ UNCHANGED ended
  /\ UNCHANGED <<file, pos, avail, direct, input_eof, pending, ret, mbuffer, out,
                 mfailed, faulted>>

\* After a member: the end of the file, more input, or the next member.
NextMember ==
  /\ pc = "member"
  /\ IF ~member_end
     THEN pc' = "inflate" /\ UNCHANGED <<member_end, zs, ended>>
     ELSE IF avail # << >>
          THEN /\ pc' = "inflate" /\ member_end' = FALSE /\ zs' = "id1"
               /\ UNCHANGED ended
          ELSE /\ ended' = input_eof
               /\ pc' = IF input_eof THEN "app" ELSE "refill"
               /\ UNCHANGED <<member_end, zs>>
  /\ UNCHANGED <<file, pos, avail, direct, input_eof, pending, ret, mbuffer, out,
                 mfailed, faulted>>

\* What the inflate makes of a token: what it expects after it.
After(z, token) ==
  CASE z = "id1"                     -> IF token = "1" THEN "id2" ELSE "bad"
    [] z = "id2"                     -> IF token = "2" THEN "body" ELSE "bad"
    [] z = "body" /\ token = "T"     -> "end"
    [] z = "body" /\ token \in Data  -> "body"
    [] OTHER                         -> "bad"

Returns(code) == pc' = "after" /\ ret' = code /\ UNCHANGED <<avail, zs, pending, mbuffer>>

\* Inside one inflate call: it gives what it holds, takes the next token, and
\* returns when the input is used up, the room is, or the member is.  A full
\* buffer does not keep it from taking a token that gives no characters.
Inflate ==
  /\ pc = "inflate"
  /\ \/ /\ pending # << >> /\ Len(mbuffer) < Chunk
        /\ mbuffer' = Append(mbuffer, Head(pending))
        /\ pending' = Tail(pending)
        /\ UNCHANGED <<pc, avail, zs, ret>>
     \/ /\ pending = << >> /\ avail # << >> /\ zs \notin {"end", "bad"}
        /\ zs' = After(zs, Head(avail))
        /\ pending' = IF zs = "body" /\ Head(avail) \in Data
                      THEN Expand[Head(avail)] ELSE << >>
        /\ avail' = Tail(avail)
        /\ UNCHANGED <<pc, mbuffer, ret>>
     \/ zs = "end" /\ pending = << >> /\ Returns("stream_end")
     \/ zs = "bad" /\ Returns("error")
     \/ /\ zs \notin {"end", "bad"}
        /\ Len(mbuffer) = Chunk \/ (pending = << >> /\ avail = << >>)
        /\ Returns("ok")
  /\ UNCHANGED <<file, pos, direct, input_eof, member_end, out, mfailed, ended, faulted>>

\* Mutants: a truncated file is waited for; ...
AfterInflateWaiting ==
  /\ pc = "after"
  /\ member_end' = (member_end \/ ret = "stream_end")
  /\ IF ret = "error"
     THEN Fail /\ UNCHANGED out
     ELSE IF mbuffer # << >>
     THEN out' = out \o mbuffer /\ pc' = "app" /\ UNCHANGED mfailed
     ELSE pc' = "refill" /\ UNCHANGED <<out, mfailed>>
  /\ UNCHANGED <<file, pos, avail, direct, input_eof, zs, pending, ret, mbuffer,
                 ended, faulted>>

\* ... input that ends with a member is taken for a truncated one.
AfterInflateRefusing ==
  /\ pc = "after"
  /\ member_end' = (member_end \/ ret = "stream_end")
  /\ IF ret = "error"
     THEN Fail /\ UNCHANGED out
     ELSE IF mbuffer # << >>
     THEN out' = out \o mbuffer /\ pc' = "app" /\ UNCHANGED mfailed
     ELSE IF avail = << >> /\ input_eof
     THEN Fail /\ UNCHANGED out
     ELSE pc' = "refill" /\ UNCHANGED <<out, mfailed>>
  /\ UNCHANGED <<file, pos, avail, direct, input_eof, zs, pending, ret, mbuffer,
                 ended, faulted>>

\* read_buffer looks at what the inflate has returned and given.
AfterInflate ==
  /\ pc = "after"
  /\ member_end' = (member_end \/ ret = "stream_end")
  /\ IF ret = "error"
     THEN Fail /\ UNCHANGED out
     ELSE IF mbuffer # << >>
     THEN out' = out \o mbuffer /\ pc' = "app" /\ UNCHANGED mfailed
     ELSE IF ~member_end' /\ avail = << >> /\ input_eof
     THEN Fail /\ UNCHANGED out
     ELSE pc' = "refill" /\ UNCHANGED <<out, mfailed>>
  /\ UNCHANGED <<file, pos, avail, direct, input_eof, zs, pending, ret, mbuffer,
                 ended, faulted>>

Next == Open \/ Underflow \/ ReadDirect \/ Refill \/ NextMember \/ Inflate \/ AfterInflate

Spec == Init /\ [][Next]_vars

-----------------------------------------------------------------------------
(* What the file means, from RFC 1952 as the header comment states it *)

\* A gzip file is one or more members, each of a header, data and a trailer.
Trailers(f) == {i \in DOMAIN f : f[i] = "T"}
Starts(f)   == {1} \cup {i + 1 : i \in Trailers(f) \ {Len(f)}}
IsGzip(f) ==
  /\ Len(f) \in Trailers(f)
  /\ \A i \in DOMAIN f : CASE i \in Starts(f)       -> f[i] = "1"
                           [] i - 1 \in Starts(f)   -> f[i] = "2"
                           [] OTHER                 -> f[i] \in Data \cup {"T"}

\* The characters of the compressed data up to a position.
Content(f) ==
  FlattenSeq([i \in DOMAIN f |-> IF f[i] \in Data THEN Expand[f[i]] ELSE << >>])

\* The characters handed out are the ones of the file, in order, even when the
\* file turns out to be damaged further on; the end of it is told only when the
\* whole file has been read and every member of it verified, wherever the
\* chunks have cut it: a file truncated right after its data, or at a chunk
\* boundary, is no complete one.
EndMeansComplete ==
  pc # "closed" =>
    /\ IsPrefix(out, IF direct THEN file ELSE Content(file))
    /\ ended => IF direct THEN out = file
                ELSE IsGzip(file) /\ out = Content(file)

\* A complete gzip file, of one member or several, is never refused, however
\* the chunks cut it, unless fread fails; neither is a file read as it is.
CompleteIsRead == mfailed /\ ~faulted => ~direct /\ ~IsGzip(file)
=============================================================================
