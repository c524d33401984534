---------------------------- MODULE ZlibBuffers ----------------------------
(***************************************************************************)
(* ZlibController::compress and uncompress: a buffer is handed to zlib in  *)
(* parts and what zlib gives is collected in chunks.  A call of zlib stops *)
(* when its input is used up or its output is full, which are both the     *)
(* case or neither of them at any byte.                                    *)
(*                                                                         *)
(* Compressed, a byte is that byte and End is the end of the stream; Bad   *)
(* is what the format forbids.                                             *)
(***************************************************************************)
EXTENDS Integers, Sequences, SequencesExt, FiniteSetsExt

CONSTANTS
  PART,        \* how much input zlib is given at a time
  CHUNK,       \* the room it is given for the output
  MaxBuffer    \* bound: the length of a buffer

ASSUME BufferAssumption == {PART, CHUNK} \subseteq Nat \ {0} /\ MaxBuffer \in Nat

VARIABLES
  call,      \* "compress" or "uncompress", "none" when neither is looked at
  stage,     \* where the call is
  input,
  offset,    \* how much of it zlib has been given
  avail,     \* next_in, avail_in
  held,      \* what the deflate has consumed and not written out
  out,
  rc         \* what the last call of zlib has returned

buffers == <<call, stage, input, offset, avail, held, out, rc>>

\* A byte is the number of its place, from 1 on.
End == 0
Bad == -1

-----------------------------------------------------------------------------
(* Both loops *)

\* The buffers, and what may be taken for compressed ones.
Plain      == {[k \in 1..n |-> k] : n \in 0..MaxBuffer}
Compressed == UNION {{[k \in 1..n |-> IF f[k] = 1 THEN k ELSE f[k]]
                        : f \in [1..n -> {End, Bad, 1}]} : n \in 1..MaxBuffer}

\* The empty input of uncompress is returned before anything else.
StartCall ==
  /\ call \in {"compress", "uncompress"}
  /\ input \in IF call = "compress" THEN Plain ELSE Compressed
  /\ stage = "part" /\ offset = 0 /\ rc = "ok"
  /\ avail = << >> /\ held = << >> /\ out = << >>

NoCall ==
  /\ call = "none" /\ input = << >> /\ stage = "end" /\ offset = 0 /\ rc = "ok"
  /\ avail = << >> /\ held = << >> /\ out = << >>

\* deflateInit or inflateInit fails: the buffer returned is empty.
InitFails ==
  /\ stage = "part" /\ offset = 0 /\ rc = "ok" /\ out = << >>
  /\ stage' = "failed"
  /\ UNCHANGED <<call, input, offset, avail, held, out, rc>>

part_of(size, from) == Min({PART, size - from})

NextPart ==
  /\ stage = "part"
  /\ LET part == part_of(Len(input), offset)
     IN  /\ avail' = SubSeq(input, offset + 1, offset + part)
         /\ offset' = offset + part
  /\ stage' = "codec"
  /\ UNCHANGED <<call, input, held, out, rc>>

\* The heads of the loops: the inner one is left when there was room left, the
\* outer one when nothing is left to be given.
AfterCompress(full) ==
  stage' = IF full THEN "codec" ELSE IF offset < Len(input) THEN "part" ELSE "end"

AfterUncompress(full) ==
  stage' = CASE rc' = "error"         -> "failed"
             [] rc' = "end"           -> "end"
             [] rc' = "ok" /\ full    -> "codec"
             [] rc' = "ok" /\ ~full   ->
                  IF offset < Len(input) THEN "part" ELSE "end"

\* One deflate call.  With Z_FINISH, which the last part is given with, it goes
\* on to the end of the stream; without, it may keep what it likes.  What it has
\* not consumed, for want of room, counts as kept: it is called again.
Deflate ==
  /\ call = "compress" /\ stage = "codec"
  /\ LET finish == offset = Len(input)
         ended  == End \in Range(out)
         given  == held \o avail
         all    == IF ended THEN << >>
                   ELSE IF finish THEN Append(given, End) ELSE given
     IN  \E m \in 0..Min({CHUNK, Len(all)}) :
           /\ out' = out \o SubSeq(all, 1, m)
           /\ m < CHUNK /\ finish => m = Len(all)
           /\ held' = SubSeq(given, m + 1, Len(given))
           /\ rc' = IF finish /\ m = Len(all) THEN "end" ELSE "ok"
           /\ AfterCompress(m = CHUNK)
  /\ avail' = << >>
  /\ UNCHANGED <<call, input, offset>>

\* One inflate call takes bytes until the part is used up, the room is full or
\* something else than a byte comes; when the room is full it may have seen the
\* end already.
Inflate ==
  /\ call = "uncompress" /\ stage = "codec"
  /\ \E m \in 0..Min({CHUNK, Len(avail)}) :
       LET rest == SubSeq(avail, m + 1, Len(avail))
       IN  /\ \A k \in 1..m : avail[k] > 0
           /\ m < CHUNK /\ rest # << >> => Head(rest) <= 0
           /\ out' = out \o SubSeq(avail, 1, m)
           /\ \/ rest # << >> /\ Head(rest) = End /\ rc' = "end"
              \/ rest # << >> /\ Head(rest) = Bad /\ rc' = "error"
              \/ (rest = << >> \/ m = CHUNK) /\ rc' = "ok"
           /\ avail' = IF rc' = "end" THEN Tail(rest) ELSE rest
           /\ AfterUncompress(m = CHUNK)
  /\ UNCHANGED <<call, input, offset, held>>

CallStep == InitFails \/ NextPart \/ Deflate \/ Inflate

\* Mutant: what was decompressed so far is returned of a cut stream.
returned_unchecked == IF stage = "failed" THEN << >> ELSE out

\* What the call returns once it has ended.
returned == IF stage = "failed" \/ rc # "end" THEN << >> ELSE out

-----------------------------------------------------------------------------
\* The bytes before the first token which is none.
Leading(b) ==
  SubSeq(b, 1, Max({n \in 0..Len(b) : \A j \in 1..n : b[j] > 0}))

IsComplete(b) == Len(Leading(b)) < Len(b) /\ b[Len(Leading(b)) + 1] = End

\* Unless zlib has no memory, compress returns the whole of the buffer with its
\* end, also of an empty one, and uncompress the bytes of a buffer compress has
\* made and nothing of a truncated or damaged one, wherever the parts and the
\* chunks have cut them: an output that is full to the last byte is no reason
\* to stop, a part that is used up none to go on.
BuffersReadBack ==
  /\ stage = "end" =>
       /\ call = "compress" => returned = Append(input, End)
       /\ call = "uncompress" =>
            returned = IF IsComplete(input) THEN Leading(input) ELSE << >>
  /\ rc = "error" => ~IsComplete(input)
=============================================================================
