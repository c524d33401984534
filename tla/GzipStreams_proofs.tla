------------------------ MODULE GzipStreams_proofs ------------------------
(***************************************************************************)
(* What a GzipOStream tells of its file is true, for buffers of any size,  *)
(* texts of any length and any number of files written through one stream, *)
(* wherever the system, the compression or the process fails; and what a   *)
(* GzipIStream gives of a file, written or received, is what the file      *)
(* holds, in files of any length and however the chunks cut them.          *)
(***************************************************************************)
EXTENDS GzipStreams, SequenceTheorems, WellFoundedInduction, TLAPS

Token == Range(Chars) \cup {"1", "2", "T"}

WriterType ==
  /\ pc \in {"closed", "app", "deflate", "finish", "fclose", "dead"}
  /\ then \in {"app", "overflow", "finish"}
  /\ put \in Seq(Token) /\ next \in Seq(Token) /\ inside \in Seq(Token)
  /\ file \in Seq(Token) /\ written \in Seq(Token)
  /\ mfailed \in BOOLEAN /\ closed \in BOOLEAN

\* The character that found the put area full, while the area is written.
Waiting == IF then = "overflow" THEN <<written[Len(written)]>> ELSE << >>

\* Between the calls nothing is lost or doubled ...
KeptBetween == pc = "app" /\ ~mfailed => file \o inside \o put = Header \o written

\* ... nor inside of write_buffer ...
KeptWriting ==
  pc = "deflate" =>
    /\ ~mfailed
    /\ then = "overflow" => written # << >>
    /\ file \o inside \o (next \o Waiting) = Header \o written

\* ... nor in the end of the stream, which is whole when fclose comes ...
KeptFinishing ==
  /\ pc = "finish" => ~mfailed /\ file \o inside = Header \o written
  /\ pc = "fclose" /\ ~mfailed => file = Gzip(written)

\* ... and a stream without a failure has a whole file on the disk.
KeptClosed ==
  /\ pc = "closed" /\ opens > 0 /\ ~mfailed => disk = Gzip(written)
  /\ pc = "closed" /\ closed => ~mfailed

WriterInv ==
  /\ WriterType
  /\ KeptBetween /\ KeptWriting /\ KeptFinishing /\ KeptClosed

-----------------------------------------------------------------------------
(* Sequences *)

\* A sequence is what is taken from its head and the rest.
LEMMA TakeAndRest ==
  \A s \in Seq(Token) : \A k \in 0..Len(s) :
     /\ SubSeq(s, 1, k) \in Seq(Token)
     /\ SubSeq(s, k + 1, Len(s)) \in Seq(Token)
     /\ SubSeq(s, 1, k) \o SubSeq(s, k + 1, Len(s)) = s
<1> SUFFICES ASSUME NEW s \in Seq(Token), NEW k \in 0..Len(s)
             PROVE  /\ SubSeq(s, 1, k) \in Seq(Token)
                    /\ SubSeq(s, k + 1, Len(s)) \in Seq(Token)
                    /\ SubSeq(s, 1, k) \o SubSeq(s, k + 1, Len(s)) = s
  OBVIOUS
<1>1. Len(s) \in Nat /\ \A i \in 1..Len(s) : s[i] \in Token
  BY LenProperties, ElementOfSeq
<1>2. SubSeq(s, 1, k) \in Seq(Token)
  BY <1>1, SubSeqProperties
<1>3. SubSeq(s, k + 1, Len(s)) \in Seq(Token)
  BY <1>1, SubSeqProperties
<1>4. 1 \in 1..(Len(s) + 1) /\ k \in (1 - 1)..Len(s) /\ Len(s) \in k..Len(s)
  BY <1>1
<1>5. SubSeq(s, 1, k) \o SubSeq(s, k + 1, Len(s)) = SubSeq(s, 1, Len(s))
  BY <1>4, ConcatAdjacentSubSeq
<1> QED BY <1>2, <1>3, <1>5, SubSeqFull

\* The head of a sequence is the head of what begins with it.
LEMMA SameHead ==
  ASSUME NEW s \in Seq(Token), NEW t \in Seq(Token), NEW m \in 0..Len(s),
         Len(t) = Len(s) + 1, \A j \in 1..Len(s) : t[j] = s[j]
  PROVE  SubSeq(t, 1, m) = SubSeq(s, 1, m)
<1>1. Len(s) \in Nat /\ m \in Nat
  BY LenProperties
<1>2. \A j \in 1..m : s[j] \in Token /\ t[j] \in Token
  BY <1>1, ElementOfSeq
<1>3. /\ SubSeq(s, 1, m) \in Seq(Token) /\ Len(SubSeq(s, 1, m)) = m
      /\ \A j \in 1..m : SubSeq(s, 1, m)[j] = s[j]
  BY <1>1, <1>2, SubSeqProperties
<1>4. /\ SubSeq(t, 1, m) \in Seq(Token) /\ Len(SubSeq(t, 1, m)) = m
      /\ \A j \in 1..m : SubSeq(t, 1, m)[j] = t[j]
  BY <1>1, <1>2, SubSeqProperties
<1>5. \A j \in 1..m : SubSeq(t, 1, m)[j] = SubSeq(s, 1, m)[j]
  BY <1>1, <1>3, <1>4
<1> QED BY <1>3, <1>4, <1>5, SeqEqual

\* Appending to the right part appends to the whole.
LEMMA AppendBehind ==
  ASSUME NEW S, NEW s \in Seq(S), NEW t \in Seq(S), NEW e \in S
  PROVE  s \o Append(t, e) = Append(s \o t, e)
<1>1. <<e>> \in Seq(S) /\ s \o t \in Seq(S)
  BY ConcatProperties
<1>2. s \o Append(t, e) = s \o (t \o <<e>>)
  BY AppendIsConcat
<1>3. s \o (t \o <<e>>) = (s \o t) \o <<e>>
  BY <1>1, ConcatAssociative
<1> QED BY <1>1, <1>2, <1>3, AppendIsConcat

\* The header and the trailer are made of tokens.
LEMMA FrameType ==
  /\ Header \in Seq(Token) /\ End \in Token
  /\ \A i \in 1..Len(Chars) : Chars[i] \in Token
<1>1. Header \in Seq(Token)
  BY DEF Header, Token
<1>2. \A i \in 1..Len(Chars) : Chars[i] \in Range(Chars)
  BY TextAssumption, ElementOfSeq
<1> QED BY <1>1, <1>2 DEF End, Token

\* A text with the trailer behind it is the whole file without the trailer,
\* and the trailer.
LEMMA GzipOfText ==
  ASSUME NEW text \in Seq(Token)
  PROVE  Gzip(text) = Append(Header \o text, End)
BY FrameType, AppendBehind DEF Gzip

LEMMA Associative ==
  \A a, b, c \in Seq(Token) : (a \o b) \o c = a \o (b \o c)
BY ConcatAssociative

\* What one deflate call moves stays where it is in the row of the file, the
\* deflate, the rest of the put area and what waits behind it.
LEMMA DeflateMoves ==
  ASSUME NEW k, NEW h, NEW m
  PROVE  /\ file \in Seq(Token) /\ inside \in Seq(Token) /\ next \in Seq(Token)
         /\ Waiting \in Seq(Token) /\ h \in Seq(Token)
         /\ k \in 0..Len(next) /\ m \in 0..Len(h) /\ h = inside \o SubSeq(next, 1, k)
         => (file \o SubSeq(h, 1, m)) \o SubSeq(h, m + 1, Len(h))
               \o (SubSeq(next, k + 1, Len(next)) \o Waiting)
            = (file \o inside) \o (next \o Waiting)
<1>1. SUFFICES ASSUME file \in Seq(Token), inside \in Seq(Token), next \in Seq(Token),
                      Waiting \in Seq(Token), h \in Seq(Token), k \in 0..Len(next),
                      m \in 0..Len(h), h = inside \o SubSeq(next, 1, k)
               PROVE  (file \o SubSeq(h, 1, m)) \o SubSeq(h, m + 1, Len(h))
                         \o (SubSeq(next, k + 1, Len(next)) \o Waiting)
                       = (file \o inside) \o (next \o Waiting)
  OBVIOUS
<1>2. PICK n1, n2 : /\ n1 = SubSeq(next, 1, k) /\ n2 = SubSeq(next, k + 1, Len(next))
                    /\ n1 \in Seq(Token) /\ n2 \in Seq(Token) /\ n1 \o n2 = next
  <2>1. next \in Seq(Token) /\ k \in 0..Len(next)
    BY <1>1
  <2>2. /\ SubSeq(next, 1, k) \in Seq(Token)
        /\ SubSeq(next, k + 1, Len(next)) \in Seq(Token)
        /\ SubSeq(next, 1, k) \o SubSeq(next, k + 1, Len(next)) = next
    BY <2>1, TakeAndRest, Zenon
  <2> QED BY <2>2
<1>3. PICK h1, h2 : /\ h1 = SubSeq(h, 1, m) /\ h2 = SubSeq(h, m + 1, Len(h))
                    /\ h1 \in Seq(Token) /\ h2 \in Seq(Token) /\ h1 \o h2 = h
  <2>1. h \in Seq(Token) /\ m \in 0..Len(h)
    BY <1>1
  <2>2. /\ SubSeq(h, 1, m) \in Seq(Token)
        /\ SubSeq(h, m + 1, Len(h)) \in Seq(Token)
        /\ SubSeq(h, 1, m) \o SubSeq(h, m + 1, Len(h)) = h
    BY <2>1, TakeAndRest, Zenon
  <2> QED BY <2>2
<1>4. PICK a, d : /\ a = file \o inside /\ a \in Seq(Token)
                  /\ d = n2 \o Waiting /\ d \in Seq(Token)
  BY <1>1, <1>2, ConcatProperties
<1>5. file \in Seq(Token) /\ h1 \in Seq(Token) /\ h2 \in Seq(Token)
  BY <1>1, <1>3
<1>6. (file \o h1) \o h2 = file \o (h1 \o h2)
  BY <1>5, Associative, ZenonT(60)
<1>7. file \in Seq(Token) /\ inside \in Seq(Token) /\ n1 \in Seq(Token)
  BY <1>1, <1>2
<1>8. (file \o inside) \o n1 = file \o (inside \o n1)
  BY <1>7, Associative, ZenonT(60)
<1>9. a \in Seq(Token) /\ n1 \in Seq(Token) /\ d \in Seq(Token)
  BY <1>2, <1>4
<1>10. (a \o n1) \o d = a \o (n1 \o d)
  BY <1>9, Associative, ZenonT(60)
<1>11. n1 \in Seq(Token) /\ n2 \in Seq(Token) /\ Waiting \in Seq(Token)
  BY <1>1, <1>2
<1>12. (n1 \o n2) \o Waiting = n1 \o (n2 \o Waiting)
  BY <1>11, Associative, ZenonT(60)
<1>13. (file \o h1) \o h2 = a \o n1
  BY <1>1, <1>2, <1>3, <1>4, <1>6, <1>8
<1>14. n1 \o d = next \o Waiting
  BY <1>2, <1>4, <1>12
<1>15. (file \o h1) \o h2 \o d = (file \o inside) \o (next \o Waiting)
  BY <1>4, <1>10, <1>13, <1>14
<1> QED BY <1>2, <1>3, <1>4, <1>15

-----------------------------------------------------------------------------
(* The first state, and one lemma for each action *)

LEMMA InitHolds == Init => WriterInv
<1> SUFFICES ASSUME Init PROVE WriterInv
  OBVIOUS
<1>1. << >> \in Seq(Token)
  BY EmptySeq
<1>2. WriterType
  BY <1>1 DEF Init, WriterType
<1> QED
  BY <1>2 DEF Init, WriterInv, KeptBetween, KeptWriting, KeptFinishing, KeptClosed

\* A file that is opened begins with the header inside of the deflate.
LEMMA OpenHolds == WriterInv /\ Open => WriterInv'
<1> SUFFICES ASSUME WriterInv, Open PROVE WriterInv'
  OBVIOUS
<1> USE DEF WriterInv
<1>1. << >> \in Seq(Token) /\ Header \in Seq(Token)
  BY EmptySeq, FrameType
<1>2. CASE mfailed' = TRUE /\ UNCHANGED <<pc, put, inside, file, written>>
  BY <1>2 DEF Open, WriterType, KeptBetween, KeptWriting, KeptFinishing, KeptClosed
<1>3. CASE /\ pc' = "app" /\ mfailed' = FALSE
           /\ put' = << >> /\ inside' = Header
           /\ file' = << >> /\ disk' = << >> /\ written' = << >>
  <2>1. << >> \o Header \o << >> = Header \o << >>
    BY <1>1, ConcatEmptySeq
  <2>2. WriterType'
    BY <1>1, <1>3 DEF Open, WriterType
  <2> QED
    BY <1>3, <2>1, <2>2 DEF KeptBetween, KeptWriting, KeptFinishing, KeptClosed
<1> QED BY <1>2, <1>3 DEF Open

LEMMA CloseClosedHolds == WriterInv /\ CloseClosed => WriterInv'
BY DEF WriterInv, CloseClosed, WriterType, KeptBetween, KeptWriting, Waiting,
       KeptFinishing, KeptClosed

\* A character goes behind the put area or waits for it to be written.
LEMMA PutCharHolds == WriterInv /\ PutChar => WriterInv'
<1> SUFFICES ASSUME WriterInv, PutChar PROVE WriterInv'
  OBVIOUS
<1> USE DEF WriterInv
<1> DEFINE c == Chars[Len(written) + 1]
<1>1. c \in Token
  <2>1. Len(written) \in Nat /\ Len(Chars) \in Nat
    BY TextAssumption, LenProperties DEF WriterType
  <2>2. Len(written) + 1 \in 1..Len(Chars)
    BY <2>1 DEF PutChar
  <2> QED BY <2>2, FrameType
<1> HIDE DEF c
<1>2. /\ written' = Append(written, c)
      /\ UNCHANGED <<inside, file, disk, mfailed, closed, opens>>
      /\ pc = "app"
  BY DEF PutChar, c
<1>3. /\ written' \in Seq(Token) /\ written' # << >>
      /\ written'[Len(written')] = c
  BY <1>1, <1>2, AppendProperties DEF WriterType
<1>4. Header \o written' = Append(Header \o written, c)
  BY <1>1, <1>2, FrameType, AppendBehind DEF WriterType
<1>5. file \o inside \in Seq(Token) /\ file \o inside \o put \in Seq(Token)
  BY ConcatProperties DEF WriterType
<1>6. (file \o inside) \o Append(put, c) = Append(file \o inside \o put, c)
  BY <1>1, <1>5, AppendBehind DEF WriterType
<1>7. put \o <<c>> = Append(put, c) /\ Append(put, c) \in Seq(Token)
  BY <1>1, AppendIsConcat, AppendProperties DEF WriterType
<1>8. CASE put' = Append(put, c) /\ UNCHANGED <<pc, then, next>>
  <2>1. WriterType'
    BY <1>2, <1>3, <1>7, <1>8 DEF WriterType
  <2> QED
    BY <1>2, <1>4, <1>6, <1>8, <2>1
    DEF KeptBetween, KeptWriting, KeptFinishing, KeptClosed
<1>9. CASE WriteBuffer("overflow", "app") /\ UNCHANGED put
  <2>1. WriterType'
    BY <1>2, <1>3, <1>9 DEF WriterType, WriteBuffer
  <2>2. KeptBetween'
    BY <1>2, <1>9 DEF WriterType, KeptBetween, WriteBuffer
  <2>3. KeptWriting'
    <3>1. CASE mfailed
      BY <1>2, <1>9, <3>1 DEF KeptWriting, WriteBuffer
    <3>2. CASE ~mfailed
      <4>1. then' = "overflow" /\ next' = put
        BY <1>9, <3>2 DEF WriteBuffer
      <4>2. Waiting' = <<c>>
        BY <1>3, <4>1 DEF Waiting
      <4>3. file' \o inside' \o (next' \o Waiting') = Append(Header \o written, c)
        BY <1>2, <1>6, <1>7, <3>2, <4>1, <4>2 DEF KeptBetween
      <4> QED BY <1>2, <1>3, <1>4, <3>2, <4>3 DEF KeptWriting
    <3> QED BY <3>1, <3>2
  <2> QED
    BY <1>2, <1>9, <2>1, <2>2, <2>3 DEF WriteBuffer, KeptFinishing, KeptClosed
<1> QED BY <1>8, <1>9 DEF PutChar, c

\* A flush and a close hand the whole put area over.
LEMMA HandOverHolds ==
  ASSUME WriterInv, pc = "app",
         NEW return \in {"app", "finish"}, NEW refused \in {"app", "fclose"},
         WriteBuffer(return, refused),
         UNCHANGED <<put, inside, file, disk, mfailed, closed, written, opens>>
  PROVE  WriterInv'
<1> USE DEF WriterInv
<1>1. CASE mfailed
  BY <1>1 DEF WriteBuffer, WriterType, KeptBetween, KeptWriting, KeptFinishing,
              KeptClosed
<1>2. CASE ~mfailed
  <2>1. pc' = "deflate" /\ then' = return /\ next' = put
    BY <1>2 DEF WriteBuffer
  <2>2. Waiting' = << >>
    BY <2>1 DEF Waiting
  <2>3. put \o << >> = put
    BY ConcatEmptySeq DEF WriterType
  <2>4. file' \o inside' \o (next' \o Waiting') = Header \o written'
    BY <1>2, <2>1, <2>2, <2>3 DEF KeptBetween
  <2>5. WriterType'
    BY <2>1 DEF WriterType
  <2> QED
    BY <1>2, <2>1, <2>4, <2>5 DEF KeptBetween, KeptWriting, KeptFinishing, KeptClosed
<1> QED BY <1>1, <1>2 DEF WriterType

LEMMA SyncHolds == WriterInv /\ Sync => WriterInv'
BY HandOverHolds DEF Sync

LEMMA CloseHolds == WriterInv /\ Close => WriterInv'
BY HandOverHolds DEF Close

\* The character that waits is one.
LEMMA WaitingType ==
  WriterType /\ (then = "overflow" => written # << >>) => Waiting \in Seq(Token)
<1> SUFFICES ASSUME WriterType, then = "overflow" => written # << >>
             PROVE  Waiting \in Seq(Token)
  OBVIOUS
<1>1. CASE then = "overflow"
  <2>1. Len(written) \in 1..Len(written)
    BY <1>1, EmptySeq, LenProperties DEF WriterType
  <2>2. written[Len(written)] \in Token
    BY <2>1, ElementOfSeq DEF WriterType
  <2> QED BY <1>1, <2>2 DEF Waiting
<1>2. CASE then # "overflow"
  BY <1>2, EmptySeq DEF Waiting
<1> QED BY <1>1, <1>2

\* What the deflate consumes and what is written of it, the whole of it or the
\* part before a failure.
LEMMA DeflateCallHolds == WriterInv /\ DeflateCall => WriterInv'
<1>1. SUFFICES ASSUME WriterInv, DeflateCall PROVE WriterInv'
  OBVIOUS
<1>2. /\ WriterType
      /\ pc = "deflate" /\ ~mfailed /\ (then = "overflow" => written # << >>)
      /\ file \o inside \o (next \o Waiting) = Header \o written
  BY <1>1 DEF WriterInv, KeptWriting, DeflateCall
<1>3. /\ inside \in Seq(Token) /\ next \in Seq(Token) /\ file \in Seq(Token)
      /\ Len(next) \in Nat
  BY <1>2, LenProperties DEF WriterType
<1>a. PICK k \in 1..Len(next) :
        LET held == inside \o SubSeq(next, 1, k)
        IN  \E m \in 0..Len(held) :
              /\ inside' = SubSeq(held, m + 1, Len(held))
              /\ next' = SubSeq(next, k + 1, Len(next))
              /\ \/ file' = file \o SubSeq(held, 1, m) /\ UNCHANGED <<pc, mfailed>>
                 \/ /\ \E j \in 0..m : file' = file \o SubSeq(held, 1, j)
                    /\ mfailed' = TRUE
                    /\ pc' = IF then = "finish" THEN "fclose" ELSE "app"
  BY <1>1 DEF DeflateCall
<1>4. PICK held :
        /\ held = inside \o SubSeq(next, 1, k)
        /\ \E m \in 0..Len(held) :
             /\ inside' = SubSeq(held, m + 1, Len(held))
             /\ next' = SubSeq(next, k + 1, Len(next))
             /\ \/ file' = file \o SubSeq(held, 1, m) /\ UNCHANGED <<pc, mfailed>>
                \/ /\ \E j \in 0..m : file' = file \o SubSeq(held, 1, j)
                   /\ mfailed' = TRUE
                   /\ pc' = IF then = "finish" THEN "fclose" ELSE "app"
  BY <1>a
<1>5. UNCHANGED <<then, put, disk, closed, written, opens>>
  BY <1>1 DEF DeflateCall
<1>6. PICK m \in 0..Len(held) :
        /\ inside' = SubSeq(held, m + 1, Len(held))
        /\ next' = SubSeq(next, k + 1, Len(next))
        /\ \/ file' = file \o SubSeq(held, 1, m) /\ UNCHANGED <<pc, mfailed>>
           \/ /\ \E j \in 0..m : file' = file \o SubSeq(held, 1, j)
              /\ mfailed' = TRUE
              /\ pc' = IF then = "finish" THEN "fclose" ELSE "app"
  BY <1>4
<1>7. k \in 0..Len(next)
  BY <1>3
<1>8. SubSeq(next, 1, k) \in Seq(Token) /\ next' \in Seq(Token)
  BY <1>3, <1>6, <1>7, TakeAndRest
<1>9. held \in Seq(Token) /\ Len(held) \in Nat
  BY <1>3, <1>4, <1>8, ConcatProperties, LenProperties
<1>10. inside' \in Seq(Token)
  BY <1>6, <1>9, TakeAndRest
<1>11. \A j \in 0..m : file \o SubSeq(held, 1, j) \in Seq(Token)
  <2> SUFFICES ASSUME NEW j \in 0..m PROVE file \o SubSeq(held, 1, j) \in Seq(Token)
    OBVIOUS
  <2>1. j \in 0..Len(held)
    BY <1>6, <1>9
  <2>2. SubSeq(held, 1, j) \in Seq(Token)
    BY <1>9, <2>1, TakeAndRest
  <2> QED BY <1>3, <2>2, ConcatProperties
<1>12. m \in 0..m
  BY <1>6, <1>9
<1>13. WriterType'
  <2>1. file' \in Seq(Token)
    BY <1>6, <1>11, <1>12
  <2>2. pc' \in {"deflate", "fclose", "app"} /\ mfailed' \in BOOLEAN
    BY <1>2, <1>6 DEF WriterType
  <2> QED BY <1>2, <1>5, <1>6, <1>8, <1>10, <2>1, <2>2 DEF WriterType
<1>14. CASE mfailed' = TRUE /\ pc' \in {"fclose", "app"}
  BY <1>13, <1>14 DEF WriterInv, KeptBetween, KeptWriting, KeptFinishing,
                      KeptClosed
<1>15. CASE file' = file \o SubSeq(held, 1, m) /\ UNCHANGED <<pc, mfailed>>
  <2>1. Waiting \in Seq(Token) /\ Waiting' = Waiting
    BY <1>2, <1>5, WaitingType DEF Waiting
  <2>2. /\ file \in Seq(Token) /\ inside \in Seq(Token) /\ next \in Seq(Token)
        /\ Waiting \in Seq(Token) /\ held \in Seq(Token)
        /\ k \in 0..Len(next) /\ m \in 0..Len(held)
        /\ held = inside \o SubSeq(next, 1, k)
    BY <1>3, <1>4, <1>7, <1>9, <2>1
  <2>3. (file \o SubSeq(held, 1, m)) \o SubSeq(held, m + 1, Len(held))
           \o (SubSeq(next, k + 1, Len(next)) \o Waiting)
         = (file \o inside) \o (next \o Waiting)
    BY <2>2, DeflateMoves, ZenonT(60)
  <2>4. file' \o inside' \o (next' \o Waiting') = Header \o written'
    BY <1>2, <1>5, <1>6, <1>15, <2>1, <2>3
  <2> QED
    BY <1>2, <1>5, <1>6, <1>13, <1>15, <2>4
    DEF WriterInv, KeptBetween, KeptWriting, KeptFinishing, KeptClosed
<1> QED BY <1>6, <1>14, <1>15

\* The put area has gone into the deflate; the character that found it full is
\* the first of the empty one.
LEMMA DeflateEndHolds == WriterInv /\ DeflateEnd => WriterInv'
<1> SUFFICES ASSUME WriterInv, DeflateEnd PROVE WriterInv'
  OBVIOUS
<1>1. /\ WriterType
      /\ pc = "deflate" /\ ~mfailed /\ (then = "overflow" => written # << >>)
      /\ file \o inside \o (next \o Waiting) = Header \o written
      /\ next = << >>
  BY DEF WriterInv, KeptWriting, DeflateEnd
<1>2. put' = Waiting
  BY DEF DeflateEnd, Waiting, Last
<1>3. Waiting \in Seq(Token)
  BY <1>1, WaitingType
<1>4. << >> \o Waiting = Waiting
  BY <1>3, ConcatEmptySeq
<1>5. file \o inside \o Waiting = Header \o written
  BY <1>1, <1>4
<1>6. UNCHANGED <<then, next, inside, file, disk, mfailed, closed, written, opens>>
  BY DEF DeflateEnd
<1>7. CASE then = "finish"
  <2>1. pc' = "finish" /\ Waiting = << >>
    BY <1>7 DEF DeflateEnd, Waiting
  <2>2. file \o inside \in Seq(Token)
    BY <1>1, ConcatProperties DEF WriterType
  <2>3. file \o inside \o << >> = file \o inside
    BY <2>2, ConcatEmptySeq
  <2>4. file \o inside = Header \o written
    BY <1>5, <2>1, <2>3
  <2>5. WriterType'
    BY <1>1, <1>2, <1>3, <1>6, <2>1 DEF WriterType
  <2> QED
    BY <1>1, <1>6, <2>1, <2>4, <2>5
    DEF WriterInv, KeptBetween, KeptWriting, KeptFinishing, KeptClosed
<1>8. CASE then # "finish"
  <2>1. pc' = "app"
    BY <1>8 DEF DeflateEnd
  <2>2. WriterType'
    BY <1>1, <1>2, <1>3, <1>6, <2>1 DEF WriterType
  <2> QED
    BY <1>1, <1>2, <1>5, <1>6, <2>1, <2>2
    DEF WriterInv, KeptBetween, KeptWriting, KeptFinishing, KeptClosed
<1> QED BY <1>7, <1>8

\* What of the rest and the trailer is written is the file's, the other part
\* is written by the next call.
LEMMA FinishHolds == WriterInv /\ Finish => WriterInv'
<1>1. SUFFICES ASSUME WriterInv, Finish PROVE WriterInv'
  OBVIOUS
<1>2. /\ WriterType /\ pc = "finish" /\ ~mfailed
      /\ file \o inside = Header \o written
  BY <1>1 DEF WriterInv, KeptFinishing, Finish
<1>3. /\ file \in Seq(Token) /\ inside \in Seq(Token) /\ written \in Seq(Token)
      /\ Len(inside) \in Nat
  BY <1>2, LenProperties DEF WriterType
<1>4. PICK rest : rest = Append(inside, End)
  OBVIOUS
<1>5. /\ rest \in Seq(Token) /\ Len(rest) = Len(inside) + 1
      /\ \A j \in 1..Len(inside) : rest[j] = inside[j]
  BY <1>3, <1>4, FrameType, AppendProperties
<1>6. UNCHANGED <<then, put, next, disk, closed, written, opens>>
  BY <1>1 DEF Finish
<1>7. PICK m \in 1..Len(rest) :
        \/ /\ file' = file \o SubSeq(rest, 1, m)
           /\ inside' = SubSeq(inside, m + 1, Len(inside))
           /\ pc' = IF m = Len(rest) THEN "fclose" ELSE "finish"
           /\ UNCHANGED mfailed
        \/ /\ \E j \in 0..(m - 1) : file' = file \o SubSeq(rest, 1, j)
           /\ mfailed' = TRUE
           /\ pc' = "fclose"
           /\ UNCHANGED inside
  BY <1>1, <1>4 DEF Finish
<1>8. \A j \in 0..Len(rest) : file \o SubSeq(rest, 1, j) \in Seq(Token)
  <2> SUFFICES ASSUME NEW j \in 0..Len(rest)
               PROVE  file \o SubSeq(rest, 1, j) \in Seq(Token)
    OBVIOUS
  <2>1. SubSeq(rest, 1, j) \in Seq(Token)
    BY <1>5, TakeAndRest
  <2> QED BY <1>3, <2>1, ConcatProperties
<1>9. CASE /\ \E j \in 0..(m - 1) : file' = file \o SubSeq(rest, 1, j)
           /\ mfailed' = TRUE /\ pc' = "fclose" /\ UNCHANGED inside
  <2>1. PICK j \in 0..(m - 1) : file' = file \o SubSeq(rest, 1, j)
    BY <1>9
  <2>2. j \in 0..Len(rest)
    BY <1>3, <1>5
  <2>3. file' \in Seq(Token)
    BY <1>8, <2>1, <2>2
  <2>4. WriterType'
    BY <1>2, <1>6, <1>9, <2>3 DEF WriterType
  <2> QED
    BY <1>9, <2>4 DEF WriterInv, KeptBetween, KeptWriting, KeptFinishing, KeptClosed
<1>10. CASE /\ file' = file \o SubSeq(rest, 1, m) /\ UNCHANGED mfailed
            /\ inside' = SubSeq(inside, m + 1, Len(inside))
            /\ pc' = IF m = Len(rest) THEN "fclose" ELSE "finish"
  <2>1. file' \in Seq(Token)
    BY <1>3, <1>5, <1>8, <1>10
  <2>2. CASE m = Len(rest)
    <3>1. SubSeq(rest, 1, m) = rest
      BY <1>5, <2>2, SubSeqFull
    <3>2. file \o rest = Append(file \o inside, End)
      BY <1>3, <1>4, FrameType, AppendBehind
    <3>3. file' = Gzip(written')
      BY <1>2, <1>3, <1>6, <1>10, <3>1, <3>2, GzipOfText
    <3>4. inside' = << >>
      BY <1>3, <1>5, <1>10, <2>2, SubSeqEmpty
    <3>5. WriterType'
      BY <1>2, <1>6, <1>10, <2>1, <2>2, <3>4, EmptySeq DEF WriterType
    <3> QED
      BY <1>10, <2>2, <3>3, <3>5
      DEF WriterInv, KeptBetween, KeptWriting, KeptFinishing, KeptClosed
  <2>3. CASE m # Len(rest)
    <3>1. m \in 0..Len(inside)
      BY <1>3, <1>5, <2>3
    <3>2. /\ SubSeq(inside, 1, m) \in Seq(Token) /\ inside' \in Seq(Token)
          /\ SubSeq(inside, 1, m) \o inside' = inside
      BY <1>3, <1>10, <3>1, TakeAndRest
    <3>3. SubSeq(rest, 1, m) = SubSeq(inside, 1, m)
      BY <1>3, <1>5, <3>1, SameHead
    <3>4. /\ file \in Seq(Token) /\ SubSeq(inside, 1, m) \in Seq(Token)
          /\ inside' \in Seq(Token)
      BY <1>3, <3>2
    <3>5. (file \o SubSeq(inside, 1, m)) \o inside'
            = file \o (SubSeq(inside, 1, m) \o inside')
      BY <3>4, Associative, ZenonT(60)
    <3>6. file' \o inside' = Header \o written'
      BY <1>2, <1>6, <1>10, <3>2, <3>3, <3>5
    <3>7. WriterType'
      BY <1>2, <1>6, <1>10, <2>1, <2>3, <3>2 DEF WriterType
    <3> QED
      BY <1>2, <1>10, <2>3, <3>6, <3>7
      DEF WriterInv, KeptBetween, KeptWriting, KeptFinishing, KeptClosed
  <2> QED BY <2>2, <2>3
<1> QED BY <1>7, <1>9, <1>10

LEMMA FcloseHolds == WriterInv /\ Fclose => WriterInv'
<1> SUFFICES ASSUME WriterInv, Fclose PROVE WriterInv'
  OBVIOUS
<1>1. WriterType'
  BY DEF WriterInv, WriterType, Fclose
<1>2. KeptBetween' /\ KeptWriting' /\ KeptFinishing'
  BY DEF Fclose, KeptBetween, KeptWriting, KeptFinishing
<1>3. mfailed \in BOOLEAN /\ (~mfailed => file = Gzip(written))
  BY DEF WriterInv, WriterType, KeptFinishing, Fclose
<1>4. \/ disk' = file /\ closed' = ~mfailed /\ mfailed' = mfailed
      \/ mfailed' = TRUE /\ closed' = FALSE
  BY DEF Fclose
<1>5. written' = written
  BY DEF Fclose
<1>6. Gzip(written') = Gzip(written)
  BY <1>5
<1>7. CASE disk' = file /\ closed' = ~mfailed /\ mfailed' = mfailed
  <2>1. ~mfailed' => disk' = Gzip(written)'
    BY <1>3, <1>6, <1>7
  <2>2. closed' => ~mfailed'
    BY <1>3, <1>7, Zenon
  <2> QED BY <1>1, <1>2, <2>1, <2>2 DEF WriterInv, KeptClosed
<1>8. CASE mfailed' = TRUE /\ closed' = FALSE
  BY <1>1, <1>2, <1>8 DEF WriterInv, KeptClosed
<1> QED BY <1>4, <1>7, <1>8

LEMMA DieHolds == WriterInv /\ Die => WriterInv'
BY DEF WriterInv, WriterType, Die, KeptBetween, KeptWriting, KeptFinishing, KeptClosed

LEMMA StutterHolds == WriterInv /\ UNCHANGED vars => WriterInv'
<1> SUFFICES ASSUME WriterInv, UNCHANGED vars PROVE WriterInv'
  OBVIOUS
<1>1. WriterType'
  BY DEF WriterInv, WriterType, vars
<1>2. KeptBetween' /\ KeptFinishing' /\ KeptClosed'
  BY DEF WriterInv, vars, KeptBetween, KeptFinishing, KeptClosed
<1>3. KeptWriting'
  BY DEF WriterInv, vars, Waiting, KeptWriting
<1> QED BY <1>1, <1>2, <1>3 DEF WriterInv

-----------------------------------------------------------------------------
(* What the writer tells *)

\* Every step of the stream keeps the row of the file, the deflate and the put
\* area whole, or knows that it does not.
LEMMA NextHolds == WriterInv /\ [Next]_vars => WriterInv'
<1> SUFFICES ASSUME WriterInv, [Next]_vars PROVE WriterInv'
  OBVIOUS
<1>1. CASE Open        BY <1>1, OpenHolds
<1>2. CASE CloseClosed BY <1>2, CloseClosedHolds
<1>3. CASE PutChar     BY <1>3, PutCharHolds
<1>4. CASE Sync        BY <1>4, SyncHolds
<1>5. CASE Close       BY <1>5, CloseHolds
<1>6. CASE DeflateCall BY <1>6, DeflateCallHolds
<1>7. CASE DeflateEnd  BY <1>7, DeflateEndHolds
<1>8. CASE Finish      BY <1>8, FinishHolds
<1>9. CASE Fclose      BY <1>9, FcloseHolds
<1>10. CASE Die        BY <1>10, DieHolds
<1>11. CASE UNCHANGED vars BY <1>11, StutterHolds
<1> QED
  BY <1>1, <1>2, <1>3, <1>4, <1>5, <1>6, <1>7, <1>8, <1>9, <1>10, <1>11
  DEF Next, Inner

LEMMA StreamsHold ==
  /\ StreamsInit => WriterInv
  /\ WriterInv /\ [StreamsNext]_allVars => WriterInv'
<1>1. StreamsInit => WriterInv
  <2> SUFFICES ASSUME StreamsInit PROVE WriterInv
    OBVIOUS
  <2>1. << >> \in Seq(Token)
    BY EmptySeq
  <2>2. WriterType
    BY <2>1 DEF StreamsInit, WriterType
  <2>3. pc = "closed" /\ opens = 0 /\ closed = FALSE
    BY DEF StreamsInit
  <2> QED BY <2>2, <2>3 DEF WriterInv, KeptBetween, KeptWriting, KeptFinishing,
                            KeptClosed
<1>2. WriterInv /\ [StreamsNext]_allVars => WriterInv'
  BY NextHolds, StutterHolds DEF StreamsNext, Writing, Reading, allVars
<1> QED BY <1>1, <1>2

\* The row of the file, the deflate and the put area is whole at every step of
\* a stream, used alone or beside the reading of what it writes.
THEOREM WriterInvariant ==
  /\ Spec => []WriterInv
  /\ StreamsSpec => []WriterInv
<1>1. Spec => []WriterInv
  BY InitHolds, NextHolds, PTL DEF Spec
<1>2. StreamsSpec => []WriterInv
  BY StreamsHold, PTL DEF StreamsSpec
<1> QED BY <1>1, <1>2

\* A close that succeeds has written the whole file, for texts and put areas of
\* any size, however the deflate holds its output back, whichever call failed
\* before and however often the stream was opened.
THEOREM CloseIsTrue == StreamsSpec => []CloseTellsTheTruth
<1>1. WriterInv => CloseTellsTheTruth
  BY DEF WriterInv, KeptClosed, CloseTellsTheTruth
<1> QED BY <1>1, WriterInvariant, PTL

\* Until the first error no character is lost or doubled on its way.
THEOREM NothingIsLost == StreamsSpec => []NothingLost
<1>1. WriterInv => NothingLost
  BY DEF WriterInv, KeptBetween, NothingLost
<1> QED BY <1>1, WriterInvariant, PTL

-----------------------------------------------------------------------------
(* Induction, and what FlattenSeq gives *)

\* A set of natural numbers has a least member: the induction of the lemmas below.
LEMMA LeastMember ==
  ASSUME NEW T, T \subseteq Nat, T # {}
  PROVE  \E x \in T : \A y \in T : x <= y
<1> DEFINE Below == {p \in Nat \X Nat : p[1] < p[2]}
<1>1. OpToRel(<, Nat) = Below
  BY Zenon DEF OpToRel
<1>2. IsWellFoundedOn(Below, Nat)
  BY <1>1, NatLessThanWellFounded, Zenon
<1> HIDE DEF Below
<1>3. \E x \in T : \A y \in T : <<y, x>> \notin Below
  BY <1>2, WFMin
<1>4. ASSUME NEW x \in Nat, NEW y \in Nat, <<y, x>> \notin Below PROVE x <= y
  <2>1. <<y, x>> \in Nat \X Nat /\ <<y, x>>[1] = y /\ <<y, x>>[2] = x
    OBVIOUS
  <2>2. ~(y < x)
    BY <1>4, <2>1 DEF Below
  <2> QED BY <2>2
<1> QED BY <1>3, <1>4

\* The sequences that the recursion of FlattenSeq makes of the first n.
Flattens(seqs, n, c) ==
  c = [i \in 1..n |-> IF i = 1 THEN seqs[i] ELSE c[i - 1] \o seqs[i]]

LEMMA FlattenExists ==
  ASSUME NEW seqs, NEW n \in Nat
  PROVE  \E c : Flattens(seqs, n, c)
<1> DEFINE Missing == {m \in Nat : ~ \E c : Flattens(seqs, m, c)}
<1> SUFFICES ASSUME Missing # {} PROVE FALSE
  OBVIOUS
<1>1. PICK m \in Missing : \A k \in Missing : m <= k
  BY LeastMember
<1>2. m \in Nat /\ ~ \E c : Flattens(seqs, m, c)
  BY <1>1
<1>3. m # 0
  <2> DEFINE c == [i \in 1..0 |-> 0]
  <2>1. c = [i \in 1..0 |-> IF i = 1 THEN seqs[i] ELSE c[i - 1] \o seqs[i]]
    OBVIOUS
  <2> HIDE DEF c
  <2> QED BY <1>2, <2>1 DEF Flattens
<1>4. m - 1 \in Nat \ Missing
  BY <1>1, <1>2, <1>3
<1>5. PICK c : Flattens(seqs, m - 1, c)
  BY <1>4
<1> DEFINE d == [i \in 1..m |-> IF i = m THEN (IF i = 1 THEN seqs[i] ELSE c[i - 1] \o seqs[i])
                                         ELSE c[i]]
<1>6. ASSUME NEW i \in 1..m PROVE d[i] = IF i = 1 THEN seqs[i] ELSE d[i - 1] \o seqs[i]
  <2>1. i # m => i \in 1..(m - 1)
    BY <1>2
  <2>2. i # m => c[i] = IF i = 1 THEN seqs[i] ELSE c[i - 1] \o seqs[i]
    BY <1>5, <2>1 DEF Flattens
  <2>3. i # 1 => i - 1 \in 1..m /\ i - 1 # m
    BY <1>2
  <2>4. i # 1 => d[i - 1] = c[i - 1]
    BY <2>3
  <2> QED BY <2>2, <2>4
<1>7. d = [i \in 1..m |-> d[i]]
  OBVIOUS
<1> HIDE DEF d
<1>8. Flattens(seqs, m, d)
  BY <1>6, <1>7, Zenon DEF Flattens
<1> QED BY <1>2, <1>8

\* FlattenSeq is the last of them.
LEMMA FlattenSeqIs ==
  ASSUME NEW seqs, Len(seqs) \in Nat, Len(seqs) # 0
  PROVE  \E c : Flattens(seqs, Len(seqs), c) /\ FlattenSeq(seqs) = c[Len(seqs)]
BY FlattenExists, Zenon DEF FlattenSeq, Flattens

-----------------------------------------------------------------------------
(* The characters of a file *)

Yields(t) == IF t \in Data THEN Expand[t] ELSE << >>

Yield(f) == [i \in DOMAIN f |-> Yields(f[i])]

\* The characters of the first k tokens.
Upto(f, k) == IF k = 0 THEN << >>
              ELSE (CHOOSE c : Flattens(Yield(f), Len(f), c))[k]

LEMMA TokensAssociative ==
  \A a, b, c \in Seq(R!Tokens) : (a \o b) \o c = a \o (b \o c)
BY ConcatAssociative

LEMMA YieldsType ==
  \A t : Yields(t) \in Seq(R!Tokens)
<1> SUFFICES ASSUME NEW t, t \in Data PROVE Expand[t] \in Seq(R!Tokens)
  BY EmptySeq DEF Yields
<1>1. Expand[t] \in Seq(Data) /\ Data \subseteq R!Tokens
  BY CharsAssumption DEF R!ReaderConstants, R!Tokens
<1> QED BY <1>1, SeqMonotonic

LEMMA UptoNext ==
  ASSUME NEW f \in Seq(R!Tokens), NEW k \in 1..Len(f)
  PROVE  Upto(f, k) = IF k = 1 THEN Yields(f[1]) ELSE Upto(f, k - 1) \o Yields(f[k])
<1> DEFINE c == CHOOSE d : Flattens(Yield(f), Len(f), d)
<1>1. Len(f) \in Nat /\ DOMAIN f = 1..Len(f)
  BY LenProperties
<1>2. Flattens(Yield(f), Len(f), c)
  BY <1>1, FlattenExists, Zenon
<1> HIDE DEF c
<1>3. c[k] = IF k = 1 THEN Yield(f)[k] ELSE c[k - 1] \o Yield(f)[k]
  BY <1>2 DEF Flattens
<1>4. Yield(f)[k] = Yields(f[k])
  BY <1>1 DEF Yield
<1>5. k # 0 /\ (k # 1 => k - 1 # 0)
  BY <1>1
<1>6. Upto(f, k) = c[k] /\ (k # 1 => Upto(f, k - 1) = c[k - 1])
  BY <1>5, Zenon DEF Upto, c
<1>7. k = 1 => Yield(f)[k] = Yields(f[1])
  BY <1>4
<1> QED BY <1>3, <1>4, <1>6, <1>7

LEMMA UptoType ==
  ASSUME NEW f \in Seq(R!Tokens), NEW k \in 0..Len(f)
  PROVE  Upto(f, k) \in Seq(R!Tokens)
<1>1. Len(f) \in Nat
  BY LenProperties
<1> DEFINE Bad == {m \in 0..Len(f) : Upto(f, m) \notin Seq(R!Tokens)}
<1> SUFFICES ASSUME Bad # {} PROVE FALSE
  OBVIOUS
<1>a. Bad \subseteq Nat
  BY <1>1
<1>2. PICK m \in Bad : \A i \in Bad : m <= i
  <2> HIDE DEF Bad
  <2> QED BY <1>a, LeastMember
<1>3. m \in 0..Len(f) /\ Upto(f, m) \notin Seq(R!Tokens)
  BY <1>2
<1>4. m # 0
  BY <1>3, EmptySeq DEF Upto
<1>5. m \in 1..Len(f) /\ m - 1 \in 0..Len(f) /\ m - 1 < m
  BY <1>1, <1>3, <1>4
<1>6. Upto(f, m - 1) \in Seq(R!Tokens)
  BY <1>1, <1>2, <1>5
<1>7. Yields(f[1]) \in Seq(R!Tokens) /\ Yields(f[m]) \in Seq(R!Tokens)
  BY YieldsType
<1>8. Upto(f, m - 1) \o Yields(f[m]) \in Seq(R!Tokens)
  BY <1>6, <1>7, ConcatProperties
<1> HIDE DEF Bad
<1> QED BY <1>3, <1>5, <1>7, <1>8, UptoNext

\* A token adds its characters.
LEMMA UptoToken ==
  ASSUME NEW f \in Seq(R!Tokens), NEW k \in 1..Len(f)
  PROVE  Upto(f, k) = Upto(f, k - 1) \o Yields(f[k])
<1>1. Yields(f[1]) \in Seq(R!Tokens)
  BY YieldsType
<1>2. CASE k = 1
  <2>1. Upto(f, k - 1) = << >>
    BY <1>2 DEF Upto
  <2>2. << >> \o Yields(f[1]) = Yields(f[1])
    BY <1>1, ConcatEmptySeq
  <2> QED BY <1>2, <2>1, <2>2, UptoNext
<1> QED BY <1>2, UptoNext

LEMMA UptoEnd ==
  ASSUME NEW f \in Seq(R!Tokens)
  PROVE  Upto(f, Len(f)) = R!Content(f)
<1>1. Len(f) \in Nat /\ DOMAIN f = 1..Len(f)
  BY LenProperties
<1>2. Yield(f) \in [1..Len(f) -> Seq(R!Tokens)]
  BY <1>1, YieldsType DEF Yield
<1>3. Yield(f) \in Seq(Seq(R!Tokens)) /\ Len(Yield(f)) = Len(f)
  BY <1>1, <1>2
<1>4. R!Content(f) = R!FlattenSeq(Yield(f))
  BY DEF R!Content, Yield, Yields
<1>5. CASE Len(f) = 0
  BY <1>1, <1>2, <1>3, <1>4, <1>5, EmptySeq DEF R!FlattenSeq, Upto
<1>6. CASE Len(f) # 0
  <2>1. R!FlattenSeq(Yield(f))
          = (CHOOSE c : Flattens(Yield(f), Len(Yield(f)), c))[Len(Yield(f))]
    BY <1>3, <1>6, Zenon DEF R!FlattenSeq, Flattens
  <2> QED BY <1>3, <1>4, <1>6, <2>1 DEF Upto
<1> QED BY <1>5, <1>6

\* What the first tokens stand for begins what all stand for.
LEMMA UptoBegins ==
  ASSUME NEW f \in Seq(R!Tokens), NEW k \in 0..Len(f)
  PROVE  \E rest \in Seq(R!Tokens) : R!Content(f) = Upto(f, k) \o rest
<1>1. Len(f) \in Nat
  BY LenProperties
<1> DEFINE Begins(m) == \E rest \in Seq(R!Tokens) : R!Content(f) = Upto(f, Len(f) - m) \o rest
           Bad == {m \in 0..Len(f) : ~Begins(m)}
<1>2. Bad = {}
  <2> SUFFICES ASSUME Bad # {} PROVE FALSE
    OBVIOUS
  <2>a. Bad \subseteq Nat
    BY <1>1
  <2>1. PICK m \in Bad : \A i \in Bad : m <= i
    <3> HIDE DEF Bad
    <3> QED BY <2>a, LeastMember
  <2>2. m \in 0..Len(f) /\ ~Begins(m)
    BY <2>1
  <2>3. m # 0
    <3>1. Upto(f, Len(f) - 0) = R!Content(f) /\ R!Content(f) \in Seq(R!Tokens)
      BY <1>1, UptoEnd, UptoType
    <3>2. R!Content(f) = R!Content(f) \o << >> /\ << >> \in Seq(R!Tokens)
      BY <3>1, ConcatEmptySeq, EmptySeq
    <3> QED BY <2>2, <3>1, <3>2
  <2>4. m - 1 \in 0..Len(f) /\ m - 1 < m /\ Len(f) - (m - 1) \in 1..Len(f)
    BY <1>1, <2>2, <2>3
  <2>5. Begins(m - 1)
    <3>1. m - 1 \notin Bad
      <4> HIDE DEF Bad
      <4> QED BY <2>1, <2>2, <2>4
    <3> HIDE DEF Begins
    <3> QED BY <2>4, <3>1
  <2>6. PICK j \in 1..Len(f), rest \in Seq(R!Tokens) :
          j - 1 = Len(f) - m /\ R!Content(f) = Upto(f, j) \o rest
    <3>1. (Len(f) - (m - 1)) - 1 = Len(f) - m
      BY <1>1, <2>2
    <3> QED BY <2>4, <2>5, <3>1
  <2>7. /\ Upto(f, j) = Upto(f, j - 1) \o Yields(f[j])
        /\ Upto(f, j - 1) \in Seq(R!Tokens) /\ Yields(f[j]) \in Seq(R!Tokens)
    BY <1>1, UptoToken, UptoType, YieldsType
  <2>8. (Upto(f, j - 1) \o Yields(f[j])) \o rest = Upto(f, j - 1) \o (Yields(f[j]) \o rest)
    BY <2>6, <2>7, TokensAssociative, Zenon
  <2>9. Yields(f[j]) \o rest \in Seq(R!Tokens)
    BY <2>7, ConcatProperties
  <2> QED BY <2>2, <2>6, <2>7, <2>8, <2>9
<1>3. Len(f) - k \in 0..Len(f) /\ Len(f) - (Len(f) - k) = k
  BY <1>1
<1>4. Begins(Len(f) - k)
  BY <1>2, <1>3
<1> QED BY <1>3, <1>4

LEMMA BeginningIsPrefix ==
  ASSUME NEW S, NEW s \in Seq(S), NEW rest \in Seq(S)
  PROVE  R!IsPrefix(s, s \o rest)
<1>1. /\ Len(s) \in Nat /\ Len(rest) \in Nat
      /\ Len(s \o rest) = Len(s) + Len(rest) /\ s \o rest \in Seq(S)
  BY LenProperties, ConcatProperties
<1>2. CASE Len(s) = 0
  BY <1>1, <1>2, SubSeqEmpty DEF R!IsPrefix
<1>3. CASE Len(s) # 0
  <2>1. SubSeq(s \o rest, 1, Len(s)) = SubSeq(s, 1, Len(s))
    BY <1>1, <1>3, SubSeqOfConcat1
  <2> QED BY <1>1, <2>1 DEF R!IsPrefix
<1> QED BY <1>2, <1>3

-----------------------------------------------------------------------------
(* The members of a file *)

\* What the token at a place of a gzip file has to be.
Fits(f, i) ==
  /\ i \in R!Starts(f) => f[i] = "1"
  /\ i - 1 \in R!Starts(f) => f[i] = "2"
  /\ i \notin R!Starts(f) /\ i - 1 \notin R!Starts(f) => f[i] \in Data \cup {"T"}

Parsed(f, k) == \A i \in 1..k : Fits(f, i)

\* The inflate that has taken k tokens of the file expects z.
Expects(f, k, z) ==
  /\ z = "id1" => k = 0 \/ (k > 0 /\ f[k] = "T")
  /\ z = "id2" => k > 0 /\ k \in R!Starts(f)
  /\ z = "body" => k > 0 /\ k \notin R!Starts(f) /\ f[k] # "T"
  /\ z = "end" => k > 0 /\ f[k] = "T"
  /\ z # "bad" => Parsed(f, k)
  /\ z = "bad" => ~R!IsGzip(f)

LEMMA StartsAre ==
  ASSUME NEW f \in Seq(R!Tokens), NEW i \in 0..Len(f), Len(f) # 0
  PROVE  i \in R!Starts(f) <=> i = 1 \/ (i > 1 /\ f[i - 1] = "T")
<1>1. Len(f) \in Nat /\ DOMAIN f = 1..Len(f)
  BY LenProperties
<1>2. ASSUME i > 1, f[i - 1] = "T" PROVE i \in R!Starts(f)
  <2>1. i - 1 \in R!Trailers(f) \ {Len(f)} /\ i = (i - 1) + 1
    BY <1>1, <1>2 DEF R!Trailers
  <2> QED BY <2>1 DEF R!Starts
<1>3. ASSUME i \in R!Starts(f), i # 1 PROVE i > 1 /\ f[i - 1] = "T"
  <2>1. PICK j \in R!Trailers(f) : i = j + 1
    BY <1>3 DEF R!Starts
  <2>2. j \in 1..Len(f) /\ f[j] = "T" /\ j = i - 1
    BY <1>1, <2>1 DEF R!Trailers
  <2> QED BY <1>1, <2>2
<1>4. 1 \in R!Starts(f)
  BY DEF R!Starts
<1> QED BY <1>2, <1>3, <1>4

\* The marks of a member are no compressed data.
LEMMA MarksAre ==
  /\ "1" \notin Data /\ "2" \notin Data /\ "T" \notin Data /\ "x" \notin Data
  /\ Yields("1") = << >> /\ Yields("2") = << >> /\ Yields("T") = << >>
  /\ Chunk \in Nat /\ Chunk >= 2
BY CharsAssumption DEF R!ReaderConstants, Yields

\* A file whose first tokens parse and whose next does not is no gzip file.
LEMMA MisfitIsNoGzip ==
  ASSUME NEW f \in Seq(R!Tokens), NEW k \in 0..(Len(f) - 1), Parsed(f, k),
         ~Fits(f, k + 1)
  PROVE  ~R!IsGzip(f)
<1> SUFFICES ASSUME R!IsGzip(f) PROVE FALSE
  OBVIOUS
<1>1. Len(f) \in Nat /\ DOMAIN f = 1..Len(f) /\ k + 1 \in 1..Len(f) /\ k + 1 - 1 = k
  BY LenProperties
<1>2. (CASE k + 1 \in R!Starts(f) -> f[k + 1] = "1"
         [] k \in R!Starts(f)     -> f[k + 1] = "2"
         [] OTHER                 -> f[k + 1] \in Data \cup {"T"})
  BY <1>1 DEF R!IsGzip
<1>3. ~(k + 1 \in R!Starts(f) /\ k \in R!Starts(f))
  <2> SUFFICES ASSUME k + 1 \in R!Starts(f), k \in R!Starts(f) PROVE FALSE
    OBVIOUS
  <2>1. k \in 0..Len(f) /\ Len(f) # 0 /\ k + 1 \in 0..Len(f)
    BY <1>1
  <2>2. k > 0
    BY <2>1, StartsAre
  <2>3. f[k] = "T" /\ k \in 1..k
    BY <1>1, <2>1, <2>2, StartsAre
  <2> QED BY <2>3 DEF Parsed, Fits
<1>4. CASE k + 1 \in R!Starts(f)
  BY <1>1, <1>2, <1>3, <1>4 DEF Fits
<1>5. CASE k \in R!Starts(f)
  BY <1>1, <1>2, <1>3, <1>5 DEF Fits
<1>6. CASE k + 1 \notin R!Starts(f) /\ k \notin R!Starts(f)
  BY <1>1, <1>2, <1>6 DEF Fits
<1> QED BY <1>4, <1>5, <1>6

\* What the inflate expects after one more token.
LEMMA TokenTaken ==
  ASSUME NEW f \in Seq(R!Tokens), NEW k \in 0..(Len(f) - 1),
         NEW z \in {"id1", "id2", "body"}, Expects(f, k, z)
  PROVE  /\ Expects(f, k + 1, R!After(z, f[k + 1]))
         /\ R!After(z, f[k + 1]) # "bad" =>
              Yields(f[k + 1]) = IF z = "body" /\ f[k + 1] \in Data
                                 THEN Expand[f[k + 1]] ELSE << >>
<1>1. /\ Len(f) \in Nat /\ Len(f) # 0 /\ k \in 0..Len(f) /\ k + 1 \in 0..Len(f)
      /\ k + 1 > 0 /\ k + 1 - 1 = k
  BY LenProperties
<1>2. Parsed(f, k)
  BY DEF Expects
<1>3. Fits(f, k + 1) => Parsed(f, k + 1)
  <2> SUFFICES ASSUME Fits(f, k + 1), NEW i \in 1..(k + 1) PROVE Fits(f, i)
    BY DEF Parsed
  <2>1. i = k + 1 \/ i \in 1..k
    BY <1>1
  <2> QED BY <1>2, <2>1 DEF Parsed
<1>4. ~Fits(f, k + 1) => ~R!IsGzip(f)
  BY <1>2, MisfitIsNoGzip
<1>5. CASE z = "id1"
  <2>1. k + 1 \in R!Starts(f)
    BY <1>1, <1>5, StartsAre DEF Expects
  <2>2. k \notin R!Starts(f)
    <3> SUFFICES ASSUME k \in R!Starts(f) PROVE FALSE
      OBVIOUS
    <3>1. k > 0
      BY <1>1, StartsAre
    <3>2. f[k] = "T" /\ k \in 1..k
      BY <1>1, <1>5, <3>1 DEF Expects
    <3> QED BY <1>2, <3>2 DEF Parsed, Fits
  <2>3. CASE f[k + 1] = "1"
    <3>1. R!After(z, f[k + 1]) = "id2"
      BY <1>5, <2>3 DEF R!After
    <3>2. Fits(f, k + 1)
      BY <1>1, <2>1, <2>2, <2>3 DEF Fits
    <3> QED BY <1>1, <1>3, <1>5, <2>1, <2>3, <3>1, <3>2, MarksAre DEF Expects
  <2>4. CASE f[k + 1] # "1"
    <3>1. R!After(z, f[k + 1]) = "bad"
      BY <1>5, <2>4 DEF R!After
    <3>2. ~Fits(f, k + 1)
      BY <2>1, <2>4 DEF Fits
    <3> QED BY <1>4, <3>1, <3>2 DEF Expects
  <2> QED BY <2>3, <2>4
<1>6. CASE z = "id2"
  <2>1. k \in R!Starts(f) /\ k \in 1..k
    BY <1>1, <1>6 DEF Expects
  <2>2. f[k] = "1"
    BY <1>2, <2>1 DEF Parsed, Fits
  <2>3. k + 1 \notin R!Starts(f)
    BY <1>1, <2>1, <2>2, StartsAre
  <2>4. CASE f[k + 1] = "2"
    <3>1. R!After(z, f[k + 1]) = "body"
      BY <1>6, <2>4 DEF R!After
    <3>2. Fits(f, k + 1)
      BY <1>1, <2>1, <2>3, <2>4 DEF Fits
    <3> QED BY <1>1, <1>3, <1>6, <2>3, <2>4, <3>1, <3>2, MarksAre DEF Expects
  <2>5. CASE f[k + 1] # "2"
    <3>1. R!After(z, f[k + 1]) = "bad"
      BY <1>6, <2>5 DEF R!After
    <3>2. ~Fits(f, k + 1)
      BY <1>1, <2>1, <2>5 DEF Fits
    <3> QED BY <1>4, <3>1, <3>2 DEF Expects
  <2> QED BY <2>4, <2>5
<1>7. CASE z = "body"
  <2>1. k > 0 /\ k \notin R!Starts(f) /\ f[k] # "T"
    BY <1>7 DEF Expects
  <2>2. k + 1 \notin R!Starts(f)
    BY <1>1, <2>1, StartsAre
  <2>3. Fits(f, k + 1) <=> f[k + 1] \in Data \cup {"T"}
    BY <1>1, <2>1, <2>2 DEF Fits
  <2>4. CASE f[k + 1] = "T"
    <3>1. R!After(z, f[k + 1]) = "end"
      BY <1>7, <2>4, MarksAre DEF R!After
    <3> QED BY <1>1, <1>3, <2>3, <2>4, <3>1, MarksAre DEF Expects
  <2>5. CASE f[k + 1] \in Data
    <3>1. R!After(z, f[k + 1]) = "body" /\ f[k + 1] # "T"
      BY <1>7, <2>5, MarksAre DEF R!After
    <3> QED BY <1>1, <1>3, <1>7, <2>2, <2>3, <2>5, <3>1 DEF Expects, Yields
  <2>6. CASE f[k + 1] \notin Data \cup {"T"}
    <3>1. R!After(z, f[k + 1]) = "bad"
      BY <1>7, <2>6 DEF R!After
    <3> QED BY <1>4, <2>3, <2>6, <3>1 DEF Expects
  <2> QED BY <2>4, <2>5, <2>6
<1> QED BY <1>5, <1>6, <1>7

\* A file that ends with a member it expects the end of is a gzip file ...
LEMMA EndIsGzip ==
  ASSUME NEW f \in Seq(R!Tokens), Expects(f, Len(f), "end")
  PROVE  R!IsGzip(f)
<1>1. Len(f) \in Nat /\ DOMAIN f = 1..Len(f)
  BY LenProperties
<1>2. Len(f) > 0 /\ f[Len(f)] = "T" /\ Parsed(f, Len(f))
  BY DEF Expects
<1>3. Len(f) \in R!Trailers(f)
  BY <1>1, <1>2 DEF R!Trailers
<1>4. ASSUME NEW i \in DOMAIN f
      PROVE  CASE i \in R!Starts(f)     -> f[i] = "1"
               [] i - 1 \in R!Starts(f) -> f[i] = "2"
               [] OTHER                 -> f[i] \in Data \cup {"T"}
  <2>1. Fits(f, i)
    BY <1>1, <1>2, <1>4 DEF Parsed
  <2>2. ~(i \in R!Starts(f) /\ i - 1 \in R!Starts(f))
    BY <2>1 DEF Fits
  <2>3. CASE i \in R!Starts(f)
    BY <2>1, <2>2, <2>3 DEF Fits
  <2>4. CASE i - 1 \in R!Starts(f)
    BY <2>1, <2>2, <2>4 DEF Fits
  <2>5. CASE i \notin R!Starts(f) /\ i - 1 \notin R!Starts(f)
    BY <2>1, <2>5 DEF Fits
  <2> QED BY <2>3, <2>4, <2>5
<1> QED BY <1>3, <1>4 DEF R!IsGzip

\* ... and one that ends inside of a member is none.
LEMMA CutIsNoGzip ==
  ASSUME NEW f \in Seq(R!Tokens), NEW z \in {"id2", "body"}, Expects(f, Len(f), z)
  PROVE  ~R!IsGzip(f)
<1>1. Len(f) \in Nat /\ DOMAIN f = 1..Len(f)
  BY LenProperties
<1>2. f[Len(f)] # "T"
  <2>1. CASE z = "body"
    BY <2>1 DEF Expects
  <2>2. CASE z = "id2"
    <3>1. Len(f) \in 1..Len(f) /\ Len(f) \in R!Starts(f) /\ Parsed(f, Len(f))
      BY <1>1, <2>2 DEF Expects
    <3> QED BY <3>1 DEF Parsed, Fits
  <2> QED BY <2>1, <2>2
<1> QED BY <1>1, <1>2 DEF R!IsGzip, R!Trailers

-----------------------------------------------------------------------------
(* The invariant of the reader *)

\* How many tokens the inflate has taken, and what it has given of them that the
\* application has not got yet.
Taken == pos - Len(avail)
Hand  == IF rpc = "app" THEN << >> ELSE mbuffer

ReaderType ==
  /\ disk \in Seq(R!Tokens) /\ avail \in Seq(R!Tokens) /\ out \in Seq(R!Tokens)
  /\ pending \in Seq(R!Tokens) /\ mbuffer \in Seq(R!Tokens)
  /\ rpc \in {"closed", "app", "direct", "refill", "member", "inflate", "after"}
  /\ zs \in {"id1", "id2", "body", "end", "bad"}
  /\ ret \in {"ok", "stream_end", "error"}
  /\ direct \in BOOLEAN /\ input_eof \in BOOLEAN /\ member_end \in BOOLEAN
  /\ rfailed \in BOOLEAN /\ ended \in BOOLEAN /\ faulted \in BOOLEAN

\* The chunk in hand is where fread has got to.
ChunkOK ==
  /\ pos \in 0..Len(disk) /\ Len(avail) \in 0..pos
  /\ \A j \in 1..Len(avail) : avail[j] = disk[Taken + j]
  /\ input_eof => pos = Len(disk)

ShutOK ==
  rpc = "closed" =>
    /\ pos = 0 /\ avail = << >> /\ out = << >> /\ pending = << >> /\ mbuffer = << >>
    /\ zs = "id1" /\ ~input_eof /\ ~member_end /\ ~ended
    /\ rfailed => faulted

IsMember(f) == Len(f) >= 2 /\ f[1] = "1" /\ f[2] = "2"

SniffOK == rpc # "closed" => (direct <=> ~IsMember(disk))

\* A file that is no gzip one is read as it is.
RawOK ==
  rpc # "closed" /\ direct =>
    /\ rpc \in {"app", "direct"}
    /\ out \o avail = SubSeq(disk, 1, pos)
    /\ ended => out = disk
    /\ rfailed => faulted

\* Where the calls of read_buffer are: what the inflate has told of a member, and
\* what is in the output buffer.
ControlOK ==
  /\ rpc # "direct"
  /\ rfailed => rpc = "app"
  /\ zs = "bad" => rfailed \/ rpc \in {"inflate", "after"}
  /\ zs \in {"id1", "id2", "end"} => pending = << >>
  /\ rpc \in {"inflate", "after"} => ~member_end
  /\ member_end => zs = "end"
  /\ rpc = "after" => (ret = "stream_end" <=> zs = "end") /\ (ret = "error" <=> zs = "bad")
  /\ rpc \in {"refill", "member"} => mbuffer = << >>
  /\ zs = "id1" => avail # << >> /\ mbuffer = << >> /\ rpc # "after"

\* What the application is told.
ToldOK ==
  /\ ended => rpc = "app" /\ R!IsGzip(disk) /\ out = R!Content(disk)
  /\ rfailed /\ ~faulted => ~R!IsGzip(disk)

\* What was given is what the tokens taken stand for, and begins what all do.
GivenOK ==
  /\ zs # "bad" /\ ~rfailed => out \o (Hand \o pending) = Upto(disk, Taken)
  /\ \E rest \in Seq(R!Tokens) : R!Content(disk) = out \o rest

MembersOK ==
  rpc # "closed" /\ ~direct =>
    Expects(disk, Taken, zs) /\ ControlOK /\ ToldOK /\ GivenOK

ReaderInv == ReaderType /\ ChunkOK /\ ShutOK /\ SniffOK /\ RawOK /\ MembersOK

\* What the invariant has of a member that is being read.
LEMMA MemberFacts ==
  ASSUME ReaderInv, rpc # "closed", ~direct
  PROVE  /\ Expects(disk, Taken, zs) /\ ControlOK /\ ToldOK /\ GivenOK
         /\ Taken \in 0..Len(disk)
<1>1. pos \in 0..Len(disk) /\ Len(avail) \in 0..pos /\ Len(disk) \in Nat
  BY LenProperties DEF ReaderInv, ChunkOK, ReaderType
<1> QED BY <1>1 DEF ReaderInv, MembersOK, Taken

\* What fread gives is what comes next in the file.
LEMMA FreadGives ==
  ASSUME ReaderInv, R!Fread, UNCHANGED disk
  PROVE  /\ R!Got \in Seq(R!Tokens) /\ Len(R!Got) = pos' - pos
         /\ pos' \in pos..Len(disk)
         /\ \A j \in 1..Len(R!Got) : R!Got[j] = disk[pos + j]
         /\ input_eof' \in BOOLEAN /\ (input_eof' => pos' = Len(disk))
         /\ SubSeq(disk, 1, pos) \o R!Got = SubSeq(disk, 1, pos')
         /\ R!Got = << >> => pos' = Len(disk)
<1>1. /\ disk \in Seq(R!Tokens) /\ Len(disk) \in Nat /\ pos \in 0..Len(disk)
      /\ Chunk \in Nat /\ Chunk >= 2 /\ input_eof \in BOOLEAN
      /\ input_eof => pos = Len(disk)
  BY LenProperties, MarksAre DEF ReaderInv, ReaderType, ChunkOK
<1> DEFINE to == R!AtMost(pos + Chunk, Len(disk))
<1>2. to \in pos..Len(disk) /\ (to - pos < Chunk => to = Len(disk))
  BY <1>1 DEF R!AtMost
<1> HIDE DEF to
<1>3. R!Got = SubSeq(disk, pos + 1, to)
  BY DEF R!Got, to
<1>4. \A i \in (pos + 1)..to : disk[i] \in R!Tokens
  BY <1>1, <1>2, ElementOfSeq
<1>5. /\ R!Got \in Seq(R!Tokens) /\ Len(R!Got) = to - pos
      /\ \A j \in 1..Len(R!Got) : R!Got[j] = disk[pos + j]
  <2>1. /\ SubSeq(disk, pos + 1, to) \in Seq(R!Tokens)
        /\ Len(SubSeq(disk, pos + 1, to)) = IF pos + 1 <= to THEN to - (pos + 1) + 1 ELSE 0
        /\ \A i \in 1..(to - (pos + 1) + 1) :
             SubSeq(disk, pos + 1, to)[i] = disk[(pos + 1) + i - 1]
    BY <1>1, <1>2, <1>4, SubSeqProperties
  <2> QED BY <1>1, <1>2, <1>3, <2>1
<1>a. pos' = pos + Len(R!Got) /\ input_eof' = (input_eof \/ Len(R!Got) < Chunk)
  BY DEF R!Fread, R!IsShort
<1>6. pos' = to /\ pos' \in pos..Len(disk) /\ Len(R!Got) = pos' - pos
  BY <1>1, <1>2, <1>5, <1>a
<1>7. input_eof' \in BOOLEAN /\ (input_eof' => pos' = Len(disk))
  <2>1. input_eof' \in BOOLEAN
    BY <1>a
  <2>2. ASSUME input_eof PROVE pos' = Len(disk)
    BY <1>1, <1>6, <2>2
  <2>3. ASSUME Len(R!Got) < Chunk PROVE pos' = Len(disk)
    BY <1>2, <1>5, <1>6, <2>3
  <2> QED BY <1>a, <2>1, <2>2, <2>3
<1>8. SubSeq(disk, 1, pos) \o SubSeq(disk, pos + 1, to) = SubSeq(disk, 1, to)
  <2>1. 1 \in 1..(Len(disk) + 1) /\ pos \in (1 - 1)..Len(disk) /\ to \in pos..Len(disk)
    BY <1>1, <1>2
  <2> QED BY <1>1, <2>1, ConcatAdjacentSubSeq
<1>9. R!Got = << >> => to = Len(disk)
  BY <1>1, <1>2, <1>5, EmptySeq
<1> QED BY <1>3, <1>5, <1>6, <1>7, <1>8, <1>9

LEMMA UnderflowHolds ==
  ASSUME ReaderInv, R!Underflow, UNCHANGED disk
  PROVE  ReaderInv'
<1>1. /\ rpc = "app" /\ ~rfailed /\ ~ended
      /\ rpc' = IF direct THEN "direct" ELSE "refill"
      /\ mbuffer' = << >>
      /\ UNCHANGED <<disk, pos, avail, direct, input_eof, member_end, zs, pending,
                     ret, out, rfailed, ended, faulted>>
  BY DEF R!Underflow
<1>2. ReaderType'
  BY <1>1, EmptySeq DEF ReaderInv, ReaderType
<1>3. ChunkOK' /\ ShutOK' /\ SniffOK' /\ RawOK'
  BY <1>1 DEF ReaderInv, ChunkOK, Taken, ShutOK, SniffOK, RawOK
<1>4. CASE ~direct
  <2>1. Expects(disk, Taken, zs) /\ ControlOK /\ ToldOK /\ GivenOK
    BY <1>1, <1>4, MemberFacts
  <2>2. Taken' = Taken /\ Hand' = << >> /\ Hand = << >>
    BY <1>1, <1>4 DEF Taken, Hand
  <2>3. Expects(disk, Taken, zs)'
    BY <1>1, <2>1, <2>2
  <2>4. ControlOK' /\ ToldOK'
    BY <1>1, <1>4, <2>1 DEF ControlOK, ToldOK
  <2>5. GivenOK'
    BY <1>1, <2>1, <2>2 DEF GivenOK
  <2> QED BY <1>2, <1>3, <2>3, <2>4, <2>5 DEF ReaderInv, MembersOK
<1>5. CASE direct
  BY <1>1, <1>2, <1>3, <1>5 DEF ReaderInv, MembersOK
<1> QED BY <1>4, <1>5

LEMMA ReadDirectHolds ==
  ASSUME ReaderInv, R!ReadDirect, UNCHANGED disk
  PROVE  ReaderInv'
<1>1. /\ rpc = "direct" /\ direct
      /\ UNCHANGED <<disk, direct, member_end, zs, pending, ret, mbuffer>>
  <2>1. rpc = "direct" /\ UNCHANGED <<disk, direct, member_end, zs, pending, ret, mbuffer>>
    BY DEF R!ReadDirect
  <2> QED BY <2>1, MemberFacts DEF ControlOK, ReaderInv, ReaderType
<1>2. /\ out \o avail = SubSeq(disk, 1, pos)
      /\ out \in Seq(R!Tokens) /\ avail \in Seq(R!Tokens) /\ disk \in Seq(R!Tokens)
      /\ pos \in 0..Len(disk) /\ Len(disk) \in Nat /\ (rfailed => faulted)
      /\ Len(avail) \in 0..pos
      /\ input_eof => pos = Len(disk)
      /\ direct <=> ~IsMember(disk)
      /\ ended => out = disk
  BY <1>1, LenProperties DEF ReaderInv, RawOK, ReaderType, ChunkOK, SniffOK
<1>3. << >> \in Seq(R!Tokens) /\ Len(<< >>) = 0 /\ out \o << >> = out
  BY <1>2, EmptySeq, ConcatEmptySeq
<1>4. SubSeq(disk, 1, Len(disk)) = disk
  BY <1>2, SubSeqFull
<1>5. MembersOK' /\ SniffOK'
  BY <1>1, <1>2 DEF MembersOK, SniffOK
<1>6. CASE /\ avail # << >>
           /\ out' = out \o avail /\ avail' = << >> /\ rpc' = "app"
           /\ UNCHANGED <<pos, input_eof, rfailed, ended, faulted>>
  <2>1. out' \in Seq(R!Tokens) /\ out' \o << >> = out'
    BY <1>2, <1>6, ConcatProperties, ConcatEmptySeq
  <2>2. ReaderType'
    BY <1>1, <1>3, <1>6, <2>1 DEF ReaderInv, ReaderType
  <2>3. ChunkOK' /\ ShutOK'
    BY <1>1, <1>2, <1>3, <1>6 DEF ChunkOK, ShutOK
  <2>4. ended => out' = disk
    <3> SUFFICES ASSUME ended PROVE out' = disk
      OBVIOUS
    <3>1. Len(out) + Len(avail) = Len(SubSeq(disk, 1, pos))
      BY <1>2, ConcatProperties
    <3>2. Len(SubSeq(disk, 1, pos)) <= Len(disk)
      BY <1>2
    <3>3. Len(avail) = 0
      BY <1>2, <3>1, <3>2, LenProperties
    <3> QED BY <1>2, <1>6, <3>3, EmptySeq
  <2>5. RawOK'
    BY <1>1, <1>2, <1>6, <2>1, <2>4 DEF RawOK
  <2> QED BY <1>5, <2>2, <2>3, <2>5 DEF ReaderInv
<1>7. CASE /\ avail = << >> /\ input_eof /\ ended' = TRUE /\ rpc' = "app"
           /\ UNCHANGED <<pos, input_eof, avail, out, rfailed, faulted>>
  <2>1. ReaderType' /\ ChunkOK' /\ ShutOK'
    BY <1>1, <1>2, <1>7 DEF ReaderInv, ReaderType, ChunkOK, Taken, ShutOK
  <2>2. out = disk
    BY <1>2, <1>3, <1>4, <1>7
  <2>3. RawOK'
    BY <1>1, <1>2, <1>7, <2>2 DEF RawOK
  <2> QED BY <1>5, <2>1, <2>3 DEF ReaderInv
<1>8. CASE /\ avail = << >> /\ ~input_eof /\ R!Fread
           /\ out' = out \o R!Got /\ ended' = (R!Got = << >>) /\ rpc' = "app"
           /\ UNCHANGED <<avail, rfailed, faulted>>
  <2>1. /\ R!Got \in Seq(R!Tokens) /\ pos' \in pos..Len(disk)
        /\ input_eof' \in BOOLEAN /\ (input_eof' => pos' = Len(disk))
        /\ SubSeq(disk, 1, pos) \o R!Got = SubSeq(disk, 1, pos')
        /\ R!Got = << >> => pos' = Len(disk)
    BY <1>1, <1>8, FreadGives
  <2>2. out' = SubSeq(disk, 1, pos') /\ out' \in Seq(R!Tokens)
    BY <1>2, <1>3, <1>8, <2>1, ConcatProperties
  <2>3. out' \o << >> = out'
    BY <2>2, ConcatEmptySeq
  <2>4. ReaderType'
    BY <1>1, <1>8, <2>1, <2>2 DEF ReaderInv, ReaderType
  <2>5. ChunkOK' /\ ShutOK'
    BY <1>1, <1>2, <1>3, <1>8, <2>1 DEF ChunkOK, ShutOK
  <2>6. RawOK'
    BY <1>1, <1>2, <1>4, <1>8, <2>1, <2>2, <2>3 DEF RawOK
  <2> QED BY <1>5, <2>4, <2>5, <2>6 DEF ReaderInv
<1>9. CASE /\ avail = << >> /\ R!Fail /\ faulted' = TRUE
           /\ UNCHANGED <<pos, input_eof, avail, out, ended>>
  <2>1. rfailed' = TRUE /\ rpc' = "app"
    BY <1>9 DEF R!Fail
  <2>2. ReaderType' /\ ChunkOK' /\ ShutOK'
    BY <1>1, <1>2, <1>9, <2>1 DEF ReaderInv, ReaderType, ChunkOK, Taken, ShutOK
  <2>3. RawOK'
    BY <1>1, <1>2, <1>9, <2>1 DEF RawOK
  <2> QED BY <1>5, <2>2, <2>3 DEF ReaderInv
<1> QED BY <1>6, <1>7, <1>8, <1>9 DEF R!ReadDirect

\* A step inside of a member, or between two, keeps what the others say.
LEMMA MemberStep ==
  ASSUME ReaderInv, rpc # "closed", ~direct, UNCHANGED <<disk, direct>>,
         rpc' # "closed", ReaderType', ChunkOK', Expects(disk, Taken, zs)',
         ControlOK', ToldOK', GivenOK'
  PROVE  ReaderInv'
BY DEF ReaderInv, ShutOK, SniffOK, RawOK, MembersOK

\* The inflate works on gzip files only, and stops at the first failure.
LEMMA AtWork ==
  ASSUME ReaderInv, rpc \in {"refill", "member", "inflate", "after"}
  PROVE  ~direct /\ rpc # "closed" /\ ~rfailed /\ ~ended
<1>1. rpc # "closed" /\ rpc # "app" /\ rpc # "direct"
  OBVIOUS
<1>2. ~direct
  BY <1>1 DEF ReaderInv, RawOK
<1>3. ControlOK /\ ToldOK
  BY <1>1, <1>2, MemberFacts
<1> QED BY <1>1, <1>2, <1>3 DEF ControlOK, ToldOK

LEMMA ReadOpenHolds ==
  ASSUME ReaderInv, R!Open, UNCHANGED disk
  PROVE  ReaderInv'
<1>1. /\ rpc = "closed" /\ ~rfailed
      /\ UNCHANGED <<disk, member_end, zs, pending, ret, mbuffer, out, ended>>
      /\ pos = 0 /\ avail = << >> /\ out = << >> /\ pending = << >> /\ mbuffer = << >>
      /\ zs = "id1" /\ ~input_eof /\ ~member_end /\ ~ended
  BY DEF R!Open, ReaderInv, ShutOK
<1>2. disk \in Seq(R!Tokens) /\ Len(disk) \in Nat /\ ReaderType
  BY LenProperties DEF ReaderInv, ReaderType
<1>3. CASE /\ rfailed' = TRUE /\ faulted' = TRUE
           /\ UNCHANGED <<rpc, pos, avail, input_eof, direct>>
  <2>1. ReaderType'
    BY <1>1, <1>2, <1>3 DEF ReaderType
  <2>2. ChunkOK'
    BY <1>1, <1>3 DEF ReaderInv, ChunkOK, Taken
  <2> QED BY <1>1, <1>3, <2>1, <2>2 DEF ReaderInv, ShutOK, SniffOK, RawOK, MembersOK
<1>4. CASE /\ pos' = R!AtMost(Chunk, Len(disk))
           /\ avail' = SubSeq(disk, 1, pos')
           /\ input_eof' = (pos' < Chunk)
           /\ direct' = ~(pos' >= 2 /\ disk[1] = "1" /\ disk[2] = "2")
           /\ rpc' = "app" /\ UNCHANGED <<rfailed, faulted>>
  <2>1. /\ pos' \in 0..Len(disk) /\ (pos' < Chunk => pos' = Len(disk))
        /\ pos' >= 2 <=> Len(disk) >= 2
    BY <1>2, <1>4, MarksAre DEF R!AtMost
  <2>2. \A i \in 1..pos' : disk[i] \in R!Tokens
    BY <1>2, <2>1, ElementOfSeq
  <2>3. /\ avail' \in Seq(R!Tokens) /\ Len(avail') = pos'
        /\ \A j \in 1..Len(avail') : avail'[j] = disk[j]
    BY <1>2, <1>4, <2>1, <2>2, SubSeqProperties
  <2>4. direct' = ~IsMember(disk) /\ direct' \in BOOLEAN /\ input_eof' \in BOOLEAN
    BY <1>4, <2>1 DEF IsMember
  <2>5. ReaderType'
    BY <1>1, <1>2, <1>4, <2>3, <2>4 DEF ReaderType
  <2>a. PICK n \in Nat : n = pos' /\ n = Len(avail') /\ (input_eof' => n = Len(disk))
    <3>1. pos' \in Nat
      BY <1>2, <2>1
    <3>2. Len(avail') = pos'
      BY <2>3
    <3> QED BY <1>4, <2>1, <3>1, <3>2
  <2>6. Taken' = 0
    <3>1. n - n = 0
      BY <2>a
    <3> QED BY <2>a, <3>1 DEF Taken
  <2>7. ChunkOK'
    <3>1. n \in 0..n /\ \A j \in 1..n : 0 + j = j
      BY <2>a
    <3>2. \A j \in 1..n : avail'[j] = disk[j]
      BY <2>a, <2>3
    <3> QED BY <1>1, <2>1, <2>a, <2>6, <3>1, <3>2 DEF ChunkOK
  <2>8. ShutOK' /\ SniffOK'
    BY <1>1, <1>4, <2>4 DEF ShutOK, SniffOK
  <2>9. RawOK'
    <3>1. << >> \o avail' = avail'
      BY <2>3, ConcatEmptySeq
    <3> QED BY <1>1, <1>4, <3>1 DEF RawOK
  <2>10. CASE direct'
    BY <2>5, <2>7, <2>8, <2>9, <2>10 DEF ReaderInv, MembersOK
  <2>11. CASE ~direct'
    <3>1. Expects(disk, 0, "id1")
      BY DEF Expects, Parsed
    <3>2. avail' # << >>
      <4>1. Len(disk) >= 2 /\ Len(<< >>) = 0
        BY <2>4, <2>11, EmptySeq DEF IsMember
      <4>2. Len(avail') >= 2
        BY <2>1, <2>3, <4>1
      <4> QED BY <4>1, <4>2
    <3>3. ControlOK' /\ ToldOK'
      BY <1>1, <1>4, <3>2 DEF ControlOK, ToldOK
    <3>4. Hand' = << >> /\ Upto(disk, 0) = << >>
      BY <1>4 DEF Hand, Upto
    <3>5. << >> \o (<< >> \o << >>) = << >>
      BY EmptySeq, ConcatEmptySeq
    <3>6. R!Content(disk) \in Seq(R!Tokens)
      BY <1>2, UptoType, UptoEnd
    <3>7. R!Content(disk) = << >> \o R!Content(disk)
      BY <3>6, ConcatEmptySeq
    <3>8. \E rest \in Seq(R!Tokens) : R!Content(disk) = out \o rest
      BY <1>1, <3>6, <3>7
    <3>9. GivenOK'
      BY <1>1, <2>6, <3>4, <3>5, <3>8 DEF GivenOK
    <3>10. Expects(disk, Taken, zs)'
      BY <1>1, <2>6, <3>1
    <3> QED BY <2>5, <2>7, <2>8, <2>9, <3>3, <3>9, <3>10 DEF ReaderInv, MembersOK
  <2> QED BY <2>10, <2>11
<1> QED BY <1>3, <1>4 DEF R!Open

LEMMA RefillHolds ==
  ASSUME ReaderInv, R!Refill, UNCHANGED disk
  PROVE  ReaderInv'
<1>1. /\ rpc = "refill"
      /\ UNCHANGED <<disk, direct, member_end, zs, pending, ret, mbuffer, out, ended>>
  BY DEF R!Refill
<1>2. ~direct /\ rpc # "closed" /\ ~rfailed /\ ~ended
  BY <1>1, AtWork
<1>3. /\ Expects(disk, Taken, zs) /\ ControlOK /\ ToldOK /\ GivenOK
      /\ ReaderType /\ ChunkOK
  BY <1>2, MemberFacts DEF ReaderInv
<1>4. mbuffer = << >> /\ Hand = << >> /\ pos \in Nat /\ Len(avail) \in 0..pos
  BY <1>1, <1>3, LenProperties DEF ControlOK, Hand, ChunkOK, ReaderType
<1>5. CASE /\ avail = << >> /\ R!Fread /\ avail' = R!Got /\ rpc' = "member"
           /\ UNCHANGED <<rfailed, faulted>>
  <2>1. /\ R!Got \in Seq(R!Tokens) /\ Len(R!Got) = pos' - pos
        /\ pos' \in pos..Len(disk)
        /\ \A j \in 1..Len(R!Got) : R!Got[j] = disk[pos + j]
        /\ input_eof' \in BOOLEAN /\ (input_eof' => pos' = Len(disk))
    BY <1>1, <1>5, FreadGives
  <2>2. Taken' = pos /\ Taken = pos
    <3>1. Len(disk) \in Nat /\ Len(<< >>) = 0
      BY <1>3, LenProperties, EmptySeq DEF ReaderType
    <3>2. PICK n : n = pos' /\ n \in Nat
      BY <1>4, <2>1, <3>1
    <3>3. Len(avail') = n - pos
      BY <1>5, <2>1, <3>2
    <3>4. \A i, j \in Nat : i - (i - j) = j /\ j - 0 = j
      OBVIOUS
    <3>5. Len(avail) = 0
      BY <1>5, <3>1
    <3>6. n \in Nat /\ pos \in Nat
      BY <1>4, <3>2
    <3>7. n - (n - pos) = pos /\ pos - 0 = pos
      BY <3>4, <3>6
    <3> QED BY <3>2, <3>3, <3>5, <3>7 DEF Taken
  <2>3. ReaderType'
    BY <1>1, <1>3, <1>5, <2>1 DEF ReaderType
  <2>4. ChunkOK'
    <3>1. Len(avail') \in 0..pos' /\ pos' \in 0..Len(disk)
      BY <1>3, <1>4, <1>5, <2>1, LenProperties DEF ReaderType
    <3> QED BY <1>1, <1>5, <2>1, <2>2, <3>1 DEF ChunkOK
  <2>5. Expects(disk, Taken, zs)'
    BY <1>1, <1>3, <2>2
  <2>6. zs # "id1"
    BY <1>3, <1>5 DEF ControlOK
  <2>7. ControlOK' /\ ToldOK'
    BY <1>1, <1>2, <1>3, <1>4, <1>5, <2>6 DEF ControlOK, ToldOK
  <2>8. Hand' = << >>
    BY <1>1, <1>4 DEF Hand
  <2>9. GivenOK'
    BY <1>1, <1>3, <1>4, <1>5, <2>2, <2>8 DEF GivenOK
  <2> QED BY <1>1, <1>2, <1>5, <2>3, <2>4, <2>5, <2>7, <2>9, MemberStep
<1>6. CASE R!Fail /\ faulted' = TRUE /\ UNCHANGED <<pos, input_eof, avail>>
  <2>1. rfailed' = TRUE /\ rpc' = "app"
    BY <1>6 DEF R!Fail
  <2>2. ReaderType' /\ ChunkOK' /\ Taken' = Taken
    BY <1>1, <1>3, <1>6, <2>1 DEF ReaderType, ChunkOK, Taken
  <2>3. Expects(disk, Taken, zs)'
    BY <1>1, <1>3, <2>2
  <2>4. ControlOK' /\ ToldOK'
    BY <1>1, <1>2, <1>3, <1>4, <1>6, <2>1 DEF ControlOK, ToldOK
  <2>5. GivenOK'
    BY <1>1, <1>3, <2>1 DEF GivenOK
  <2> QED BY <1>1, <1>2, <2>1, <2>2, <2>3, <2>4, <2>5, MemberStep
<1>7. CASE rpc' = "member" /\ UNCHANGED <<pos, input_eof, avail, rfailed, faulted>>
  <2>1. ReaderType' /\ ChunkOK' /\ Taken' = Taken /\ Hand' = << >>
    BY <1>1, <1>3, <1>4, <1>7 DEF ReaderType, ChunkOK, Taken, Hand
  <2>2. Expects(disk, Taken, zs)'
    BY <1>1, <1>3, <2>1
  <2>3. ControlOK' /\ ToldOK'
    BY <1>1, <1>2, <1>3, <1>4, <1>7 DEF ControlOK, ToldOK
  <2>4. GivenOK'
    BY <1>1, <1>3, <1>4, <1>7, <2>1 DEF GivenOK
  <2> QED BY <1>1, <1>2, <1>7, <2>1, <2>2, <2>3, <2>4, MemberStep
<1> QED BY <1>5, <1>6, <1>7 DEF R!Refill

LEMMA NextMemberHolds ==
  ASSUME ReaderInv, R!NextMember, UNCHANGED disk
  PROVE  ReaderInv'
<1>1. /\ rpc = "member"
      /\ UNCHANGED <<disk, pos, avail, direct, input_eof, pending, ret, mbuffer, out,
                     rfailed, faulted>>
  BY DEF R!NextMember
<1>2. ~direct /\ rpc # "closed" /\ ~rfailed /\ ~ended
  BY <1>1, AtWork
<1>3. /\ Expects(disk, Taken, zs) /\ ControlOK /\ ToldOK /\ GivenOK
      /\ ReaderType /\ ChunkOK
  BY <1>2, MemberFacts DEF ReaderInv
<1>4. /\ mbuffer = << >> /\ Hand = << >> /\ Taken' = Taken /\ ChunkOK'
      /\ disk \in Seq(R!Tokens) /\ out \in Seq(R!Tokens)
      /\ pos \in Nat
  BY <1>1, <1>3, LenProperties DEF ControlOK, Hand, ChunkOK, ReaderType, Taken
<1>5. Hand' = << >>
  BY <1>1, <1>4 DEF Hand
<1>6. CASE ~member_end /\ rpc' = "inflate" /\ UNCHANGED <<member_end, zs, ended>>
  <2>1. ReaderType'
    BY <1>1, <1>3, <1>6 DEF ReaderType
  <2>2. Expects(disk, Taken, zs)'
    BY <1>1, <1>3, <1>4, <1>6
  <2>3. ControlOK' /\ ToldOK'
    BY <1>1, <1>2, <1>3, <1>4, <1>6 DEF ControlOK, ToldOK
  <2>4. GivenOK'
    BY <1>1, <1>3, <1>4, <1>5, <1>6 DEF GivenOK
  <2> QED BY <1>1, <1>2, <1>4, <1>6, <2>1, <2>2, <2>3, <2>4, MemberStep
<1>7. CASE /\ member_end /\ avail # << >>
           /\ rpc' = "inflate" /\ member_end' = FALSE /\ zs' = "id1"
           /\ UNCHANGED ended
  <2>1. ReaderType'
    BY <1>1, <1>3, <1>7 DEF ReaderType
  <2>2. zs = "end" /\ pending = << >>
    BY <1>3, <1>7 DEF ControlOK
  <2>3. Expects(disk, Taken, "id1")
    BY <1>3, <2>2 DEF Expects
  <2>4. Expects(disk, Taken, zs)'
    BY <1>1, <1>4, <1>7, <2>3
  <2>5. ControlOK' /\ ToldOK'
    BY <1>1, <1>2, <1>3, <1>4, <1>7, <2>2 DEF ControlOK, ToldOK
  <2>6. GivenOK'
    BY <1>1, <1>2, <1>3, <1>4, <1>5, <1>7, <2>2 DEF GivenOK
  <2> QED BY <1>1, <1>2, <1>4, <1>7, <2>1, <2>4, <2>5, <2>6, MemberStep
<1>8. CASE /\ member_end /\ avail = << >> /\ ended' = input_eof
           /\ rpc' = IF input_eof THEN "app" ELSE "refill"
           /\ UNCHANGED <<member_end, zs>>
  <2>1. ReaderType'
    BY <1>1, <1>3, <1>8 DEF ReaderType
  <2>2. zs = "end" /\ pending = << >>
    BY <1>3, <1>8 DEF ControlOK
  <2>3. Expects(disk, Taken, zs)'
    BY <1>1, <1>3, <1>4, <1>8
  <2>4. ControlOK'
    BY <1>1, <1>2, <1>3, <1>4, <1>8, <2>2 DEF ControlOK
  <2>5. ASSUME input_eof PROVE R!IsGzip(disk) /\ out = R!Content(disk)
    <3>1. Taken = Len(disk)
      BY <1>3, <1>4, <1>8, <2>5, EmptySeq DEF Taken, ChunkOK
    <3>2. R!IsGzip(disk)
      BY <1>3, <1>4, <2>2, <3>1, EndIsGzip
    <3>3. out \o (<< >> \o << >>) = Upto(disk, Len(disk))
      BY <1>2, <1>3, <1>4, <2>2, <3>1 DEF GivenOK
    <3>4. out \o (<< >> \o << >>) = out
      BY <1>4, EmptySeq, ConcatEmptySeq
    <3> QED BY <1>4, <3>2, <3>3, <3>4, UptoEnd
  <2>6. ToldOK'
    BY <1>1, <1>2, <1>8, <2>5 DEF ToldOK
  <2>7. GivenOK'
    BY <1>1, <1>3, <1>4, <1>5, <1>8 DEF GivenOK
  <2> QED BY <1>1, <1>2, <1>4, <1>8, <2>1, <2>3, <2>4, <2>6, <2>7, MemberStep
<1> QED BY <1>6, <1>7, <1>8 DEF R!NextMember

\* The head of a chunk and the rest of it.
LEMMA HeadAndTail ==
  ASSUME NEW S, NEW s \in Seq(S), s # << >>
  PROVE  /\ Head(s) = s[1] /\ Head(s) \in S /\ Tail(s) \in Seq(S)
         /\ Len(s) >= 1 /\ Len(Tail(s)) = Len(s) - 1
         /\ \A j \in 1..(Len(s) - 1) : Tail(s)[j] = s[j + 1]
         /\ s = <<Head(s)>> \o Tail(s)
<1>1. Len(s) \in Nat /\ Len(s) # 0
  BY LenProperties, EmptySeq
<1>2. /\ Head(s) \in S /\ Tail(s) \in Seq(S) /\ Len(Tail(s)) = Len(s) - 1
      /\ \A j \in 1..(Len(s) - 1) : Tail(s)[j] = s[j + 1]
  BY HeadTailProperties
<1>3. Head(s) = s[1]
  OBVIOUS
<1>4. /\ <<Head(s)>> \in Seq(S) /\ Len(<<Head(s)>>) = 1 /\ <<Head(s)>>[1] = Head(s)
  BY <1>2
<1>5. <<Head(s)>> \o Tail(s) \in Seq(S) /\ Len(<<Head(s)>> \o Tail(s)) = Len(s)
  BY <1>1, <1>2, <1>4, ConcatProperties
<1>6. ASSUME NEW j \in 1..Len(s) PROVE (<<Head(s)>> \o Tail(s))[j] = s[j]
  BY <1>1, <1>2, <1>3, <1>4, ConcatProperties
<1>7. s = <<Head(s)>> \o Tail(s)
  BY <1>5, <1>6, SeqEqual
<1> QED BY <1>1, <1>2, <1>3, <1>7

\* What the inflate does with the next token of the chunk.
LEMMA TakeToken ==
  ASSUME ReaderInv, rpc = "inflate", UNCHANGED <<disk, pos, direct, input_eof,
                                     member_end, out, rfailed, ended, faulted,
                                     rpc, mbuffer, ret>>,
         pending = << >>, avail # << >>, zs \notin {"end", "bad"},
         zs' = R!After(zs, Head(avail)),
         pending' = IF zs = "body" /\ Head(avail) \in Data
                    THEN Expand[Head(avail)] ELSE << >>,
         avail' = Tail(avail)
  PROVE  ReaderInv'
<1>1. ~direct /\ rpc # "closed" /\ ~rfailed /\ ~ended
  BY AtWork
<1>2. /\ Expects(disk, Taken, zs) /\ ControlOK /\ ToldOK /\ GivenOK
      /\ ReaderType /\ ChunkOK
  BY <1>1, MemberFacts DEF ReaderInv
<1>3. /\ disk \in Seq(R!Tokens) /\ avail \in Seq(R!Tokens) /\ out \in Seq(R!Tokens)
      /\ mbuffer \in Seq(R!Tokens) /\ Len(disk) \in Nat /\ Len(avail) \in Nat
      /\ pos \in 0..Len(disk) /\ Len(avail) \in 0..pos
      /\ zs \in {"id1", "id2", "body"}
      /\ \A j \in 1..Len(avail) : avail[j] = disk[Taken + j]
  BY <1>2, LenProperties DEF ReaderType, ChunkOK
<1>4. /\ Head(avail) = avail[1] /\ Tail(avail) \in Seq(R!Tokens) /\ Len(avail) >= 1
      /\ Len(Tail(avail)) = Len(avail) - 1
      /\ \A j \in 1..(Len(avail) - 1) : Tail(avail)[j] = avail[j + 1]
  BY <1>3, HeadAndTail
<1>5. PICK k : k = Taken
  OBVIOUS
<1>6. k \in 0..(Len(disk) - 1) /\ k + 1 \in 1..Len(disk) /\ Taken' = k + 1
      /\ k + 1 - 1 = k
  <2>1. PICK n, a, l : n = pos /\ a = Len(avail) /\ l = Len(disk)
    OBVIOUS
  <2>2. l \in Nat /\ n \in 0..l /\ a \in 0..n /\ a >= 1
    BY <1>3, <1>4, <2>1
  <2>3. n - a \in 0..(l - 1) /\ n - a + 1 \in 1..l /\ n - (a - 1) = n - a + 1
        /\ n - a + 1 - 1 = n - a
    BY <2>2
  <2> QED BY <1>4, <1>5, <2>1, <2>3 DEF Taken
<1>7. Head(avail) = disk[k + 1]
  BY <1>3, <1>4, <1>5
<1>8. /\ Expects(disk, k + 1, zs')
      /\ zs' # "bad" => Yields(disk[k + 1]) = pending'
  <2>1. Expects(disk, k, zs)
    BY <1>2, <1>5
  <2> QED BY <1>3, <1>6, <1>7, <2>1, TokenTaken
<1>9. zs' \in {"id2", "body", "end", "bad"} /\ (zs' # "bad" /\ zs' # "body" => pending' = << >>)
  BY <1>3, MarksAre DEF R!After
<1>10. pending' \in Seq(R!Tokens)
  <2>1. CASE zs = "body" /\ Head(avail) \in Data
    <3>1. Yields(Head(avail)) = pending'
      BY <2>1 DEF Yields
    <3> QED BY <3>1, YieldsType
  <2>2. CASE ~(zs = "body" /\ Head(avail) \in Data)
    BY <2>2, EmptySeq
  <2> QED BY <2>1, <2>2
<1>11. ReaderType'
  BY <1>2, <1>4, <1>9, <1>10 DEF ReaderType
<1>12. ChunkOK'
  <2>1. PICK m, n : m = Len(avail) /\ n = pos
    OBVIOUS
  <2>2. m \in 1..n /\ n \in Nat /\ Len(Tail(avail)) = m - 1 /\ m - 1 \in 0..n
    BY <1>3, <1>4, <2>1
  <2>3. ASSUME NEW j \in 1..(m - 1) PROVE avail'[j] = disk[k + 1 + j]
    <3>1. j + 1 \in 1..m /\ k + (j + 1) = k + 1 + j
      BY <1>6, <2>2
    <3> QED BY <1>3, <1>4, <1>5, <2>1, <3>1
  <2> QED BY <1>2, <1>6, <2>1, <2>2, <2>3 DEF ChunkOK
<1>13. Expects(disk, Taken, zs)'
  BY <1>6, <1>8
<1>14. ControlOK' /\ ToldOK'
  BY <1>1, <1>2, <1>9, <1>10 DEF ControlOK, ToldOK
<1>15. GivenOK'
  <2>1. ASSUME zs' # "bad" PROVE out \o (mbuffer \o pending') = Upto(disk, k + 1)
    <3>1. out \o (mbuffer \o << >>) = Upto(disk, k)
      BY <1>1, <1>2, <1>3, <1>5 DEF GivenOK, Hand
    <3>2. mbuffer \o << >> = mbuffer
      BY <1>3, ConcatEmptySeq
    <3>3. Upto(disk, k + 1) = Upto(disk, k) \o pending'
      <4>1. PICK i \in 1..Len(disk) : i = k + 1 /\ i - 1 = k
        BY <1>6
      <4>2. Upto(disk, i) = Upto(disk, i - 1) \o Yields(disk[i])
        BY <1>3, UptoToken
      <4> QED BY <1>8, <2>1, <4>1, <4>2
    <3>4. (out \o mbuffer) \o pending' = out \o (mbuffer \o pending')
      BY <1>3, <1>10, TokensAssociative, ZenonT(60)
    <3> QED BY <3>1, <3>2, <3>3, <3>4
  <2>2. Hand' = mbuffer
    BY DEF Hand
  <2> QED BY <1>2, <1>6, <2>1, <2>2 DEF GivenOK
<1> QED BY <1>1, <1>11, <1>12, <1>13, <1>14, <1>15, MemberStep

LEMMA InflateHolds ==
  ASSUME ReaderInv, R!Inflate, UNCHANGED disk
  PROVE  ReaderInv'
<1>1. /\ rpc = "inflate"
      /\ UNCHANGED <<disk, pos, direct, input_eof, member_end, out, rfailed, ended,
                     faulted>>
  BY DEF R!Inflate
<1>2. ~direct /\ rpc # "closed" /\ ~rfailed /\ ~ended
  BY <1>1, AtWork
<1>3. /\ Expects(disk, Taken, zs) /\ ControlOK /\ ToldOK /\ GivenOK
      /\ ReaderType /\ ChunkOK /\ Hand = mbuffer
  BY <1>1, <1>2, MemberFacts DEF ReaderInv, Hand
<1>4. CASE /\ pending # << >>
           /\ mbuffer' = Append(mbuffer, Head(pending)) /\ pending' = Tail(pending)
           /\ UNCHANGED <<rpc, avail, zs, ret>>
  <2>1. mbuffer \in Seq(R!Tokens) /\ pending \in Seq(R!Tokens)
    BY <1>3 DEF ReaderType
  <2>2. /\ Head(pending) \in R!Tokens /\ Tail(pending) \in Seq(R!Tokens)
        /\ pending = <<Head(pending)>> \o Tail(pending)
    BY <1>4, <2>1, HeadAndTail
  <2>3. /\ <<Head(pending)>> \in Seq(R!Tokens) /\ mbuffer' \in Seq(R!Tokens)
        /\ mbuffer' = mbuffer \o <<Head(pending)>>
    BY <1>4, <2>1, <2>2, AppendProperties, AppendIsConcat
  <2>4. (mbuffer \o <<Head(pending)>>) \o Tail(pending)
          = mbuffer \o (<<Head(pending)>> \o Tail(pending))
    BY <2>1, <2>2, <2>3, TokensAssociative, ZenonT(60)
  <2>5. mbuffer' \o pending' = mbuffer \o pending
    BY <1>4, <2>2, <2>3, <2>4
  <2>6. ReaderType'
    BY <1>1, <1>3, <1>4, <2>2, <2>3 DEF ReaderType
  <2>7. ChunkOK' /\ Taken' = Taken /\ Hand' = mbuffer'
    BY <1>1, <1>3, <1>4 DEF ChunkOK, Taken, Hand
  <2>8. Expects(disk, Taken, zs)'
    BY <1>1, <1>3, <1>4, <2>7
  <2>9. ControlOK' /\ ToldOK'
    BY <1>1, <1>2, <1>3, <1>4 DEF ControlOK, ToldOK
  <2>10. GivenOK'
    BY <1>1, <1>3, <1>4, <2>5, <2>7 DEF GivenOK
  <2> QED BY <1>1, <1>2, <1>4, <2>6, <2>7, <2>8, <2>9, <2>10, MemberStep
<1>5. CASE /\ pending = << >> /\ avail # << >> /\ zs \notin {"end", "bad"}
           /\ zs' = R!After(zs, Head(avail))
           /\ pending' = IF zs = "body" /\ Head(avail) \in Data
                         THEN Expand[Head(avail)] ELSE << >>
           /\ avail' = Tail(avail)
           /\ UNCHANGED <<rpc, mbuffer, ret>>
  BY <1>1, <1>5, TakeToken
<1>6. ASSUME NEW code \in {"ok", "stream_end", "error"}, R!Returns(code),
             code = "stream_end" <=> zs = "end", code = "error" <=> zs = "bad",
             zs # "id1"
      PROVE  ReaderInv'
  <2>1. rpc' = "after" /\ ret' = code /\ UNCHANGED <<avail, zs, pending, mbuffer>>
    BY <1>6 DEF R!Returns
  <2>2. ReaderType' /\ ChunkOK' /\ Taken' = Taken /\ Hand' = mbuffer
    BY <1>1, <1>3, <2>1 DEF ReaderType, ChunkOK, Taken, Hand
  <2>3. Expects(disk, Taken, zs)'
    BY <1>1, <1>3, <2>1, <2>2
  <2>4. ControlOK' /\ ToldOK'
    BY <1>1, <1>2, <1>3, <1>6, <2>1 DEF ControlOK, ToldOK
  <2>5. GivenOK'
    BY <1>1, <1>3, <2>1, <2>2 DEF GivenOK
  <2> QED BY <1>1, <1>2, <2>1, <2>2, <2>3, <2>4, <2>5, MemberStep
<1>7. CASE zs = "end" /\ R!Returns("stream_end")
  BY <1>6, <1>7
<1>8. CASE zs = "bad" /\ R!Returns("error")
  BY <1>6, <1>8
<1>9. CASE /\ zs \notin {"end", "bad"} /\ R!Returns("ok")
           /\ Len(mbuffer) = Chunk \/ (pending = << >> /\ avail = << >>)
  <2>1. zs # "id1"
    <3> SUFFICES ASSUME zs = "id1" PROVE FALSE
      OBVIOUS
    <3>1. avail # << >> /\ mbuffer = << >>
      BY <1>3 DEF ControlOK
    <3>2. Len(<< >>) = 0 /\ Chunk >= 2 /\ Chunk \in Nat
      BY MarksAre
    <3> QED BY <1>9, <3>1, <3>2
  <2> QED BY <1>6, <1>9, <2>1
<1> QED BY <1>4, <1>5, <1>7, <1>8, <1>9 DEF R!Inflate

LEMMA AfterInflateHolds ==
  ASSUME ReaderInv, R!AfterInflate, UNCHANGED disk
  PROVE  ReaderInv'
<1>1. /\ rpc = "after" /\ member_end' = (member_end \/ ret = "stream_end")
      /\ UNCHANGED <<disk, pos, avail, direct, input_eof, zs, pending, ret, mbuffer,
                     ended, faulted>>
  BY DEF R!AfterInflate
<1>2. ~direct /\ rpc # "closed" /\ ~rfailed /\ ~ended
  BY <1>1, AtWork
<1>3. /\ Expects(disk, Taken, zs) /\ ControlOK /\ ToldOK /\ GivenOK
      /\ ReaderType /\ ChunkOK /\ Hand = mbuffer /\ Taken \in 0..Len(disk)
  BY <1>1, <1>2, MemberFacts DEF ReaderInv, Hand
<1>4. /\ member_end' <=> zs = "end"
      /\ member_end' \in BOOLEAN /\ zs # "id1"
      /\ ret = "error" <=> zs = "bad"
  <2>1. ~member_end /\ (ret = "stream_end" <=> zs = "end")
    BY <1>1, <1>3 DEF ControlOK
  <2> QED BY <1>1, <1>3, <2>1 DEF ControlOK
<1>5. /\ disk \in Seq(R!Tokens) /\ out \in Seq(R!Tokens) /\ mbuffer \in Seq(R!Tokens)
      /\ pending \in Seq(R!Tokens)
  BY <1>3 DEF ReaderType
<1>6. ChunkOK' /\ Taken' = Taken /\ Expects(disk, Taken, zs)'
  BY <1>1, <1>3 DEF ChunkOK, Taken
<1>7. ASSUME R!Fail, UNCHANGED out, ~R!IsGzip(disk), zs = "bad" \/ rpc' = "app"
      PROVE  ReaderInv'
  <2>1. rfailed' = TRUE /\ rpc' = "app"
    BY <1>7 DEF R!Fail
  <2>2. ReaderType'
    BY <1>1, <1>3, <1>4, <1>7, <2>1 DEF ReaderType
  <2>3. ControlOK'
    BY <1>1, <1>3, <1>4, <2>1 DEF ControlOK
  <2>4. ToldOK'
    BY <1>1, <1>2, <1>7 DEF ToldOK
  <2>5. GivenOK'
    BY <1>1, <1>3, <1>7, <2>1 DEF GivenOK
  <2> QED BY <1>1, <1>2, <1>6, <2>1, <2>2, <2>3, <2>4, <2>5, MemberStep
<1>8. CASE ret = "error" /\ R!Fail /\ UNCHANGED out
  <2>1. ~R!IsGzip(disk)
    BY <1>3, <1>4, <1>8 DEF Expects
  <2> QED BY <1>4, <1>7, <1>8, <2>1
<1>9. CASE ret # "error" /\ mbuffer # << >> /\ out' = out \o mbuffer /\ rpc' = "app"
           /\ UNCHANGED rfailed
  <2>1. out' \in Seq(R!Tokens)
    BY <1>5, <1>9, ConcatProperties
  <2>2. ReaderType'
    BY <1>1, <1>3, <1>4, <1>9, <2>1 DEF ReaderType
  <2>3. ControlOK'
    BY <1>1, <1>2, <1>3, <1>4, <1>9 DEF ControlOK
  <2>4. ToldOK'
    BY <1>1, <1>2, <1>9 DEF ToldOK
  <2>5. << >> \o pending = pending /\ Hand' = << >>
    BY <1>5, <1>9, ConcatEmptySeq DEF Hand
  <2>6. (out \o mbuffer) \o pending = out \o (mbuffer \o pending)
    BY <1>5, TokensAssociative, ZenonT(60)
  <2>7. out' \o pending = Upto(disk, Taken)
    BY <1>2, <1>3, <1>4, <1>9, <2>6 DEF GivenOK
  <2>8. PICK rest \in Seq(R!Tokens) : R!Content(disk) = Upto(disk, Taken) \o rest
    BY <1>3, <1>5, UptoBegins
  <2>9. PICK o : o = out' /\ o \in Seq(R!Tokens)
    BY <2>1
  <2>10. (o \o pending) \o rest = o \o (pending \o rest) /\ pending \o rest \in Seq(R!Tokens)
    <3>1. (o \o pending) \o rest = o \o (pending \o rest)
      BY <1>5, <2>8, <2>9, TokensAssociative, ZenonT(60)
    <3> QED BY <1>5, <2>8, <3>1, ConcatProperties
  <2>11. \E later \in Seq(R!Tokens) : R!Content(disk) = o \o later
    BY <2>7, <2>8, <2>9, <2>10
  <2>12. GivenOK'
    BY <1>1, <1>6, <2>5, <2>7, <2>9, <2>11 DEF GivenOK
  <2> QED BY <1>1, <1>2, <1>6, <1>9, <2>2, <2>3, <2>4, <2>12, MemberStep
<1>10. CASE /\ ret # "error" /\ ~member_end' /\ avail = << >> /\ input_eof
            /\ R!Fail /\ UNCHANGED out
  <2>1. zs \in {"id2", "body"}
    BY <1>3, <1>4, <1>10 DEF ReaderType
  <2>2. Taken = Len(disk)
    <3>1. pos = Len(disk) /\ Len(<< >>) = 0 /\ Len(disk) \in Nat
      BY <1>3, <1>5, <1>10, LenProperties, EmptySeq DEF ChunkOK
    <3>2. Len(disk) - 0 = Len(disk)
      BY <3>1
    <3> QED BY <1>10, <3>1, <3>2 DEF Taken
  <2>3. ~R!IsGzip(disk)
    BY <1>3, <1>5, <2>1, <2>2, CutIsNoGzip
  <2>4. rpc' = "app"
    BY <1>10 DEF R!Fail
  <2> QED BY <1>7, <1>10, <2>3, <2>4
<1>11. CASE ret # "error" /\ mbuffer = << >> /\ rpc' = "refill" /\ UNCHANGED <<out, rfailed>>
  <2>1. ReaderType'
    BY <1>1, <1>3, <1>4, <1>11 DEF ReaderType
  <2>2. ControlOK'
    BY <1>1, <1>2, <1>3, <1>4, <1>11 DEF ControlOK
  <2>3. ToldOK'
    BY <1>1, <1>2, <1>11 DEF ToldOK
  <2>4. Hand' = mbuffer
    BY <1>1, <1>11 DEF Hand
  <2>5. GivenOK'
    BY <1>1, <1>2, <1>3, <1>6, <1>11, <2>4 DEF GivenOK
  <2> QED BY <1>1, <1>2, <1>6, <1>11, <2>1, <2>2, <2>3, <2>5, MemberStep
<1> QED BY <1>8, <1>9, <1>10, <1>11 DEF R!AfterInflate

-----------------------------------------------------------------------------
(* The writer beside the reader *)

LEMMA OtherFilesAre == OtherFiles \cup {<< >>} \subseteq Seq(R!Tokens)
BY CharsAssumption, EmptySeq DEF R!ReaderConstants, R!Tokens

\* A sequence begins with another one.
Begins(s, t) == \E rest \in Seq(Token) : t = s \o rest

TextIsText == written \in Seq(Range(Chars))

\* A file is empty from its open to its close.
Unwritten ==
  /\ opens \in Nat
  /\ pc \in {"app", "deflate", "finish", "fclose", "dead"} => opens > 0
  /\ pc \in {"app", "deflate", "finish", "fclose"} => disk = << >>
  /\ closed => pc = "closed"
  /\ closed /\ opens = 0 => disk = << >>

\* Whatever has failed, the file that was handed to fwrite and what is left of it
\* on the disk begin the file of the text.
Begun ==
  /\ pc \in {"app", "deflate", "finish"} => Begins(file, Header \o written)
  /\ pc = "fclose" => Begins(file, Gzip(written))
  /\ pc \in {"closed", "dead"} /\ opens > 0 =>
       disk \in Seq(Token) /\ Begins(disk, Gzip(written))

LeftInv == WriterInv /\ TextIsText /\ Unwritten /\ Begun

\* The tokens of the writer are tokens to the reader.
LEMMA TokensAreRead == Seq(Token) \subseteq Seq(R!Tokens)
<1>1. Token \subseteq R!Tokens
  BY CharsAssumption DEF Token, R!Tokens
<1> QED BY <1>1, SeqMonotonic

LEMMA BeginsItself ==
  ASSUME NEW s \in Seq(Token)
  PROVE  Begins(<< >>, s) /\ Begins(s, s)
<1>1. << >> \in Seq(Token) /\ << >> \o s = s /\ s \o << >> = s
  BY EmptySeq, ConcatEmptySeq
<1> QED BY <1>1 DEF Begins

LEMMA BeginsLonger ==
  ASSUME NEW s \in Seq(Token), NEW t \in Seq(Token), NEW u \in Seq(Token), Begins(s, t)
  PROVE  Begins(s, t \o u)
<1>1. PICK rest \in Seq(Token) : t = s \o rest
  BY DEF Begins
<1>2. (s \o rest) \o u = s \o (rest \o u)
  BY <1>1, Associative, ZenonT(60)
<1>3. rest \o u \in Seq(Token)
  BY <1>1, ConcatProperties
<1> QED BY <1>1, <1>2, <1>3 DEF Begins

LEMMA CutBegins ==
  ASSUME NEW s \in Seq(Token), NEW t \in Seq(Token), NEW n \in 0..Len(s), Begins(s, t)
  PROVE  SubSeq(s, 1, n) \in Seq(Token) /\ Begins(SubSeq(s, 1, n), t)
<1>1. PICK a, b : /\ a = SubSeq(s, 1, n) /\ a \in Seq(Token) /\ b \in Seq(Token)
                  /\ a \o b = s
  <2>1. /\ SubSeq(s, 1, n) \in Seq(Token) /\ SubSeq(s, n + 1, Len(s)) \in Seq(Token)
        /\ SubSeq(s, 1, n) \o SubSeq(s, n + 1, Len(s)) = s
    BY TakeAndRest, Zenon
  <2> QED BY <2>1
<1>2. Begins(a, a \o b)
  BY <1>1 DEF Begins
<1>3. PICK rest \in Seq(Token) : t = s \o rest
  BY DEF Begins
<1>4. Begins(a, (a \o b) \o rest)
  BY <1>1, <1>2, <1>3, BeginsLonger
<1> QED BY <1>1, <1>3, <1>4

\* The header and the text begin the whole file.
LEMMA TextBeginsFile ==
  ASSUME NEW text \in Seq(Token)
  PROVE  /\ Header \o text \in Seq(Token) /\ Gzip(text) \in Seq(Token)
         /\ Gzip(text) = (Header \o text) \o <<End>>
         /\ \A s \in Seq(Token) : Begins(s, Header \o text) => Begins(s, Gzip(text))
<1>1. Header \o text \in Seq(Token) /\ End \in Token /\ <<End>> \in Seq(Token)
  BY FrameType, ConcatProperties
<1>2. Gzip(text) = (Header \o text) \o <<End>>
  BY <1>1, GzipOfText, AppendIsConcat
<1>3. Gzip(text) \in Seq(Token)
  BY <1>1, <1>2, ConcatProperties
<1> QED BY <1>1, <1>2, <1>3, BeginsLonger

LEMMA TextGrows == TextIsText /\ [Next]_vars => TextIsText'
<1> SUFFICES ASSUME TextIsText, [Next]_vars PROVE TextIsText'
  OBVIOUS
<1>1. CASE written' = Append(written, Chars[Len(written) + 1])
           /\ Len(written) < Len(Chars)
  <2>1. Len(written) + 1 \in 1..Len(Chars)
    BY <1>1, TextAssumption, LenProperties DEF TextIsText
  <2>2. Chars[Len(written) + 1] \in Range(Chars)
    BY <2>1, TextAssumption, ElementOfSeq
  <2> QED BY <1>1, <2>2, AppendProperties DEF TextIsText
<1>2. CASE written' \in {written, << >>}
  BY <1>2, EmptySeq DEF TextIsText
<1>3. CASE PutChar
  BY <1>1, <1>3 DEF PutChar
<1>4. CASE ~PutChar
  BY <1>2, <1>4 DEF Next, Inner, vars, Open, CloseClosed, Sync, Close, DeflateCall,
                    DeflateEnd, Finish, Fclose, Die
<1> QED BY <1>3, <1>4

\* The file on the disk is empty until it is closed or left by a process that dies.
LEMMA UnwrittenHolds ==
  ASSUME WriterInv, Unwritten, [Next]_vars, Next => opens > 0 \/ disk = << >>
  PROVE  Unwritten'
<1>1. CASE Open
  BY <1>1 DEF Unwritten, Open
<1>2. CASE CloseClosed
  BY <1>2 DEF Unwritten, CloseClosed, Next
<1>3. CASE PutChar
  BY <1>3 DEF Unwritten, PutChar, WriteBuffer
<1>4. CASE Sync
  BY <1>4 DEF Unwritten, Sync, WriteBuffer
<1>5. CASE Close
  BY <1>5 DEF Unwritten, Close, WriteBuffer
<1>6. CASE DeflateCall
  BY <1>6 DEF Unwritten, DeflateCall
<1>7. CASE DeflateEnd
  BY <1>7 DEF Unwritten, DeflateEnd
<1>8. CASE Finish
  BY <1>8 DEF Unwritten, Finish
<1>9. CASE Fclose
  BY <1>9 DEF Unwritten, Fclose
<1>10. CASE Die
  BY <1>10 DEF Unwritten, Die, WriterInv, WriterType
<1>11. CASE UNCHANGED vars
  BY <1>11 DEF Unwritten, vars
<1> QED
  BY <1>1, <1>2, <1>3, <1>4, <1>5, <1>6, <1>7, <1>8, <1>9, <1>10, <1>11
  DEF Next, Inner

\* What a deflate call or the end of one writes begins what the stream is to write.
LEMMA DeflateBegins ==
  ASSUME LeftInv, DeflateCall
  PROVE  Begins(file', Header \o written)
<1>2. /\ WriterType
      /\ pc = "deflate" /\ ~mfailed /\ (then = "overflow" => written # << >>)
      /\ file \o inside \o (next \o Waiting) = Header \o written
  BY DEF LeftInv, WriterInv, KeptWriting, DeflateCall
<1>3. /\ inside \in Seq(Token) /\ next \in Seq(Token) /\ file \in Seq(Token)
      /\ Len(next) \in Nat /\ Waiting \in Seq(Token)
  BY <1>2, WaitingType, LenProperties DEF WriterType
<1>4. PICK k \in 1..Len(next) :
        LET h == inside \o SubSeq(next, 1, k)
        IN  \E m \in 0..Len(h) :
              \/ file' = file \o SubSeq(h, 1, m)
              \/ \E j \in 0..m : file' = file \o SubSeq(h, 1, j)
  BY DEF DeflateCall
<1>5. k \in 0..Len(next)
  BY <1>3
<1>6. SubSeq(next, 1, k) \in Seq(Token) /\ SubSeq(next, k + 1, Len(next)) \in Seq(Token)
  BY <1>3, <1>5, TakeAndRest
<1>7. PICK h : h = inside \o SubSeq(next, 1, k)
  OBVIOUS
<1>8. h \in Seq(Token) /\ Len(h) \in Nat
  BY <1>3, <1>6, <1>7, ConcatProperties, LenProperties
<1>9. PICK j \in 0..Len(h) : file' = file \o SubSeq(h, 1, j)
  <2>1. PICK m \in 0..Len(h) :
          \/ file' = file \o SubSeq(h, 1, m)
          \/ \E j \in 0..m : file' = file \o SubSeq(h, 1, j)
    BY <1>4, <1>7
  <2>2. \A j \in 0..m : j \in 0..Len(h)
    BY <1>8
  <2> QED BY <2>1, <2>2
<1>10. (file \o SubSeq(h, 1, j)) \o SubSeq(h, j + 1, Len(h))
          \o (SubSeq(next, k + 1, Len(next)) \o Waiting)
        = (file \o inside) \o (next \o Waiting)
  BY <1>3, <1>5, <1>7, <1>8, <1>9, DeflateMoves, ZenonT(60)
<1>11. PICK r, d : /\ r = SubSeq(h, j + 1, Len(h)) /\ r \in Seq(Token)
                   /\ d = SubSeq(next, k + 1, Len(next)) \o Waiting /\ d \in Seq(Token)
  <2>1. SubSeq(h, j + 1, Len(h)) \in Seq(Token)
    BY <1>8, <1>9, TakeAndRest
  <2>2. SubSeq(next, k + 1, Len(next)) \o Waiting \in Seq(Token)
    BY <1>3, <1>6, ConcatProperties
  <2> QED BY <2>1, <2>2
<1>12. PICK f : f = file' /\ f \in Seq(Token)
  <2>1. SubSeq(h, 1, j) \in Seq(Token)
    BY <1>8, <1>9, TakeAndRest
  <2> QED BY <1>3, <1>9, <2>1, ConcatProperties
<1>13. (f \o r) \o d = Header \o written
  BY <1>2, <1>9, <1>10, <1>11, <1>12
<1>14. Begins(f, f \o r) /\ f \o r \in Seq(Token)
  BY <1>11, <1>12, ConcatProperties DEF Begins
<1>15. Begins(f, (f \o r) \o d)
  BY <1>11, <1>12, <1>14, BeginsLonger
<1> QED BY <1>12, <1>13, <1>15

LEMMA FinishBegins ==
  ASSUME LeftInv, Finish
  PROVE  Begins(file', Gzip(written))
<1>1. /\ file \in Seq(Token) /\ inside \in Seq(Token) /\ written \in Seq(Token)
      /\ file \o inside = Header \o written /\ Len(inside) \in Nat
  BY LenProperties DEF LeftInv, WriterInv, WriterType, KeptFinishing, Finish
<1>2. PICK rest : rest = Append(inside, End)
  OBVIOUS
<1>3. rest \in Seq(Token) /\ Len(rest) \in Nat
  BY <1>1, <1>2, FrameType, AppendProperties, LenProperties
<1>4. PICK j \in 0..Len(rest) : file' = file \o SubSeq(rest, 1, j)
  <2>1. PICK m \in 1..Len(rest) :
          \/ file' = file \o SubSeq(rest, 1, m)
          \/ \E j \in 0..(m - 1) : file' = file \o SubSeq(rest, 1, j)
    BY <1>2 DEF Finish
  <2>2. m \in 0..Len(rest) /\ \A j \in 0..(m - 1) : j \in 0..Len(rest)
    BY <1>3
  <2> QED BY <2>1, <2>2
<1>5. file \o rest = Gzip(written)
  <2>1. file \o Append(inside, End) = Append(file \o inside, End)
    <3>1. file \in Seq(Token) /\ inside \in Seq(Token) /\ End \in Token
      BY <1>1, FrameType
    <3> QED BY <3>1, AppendBehind
  <2>2. Gzip(written) = Append(Header \o written, End)
    BY <1>1, GzipOfText
  <2> QED BY <1>1, <1>2, <2>1, <2>2
<1>6. PICK a, b : /\ a = SubSeq(rest, 1, j) /\ a \in Seq(Token) /\ b \in Seq(Token)
                  /\ a \o b = rest
  <2>1. /\ SubSeq(rest, 1, j) \in Seq(Token) /\ SubSeq(rest, j + 1, Len(rest)) \in Seq(Token)
        /\ SubSeq(rest, 1, j) \o SubSeq(rest, j + 1, Len(rest)) = rest
    BY <1>3, <1>4, TakeAndRest, Zenon
  <2> QED BY <2>1
<1>7. (file \o a) \o b = file \o (a \o b)
  BY <1>1, <1>6, Associative, ZenonT(60)
<1> QED BY <1>4, <1>5, <1>6, <1>7 DEF Begins

\* What is written begins what there is to write, in every call and after any
\* failure of one.
LEMMA BegunHolds ==
  ASSUME LeftInv, WriterInv', [Next]_vars, Next => opens > 0 \/ disk = << >>
  PROVE  Begun'
<1>1. /\ WriterType /\ WriterType' /\ file \in Seq(Token) /\ written \in Seq(Token)
      /\ file' \in Seq(Token) /\ written' \in Seq(Token)
      /\ << >> \in Seq(Token)
  BY EmptySeq DEF LeftInv, WriterInv, WriterType
<1>2. /\ Header \o written \in Seq(Token) /\ Gzip(written) \in Seq(Token)
      /\ \A s \in Seq(Token) : Begins(s, Header \o written) => Begins(s, Gzip(written))
  BY <1>1, TextBeginsFile
<1>3. Unwritten /\ Begun
  BY DEF LeftInv
<1>4. CASE /\ UNCHANGED <<file, written>>
           /\ pc' \in {"app", "deflate", "finish"} => pc \in {"app", "deflate", "finish"}
           /\ pc' = "fclose" => pc \in {"app", "fclose"}
           /\ pc' \in {"closed", "dead"} => pc' = pc /\ UNCHANGED <<disk, opens>>
  <2>1. pc' \in {"app", "deflate", "finish"} => Begins(file', Header \o written')
    BY <1>3, <1>4 DEF Begun
  <2>2. pc' = "fclose" => Begins(file', Gzip(written'))
    BY <1>1, <1>2, <1>3, <1>4 DEF Begun
  <2>3. pc' \in {"closed", "dead"} /\ opens' > 0 =>
          disk' \in Seq(Token) /\ Begins(disk', Gzip(written'))
    BY <1>3, <1>4 DEF Begun
  <2> QED BY <2>1, <2>2, <2>3 DEF Begun
<1>5. CASE Open
  <2>1. CASE /\ pc' = "app" /\ file' = << >> /\ written' = << >>
    <3>1. Header \o written' \in Seq(Token)
      BY <1>1, TextBeginsFile
    <3>2. Begins(<< >>, Header \o written')
      BY <3>1, BeginsItself
    <3> QED BY <2>1, <3>2 DEF Begun
  <2>2. CASE disk' \in {disk, << >>} /\ UNCHANGED <<pc, file, written>>
    <3>1. pc = "closed" /\ (opens > 0 \/ disk = << >>)
      BY <1>5 DEF Open, Next
    <3>2. Begins(<< >>, Gzip(written))
      BY <1>2, BeginsItself
    <3>3. disk' \in Seq(Token) /\ Begins(disk', Gzip(written))
      BY <1>1, <1>3, <2>2, <3>1, <3>2 DEF Begun
    <3> QED BY <2>2, <3>1, <3>3 DEF Begun
  <2> QED BY <1>5, <2>1, <2>2 DEF Open
<1>6. CASE PutChar
  <2>1. /\ pc = "app" /\ UNCHANGED file /\ pc' \in {"app", "deflate"}
        /\ written' = Append(written, Chars[Len(written) + 1])
        /\ Len(written) < Len(Chars)
    BY <1>6 DEF PutChar, WriteBuffer
  <2>2. PICK c \in Token : c = Chars[Len(written) + 1]
    <3>1. Len(written) + 1 \in 1..Len(Chars)
      BY <1>1, <2>1, TextAssumption, LenProperties
    <3> QED BY <3>1, FrameType
  <2>3. Header \o Append(written, c) = Append(Header \o written, c)
    BY <1>1, FrameType, AppendBehind
  <2>4. Append(Header \o written, c) = (Header \o written) \o <<c>> /\ <<c>> \in Seq(Token)
    <3>1. Header \o written \in Seq(Token) /\ c \in Token
      BY <1>2
    <3> QED BY <3>1, AppendIsConcat
  <2>5. Begins(file, (Header \o written) \o <<c>>)
    BY <1>1, <1>2, <1>3, <2>1, <2>4, BeginsLonger DEF Begun
  <2>6. Begins(file', Header \o written')
    BY <2>1, <2>2, <2>3, <2>4, <2>5
  <2> QED BY <2>1, <2>6 DEF Begun
<1>7. CASE DeflateCall
  <2>1. /\ Begins(file', Header \o written) /\ UNCHANGED written
        /\ pc' \in {"app", "deflate", "fclose"}
    BY <1>7, DeflateBegins DEF DeflateCall
  <2>2. Begins(file', Gzip(written))
    BY <1>1, <1>2, <2>1
  <2> QED BY <2>1, <2>2 DEF Begun
<1>8. CASE Finish
  <2>1. Begins(file', Gzip(written)) /\ UNCHANGED written /\ pc' \in {"finish", "fclose"}
    BY <1>8, FinishBegins DEF Finish
  <2>2. pc' = "finish" => file' \o inside' = Header \o written' /\ inside' \in Seq(Token)
    BY DEF WriterInv, WriterType, KeptFinishing
  <2>3. pc' = "finish" => Begins(file', Header \o written')
    BY <2>2 DEF Begins
  <2> QED BY <2>1, <2>3 DEF Begun
<1>9. ASSUME Fclose \/ Die PROVE Begun'
  <2>1. /\ pc' \in {"closed", "dead"} /\ UNCHANGED written
        /\ disk' = file \/ \E n \in 0..Len(file) : disk' = SubSeq(file, 1, n)
        /\ pc \in {"app", "deflate", "finish", "fclose"}
    BY <1>1, <1>9 DEF Fclose, Die, WriterType
  <2>2. Begins(file, Gzip(written))
    BY <1>1, <1>2, <1>3, <2>1 DEF Begun
  <2>3. \A n \in 0..Len(file) :
          SubSeq(file, 1, n) \in Seq(Token) /\ Begins(SubSeq(file, 1, n), Gzip(written))
    BY <1>1, <1>2, <2>2, CutBegins
  <2>4. disk' \in Seq(Token) /\ Begins(disk', Gzip(written))
    BY <1>1, <2>1, <2>2, <2>3
  <2> QED BY <2>1, <2>4 DEF Begun
<1>10. CASE CloseClosed
  BY <1>4, <1>10 DEF CloseClosed
<1>11. CASE Sync
  BY <1>4, <1>11 DEF Sync, WriteBuffer
<1>12. CASE Close
  BY <1>4, <1>12 DEF Close, WriteBuffer
<1>13. CASE DeflateEnd
  BY <1>4, <1>13 DEF DeflateEnd
<1>14. CASE UNCHANGED vars
  BY <1>4, <1>14 DEF vars
<1> QED
  BY <1>5, <1>6, <1>7, <1>8, <1>9, <1>10, <1>11, <1>12, <1>13, <1>14
  DEF Next, Inner

\* A step of the writer leaves the reader as it is, before its open.
LEMMA WritingHolds ==
  ASSUME LeftInv, ReaderInv, Writing
  PROVE  LeftInv' /\ ReaderInv'
<1>1. /\ opens > 0 \/ disk = << >>
      /\ rpc = "closed" /\ ~rfailed /\ Next /\ UNCHANGED reader
  BY DEF Writing
<1>2. WriterInv'
  BY <1>1, NextHolds DEF LeftInv
<1>3. TextIsText'
  BY <1>1, TextGrows DEF LeftInv
<1>4. Unwritten'
  BY <1>1, UnwrittenHolds DEF LeftInv
<1>5. Begun'
  BY <1>1, <1>2, BegunHolds
<1>6. disk' \in Seq(R!Tokens)
  <2>1. CASE pc' \in {"app", "deflate", "finish", "fclose"}
    BY <1>4, <2>1, EmptySeq DEF Unwritten
  <2>2. CASE pc' \in {"closed", "dead"} /\ opens' > 0
    BY <1>5, <2>2, TokensAreRead DEF Begun
  <2>3. CASE opens' = 0 /\ pc' = "closed"
    <3>1. opens \in Nat
      BY DEF LeftInv, Unwritten
    <3>2. opens = 0
      BY <1>1, <2>3, <3>1
      DEF Next, Inner, Open, CloseClosed, PutChar, Sync, Close, DeflateCall,
          DeflateEnd, Finish, Fclose, Die
    <3>3. pc = "closed"
      BY <3>2 DEF LeftInv, WriterInv, WriterType, Unwritten
    <3>4. CloseClosed
      BY <1>1, <2>3, <3>2, <3>3
      DEF Next, Inner, Open, PutChar, Sync, Close, DeflateCall, DeflateEnd, Finish,
          Fclose, Die
    <3>5. disk' = disk
      BY <3>4 DEF CloseClosed
    <3> QED BY <3>5 DEF ReaderInv, ReaderType
  <2>4. opens' \in Nat /\ pc' \in {"closed", "app", "deflate", "finish", "fclose", "dead"}
    BY <1>2, <1>4 DEF Unwritten, WriterInv, WriterType
  <2>5. opens' > 0 \/ (opens' = 0 /\ pc' # "dead")
    BY <1>4, <2>4 DEF Unwritten
  <2> QED BY <2>1, <2>2, <2>3, <2>4, <2>5
<1>7. ReaderInv'
  <2>1. /\ pos = 0 /\ avail = << >> /\ ~input_eof
        /\ UNCHANGED <<rpc, rfailed, pos, avail, direct, input_eof, member_end, zs,
                       pending, ret, mbuffer, out, ended, faulted>>
    BY <1>1 DEF ReaderInv, ShutOK, reader
  <2>2. ReaderType'
    BY <1>6, <2>1 DEF ReaderInv, ReaderType
  <2>3. ChunkOK'
    <3>1. Len(disk') \in Nat /\ Len(<< >>) = 0
      BY <1>6, LenProperties, EmptySeq
    <3>2. pos' \in 0..Len(disk') /\ Len(avail') \in 0..pos' /\ 1..Len(avail') = {}
      BY <2>1, <3>1
    <3> QED BY <2>1, <3>2 DEF ChunkOK
  <2> QED BY <1>1, <2>1, <2>2, <2>3 DEF ReaderInv, ShutOK, SniffOK, RawOK, MembersOK
<1> QED BY <1>2, <1>3, <1>4, <1>5, <1>7 DEF LeftInv

\* A step of the reader leaves the writer as it is, after its end.
LEMMA ReadingHolds ==
  ASSUME LeftInv, ReaderInv, Reading
  PROVE  LeftInv' /\ ReaderInv'
<1>1. R!Next /\ UNCHANGED vars
  BY DEF Reading
<1>2. UNCHANGED disk
  BY <1>1 DEF vars
<1>3. ReaderInv'
  BY <1>1, <1>2, ReadOpenHolds, UnderflowHolds, ReadDirectHolds, RefillHolds,
     NextMemberHolds, InflateHolds, AfterInflateHolds DEF R!Next
<1>4. WriterInv'
  BY <1>1, StutterHolds DEF LeftInv
<1> QED BY <1>1, <1>3, <1>4 DEF vars, LeftInv, TextIsText, Unwritten, Begun

LEMMA BothIdle ==
  ASSUME LeftInv, ReaderInv, UNCHANGED allVars
  PROVE  LeftInv' /\ ReaderInv'
<1>1. /\ UNCHANGED vars
      /\ UNCHANGED <<disk, rpc, rfailed, pos, avail, direct, input_eof, member_end, zs,
                     pending, ret, mbuffer, out, ended, faulted>>
  BY DEF allVars, reader, vars
<1>2. WriterInv'
  BY <1>1, StutterHolds DEF LeftInv
<1>3. LeftInv'
  BY <1>1, <1>2 DEF vars, LeftInv, TextIsText, Unwritten, Begun
<1>4. ReaderType' /\ ChunkOK' /\ ShutOK' /\ SniffOK' /\ RawOK'
  BY <1>1 DEF ReaderInv, ReaderType, ChunkOK, Taken, ShutOK, SniffOK, RawOK
<1>5. MembersOK'
  BY <1>1 DEF ReaderInv, MembersOK, Taken, Hand, ControlOK, ToldOK, GivenOK
<1> QED BY <1>3, <1>4, <1>5 DEF ReaderInv

LEMMA BothBegin == StreamsInit => LeftInv /\ ReaderInv
<1> SUFFICES ASSUME StreamsInit PROVE LeftInv /\ ReaderInv
  OBVIOUS
<1>1. WriterInv
  BY StreamsHold
<1>2. LeftInv
  BY <1>1, EmptySeq DEF StreamsInit, LeftInv, TextIsText, Unwritten, Begun
<1>3. /\ rpc = "closed" /\ pos = 0 /\ avail = << >> /\ input_eof = FALSE
      /\ direct = FALSE /\ member_end = FALSE /\ zs = "id1"
      /\ pending = << >> /\ ret = "ok" /\ mbuffer = << >>
      /\ out = << >> /\ rfailed = FALSE /\ ended = FALSE /\ faulted = FALSE
  BY DEF StreamsInit, R!Unopened
<1>4. disk \in Seq(R!Tokens) /\ << >> \in Seq(R!Tokens)
  BY OtherFilesAre, EmptySeq DEF StreamsInit
<1>5. ReaderType
  BY <1>3, <1>4 DEF ReaderType
<1>6. ChunkOK
  <2>1. Len(disk) \in Nat /\ Len(<< >>) = 0
    BY <1>4, LenProperties, EmptySeq
  <2>2. pos \in 0..Len(disk) /\ Len(avail) \in 0..pos /\ 1..Len(avail) = {}
    BY <1>3, <2>1
  <2> QED BY <1>3, <2>2 DEF ChunkOK
<1> QED BY <1>2, <1>3, <1>5, <1>6
        DEF ReaderInv, ShutOK, SniffOK, RawOK, MembersOK

\* At every step the writer keeps the row whole and what it leaves begins the file,
\* and the reader has given what the tokens it has taken stand for.
THEOREM StreamsInvariant == StreamsSpec => [](LeftInv /\ ReaderInv)
<1>1. LeftInv /\ ReaderInv /\ [StreamsNext]_allVars => (LeftInv /\ ReaderInv)'
  BY WritingHolds, ReadingHolds, BothIdle DEF StreamsNext
<1> QED BY BothBegin, <1>1, PTL DEF StreamsSpec

-----------------------------------------------------------------------------
(* What the reader gives *)

\* The characters that underflow has handed to the application begin those of the
\* file, and the end of the file is told only of a file whose every member has been
\* read and verified: for files of any length, any number of members, data that
\* stands for any number of characters, and buffers of any size, so wherever the
\* chunks cut the file and wherever fread fails.
THEOREM EndIsComplete == StreamsSpec => []EndMeansComplete
<1>1. ReaderInv => EndMeansComplete
  <2> SUFFICES ASSUME ReaderInv, rpc # "closed"
               PROVE  /\ R!IsPrefix(out, IF direct THEN disk ELSE R!Content(disk))
                      /\ ended => IF direct THEN out = disk
                                  ELSE R!IsGzip(disk) /\ out = R!Content(disk)
    BY DEF EndMeansComplete, R!EndMeansComplete
  <2>1. disk \in Seq(R!Tokens) /\ out \in Seq(R!Tokens) /\ avail \in Seq(R!Tokens)
    BY DEF ReaderInv, ReaderType
  <2>2. CASE direct
    <3>1. /\ out \o avail = SubSeq(disk, 1, pos) /\ (ended => out = disk)
          /\ pos \in 0..Len(disk)
      BY <2>2 DEF ReaderInv, RawOK, ChunkOK
    <3>2. Len(disk) \in Nat /\ \A i \in 1..Len(disk) : disk[i] \in R!Tokens
      BY <2>1, LenProperties, ElementOfSeq
    <3>a. SubSeq(disk, pos + 1, Len(disk)) \in Seq(R!Tokens)
      <4>1. /\ pos + 1 \in Int /\ Len(disk) \in Int
            /\ \A i \in (pos + 1)..Len(disk) : disk[i] \in R!Tokens
        BY <3>1, <3>2
      <4> QED BY <2>1, <4>1, SubSeqProperties
    <3>3. PICK rest \in Seq(R!Tokens) : rest = SubSeq(disk, pos + 1, Len(disk))
      BY <3>a
    <3>4. SubSeq(disk, 1, pos) \o rest = SubSeq(disk, 1, Len(disk))
      <4>1. 1 \in 1..(Len(disk) + 1) /\ pos \in (1 - 1)..Len(disk) /\ Len(disk) \in pos..Len(disk)
        BY <3>1, <3>2
      <4> QED BY <2>1, <3>3, <4>1, ConcatAdjacentSubSeq
    <3>5. (out \o avail) \o rest = disk
      BY <2>1, <3>1, <3>4, SubSeqFull
    <3>6. (out \o avail) \o rest = out \o (avail \o rest)
      BY <2>1, <3>3, TokensAssociative, ZenonT(60)
    <3>7. avail \o rest \in Seq(R!Tokens)
      BY <2>1, <3>3, ConcatProperties
    <3>8. R!IsPrefix(out, disk)
      BY <2>1, <3>5, <3>6, <3>7, BeginningIsPrefix
    <3> QED BY <2>2, <3>1, <3>8
  <2>3. CASE ~direct
    <3>1. GivenOK /\ ToldOK
      BY <2>3, MemberFacts
    <3>2. PICK rest \in Seq(R!Tokens) : R!Content(disk) = out \o rest
      BY <3>1 DEF GivenOK
    <3>3. R!IsPrefix(out, R!Content(disk))
      BY <2>1, <3>2, BeginningIsPrefix
    <3> QED BY <2>3, <3>1, <3>3 DEF ToldOK
  <2> QED BY <2>2, <2>3
<1> QED BY <1>1, StreamsInvariant, PTL

\* A complete gzip file, of one member or of many, is never refused by read_buffer
\* unless fread or the start of the inflate fails, however the chunks cut it; a
\* file that is read as it is neither.
THEOREM CompleteFilesAreRead == StreamsSpec => []CompleteIsRead
<1>1. ReaderInv => CompleteIsRead
  <2> SUFFICES ASSUME ReaderInv, rfailed, ~faulted PROVE ~direct /\ ~R!IsGzip(disk)
    BY DEF CompleteIsRead, R!CompleteIsRead
  <2>1. rpc # "closed"
    BY DEF ReaderInv, ShutOK
  <2>2. ~direct
    BY <2>1 DEF ReaderInv, RawOK
  <2>3. ToldOK
    BY <2>1, <2>2, MemberFacts
  <2> QED BY <2>2, <2>3 DEF ToldOK
<1> QED BY <1>1, StreamsInvariant, PTL

\* The places of the file of a text.
LEMMA FileOfText ==
  ASSUME NEW w \in Seq(Range(Chars))
  PROVE  /\ Gzip(w) \in Seq(Token) /\ Len(w) \in Nat /\ Len(Gzip(w)) = Len(w) + 3
         /\ Gzip(w)[1] = "1" /\ Gzip(w)[2] = "2" /\ Gzip(w)[Len(w) + 3] = "T"
         /\ \A j \in 1..Len(w) : Gzip(w)[j + 2] = w[j] /\ w[j] \in Range(Chars)
<1>1. w \in Seq(Token) /\ Len(w) \in Nat
  <2>1. Range(Chars) \subseteq Token
    BY DEF Token
  <2> QED BY <2>1, SeqMonotonic, LenProperties
<1>2. \A j \in 1..Len(w) : w[j] \in Range(Chars)
  BY ElementOfSeq
<1>3. PICK t : t = Append(w, "T")
  OBVIOUS
<1>4. /\ t \in Seq(Token) /\ Len(t) = Len(w) + 1 /\ t[Len(w) + 1] = "T"
      /\ \A j \in 1..Len(w) : t[j] = w[j]
  <2>1. "T" \in Token
    BY DEF Token
  <2> QED BY <1>1, <1>3, <2>1, AppendProperties
<1>5. PICK h : h = <<"1", "2">>
  OBVIOUS
<1>6. h \in Seq(Token) /\ Len(h) = 2 /\ h[1] = "1" /\ h[2] = "2"
  BY <1>5 DEF Token
<1>7. Gzip(w) = h \o t
  BY <1>3, <1>5 DEF Gzip, Header, End
<1>8. /\ h \o t \in Seq(Token) /\ Len(h \o t) = Len(h) + Len(t)
      /\ \A i \in 1..(Len(h) + Len(t)) :
           (h \o t)[i] = IF i <= Len(h) THEN h[i] ELSE t[i - Len(h)]
  BY <1>4, <1>6, ConcatProperties
<1>9. PICK f, n : f = h \o t /\ n = Len(w)
  OBVIOUS
<1>10. /\ n \in Nat /\ Len(f) = n + 3 /\ f \in Seq(Token)
       /\ \A i \in 1..(n + 3) : f[i] = IF i <= 2 THEN h[i] ELSE t[i - 2]
  <2>1. Len(h) + Len(t) = n + 3
    BY <1>1, <1>4, <1>6, <1>9
  <2> QED BY <1>1, <1>6, <1>8, <1>9, <2>1
<1>11. f[1] = "1" /\ f[2] = "2"
  <2>1. 1 \in 1..(n + 3) /\ 2 \in 1..(n + 3)
    BY <1>10
  <2> QED BY <1>6, <1>10, <2>1
<1>12. f[n + 3] = "T"
  <2>1. PICK i \in 1..(n + 3) : i = n + 3 /\ ~(i <= 2) /\ i - 2 = n + 1
    BY <1>10
  <2> QED BY <1>4, <1>9, <1>10, <2>1
<1>13. ASSUME NEW j \in 1..n PROVE f[j + 2] = w[j]
  <2>1. PICK i \in 1..(n + 3) : i = j + 2 /\ ~(i <= 2) /\ i - 2 = j
    BY <1>10
  <2> QED BY <1>4, <1>9, <1>10, <2>1
<1> QED BY <1>2, <1>7, <1>9, <1>10, <1>11, <1>12, <1>13

\* The file of a text is a gzip file of one member.
LEMMA FileIsGzip ==
  ASSUME NEW w \in Seq(Range(Chars))
  PROVE  R!IsGzip(Gzip(w))
<1>1. PICK f, n : f = Gzip(w) /\ n = Len(w)
  OBVIOUS
<1>2. /\ f \in Seq(R!Tokens) /\ n \in Nat /\ Len(f) = n + 3
      /\ f[1] = "1" /\ f[2] = "2" /\ f[n + 3] = "T"
      /\ \A j \in 1..n : f[j + 2] \in Data /\ f[j + 2] # "T"
  BY <1>1, FileOfText, TokensAreRead, CharsAssumption, MarksAre
<1>3. DOMAIN f = 1..(n + 3)
  BY <1>2, LenProperties
<1>4. ASSUME NEW i \in 1..(n + 3), i # n + 3, i > 2 PROVE f[i] \in Data /\ f[i] # "T"
  <2>1. i - 2 \in 1..n /\ i - 2 + 2 = i
    BY <1>2, <1>4
  <2> QED BY <1>2, <2>1
<1>5. ASSUME NEW i \in 1..(n + 3), f[i] = "T" PROVE i = n + 3
  <2>1. i = 1 \/ i = 2 \/ i > 2
    BY <1>2
  <2> QED BY <1>2, <1>4, <1>5, <2>1
<1>6. n + 3 \in 1..(n + 3)
  BY <1>2
<1>7. R!Trailers(f) = {n + 3}
  BY <1>2, <1>3, <1>5, <1>6 DEF R!Trailers
<1>8. R!Starts(f) = {1}
  BY <1>2, <1>7 DEF R!Starts
<1>9. ASSUME NEW i \in DOMAIN f
      PROVE  CASE i \in R!Starts(f)     -> f[i] = "1"
               [] i - 1 \in R!Starts(f) -> f[i] = "2"
               [] OTHER                 -> f[i] \in Data \cup {"T"}
  <2>1. i \in 1..(n + 3)
    BY <1>3
  <2>2. CASE i = 1
    <3>1. i \in R!Starts(f) /\ i - 1 \notin R!Starts(f)
      BY <1>8, <2>2
    <3> QED BY <1>2, <2>2, <3>1
  <2>3. CASE i = 2
    <3>1. i \notin R!Starts(f) /\ i - 1 \in R!Starts(f)
      BY <1>8, <2>3
    <3> QED BY <1>2, <2>3, <3>1
  <2>4. CASE i > 2
    <3>1. i \notin R!Starts(f) /\ i - 1 \notin R!Starts(f)
      BY <1>2, <1>8, <2>1, <2>4
    <3>2. f[i] \in Data \cup {"T"}
      BY <1>2, <1>4, <2>1, <2>4
    <3> QED BY <3>1, <3>2
  <2> QED BY <1>2, <2>1, <2>2, <2>3, <2>4
<1>10. R!IsGzip(f)
  BY <1>2, <1>7, <1>9 DEF R!IsGzip
<1> QED BY <1>1, <1>10

\* The file of a text stands for the text.
LEMMA FileMeansText ==
  ASSUME NEW w \in Seq(Range(Chars))
  PROVE  R!Content(Gzip(w)) = w
<1>1. PICK f, n : f = Gzip(w) /\ n = Len(w)
  OBVIOUS
<1>2. /\ f \in Seq(R!Tokens) /\ n \in Nat /\ Len(f) = n + 3
      /\ f[1] = "1" /\ f[2] = "2" /\ f[n + 3] = "T"
      /\ \A j \in 1..n : f[j + 2] = w[j] /\ w[j] \in Range(Chars)
  BY <1>1, FileOfText, TokensAreRead
<1>3. w \in Seq(R!Tokens)
  <2>1. Range(Chars) \subseteq R!Tokens
    BY CharsAssumption DEF R!Tokens
  <2> QED BY <2>1, SeqMonotonic
<1>4. \A j \in 1..n : Yields(f[j + 2]) = <<w[j]>> /\ <<w[j]>> \in Seq(R!Tokens)
  BY <1>2, CharsAssumption DEF Yields, R!Tokens
<1>5. << >> \in Seq(R!Tokens) /\ << >> \o << >> = << >>
  BY EmptySeq, ConcatEmptySeq
<1>6. Upto(f, 2) = << >>
  <2>1. Upto(f, 0) = << >>
    BY DEF Upto
  <2>2. PICK i \in 1..Len(f), j \in 1..Len(f) : i = 1 /\ j = 2 /\ i - 1 = 0 /\ j - 1 = 1
    BY <1>2
  <2>3. Upto(f, i) = Upto(f, 0) \o Yields(f[i]) /\ Upto(f, j) = Upto(f, i) \o Yields(f[j])
    BY <1>2, <2>2, UptoToken
  <2> QED BY <1>2, <1>5, <2>1, <2>2, <2>3, MarksAre
<1> DEFINE Bad == {k \in 0..n : Upto(f, k + 2) # SubSeq(w, 1, k)}
<1>7. Bad = {}
  <2> SUFFICES ASSUME Bad # {} PROVE FALSE
    OBVIOUS
  <2>1. Bad \subseteq Nat
    BY <1>2
  <2>2. PICK k \in Bad : \A i \in Bad : k <= i
    <3> HIDE DEF Bad
    <3> QED BY <2>1, LeastMember
  <2>3. k \in 0..n /\ Upto(f, k + 2) # SubSeq(w, 1, k)
    BY <2>2
  <2>4. k # 0
    <3>1. SubSeq(w, 1, 0) = << >> /\ 0 + 2 = 2
      BY <1>3, SubSeqEmpty
    <3> QED BY <1>6, <2>3, <3>1
  <2>5. k - 1 \in 0..n /\ k - 1 < k /\ k \in 1..n
    BY <1>2, <2>3, <2>4
  <2>6. k - 1 \notin Bad
    <3> HIDE DEF Bad
    <3> QED BY <1>2, <2>1, <2>2, <2>5
  <2>7. Upto(f, (k - 1) + 2) = SubSeq(w, 1, k - 1)
    BY <2>5, <2>6
  <2>8. PICK i \in 1..Len(f) : i = k + 2 /\ i - 1 = (k - 1) + 2
    BY <1>2, <2>5
  <2>9. Upto(f, i) = Upto(f, i - 1) \o Yields(f[i])
    BY <1>2, UptoToken
  <2>10. Upto(f, k + 2) = SubSeq(w, 1, k - 1) \o <<w[k]>>
    BY <1>4, <2>5, <2>7, <2>8, <2>9
  <2>11. SubSeq(w, 1, k - 1) \o <<w[k]>> = SubSeq(w, 1, k)
    <3>1. 1 \in 1..(Len(w) + 1) /\ k - 1 \in (1 - 1)..Len(w) /\ k \in (k - 1)..Len(w)
      BY <1>1, <1>2, <2>5
    <3>2. SubSeq(w, 1, k - 1) \o SubSeq(w, (k - 1) + 1, k) = SubSeq(w, 1, k)
      BY <1>3, <3>1, ConcatAdjacentSubSeq
    <3>3. (k - 1) + 1 = k /\ SubSeq(w, k, k) = <<w[k]>>
      <4>1. \A q \in k..k : w[q] \in R!Tokens
        BY <1>1, <1>2, <1>3, <2>5, ElementOfSeq
      <4>2. /\ SubSeq(w, k, k) \in Seq(R!Tokens)
            /\ Len(SubSeq(w, k, k)) = IF k <= k THEN k - k + 1 ELSE 0
            /\ \A q \in 1..(k - k + 1) : SubSeq(w, k, k)[q] = w[k + q - 1]
        BY <1>2, <1>3, <2>5, <4>1, SubSeqProperties
      <4>3. k - k + 1 = 1 /\ k + 1 - 1 = k /\ (k - 1) + 1 = k /\ 1 \in 1..1 /\ k <= k
        BY <1>2, <2>5
      <4>4. /\ <<w[k]>> \in Seq(R!Tokens) /\ Len(<<w[k]>>) = 1 /\ <<w[k]>>[1] = w[k]
        BY <1>2, <1>4, <2>5
      <4>5. Len(SubSeq(w, k, k)) = 1 /\ SubSeq(w, k, k)[1] = w[k]
        BY <4>2, <4>3
      <4>6. \A q \in 1..1 : q = 1
        OBVIOUS
      <4>7. SubSeq(w, k, k) = <<w[k]>>
        BY <4>2, <4>4, <4>5, <4>6, SeqEqual
      <4> QED BY <4>3, <4>7
    <3> QED BY <3>2, <3>3
  <2> QED BY <2>3, <2>10, <2>11
<1>8. Upto(f, n + 2) = w
  <2>1. n \in 0..n /\ SubSeq(w, 1, n) = w
    BY <1>1, <1>2, <1>3, SubSeqFull
  <2> QED BY <1>7, <2>1
<1>9. PICK i \in 1..Len(f) : i = Len(f) /\ i - 1 = n + 2 /\ i = n + 3
  BY <1>2
<1>10. Upto(f, i) = Upto(f, i - 1) \o Yields(f[i])
  BY <1>2, UptoToken
<1>11. w \o << >> = w
  BY <1>3, ConcatEmptySeq
<1>12. Upto(f, Len(f)) = w
  BY <1>2, <1>8, <1>9, <1>10, <1>11, MarksAre
<1> QED BY <1>1, <1>2, <1>12, UptoEnd

\* A beginning of the file of a text with the trailer of it is the whole of it.
LEMMA WholeOrCut ==
  ASSUME NEW w \in Seq(Range(Chars)), NEW s \in Seq(Token), Begins(s, Gzip(w))
  PROVE  /\ Len(s) >= 2 => IsMember(s)
         /\ R!IsGzip(s) => s = Gzip(w)
<1>1. PICK f, n : f = Gzip(w) /\ n = Len(w)
  OBVIOUS
<1>2. /\ f \in Seq(Token) /\ n \in Nat /\ Len(f) = n + 3
      /\ f[1] = "1" /\ f[2] = "2" /\ f[n + 3] = "T"
      /\ \A j \in 1..n : f[j + 2] # "T"
  BY <1>1, FileOfText, CharsAssumption, MarksAre
<1>3. PICK rest \in Seq(Token) : f = s \o rest
  BY <1>1 DEF Begins
<1>4. /\ Len(s) \in Nat /\ Len(rest) \in Nat /\ Len(f) = Len(s) + Len(rest)
      /\ \A i \in 1..(Len(s) + Len(rest)) :
           f[i] = IF i <= Len(s) THEN s[i] ELSE rest[i - Len(s)]
  BY <1>3, LenProperties, ConcatProperties
<1>5. \A i \in 1..Len(s) : s[i] = f[i]
  BY <1>4
<1>6. Len(s) >= 2 => IsMember(s)
  BY <1>2, <1>4, <1>5 DEF IsMember
<1>7. ASSUME R!IsGzip(s) PROVE s = f
  <2>1. Len(s) \in DOMAIN s /\ s[Len(s)] = "T"
    BY <1>7 DEF R!IsGzip, R!Trailers
  <2>2. Len(s) \in 1..Len(s) /\ f[Len(s)] = "T"
    BY <1>4, <1>5, <2>1, LenProperties
  <2>3. Len(s) # 1 /\ Len(s) # 2
    BY <1>2, <2>2
  <2>4. ~(Len(s) - 2 \in 1..n)
    <3> SUFFICES ASSUME Len(s) - 2 \in 1..n PROVE FALSE
      OBVIOUS
    <3>1. PICK m \in 1..n : m = Len(s) - 2
      OBVIOUS
    <3>2. m + 2 = Len(s)
      BY <1>2, <1>4, <3>1
    <3>3. f[m + 2] # "T"
      BY <1>2
    <3> QED BY <2>2, <3>2, <3>3
  <2>5. Len(s) = n + 3 /\ Len(rest) = 0
    BY <1>2, <1>4, <2>2, <2>3, <2>4
  <2>6. rest = << >>
    BY <2>5, EmptySeq
  <2> QED BY <1>3, <2>6, ConcatEmptySeq
<1> QED BY <1>1, <1>6, <1>7

\* What the application writes to a GzipOStream and closes with success a
\* GzipIStream gives back, character by character, and refuses for no reason of
\* the file; and a file whose close failed or whose writer died reads to its end
\* only when nothing is missing.  For texts, put areas and chunks of any size.
THEOREM WrittenIsReadBack == StreamsSpec => []ReadBackWhole
<1>1. LeftInv /\ ReaderInv => ReadBackWhole
  <2>1. SUFFICES ASSUME LeftInv, ReaderInv PROVE ReadBackWhole
    OBVIOUS
  <2>2. /\ written \in Seq(Range(Chars)) /\ opens \in Nat
        /\ disk = << >> \/ (opens > 0 /\ disk \in Seq(Token) /\ Begins(disk, Gzip(written)))
           \/ (opens = 0 /\ ~closed)
    BY <2>1 DEF LeftInv, TextIsText, Unwritten, Begun, WriterInv, WriterType
  <2>3. Len(<< >>) = 0
    BY EmptySeq
  <2>4. ASSUME ended, opens > 0, Len(disk) >= 2 PROVE out = written
    <3>1. disk # << >>
      BY <2>3, <2>4
    <3>2. disk \in Seq(Token) /\ Begins(disk, Gzip(written))
      BY <2>2, <2>4, <3>1
    <3>3. rpc # "closed"
      BY <2>1, <2>4 DEF ReaderInv, ShutOK
    <3>4. IsMember(disk)
      BY <2>2, <2>4, <3>2, WholeOrCut
    <3>5. ~direct
      BY <2>1, <3>3, <3>4 DEF ReaderInv, SniffOK
    <3>6. R!IsGzip(disk) /\ out = R!Content(disk)
      BY <2>1, <2>4, <3>3, <3>5, MemberFacts DEF ToldOK
    <3>7. disk = Gzip(written)
      BY <2>2, <3>2, <3>6, WholeOrCut
    <3> QED BY <2>2, <3>6, <3>7, FileMeansText
  <2>5. ASSUME rfailed, closed, ~faulted PROVE FALSE
    <3>1. rpc # "closed"
      BY <2>1, <2>5 DEF ReaderInv, ShutOK
    <3>2. ~direct
      BY <2>1, <2>5, <3>1 DEF ReaderInv, RawOK
    <3>3. ~R!IsGzip(disk)
      BY <2>1, <2>5, <3>1, <3>2, MemberFacts DEF ToldOK
    <3>4. IsMember(disk)
      BY <2>1, <3>1, <3>2 DEF ReaderInv, SniffOK
    <3>5. disk # << >>
      BY <2>3, <3>4 DEF IsMember
    <3>6. opens > 0
      BY <2>2, <2>5, <3>5
    <3>7. disk = Gzip(written)
      BY <2>1, <2>5, <3>6 DEF LeftInv, Unwritten, WriterInv, KeptClosed
    <3> QED BY <2>2, <3>3, <3>7, FileIsGzip
  <2> QED BY <2>4, <2>5 DEF ReadBackWhole
<1> QED BY <1>1, StreamsInvariant, PTL
=============================================================================
