------------------------ MODULE Computations_proofs ------------------------
(***************************************************************************)
(* The computations that are right for every input, not only for those a   *)
(* checker enumerates: the cut and the crop of any rectangle of any image  *)
(* (RectangleCut), the network and the training schedule of a project of   *)
(* any number of classes and images (Yolov4CfgWriter), the two zlib loops  *)
(* on any buffer in parts and chunks of any size (ZlibBuffers), the        *)
(* extension of a downloaded image of any path and content type            *)
(* (CacheName), the names of any bytes in the documents of the layouts     *)
(* (QuotedText, EscapedText) and the JSON of a network cfg of any lines    *)
(* (CfgJson).                                                              *)
(***************************************************************************)
EXTENDS RectangleCut, Yolov4CfgWriter, CfgJson, ZlibBuffers, CacheName, EscapedText,
        SequenceTheorems, WellFoundedInduction, TLAPS

CutSpec == Draw /\ [][Redraw]_<<x, width, side>>

\* A rectangle has whole coordinates, an image has a pixel.
Drawable == x \in Int /\ width \in Int /\ side \in Nat \ {0}

\* The greater and the smaller of two numbers, for std::max and std::min.
LEMMA MaxOfTwo ==
  ASSUME NEW a \in Int, NEW b \in Int
  PROVE  Max({a, b}) = IF a >= b THEN a ELSE b
<1>1. CASE a >= b
  <2>1. \A m \in {a, b} : (\A y \in {a, b} : m >= y) <=> m = a
    BY <1>1
  <2> QED BY <1>1, <2>1 DEF Max
<1>2. CASE ~(a >= b)
  <2>1. \A m \in {a, b} : (\A y \in {a, b} : m >= y) <=> m = b
    BY <1>2
  <2> QED BY <1>2, <2>1 DEF Max
<1> QED BY <1>1, <1>2

LEMMA MinOfTwo ==
  ASSUME NEW a \in Int, NEW b \in Int
  PROVE  Min({a, b}) = IF a <= b THEN a ELSE b
<1>1. CASE a <= b
  <2>1. \A m \in {a, b} : (\A y \in {a, b} : m <= y) <=> m = a
    BY <1>1
  <2> QED BY <1>1, <2>1 DEF Min
<1>2. CASE ~(a <= b)
  <2>1. \A m \in {a, b} : (\A y \in {a, b} : m <= y) <=> m = b
    BY <1>2
  <2> QED BY <1>2, <2>1 DEF Min
<1> QED BY <1>1, <1>2

\* std::clamp to the pixels of the image.
LEMMA ClampOfImage ==
  ASSUME NEW v \in Int, NEW limit \in Nat
  PROVE  clamp(v, 0, limit) = IF v < 0 THEN 0 ELSE IF v > limit THEN limit ELSE v
<1>1. Min({v, limit}) = IF v <= limit THEN v ELSE limit
  BY MinOfTwo
<1>2. Min({v, limit}) \in Int
  BY <1>1
<1>3. Max({0, Min({v, limit})})
        = IF 0 >= Min({v, limit}) THEN 0 ELSE Min({v, limit})
  BY <1>2, MaxOfTwo
<1> QED BY <1>1, <1>3 DEF clamp

\* The pixels drawn over lie between the sorted edges.
LEMMA DrawnBetweenEdges ==
  ASSUME Drawable
  PROVE  Drawn = {p \in Int : /\ (IF width >= 0 THEN x ELSE x + width) <= p
                              /\ p < (IF width >= 0 THEN x + width ELSE x)}
<1>1. Min({width, 0}) = IF width <= 0 THEN width ELSE 0
  BY MinOfTwo DEF Drawable
<1>2. Max({width, 0}) = IF width >= 0 THEN width ELSE 0
  BY MaxOfTwo DEF Drawable
<1> QED BY <1>1, <1>2 DEF Drawable, Drawn

\* The cut leaves exactly the drawn pixels the image has.
LEMMA CutOfAnyRectangle ==
  ASSUME Drawable
  PROVE  CutIsOverlap
<1> DEFINE x1 == IF width >= 0 THEN x ELSE x + width
           x2 == IF width >= 0 THEN x + width ELSE x
           cut == clamp_into_image(x, width, side)
<1>1. Min({x, x + width}) = x1 /\ Max({x, x + width}) = x2
  BY MinOfTwo, MaxOfTwo DEF Drawable
<1>2. x1 \in Int /\ x2 \in Int /\ x1 <= x2
  BY DEF Drawable
<1> HIDE DEF x1, x2
<1>3. /\ cut.left = clamp(x1, 0, side)
      /\ cut.right = clamp(x2, 0, side)
      /\ cut.truncated <=> clamp(x1, 0, side) # x1 \/ clamp(x2, 0, side) # x2
  BY <1>1 DEF clamp_into_image
<1>4. /\ clamp(x1, 0, side) = IF x1 < 0 THEN 0 ELSE IF x1 > side THEN side ELSE x1
      /\ clamp(x2, 0, side) = IF x2 < 0 THEN 0 ELSE IF x2 > side THEN side ELSE x2
  BY <1>2, ClampOfImage DEF Drawable
<1>5. Drawn = {p \in Int : x1 <= p /\ p < x2}
  BY DrawnBetweenEdges DEF x1, x2
<1>6. Image = {p \in Int : 0 <= p /\ p < side}
  BY DEF Image, Drawable
<1> HIDE DEF cut
<1> DEFINE left == {p \in Image : cut.left <= p /\ p < cut.right}
<1>7. left = Drawn \cap Image
  BY <1>2, <1>3, <1>4, <1>5, <1>6 DEF Drawable
<1>8. ASSUME left # {}
      PROVE  cut.truncated <=> ~(Drawn \subseteq Image)
  <2>1. PICK p \in Int : x1 <= p /\ p < x2 /\ 0 <= p /\ p < side
    BY <1>5, <1>6, <1>7, <1>8
  <2>2. cut.truncated <=> x1 < 0 \/ x2 > side
    BY <1>2, <1>3, <1>4, <2>1 DEF Drawable
  <2>3. x1 \in Drawn /\ x2 - 1 \in Drawn
    BY <1>2, <1>5, <2>1
  <2>4. x1 < 0 \/ x2 > side => ~(Drawn \subseteq Image)
    BY <1>2, <1>6, <2>3 DEF Drawable
  <2>5. ~(x1 < 0 \/ x2 > side) => Drawn \subseteq Image
    BY <1>2, <1>5, <1>6 DEF Drawable
  <2> QED BY <2>2, <2>4, <2>5
<1> QED BY <1>7, <1>8 DEF CutIsOverlap, cut

\* A crop never asks for what the image does not have, and has all of the
\* drawn pixels of the image.
LEMMA CropOfAnyRectangle ==
  ASSUME Drawable
  PROVE  CropIsInside
<1> DEFINE start == IF x > 0 THEN x ELSE 0
           length == IF width <= side - start THEN width ELSE side - start
           crop == crop_out_2_fs(x, width, side)
<1>1. Max({0, x}) = start /\ start \in Int
  BY MaxOfTwo DEF Drawable
<1>2. Min({width, side - start}) = length /\ length \in Int
  BY <1>1, MinOfTwo DEF Drawable
<1>3. crop.start = start /\ crop.length = length
  BY <1>1, <1>2 DEF crop_out_2_fs
<1> HIDE DEF crop
<1> DEFINE got == crop.start..(crop.start + crop.length - 1)
<1>4. SUFFICES ASSUME crop.length > 0
               PROVE  got \subseteq Image /\ Drawn \cap Image \subseteq got
  BY DEF CropIsInside, crop
<1>5. width > 0
  BY <1>3, <1>4 DEF Drawable
<1>6. got = {p \in Int : start <= p /\ p < start + length}
  BY <1>1, <1>2, <1>3
<1>7. Image = {p \in Int : 0 <= p /\ p < side}
  BY DEF Image, Drawable
<1>8. Drawn = {p \in Int : x <= p /\ p < x + width}
  BY <1>5, DrawnBetweenEdges DEF Drawable
<1> QED BY <1>5, <1>6, <1>7, <1>8 DEF Drawable

\* Whatever rectangles are drawn, over whatever edge and from whatever corner,
\* on an image of any size, neither the cut of the descriptors nor the crop
\* loses a drawn pixel of the image (clamp_into_image in
\* PascalVoc2FolderExporter.cpp, crop_out_2_fs in OpenCVImageCropper.cpp).
THEOREM NoPixelIsEverLost == CutSpec => []NoPixelIsLost
<1>1. Draw => Drawable
  BY AxisAssumption DEF Draw, Drawable
<1>2. Drawable /\ [Redraw]_<<x, width, side>> => Drawable'
  BY AxisAssumption DEF Redraw, Drawable
<1>3. Drawable => NoPixelIsLost
  BY CutOfAnyRectangle, CropOfAnyRectangle DEF NoPixelIsLost
<1> QED BY <1>1, <1>2, <1>3, PTL DEF CutSpec
-----------------------------------------------------------------------------
ScheduleSpec ==
  StartNetwork /\ [][section]_<<classes, images, net, shapes>>

Counts == classes \in Nat /\ images \in Nat

\* The iterations are the greatest of the three.
LEMMA IterationsType ==
  ASSUME NEW count \in Nat, NEW exported \in Nat
  PROVE  /\ iterations(count, exported) \in Nat
         /\ iterations(count, exported) >= 6000
         /\ iterations(count, exported) >= 2000 * count
         /\ iterations(count, exported) >= exported
<1> DEFINE S == {6000, count * 2000, exported}
<1>1. \A i \in S : i \in Nat
  OBVIOUS
<1>2. \E i \in S : \A j \in S : i >= j
  BY <1>1
<1>3. /\ iterations(count, exported) \in S
      /\ \A j \in S : iterations(count, exported) >= j
  BY <1>2 DEF iterations, Max
<1> QED BY <1>1, <1>3

\* Percentages of a count that is not small.
LEMMA Percentages ==
  ASSUME NEW n \in Nat, n >= 6000
  PROVE  /\ 1000 < (n * 80) \div 100
         /\ (n * 80) \div 100 < (n * 90) \div 100
         /\ (n * 90) \div 100 < n
OBVIOUS

\* The learning rate rises before it falls and has iterations left after the
\* last fall, and each class and image has its own, in every project.
THEOREM ScheduleAlwaysHolds == ScheduleSpec => []ScheduleHolds
<1>1. StartNetwork => Counts
  BY CountsAssumption DEF StartNetwork, Counts
<1>2. Counts /\ [section]_<<classes, images, net, shapes>> => Counts'
  BY DEF Counts, section
<1>3. Counts => ScheduleHolds
  <2> SUFFICES ASSUME Counts PROVE ScheduleHolds
    OBVIOUS
  <2>1. PICK n : n = iterations(classes, images)
    OBVIOUS
  <2>2. n \in Nat /\ n >= 6000 /\ n >= 2000 * classes /\ n >= images
    BY <2>1, IterationsType DEF Counts
  <2>3. net_section(classes, images)
          = [burn_in |-> 1000, max_batches |-> n,
             steps |-> <<(n * 80) \div 100, (n * 90) \div 100>>]
    BY <2>1 DEF net_section
  <2> QED BY <2>2, <2>3, Percentages DEF ScheduleHolds
<1> QED BY <1>1, <1>2, <1>3, PTL DEF ScheduleSpec

-----------------------------------------------------------------------------
(* Buffers through zlib *)

BufferSpec == StartCall /\ [][CallStep]_buffers

BuffersType ==
  /\ call \in {"compress", "uncompress"}
  /\ stage \in {"part", "codec", "end", "failed"}
  /\ rc \in {"ok", "end", "error"}
  /\ input \in Seq(Int) /\ avail \in Seq(Int) /\ held \in Seq(Int) /\ out \in Seq(Int)
  /\ offset \in 0..Len(input)

\* A buffer to be compressed has no byte that would end a stream.  Of what the
\* deflate was given nothing is lost and nothing is out of place, until it has
\* written everything with the end.
CompressesInOrder ==
  call = "compress" =>
    /\ \A k \in 1..Len(input) : input[k] > 0
    /\ rc # "error"
    /\ rc = "ok" =>
         /\ Len(out) + Len(held) + Len(avail) = offset
         /\ \A k \in 1..Len(out) : out[k] = input[k]
         /\ \A k \in 1..Len(held) : held[k] = input[Len(out) + k]
         /\ \A k \in 1..Len(avail) : avail[k] = input[Len(out) + Len(held) + k]
         /\ stage = "part" => avail = << >>
         /\ stage # "end"
    /\ rc = "end" =>
         /\ out = Append(input, End) /\ held = << >> /\ avail = << >>
         /\ offset = Len(input) /\ stage \in {"codec", "end"}

\* What the inflate has given is what the stream begins with, all of it bytes;
\* it stands before what it was given and has not taken, before the end of the
\* stream or before what the format forbids.
InflatesInOrder ==
  call = "uncompress" =>
    /\ Len(out) <= Len(input)
    /\ \A k \in 1..Len(out) : out[k] = input[k] /\ input[k] > 0
    /\ rc = "ok" =>
         /\ Len(out) + Len(avail) = offset
         /\ \A k \in 1..Len(avail) : avail[k] = input[Len(out) + k]
         /\ stage \in {"part", "end"} => avail = << >>
         /\ stage = "end" => offset = Len(input)
    /\ rc = "end" =>
         stage = "end" /\ Len(out) < Len(input) /\ input[Len(out) + 1] = End
    /\ rc = "error" =>
         stage = "failed" /\ Len(out) < Len(input) /\ input[Len(out) + 1] = Bad

BuffersInv == BuffersType /\ CompressesInOrder /\ InflatesInOrder

\* Part of a sequence.
LEMMA PartOfSeq ==
  ASSUME NEW T, NEW s \in Seq(T), NEW m \in Nat, NEW n \in 0..Len(s)
  PROVE  /\ SubSeq(s, m + 1, n) \in Seq(T)
         /\ Len(SubSeq(s, m + 1, n)) = IF m < n THEN n - m ELSE 0
         /\ \A k \in 1..(n - m) : SubSeq(s, m + 1, n)[k] = s[m + k]
<1>1. \A k \in (m + 1)..n : s[k] \in T
  BY ElementOfSeq
<1>2. m + 1 \in Int /\ n \in Int
  OBVIOUS
<1>3. /\ SubSeq(s, m + 1, n) \in Seq(T)
      /\ Len(SubSeq(s, m + 1, n)) = IF m + 1 <= n THEN n - (m + 1) + 1 ELSE 0
      /\ \A k \in 1..(n - (m + 1) + 1) : SubSeq(s, m + 1, n)[k] = s[(m + 1) + k - 1]
  BY <1>1, <1>2, SubSeqProperties
<1> QED BY <1>3

LEMMA BuffersStart == StartCall => BuffersInv
<1> SUFFICES ASSUME StartCall PROVE BuffersInv
  OBVIOUS
<1>1. CASE call = "compress"
  <2>1. PICK n \in 0..MaxBuffer : input = [k \in 1..n |-> k]
    BY <1>1 DEF StartCall, Plain
  <2>2. n \in Nat
    BY BufferAssumption
  <2>3. input \in Seq(Int) /\ Len(input) = n /\ \A k \in 1..n : input[k] = k
    BY <2>1, <2>2
  <2> QED
    BY <1>1, <2>2, <2>3 DEF StartCall, BuffersInv, BuffersType, CompressesInOrder, InflatesInOrder
<1>2. CASE call = "uncompress"
  <2>1. PICK n \in 1..MaxBuffer : \E f \in [1..n -> {End, Bad, 1}] :
          input = [k \in 1..n |-> IF f[k] = 1 THEN k ELSE f[k]]
    BY <1>2 DEF StartCall, Compressed
  <2>2. PICK f \in [1..n -> {End, Bad, 1}] :
          input = [k \in 1..n |-> IF f[k] = 1 THEN k ELSE f[k]]
    BY <2>1
  <2>3. n \in Nat
    BY BufferAssumption
  <2>4. \A k \in 1..n : (IF f[k] = 1 THEN k ELSE f[k]) \in Int
    BY <2>3 DEF End, Bad
  <2>5. input \in Seq(Int)
    BY <2>2, <2>3, <2>4
  <2> QED
    BY <1>2, <2>5 DEF StartCall, BuffersInv, BuffersType, CompressesInOrder, InflatesInOrder
<1> QED BY <1>1, <1>2 DEF StartCall

\* A part is never longer than what is left.
LEMMA PartType ==
  ASSUME NEW size \in Nat, NEW from \in 0..size
  PROVE  part_of(size, from) \in 0..(size - from)
<1>1. PART \in Nat /\ size - from \in Int
  BY BufferAssumption
<1>2. Min({PART, size - from}) = IF PART <= size - from THEN PART ELSE size - from
  BY <1>1, MinOfTwo
<1> QED BY <1>1, <1>2 DEF part_of

LEMMA NextPartInv == BuffersInv /\ NextPart => BuffersInv'
<1> SUFFICES ASSUME BuffersInv, NextPart PROVE BuffersInv'
  OBVIOUS
<1> DEFINE part == part_of(Len(input), offset)
<1>1. part \in 0..(Len(input) - offset)
  <2>1. Len(input) \in Nat /\ offset \in 0..Len(input)
    BY DEF BuffersInv, BuffersType
  <2> QED BY <2>1, PartType
<1>2. /\ stage = "part" /\ stage' = "codec" /\ rc' = rc
      /\ call' = call /\ input' = input /\ held' = held /\ out' = out
      /\ avail' = SubSeq(input, offset + 1, offset + part) /\ offset' = offset + part
  BY DEF NextPart
<1>3. /\ avail' \in Seq(Int) /\ Len(avail') = part
      /\ \A k \in 1..part : avail'[k] = input[offset + k]
  <2>1. offset \in Nat /\ input \in Seq(Int) /\ offset + part \in 0..Len(input)
    BY <1>1 DEF BuffersInv, BuffersType
  <2>2. /\ SubSeq(input, offset + 1, offset + part) \in Seq(Int)
        /\ Len(SubSeq(input, offset + 1, offset + part))
             = IF offset < offset + part THEN (offset + part) - offset ELSE 0
        /\ \A k \in 1..((offset + part) - offset) :
             SubSeq(input, offset + 1, offset + part)[k] = input[offset + k]
    BY <2>1, PartOfSeq
  <2>3. part \in Nat /\ (offset + part) - offset = part
    BY <1>1, <2>1
  <2> HIDE DEF part
  <2> QED BY <1>2, <2>1, <2>2, <2>3
<1> HIDE DEF part
<1>4. BuffersType'
  <2>1. offset \in Int /\ Len(input) \in Nat /\ offset + part \in 0..Len(input)
    BY <1>1 DEF BuffersInv, BuffersType
  <2> QED BY <1>2, <1>3, <2>1 DEF BuffersInv, BuffersType
<1>5. CompressesInOrder'
  <2> SUFFICES ASSUME call = "compress" PROVE CompressesInOrder'
    BY <1>2 DEF CompressesInOrder
  <2>1. rc = "ok" /\ avail = << >>
    BY <1>2 DEF BuffersInv, BuffersType, CompressesInOrder
  <2>2. Len(avail) = 0
    BY <2>1
  <2>3. Len(out) + Len(held) = offset
    BY <2>1, <2>2 DEF BuffersInv, BuffersType, CompressesInOrder
  <2> QED BY <1>1, <1>2, <1>3, <2>1, <2>3 DEF BuffersInv, BuffersType, CompressesInOrder
<1>6. InflatesInOrder'
  <2> SUFFICES ASSUME call = "uncompress" PROVE InflatesInOrder'
    BY <1>2 DEF InflatesInOrder
  <2>1. rc = "ok" /\ avail = << >> /\ Len(out) = offset
    BY <1>2 DEF BuffersInv, BuffersType, InflatesInOrder
  <2> QED BY <1>1, <1>2, <1>3, <2>1 DEF BuffersInv, BuffersType, InflatesInOrder
<1> QED BY <1>4, <1>5, <1>6 DEF BuffersInv

\* What is written from the front of what is at hand goes on where the output
\* has ended.
LEMMA WrittenAfter ==
  ASSUME NEW s \in Seq(Int), NEW t \in Seq(Int), NEW m \in 0..Len(t)
  PROVE  /\ s \o SubSeq(t, 1, m) \in Seq(Int)
         /\ Len(s \o SubSeq(t, 1, m)) = Len(s) + m
         /\ \A k \in 1..Len(s) : (s \o SubSeq(t, 1, m))[k] = s[k]
         /\ \A k \in 1..m : (s \o SubSeq(t, 1, m))[Len(s) + k] = t[k]
<1> DEFINE u == SubSeq(t, 1, m)
<1>1. u \in Seq(Int) /\ Len(u) = m /\ \A k \in 1..m : u[k] = t[k]
  <2>1. /\ SubSeq(t, 0 + 1, m) \in Seq(Int)
        /\ Len(SubSeq(t, 0 + 1, m)) = IF 0 < m THEN m - 0 ELSE 0
        /\ \A k \in 1..(m - 0) : SubSeq(t, 0 + 1, m)[k] = t[0 + k]
    BY PartOfSeq
  <2>2. 0 + 1 = 1 /\ m \in Nat /\ Len(t) \in Nat
    OBVIOUS
  <2>3. \A k \in 1..m : t[0 + k] = t[k]
    BY <2>2
  <2> QED BY <2>1, <2>2, <2>3
<1> HIDE DEF u
<1>2. /\ s \o u \in Seq(Int) /\ Len(s \o u) = Len(s) + Len(u)
      /\ \A k \in 1..(Len(s) + Len(u)) :
           (s \o u)[k] = IF k <= Len(s) THEN s[k] ELSE u[k - Len(s)]
  BY <1>1, ConcatProperties
<1>3. Len(s) \in Nat /\ m \in Nat
  OBVIOUS
<1>4. \A k \in 1..Len(s) : (s \o u)[k] = s[k]
  BY <1>1, <1>2, <1>3
<1>5. \A k \in 1..m : (s \o u)[Len(s) + k] = t[k]
  <2> TAKE k \in 1..m
  <2>1. /\ Len(s) + k \in 1..(Len(s) + Len(u)) /\ ~(Len(s) + k <= Len(s))
        /\ (Len(s) + k) - Len(s) = k
    BY <1>1, <1>3
  <2> QED BY <1>1, <1>2, <2>1
<1> QED BY <1>1, <1>2, <1>4, <1>5 DEF u

\* The deflate that is called once more after its end: it gives nothing.
LEMMA DeflateEnded ==
  ASSUME BuffersInv, Deflate, rc = "end"
  PROVE  BuffersInv'
<1>1. /\ call = "compress" /\ out = Append(input, End) /\ held = << >> /\ avail = << >>
      /\ offset = Len(input) /\ \A k \in 1..Len(input) : input[k] > 0
  BY DEF BuffersInv, CompressesInOrder, Deflate
<1>2. End \in Range(out)
  <2>1. Len(input) + 1 \in DOMAIN out /\ out[Len(input) + 1] = End
    BY <1>1, AppendProperties DEF BuffersInv, BuffersType, End
  <2> QED BY <2>1 DEF Range
<1>3. PICK m \in 0..Min({CHUNK, Len(<< >>)}) :
        /\ out' = out \o SubSeq(<< >>, 1, m)
        /\ held' = SubSeq(held \o avail, m + 1, Len(held \o avail))
        /\ rc' = IF offset = Len(input) /\ m = Len(<< >>) THEN "end" ELSE "ok"
        /\ AfterCompress(m = CHUNK)
  BY <1>2 DEF Deflate
<1>4. CHUNK \in Nat \ {0}
  BY BufferAssumption
<1>5. m = 0
  <2>1. Min({CHUNK, 0}) = 0
    BY <1>4, MinOfTwo
  <2>2. Len(<< >>) = 0
    OBVIOUS
  <2> QED BY <2>1, <2>2
<1>6. out' = out
  <2>1. SubSeq(<< >>, 1, 0) = << >>
    BY SubSeqEmpty
  <2>2. out \in Seq(Int)
    BY DEF BuffersInv, BuffersType
  <2> QED BY <1>3, <1>5, <2>1, <2>2, ConcatEmptySeq
<1>7. held' = << >>
  <2>1. held \o avail = << >>
    BY <1>1
  <2>2. SubSeq(<< >>, 0 + 1, 0) = << >>
    BY SubSeqEmpty
  <2> QED BY <1>3, <1>5, <2>1, <2>2
<1>8. rc' = "end"
  BY <1>1, <1>3, <1>5
<1>9. stage' = "end"
  BY <1>1, <1>3, <1>4, <1>5 DEF AfterCompress, BuffersInv, BuffersType
<1>10. avail' = << >> /\ call' = call /\ input' = input /\ offset' = offset
  BY DEF Deflate
<1> QED
  BY <1>1, <1>6, <1>7, <1>8, <1>9, <1>10
  DEF BuffersInv, BuffersType, CompressesInOrder, InflatesInOrder

\* Any other deflate goes on with what stands next in the buffer.
LEMMA DeflateGoesOn ==
  ASSUME BuffersInv, Deflate, rc # "end"
  PROVE  BuffersInv'
<1> DEFINE given  == held \o avail
           finish == offset = Len(input)
           all    == IF finish THEN Append(given, End) ELSE given
<1>1. /\ call = "compress" /\ rc = "ok" /\ stage = "codec"
      /\ \A k \in 1..Len(input) : input[k] > 0
      /\ Len(out) + Len(held) + Len(avail) = offset
      /\ \A k \in 1..Len(out) : out[k] = input[k]
      /\ \A k \in 1..Len(held) : held[k] = input[Len(out) + k]
      /\ \A k \in 1..Len(avail) : avail[k] = input[Len(out) + Len(held) + k]
  BY DEF BuffersInv, BuffersType, CompressesInOrder, Deflate
<1>2. /\ input \in Seq(Int) /\ avail \in Seq(Int) /\ held \in Seq(Int) /\ out \in Seq(Int)
      /\ offset \in 0..Len(input) /\ CHUNK \in Nat \ {0}
  BY BufferAssumption DEF BuffersInv, BuffersType
<1>3. /\ Len(input) \in Nat /\ Len(avail) \in Nat /\ Len(held) \in Nat /\ Len(out) \in Nat
  BY <1>2
<1>4. End \notin Range(out)
  <2>1. \A k \in DOMAIN out : out[k] > 0
    <3>1. DOMAIN out = 1..Len(out) /\ Len(out) <= Len(input)
      BY <1>1, <1>2, <1>3
    <3> QED BY <1>1, <1>3, <3>1
  <2> QED BY <2>1 DEF Range, End
<1>5. PICK m \in 0..Min({CHUNK, Len(all)}) :
        /\ out' = out \o SubSeq(all, 1, m)
        /\ m < CHUNK /\ finish => m = Len(all)
        /\ held' = SubSeq(given, m + 1, Len(given))
        /\ rc' = IF finish /\ m = Len(all) THEN "end" ELSE "ok"
        /\ AfterCompress(m = CHUNK)
  BY <1>4 DEF Deflate
<1>6. /\ given \in Seq(Int) /\ Len(given) = Len(held) + Len(avail)
      /\ \A k \in 1..Len(given) : given[k] = input[Len(out) + k]
  <2>1. /\ given \in Seq(Int) /\ Len(given) = Len(held) + Len(avail)
        /\ \A k \in 1..(Len(held) + Len(avail)) :
             given[k] = IF k <= Len(held) THEN held[k] ELSE avail[k - Len(held)]
    BY <1>2, ConcatProperties
  <2> HIDE DEF given
  <2>2. ASSUME NEW k \in 1..Len(given), k <= Len(held)
        PROVE  given[k] = input[Len(out) + k]
    <3>1. k \in 1..Len(held) /\ k \in 1..(Len(held) + Len(avail))
      BY <1>3, <2>1, <2>2
    <3>2. given[k] = held[k]
      BY <2>1, <2>2, <3>1
    <3> QED BY <1>1, <3>1, <3>2
  <2>3. ASSUME NEW k \in 1..Len(given), ~(k <= Len(held))
        PROVE  given[k] = input[Len(out) + k]
    <3>1. k - Len(held) \in 1..Len(avail) /\ Len(out) + Len(held) + (k - Len(held)) = Len(out) + k
      BY <1>3, <2>1, <2>3
    <3> QED BY <1>1, <2>1, <2>3, <3>1
  <2> QED BY <2>1, <2>2, <2>3
<1> HIDE DEF given
<1>7. Len(given) \in Nat /\ Len(out) + Len(given) = offset
  BY <1>1, <1>3, <1>6
<1>8. /\ all \in Seq(Int) /\ Len(all) = (IF finish THEN Len(given) + 1 ELSE Len(given))
      /\ \A k \in 1..Len(given) : all[k] = given[k]
      /\ finish => all[Len(given) + 1] = End
  BY <1>6, <1>7, AppendProperties DEF End
<1> HIDE DEF all
<1>9. m \in 0..Len(all) /\ m <= CHUNK
  <2>1. Len(all) \in Int /\ CHUNK \in Int
    BY <1>2, <1>7, <1>8
  <2>2. Min({CHUNK, Len(all)}) = IF CHUNK <= Len(all) THEN CHUNK ELSE Len(all)
    BY <2>1, MinOfTwo
  <2>3. Len(all) \in Nat
    BY <1>7, <1>8
  <2> QED BY <1>2, <1>5, <2>2, <2>3
<1>10. /\ out' \in Seq(Int) /\ Len(out') = Len(out) + m
       /\ \A k \in 1..Len(out) : out'[k] = out[k]
       /\ \A k \in 1..m : out'[Len(out) + k] = all[k]
  <2>1. /\ out \o SubSeq(all, 1, m) \in Seq(Int)
        /\ Len(out \o SubSeq(all, 1, m)) = Len(out) + m
        /\ \A k \in 1..Len(out) : (out \o SubSeq(all, 1, m))[k] = out[k]
        /\ \A k \in 1..m : (out \o SubSeq(all, 1, m))[Len(out) + k] = all[k]
    BY <1>2, <1>8, <1>9, WrittenAfter
  <2>2. out' = out \o SubSeq(all, 1, m)
    BY <1>5
  <2> QED BY ONLY <2>1, <2>2
<1>11. /\ held' \in Seq(Int) /\ Len(held') = IF m < Len(given) THEN Len(given) - m ELSE 0
       /\ \A k \in 1..(Len(given) - m) : held'[k] = given[m + k]
  <2>1. m \in Nat /\ Len(given) \in 0..Len(given)
    BY <1>7, <1>9
  <2> QED BY <1>5, <1>6, <2>1, PartOfSeq
<1>12. /\ avail' = << >> /\ call' = call /\ input' = input /\ offset' = offset
       /\ Len(avail') = 0
  BY DEF Deflate
<1>13. stage' \in {"part", "codec", "end"} /\ rc' \in {"ok", "end"}
  BY <1>5 DEF AfterCompress
<1>14. BuffersType'
  BY <1>1, <1>2, <1>10, <1>11, <1>12, <1>13 DEF BuffersType
<1>15. InflatesInOrder'
  BY <1>1, <1>12 DEF InflatesInOrder
<1>16. CASE finish /\ m = Len(all)
  <2>1. rc' = "end" /\ m = Len(given) + 1 /\ Len(out') = Len(input) + 1
    <3>1. rc' = "end" /\ m = Len(given) + 1
      BY <1>5, <1>8, <1>16
    <3>2. Len(out') = Len(out) + (Len(given) + 1)
      BY <1>10, <3>1
    <3> QED BY <1>3, <1>7, <1>16, <3>1, <3>2
  <2>2. held' = << >>
    <3>1. Len(held') = 0
      BY <1>7, <1>11, <2>1
    <3> QED BY <1>11, <3>1
  <2>3. out' = Append(input, End)
    <3>1. /\ Append(input, End) \in Seq(Int) /\ Len(Append(input, End)) = Len(input) + 1
          /\ \A k \in 1..Len(input) : Append(input, End)[k] = input[k]
          /\ Append(input, End)[Len(input) + 1] = End
      BY <1>2, AppendProperties DEF End
    <3>2. ASSUME NEW k \in 1..Len(out), k <= Len(input)
          PROVE  out'[k] = Append(input, End)[k]
      BY <1>1, <1>3, <1>10, <3>1, <3>2
    <3>3. ASSUME NEW k \in 1..Len(given)
          PROVE  out'[Len(out) + k] = Append(input, End)[Len(out) + k]
      <4>1. k \in 1..m /\ Len(out) + k \in 1..Len(input)
        BY <1>3, <1>7, <1>16, <2>1
      <4> QED BY <1>6, <1>8, <1>10, <3>1, <4>1
    <3>4. out'[Len(input) + 1] = End
      <4>1. m \in 1..m /\ Len(out) + m = Len(input) + 1
        BY <1>3, <1>7, <1>16, <2>1
      <4>2. out'[Len(out) + m] = all[m]
        BY <1>10, <4>1
      <4> QED BY <1>8, <1>16, <2>1, <4>1, <4>2
    <3>5. \A k \in 1..Len(out') : out'[k] = Append(input, End)[k]
      <4> TAKE k \in 1..Len(out')
      <4>1. CASE k <= Len(out)
        <5>1. k \in 1..Len(out) /\ k <= Len(input)
          BY <1>1, <1>2, <1>3, <1>7, <2>1, <4>1
        <5> QED BY <3>2, <5>1
      <4>2. CASE k = Len(input) + 1
        BY <3>1, <3>4, <4>2
      <4>3. CASE ~(k <= Len(out)) /\ k # Len(input) + 1
        <5>1. k - Len(out) \in 1..Len(given) /\ Len(out) + (k - Len(out)) = k
          BY <1>3, <1>7, <1>16, <2>1, <4>3
        <5> QED BY <3>3, <5>1
      <4> QED BY <4>1, <4>2, <4>3
    <3> QED BY <1>10, <2>1, <3>1, <3>5, SeqEqual
  <2>4. stage' \in {"codec", "end"}
    <3>1. ~(offset < Len(input))
      BY <1>3, <1>16
    <3> QED BY <1>5, <1>12, <3>1 DEF AfterCompress
  <2>5. CompressesInOrder'
    BY <1>1, <1>12, <1>16, <2>1, <2>2, <2>3, <2>4 DEF CompressesInOrder
  <2> QED BY <1>14, <1>15, <2>5 DEF BuffersInv
<1>17. CASE ~(finish /\ m = Len(all))
  <2>1. rc' = "ok" /\ m \in 0..Len(given)
    BY <1>5, <1>7, <1>8, <1>9, <1>17
  <2>2. stage' # "end"
    <3>1. CASE m = CHUNK
      BY <1>5, <3>1 DEF AfterCompress
    <3>2. CASE m # CHUNK
      <4>1. m < CHUNK
        BY <1>2, <1>9, <3>2
      <4>2. offset < Len(input)
        BY <1>2, <1>3, <1>5, <1>17, <4>1
      <4> QED BY <1>5, <3>2, <4>2 DEF AfterCompress
    <3> QED BY <3>1, <3>2
  <2>3. Len(held') = Len(given) - m /\ Len(out') + Len(held') + Len(avail') = offset
    <3>1. Len(held') = Len(given) - m
      BY <1>7, <1>11, <2>1
    <3>2. Len(out') = Len(out) + m
      BY <1>10
    <3> QED BY <1>3, <1>7, <1>12, <2>1, <3>1, <3>2
  <2>4. \A k \in 1..Len(out') : out'[k] = input[k]
    <3> TAKE k \in 1..Len(out')
    <3>1. CASE k <= Len(out)
      BY <1>1, <1>3, <1>10, <3>1
    <3>2. CASE ~(k <= Len(out))
      <4>1. k - Len(out) \in 1..m /\ k - Len(out) \in 1..Len(given) /\ Len(out) + (k - Len(out)) = k
        BY <1>3, <1>7, <1>10, <2>1, <3>2
      <4> QED BY <1>6, <1>8, <1>10, <4>1
    <3> QED BY <3>1, <3>2
  <2>5. \A k \in 1..Len(held') : held'[k] = input[Len(out') + k]
    <3> TAKE k \in 1..Len(held')
    <3>1. m + k \in 1..Len(given) /\ Len(out) + (m + k) = Len(out') + k /\ k \in 1..(Len(given) - m)
      BY <1>3, <1>7, <1>10, <2>1, <2>3
    <3> QED BY <1>6, <1>11, <3>1
  <2>6. \A k \in 1..Len(avail') : avail'[k] = input[Len(out') + Len(held') + k]
    BY <1>12
  <2>7. CompressesInOrder'
    BY <1>1, <1>12, <2>1, <2>2, <2>3, <2>4, <2>5, <2>6 DEF CompressesInOrder
  <2> QED BY <1>14, <1>15, <2>7 DEF BuffersInv
<1> QED BY <1>16, <1>17

LEMMA DeflateInv == BuffersInv /\ Deflate => BuffersInv'
  BY DeflateEnded, DeflateGoesOn

\* What an inflate has given goes on with the stream, and it leaves its part
\* where the rest of the stream begins, whatever it has come to.
LEMMA InflateInv == BuffersInv /\ Inflate => BuffersInv'
<1> SUFFICES ASSUME BuffersInv, Inflate PROVE BuffersInv'
  OBVIOUS
<1>1. /\ call = "uncompress" /\ stage = "codec" /\ rc = "ok"
      /\ \A k \in 1..Len(out) : out[k] = input[k] /\ input[k] > 0
      /\ Len(out) + Len(avail) = offset
      /\ \A k \in 1..Len(avail) : avail[k] = input[Len(out) + k]
  BY DEF BuffersInv, BuffersType, InflatesInOrder, Inflate
<1>2. /\ input \in Seq(Int) /\ avail \in Seq(Int) /\ held \in Seq(Int) /\ out \in Seq(Int)
      /\ offset \in 0..Len(input) /\ CHUNK \in Nat \ {0}
  BY BufferAssumption DEF BuffersInv, BuffersType
<1>3. Len(input) \in Nat /\ Len(avail) \in Nat /\ Len(out) \in Nat /\ CHUNK \in Int
  BY <1>2
<1>4. /\ call' = call /\ input' = input /\ offset' = offset /\ held' = held
  BY DEF Inflate
<1>5. PICK m \in 0..Min({CHUNK, Len(avail)}) :
        LET rest == SubSeq(avail, m + 1, Len(avail))
        IN  /\ \A k \in 1..m : avail[k] > 0
            /\ m < CHUNK /\ rest # << >> => Head(rest) <= 0
            /\ out' = out \o SubSeq(avail, 1, m)
            /\ \/ rest # << >> /\ Head(rest) = End /\ rc' = "end"
               \/ rest # << >> /\ Head(rest) = Bad /\ rc' = "error"
               \/ (rest = << >> \/ m = CHUNK) /\ rc' = "ok"
            /\ avail' = IF rc' = "end" THEN Tail(rest) ELSE rest
            /\ AfterUncompress(m = CHUNK)
  BY DEF Inflate
<1> DEFINE rest == SubSeq(avail, m + 1, Len(avail))
<1>6. /\ \A k \in 1..m : avail[k] > 0
      /\ out' = out \o SubSeq(avail, 1, m)
      /\ \/ rest # << >> /\ Head(rest) = End /\ rc' = "end"
         \/ rest # << >> /\ Head(rest) = Bad /\ rc' = "error"
         \/ (rest = << >> \/ m = CHUNK) /\ rc' = "ok"
      /\ avail' = IF rc' = "end" THEN Tail(rest) ELSE rest
      /\ AfterUncompress(m = CHUNK)
  BY <1>5
<1>7. m \in 0..Len(avail)
  <2>1. Min({CHUNK, Len(avail)}) = IF CHUNK <= Len(avail) THEN CHUNK ELSE Len(avail)
    BY <1>3, MinOfTwo
  <2> QED BY <1>3, <2>1
<1>8. /\ rest \in Seq(Int) /\ Len(rest) = Len(avail) - m
      /\ \A k \in 1..Len(rest) : rest[k] = avail[m + k]
  <2>1. m \in Nat /\ Len(avail) \in 0..Len(avail)
    BY <1>3, <1>7
  <2>2. /\ rest \in Seq(Int) /\ Len(rest) = IF m < Len(avail) THEN Len(avail) - m ELSE 0
        /\ \A k \in 1..(Len(avail) - m) : rest[k] = avail[m + k]
    BY <1>2, <2>1, PartOfSeq
  <2> HIDE DEF rest
  <2> QED BY <1>3, <1>7, <2>2
<1> HIDE DEF rest
<1>9. /\ out' \in Seq(Int) /\ Len(out') = Len(out) + m
      /\ \A k \in 1..Len(out) : out'[k] = out[k]
      /\ \A k \in 1..m : out'[Len(out) + k] = avail[k]
  <2>1. /\ out \o SubSeq(avail, 1, m) \in Seq(Int)
        /\ Len(out \o SubSeq(avail, 1, m)) = Len(out) + m
        /\ \A k \in 1..Len(out) : (out \o SubSeq(avail, 1, m))[k] = out[k]
        /\ \A k \in 1..m : (out \o SubSeq(avail, 1, m))[Len(out) + k] = avail[k]
    BY <1>2, <1>7, WrittenAfter
  <2>2. out' = out \o SubSeq(avail, 1, m)
    BY <1>6
  <2> QED BY ONLY <2>1, <2>2
<1>10. /\ Len(out') <= Len(input)
       /\ \A k \in 1..Len(out') : out'[k] = input[k] /\ input[k] > 0
  <2>1. Len(out') <= Len(input)
    BY <1>1, <1>2, <1>3, <1>7, <1>9
  <2>2. ASSUME NEW k \in 1..Len(out')
        PROVE  out'[k] = input[k] /\ input[k] > 0
    <3>1. CASE k <= Len(out)
      <4>1. k \in 1..Len(out)
        BY <1>3, <3>1
      <4> QED BY <1>1, <1>9, <4>1
    <3>2. CASE ~(k <= Len(out))
      <4>1. /\ k - Len(out) \in 1..m /\ k - Len(out) \in 1..Len(avail)
            /\ Len(out) + (k - Len(out)) = k
        BY <1>3, <1>7, <1>9, <3>2
      <4> QED BY <1>1, <1>6, <1>9, <4>1
    <3> QED BY <3>1, <3>2
  <2> QED BY <2>1, <2>2
<1>11. rest # << >> => /\ Len(out') < Len(input) /\ Head(rest) = input[Len(out') + 1]
                       /\ Tail(rest) \in Seq(Int)
  <2> SUFFICES ASSUME rest # << >>
               PROVE  /\ Len(out') < Len(input) /\ Head(rest) = input[Len(out') + 1]
                      /\ Tail(rest) \in Seq(Int)
    OBVIOUS
  <2>1. Len(rest) >= 1 /\ Head(rest) = rest[1] /\ Tail(rest) \in Seq(Int)
    BY <1>8, HeadTailProperties, EmptySeq
  <2>2. /\ 1 \in 1..Len(rest) /\ m + 1 \in 1..Len(avail) /\ Len(out') < Len(input)
        /\ Len(out) + (m + 1) = Len(out') + 1
    BY <1>1, <1>2, <1>3, <1>7, <1>8, <1>9, <2>1
  <2> QED BY <1>1, <1>8, <2>1, <2>2
<1>12. CASE rc' = "end"
  <2>1. rest # << >> /\ Head(rest) = End /\ avail' = Tail(rest)
    BY <1>6, <1>12
  <2>2. stage' = "end"
    BY <1>6, <1>12 DEF AfterUncompress
  <2>3. BuffersType'
    BY <1>1, <1>2, <1>4, <1>9, <1>11, <1>12, <2>1, <2>2 DEF BuffersType
  <2>4. InflatesInOrder' /\ CompressesInOrder'
    BY <1>1, <1>4, <1>10, <1>11, <1>12, <2>1, <2>2 DEF InflatesInOrder, CompressesInOrder
  <2> QED BY <2>3, <2>4 DEF BuffersInv
<1>13. CASE rc' = "error"
  <2>1. rest # << >> /\ Head(rest) = Bad /\ avail' = rest
    BY <1>6, <1>13
  <2>2. stage' = "failed"
    BY <1>6, <1>13 DEF AfterUncompress
  <2>3. BuffersType'
    BY <1>1, <1>2, <1>4, <1>8, <1>9, <1>13, <2>1, <2>2 DEF BuffersType
  <2>4. InflatesInOrder' /\ CompressesInOrder'
    BY <1>1, <1>4, <1>10, <1>11, <1>13, <2>1, <2>2 DEF InflatesInOrder, CompressesInOrder
  <2> QED BY <2>3, <2>4 DEF BuffersInv
<1>14. CASE rc' = "ok"
  <2>1. (rest = << >> \/ m = CHUNK) /\ avail' = rest
    BY <1>6, <1>14
  <2>2. stage' = IF m = CHUNK THEN "codec" ELSE IF offset < Len(input) THEN "part" ELSE "end"
    BY <1>6, <1>14 DEF AfterUncompress
  <2>3. stage' \in {"part", "end"} => avail' = << >>
    BY <2>1, <2>2
  <2>4. stage' = "end" => offset = Len(input)
    BY <1>2, <1>3, <2>2
  <2>5. Len(out') + Len(avail') = offset
    <3>1. Len(avail') = Len(avail) - m /\ Len(out') = Len(out) + m
      BY <1>8, <1>9, <2>1
    <3> QED BY <1>1, <1>3, <1>7, <3>1
  <2>6. \A k \in 1..Len(avail') : avail'[k] = input[Len(out') + k]
    <3> TAKE k \in 1..Len(avail')
    <3>1. /\ k \in 1..Len(rest) /\ m + k \in 1..Len(avail)
          /\ Len(out) + (m + k) = Len(out') + k
      BY <1>3, <1>7, <1>8, <1>9, <2>1
    <3> QED BY <1>1, <1>8, <2>1, <3>1
  <2>7. BuffersType'
    BY <1>1, <1>2, <1>4, <1>8, <1>9, <1>14, <2>1, <2>2 DEF BuffersType
  <2>8. InflatesInOrder' /\ CompressesInOrder'
    BY <1>1, <1>4, <1>10, <1>14, <2>3, <2>4, <2>5, <2>6 DEF InflatesInOrder, CompressesInOrder
  <2> QED BY <2>7, <2>8 DEF BuffersInv
<1> QED BY <1>6, <1>12, <1>13, <1>14

\* What stands before the first token which is none.
LEMMA LeadingIs ==
  ASSUME NEW b \in Seq(Int), NEW n \in 0..Len(b), \A j \in 1..n : b[j] > 0,
         n < Len(b) => b[n + 1] <= 0
  PROVE  /\ Leading(b) \in Seq(Int) /\ Len(Leading(b)) = n
         /\ \A k \in 1..n : Leading(b)[k] = b[k]
<1> DEFINE S == {i \in 0..Len(b) : \A j \in 1..i : b[j] > 0}
<1>0. Len(b) \in Nat /\ n \in Nat
  OBVIOUS
<1>1. n \in S /\ \A y \in S : n >= y
  <2>1. n \in S
    OBVIOUS
  <2>2. ASSUME NEW y \in S, ~(n >= y)
        PROVE  FALSE
    <3>1. n + 1 \in 1..y /\ n < Len(b)
      BY <1>0, <2>2
    <3>2. b[n + 1] \in Int /\ b[n + 1] > 0 /\ b[n + 1] <= 0
      BY <1>0, <2>2, <3>1, ElementOfSeq
    <3> QED BY <3>2
  <2> QED BY <2>1, <2>2
<1>2. \A i \in S : (\A y \in S : i >= y) <=> i = n
  BY <1>0, <1>1
<1> HIDE DEF S
<1>3. Max(S) = n
  BY <1>1, <1>2 DEF Max
<1>4. Leading(b) = SubSeq(b, 1, n)
  BY <1>3 DEF Leading, S
<1>5. /\ SubSeq(b, 0 + 1, n) \in Seq(Int)
      /\ Len(SubSeq(b, 0 + 1, n)) = IF 0 < n THEN n - 0 ELSE 0
      /\ \A k \in 1..(n - 0) : SubSeq(b, 0 + 1, n)[k] = b[0 + k]
  BY PartOfSeq
<1>6. 0 + 1 = 1 /\ n - 0 = n /\ \A k \in 1..n : b[0 + k] = b[k]
  BY <1>0
<1> QED BY <1>0, <1>4, <1>5, <1>6

LEMMA BuffersInvReadsBack == BuffersInv => BuffersReadBack
<1> SUFFICES ASSUME BuffersInv PROVE BuffersReadBack
  OBVIOUS
<1>1. CASE call = "compress"
  <2>1. rc # "error" /\ (stage = "end" => rc = "end" /\ out = Append(input, End))
    BY <1>1 DEF BuffersInv, BuffersType, CompressesInOrder
  <2> QED BY <1>1, <2>1 DEF BuffersReadBack, returned
<1>2. CASE call = "uncompress"
  <2>1. /\ input \in Seq(Int) /\ out \in Seq(Int) /\ Len(out) \in 0..Len(input)
        /\ \A k \in 1..Len(out) : out[k] = input[k] /\ input[k] > 0
    BY <1>2 DEF BuffersInv, BuffersType, InflatesInOrder
  <2>2. ASSUME Len(out) < Len(input) => input[Len(out) + 1] <= 0
        PROVE  Leading(input) = out
    <3>1. /\ Leading(input) \in Seq(Int) /\ Len(Leading(input)) = Len(out)
          /\ \A k \in 1..Len(out) : Leading(input)[k] = input[k]
      BY <2>1, <2>2, LeadingIs
    <3>2. \A k \in 1..Len(Leading(input)) : Leading(input)[k] = out[k]
      BY <2>1, <3>1
    <3> QED BY <2>1, <3>1, <3>2, SeqEqual
  <2>3. ASSUME rc = "end" PROVE BuffersReadBack
    <3>1. stage = "end" /\ Len(out) < Len(input) /\ input[Len(out) + 1] = End
      BY <1>2, <2>3 DEF BuffersInv, InflatesInOrder
    <3>2. Leading(input) = out
      BY <2>2, <3>1 DEF End
    <3>3. IsComplete(input)
      BY <3>1, <3>2 DEF IsComplete
    <3> QED BY <1>2, <2>3, <3>1, <3>2, <3>3 DEF BuffersReadBack, returned
  <2>4. ASSUME rc = "error" PROVE BuffersReadBack
    <3>1. stage = "failed" /\ Len(out) < Len(input) /\ input[Len(out) + 1] = Bad
      BY <1>2, <2>4 DEF BuffersInv, InflatesInOrder
    <3>2. Leading(input) = out
      BY <2>2, <3>1 DEF Bad
    <3>3. ~IsComplete(input)
      BY <3>1, <3>2 DEF IsComplete, End, Bad
    <3> QED BY <3>1, <3>3 DEF BuffersReadBack
  <2>5. ASSUME rc = "ok", stage = "end" PROVE BuffersReadBack
    <3>1. Len(out) + Len(avail) = offset /\ offset = Len(input) /\ avail = << >>
      BY <1>2, <2>5 DEF BuffersInv, InflatesInOrder
    <3>2. Len(out) = Len(input)
      <4>1. Len(avail) = 0 /\ Len(out) \in Nat
        BY <2>1, <3>1
      <4> QED BY <3>1, <4>1
    <3>3. Leading(input) = out
      BY <2>1, <2>2, <3>2
    <3>4. ~IsComplete(input)
      BY <2>1, <3>2, <3>3 DEF IsComplete
    <3> QED BY <1>2, <2>5, <3>4 DEF BuffersReadBack, returned
  <2> QED BY <2>3, <2>4, <2>5 DEF BuffersInv, BuffersType, BuffersReadBack
<1> QED BY <1>1, <1>2 DEF BuffersInv, BuffersType

\* Whatever the sizes of the parts, of the chunks and of the buffer, compress
\* returns the whole of it with its end, and uncompress the bytes of a complete
\* stream and nothing of any other.
THEOREM BuffersAlwaysReadBack == BufferSpec => []BuffersReadBack
<1>1. BuffersInv /\ [CallStep]_buffers => BuffersInv'
  <2> SUFFICES ASSUME BuffersInv, [CallStep]_buffers PROVE BuffersInv'
    OBVIOUS
  <2>1. CASE InitFails
    BY <2>1 DEF InitFails, BuffersInv, BuffersType, CompressesInOrder, InflatesInOrder
  <2>2. CASE UNCHANGED buffers
    BY <2>2 DEF buffers, BuffersInv, BuffersType, CompressesInOrder, InflatesInOrder
  <2> QED BY <2>1, <2>2, NextPartInv, DeflateInv, InflateInv DEF CallStep
<1> QED BY <1>1, BuffersStart, BuffersInvReadsBack, PTL DEF BufferSpec

-----------------------------------------------------------------------------
(* The extension of a downloaded image *)

NameSpec == NoAnswer /\ [][NextAnswer]_<<mime, urlpath>>

\* What a path is made of.
Marked == Letters \cup {"/", "."}

AnswersType == mime \in Seq(DOMAIN Width) /\ urlpath \in Seq(Marked)

\* A set of natural numbers has a least member.
LEMMA LeastMember ==
  ASSUME NEW T, T \subseteq Nat, T # {}
  PROVE  \E m \in T : \A y \in T : m <= y
<1> DEFINE Below == {p \in Nat \X Nat : p[1] < p[2]}
<1>1. OpToRel(<, Nat) = Below
  BY Zenon DEF OpToRel
<1>2. IsWellFoundedOn(Below, Nat)
  BY <1>1, NatLessThanWellFounded, Zenon
<1> HIDE DEF Below
<1>3. \E m \in T : \A y \in T : <<y, m>> \notin Below
  BY <1>2, WFMin
<1>4. ASSUME NEW m \in Nat, NEW y \in Nat, <<y, m>> \notin Below PROVE m <= y
  <2>1. <<y, m>> \in Nat \X Nat /\ <<y, m>>[1] = y /\ <<y, m>>[2] = m
    OBVIOUS
  <2>2. ~(y < m)
    BY <1>4, <2>1 DEF Below
  <2> QED BY <2>2
<1> QED BY <1>3, <1>4

\* Find gives the first place of an element, or the position after the last one.
LEMMA FindIsFirst ==
  ASSUME NEW T, NEW s \in Seq(T), NEW e
  PROVE  /\ Find(s, e) \in 1..(Len(s) + 1)
         /\ Find(s, e) <= Len(s) => s[Find(s, e)] = e
         /\ \A k \in 1..Len(s) : k < Find(s, e) => s[k] # e
<1> DEFINE P == {p \in DOMAIN s : s[p] = e} \cup {Len(s) + 1}
<1>1. Len(s) \in Nat /\ DOMAIN s = 1..Len(s)
  OBVIOUS
<1>2. P \subseteq 1..(Len(s) + 1) /\ P # {}
  BY <1>1
<1>3. PICK m \in P : \A y \in P : m <= y
  <2>1. P \subseteq Nat
    BY <1>1, <1>2
  <2> HIDE DEF P
  <2> QED BY <1>2, <2>1, LeastMember
<1>4. Min(P) \in P /\ \A y \in P : Min(P) <= y
  <2> HIDE DEF P
  <2> QED BY <1>3 DEF Min
<1>5. Find(s, e) = Min(P)
  BY DEF Find
<1> HIDE DEF P
<1>6. Find(s, e) \in 1..(Len(s) + 1)
  BY <1>2, <1>4, <1>5
<1>7. ASSUME Find(s, e) <= Len(s) PROVE s[Find(s, e)] = e
  <2>1. Find(s, e) \in P /\ Find(s, e) # Len(s) + 1
    BY <1>1, <1>4, <1>5, <1>6, <1>7
  <2> QED BY <2>1 DEF P
<1>8. ASSUME NEW k \in 1..Len(s), k < Find(s, e) PROVE s[k] # e
  <2>1. k \notin P
    BY <1>1, <1>4, <1>5, <1>6, <1>8
  <2> QED BY <1>1, <2>1 DEF P
<1> QED BY <1>6, <1>7, <1>8

\* A sequence read from its end.
LEMMA ReverseIs ==
  ASSUME NEW T, NEW s \in Seq(T)
  PROVE  /\ Reverse(s) \in Seq(T) /\ Len(Reverse(s)) = Len(s)
         /\ \A k \in 1..Len(s) : Reverse(s)[k] = s[Len(s) - k + 1]
<1>1. Len(s) \in Nat
  OBVIOUS
<1>2. \A k \in 1..Len(s) : Len(s) - k + 1 \in 1..Len(s) /\ s[Len(s) - k + 1] \in T
  BY <1>1, ElementOfSeq
<1>3. Reverse(s) = [k \in 1..Len(s) |-> s[Len(s) - k + 1]]
  BY DEF Reverse
<1> QED BY <1>1, <1>2, <1>3

\* The rest of a sequence from a place on, as the parts of Ends are.
LEMMA EndOfSeq ==
  ASSUME NEW T, NEW s \in Seq(T), NEW p \in 1..(Len(s) + 1)
  PROVE  /\ SubSeq(s, p, Len(s)) \in Seq(T)
         /\ Len(SubSeq(s, p, Len(s))) = Len(s) - p + 1
         /\ \A k \in 1..(Len(s) - p + 1) : SubSeq(s, p, Len(s))[k] = s[p + k - 1]
<1>1. Len(s) \in Nat /\ p \in Int /\ Len(s) \in Int
  OBVIOUS
<1>2. \A k \in p..Len(s) : s[k] \in T
  BY <1>1, ElementOfSeq
<1>3. /\ SubSeq(s, p, Len(s)) \in Seq(T)
      /\ Len(SubSeq(s, p, Len(s))) = IF p <= Len(s) THEN Len(s) - p + 1 ELSE 0
      /\ \A k \in 1..(Len(s) - p + 1) : SubSeq(s, p, Len(s))[k] = s[p + k - 1]
  BY <1>1, <1>2, SubSeqProperties
<1> QED BY <1>1, <1>3

\* The file name of a path: what is behind its last slash.
LEMMA SegmentIs ==
  ASSUME AnswersType, NEW q \in 1..(Len(urlpath) + 1),
         \A k \in q..Len(urlpath) : urlpath[k] # "/",
         q > 1 => urlpath[q - 1] = "/"
  PROVE  Segment = SubSeq(urlpath, q, Len(urlpath))
<1> DEFINE n == Len(urlpath)
           E(p) == SubSeq(urlpath, p, n)
<1>0. urlpath \in Seq(Marked) /\ n \in Nat
  BY DEF AnswersType
<1>1. \A p \in 1..(n + 1) : /\ E(p) \in Seq(Marked) /\ Len(E(p)) = n - p + 1
                            /\ \A k \in 1..(n - p + 1) : E(p)[k] = urlpath[p + k - 1]
  BY <1>0, EndOfSeq
<1>2. \A p \in 1..(n + 1) : DOMAIN E(p) = 1..(n - p + 1)
  <2> HIDE DEF E
  <2> QED BY <1>1
<1>3. Ends(urlpath) = {E(p) : p \in 1..(n + 1)}
  BY DEF Ends
<1> HIDE DEF E, n
<1>4. "/" \notin Range(E(q))
  <2>1. \A k \in 1..(n - q + 1) : E(q)[k] # "/"
    <3> TAKE k \in 1..(n - q + 1)
    <3>1. q + k - 1 \in q..n
      BY <1>0 DEF n
    <3> QED BY <1>1, <3>1 DEF n
  <2> QED BY <1>2, <2>1 DEF Range, n
<1>5. ASSUME NEW p \in 1..(n + 1), "/" \notin Range(E(p))
      PROVE  p >= q
  <2> SUFFICES ASSUME p < q PROVE FALSE
    BY <1>0 DEF n
  <2>1. /\ q > 1 /\ q - p \in 1..(n - p + 1) /\ p + (q - p) - 1 = q - 1
    BY <1>0 DEF n
  <2>2. E(p)[q - p] = "/" /\ q - p \in DOMAIN E(p)
    BY <1>1, <1>2, <2>1
  <2> QED BY <1>5, <2>2 DEF Range
<1>6. \A f \in Ends(urlpath) : "/" \notin Range(f) => Len(f) <= Len(E(q))
  <2> SUFFICES ASSUME NEW p \in 1..(n + 1), "/" \notin Range(E(p))
               PROVE  Len(E(p)) <= Len(E(q))
    BY <1>3
  <2>1. p >= q
    BY <1>5
  <2> QED BY <1>0, <1>1, <2>1 DEF n
<1>7. E(q) \in Ends(urlpath)
  BY <1>3 DEF n
<1>8. /\ Segment \in Ends(urlpath) /\ "/" \notin Range(Segment)
      /\ \A f \in Ends(urlpath) : "/" \notin Range(f) => Len(f) <= Len(Segment)
  BY <1>4, <1>6, <1>7, Zenon DEF Segment
<1>9. PICK p \in 1..(n + 1) : Segment = E(p)
  BY <1>3, <1>8
<1>10. p >= q /\ Len(E(q)) <= Len(E(p))
  BY <1>4, <1>5, <1>7, <1>8, <1>9
<1>11. p = q
  BY <1>0, <1>1, <1>10 DEF n
<1> QED BY <1>9, <1>11 DEF E, n

\* The extension of an image of a server that names no type.
PathExtension ==
  IF "." \in Range(Segment) /\ Last(Segment) # "."
  THEN /\ try_fetch_extension(urlpath) # << >>
       /\ Range(try_fetch_extension(urlpath)) \subseteq Letters
       /\ <<".">> \o try_fetch_extension(urlpath) \in Ends(Segment)
  ELSE try_fetch_extension(urlpath) = << >>

LEMMA ExtensionOfThePath == AnswersType => PathExtension
<1> SUFFICES ASSUME AnswersType PROVE PathExtension
  OBVIOUS
<1> DEFINE n    == Len(urlpath)
           back == Reverse(urlpath)
           sl   == Find(back, "/")
           seg  == SubSeq(back, 1, sl - 1)
           dot  == Find(seg, ".")
           q    == n - sl + 2
           ext  == Reverse(SubSeq(back, 1, dot - 1))
<1>0. urlpath \in Seq(Marked) /\ n \in Nat
  BY DEF AnswersType
<1>1. /\ back \in Seq(Marked) /\ Len(back) = n
      /\ \A k \in 1..n : back[k] = urlpath[n - k + 1]
  BY <1>0, ReverseIs
<1> HIDE DEF back
<1>2. /\ sl \in 1..(n + 1) /\ (sl <= n => back[sl] = "/")
      /\ \A k \in 1..n : k < sl => back[k] # "/"
  <2>1. /\ sl \in 1..(Len(back) + 1) /\ (sl <= Len(back) => back[sl] = "/")
        /\ \A k \in 1..Len(back) : k < sl => back[k] # "/"
    BY <1>1, FindIsFirst
  <2> HIDE DEF sl, n
  <2> QED BY <1>1, <2>1
<1> HIDE DEF sl
<1>3. /\ seg \in Seq(Marked) /\ Len(seg) = sl - 1
      /\ \A k \in 1..(sl - 1) : seg[k] = back[k]
  <2>1. 0 \in Nat /\ sl - 1 \in 0..Len(back)
    BY <1>0, <1>1, <1>2
  <2>2. /\ SubSeq(back, 0 + 1, sl - 1) \in Seq(Marked)
        /\ Len(SubSeq(back, 0 + 1, sl - 1)) = IF 0 < sl - 1 THEN (sl - 1) - 0 ELSE 0
        /\ \A k \in 1..((sl - 1) - 0) : SubSeq(back, 0 + 1, sl - 1)[k] = back[0 + k]
    BY <1>1, <2>1, PartOfSeq
  <2>3. 0 + 1 = 1 /\ (sl - 1) - 0 = sl - 1 /\ \A k \in 1..(sl - 1) : back[0 + k] = back[k]
    BY <1>0, <1>2
  <2> QED BY <1>0, <1>2, <2>2, <2>3
<1> HIDE DEF seg
<1>4. /\ dot \in 1..sl /\ (dot < sl => seg[dot] = ".")
      /\ \A k \in 1..(sl - 1) : k < dot => seg[k] # "."
  <2>1. /\ dot \in 1..(Len(seg) + 1) /\ (dot <= Len(seg) => seg[dot] = ".")
        /\ \A k \in 1..Len(seg) : k < dot => seg[k] # "."
    BY <1>3, FindIsFirst
  <2> HIDE DEF dot
  <2> QED BY <1>0, <1>2, <1>3, <2>1
<1> HIDE DEF dot
<1>5. q \in 1..(n + 1) /\ n - q + 1 = sl - 1
  BY <1>0, <1>2
<1>6. \A k \in 1..(sl - 1) : /\ q + k - 1 \in q..n
                             /\ urlpath[q + k - 1] = seg[sl - k]
                             /\ urlpath[q + k - 1] # "/"
  <2> TAKE k \in 1..(sl - 1)
  <2>1. /\ sl - k \in 1..(sl - 1) /\ sl - k \in 1..n /\ sl - k < sl
        /\ n - (sl - k) + 1 = q + k - 1 /\ q + k - 1 \in q..n
    BY <1>0, <1>2
  <2>2. seg[sl - k] = back[sl - k] /\ back[sl - k] = urlpath[n - (sl - k) + 1]
    BY <1>1, <1>3, <2>1
  <2>3. back[sl - k] # "/"
    BY <1>2, <2>1
  <2> QED BY <2>1, <2>2, <2>3
<1>7. Segment = SubSeq(urlpath, q, n)
  <2>1. \A k \in q..n : urlpath[k] # "/"
    <3> TAKE k \in q..n
    <3>1. k - q + 1 \in 1..(sl - 1) /\ q + (k - q + 1) - 1 = k
      BY <1>0, <1>2
    <3> QED BY <1>6, <3>1
  <2>2. q > 1 => urlpath[q - 1] = "/"
    <3> SUFFICES ASSUME q > 1 PROVE urlpath[q - 1] = "/"
      OBVIOUS
    <3>1. sl <= n /\ sl \in 1..n /\ n - sl + 1 = q - 1
      BY <1>0, <1>2
    <3> QED BY <1>1, <1>2, <3>1
  <2> QED BY <1>5, <2>1, <2>2, SegmentIs
<1>8. /\ Segment \in Seq(Marked) /\ Len(Segment) = sl - 1
      /\ \A k \in 1..(sl - 1) : Segment[k] = seg[sl - k]
  <2>1. /\ SubSeq(urlpath, q, n) \in Seq(Marked)
        /\ Len(SubSeq(urlpath, q, n)) = n - q + 1
        /\ \A k \in 1..(n - q + 1) : SubSeq(urlpath, q, n)[k] = urlpath[q + k - 1]
    BY <1>0, <1>5, EndOfSeq
  <2> HIDE DEF q, n
  <2> QED BY <1>5, <1>6, <1>7, <2>1
<1>9. "." \in Range(Segment) <=> dot < sl
  <2>1. ASSUME "." \in Range(Segment) PROVE dot < sl
    <3>1. PICK k \in 1..(sl - 1) : Segment[k] = "."
      BY <1>8, <2>1 DEF Range
    <3>2. sl - k \in 1..(sl - 1) /\ seg[sl - k] = "."
      BY <1>2, <1>8, <3>1
    <3>3. ~(sl - k < dot)
      BY <1>4, <3>2
    <3> QED BY <1>2, <1>4, <3>2, <3>3
  <2>2. ASSUME dot < sl PROVE "." \in Range(Segment)
    <3>1. sl - dot \in 1..(sl - 1) /\ sl - (sl - dot) = dot
      BY <1>2, <1>4, <2>2
    <3>2. Segment[sl - dot] = "." /\ sl - dot \in DOMAIN Segment
      BY <1>4, <1>8, <2>2, <3>1
    <3> QED BY <3>2 DEF Range
  <2> QED BY <2>1, <2>2
<1>10. dot < sl => (Last(Segment) # "." <=> dot # 1)
  <2> SUFFICES ASSUME dot < sl PROVE Last(Segment) # "." <=> dot # 1
    OBVIOUS
  <2>1. sl - 1 \in 1..(sl - 1) /\ sl - (sl - 1) = 1 /\ 1 \in 1..(sl - 1)
    BY <1>2, <1>4
  <2>2. Last(Segment) = seg[1]
    BY <1>8, <2>1 DEF Last
  <2>3. 1 < dot => seg[1] # "."
    BY <1>4, <2>1
  <2>4. dot = 1 => seg[1] = "."
    BY <1>4
  <2> QED BY <1>2, <1>4, <2>2, <2>3, <2>4
<1>11. try_fetch_extension(urlpath) = IF dot \in {sl, 1} THEN << >> ELSE ext
  BY DEF try_fetch_extension, back, sl, seg, dot
<1>12. CASE dot < sl /\ dot # 1
  <2>1. dot \in 2..(sl - 1) /\ dot - 1 \in 1..(sl - 2)
    BY <1>2, <1>4, <1>12
  <2> DEFINE cut == SubSeq(back, 1, dot - 1)
  <2>2. /\ cut \in Seq(Marked) /\ Len(cut) = dot - 1
        /\ \A k \in 1..(dot - 1) : cut[k] = seg[k]
    <3>1. 0 \in Nat /\ dot - 1 \in 0..Len(back)
      BY <1>0, <1>1, <1>2, <2>1
    <3>2. /\ SubSeq(back, 0 + 1, dot - 1) \in Seq(Marked)
          /\ Len(SubSeq(back, 0 + 1, dot - 1)) = IF 0 < dot - 1 THEN (dot - 1) - 0 ELSE 0
          /\ \A k \in 1..((dot - 1) - 0) : SubSeq(back, 0 + 1, dot - 1)[k] = back[0 + k]
      BY <1>1, <3>1, PartOfSeq
    <3>3. 0 + 1 = 1 /\ (dot - 1) - 0 = dot - 1 /\ 0 < dot - 1
          /\ \A k \in 1..(dot - 1) : back[0 + k] = back[k] /\ back[k] = seg[k]
      BY <1>2, <1>3, <2>1
    <3> QED BY <3>2, <3>3
  <2> HIDE DEF cut
  <2>3. /\ ext \in Seq(Marked) /\ Len(ext) = dot - 1
        /\ \A k \in 1..(dot - 1) : ext[k] = seg[dot - k]
    <3>1. /\ Reverse(cut) \in Seq(Marked) /\ Len(Reverse(cut)) = Len(cut)
          /\ \A k \in 1..Len(cut) : Reverse(cut)[k] = cut[Len(cut) - k + 1]
      BY <2>2, ReverseIs
    <3>2. \A k \in 1..(dot - 1) : /\ (dot - 1) - k + 1 = dot - k
                                  /\ dot - k \in 1..(dot - 1)
      BY <2>1
    <3> QED BY <2>2, <3>1, <3>2 DEF cut
  <2> HIDE DEF ext
  <2>4. ext # << >>
    BY <2>1, <2>3
  <2>5. Range(ext) \subseteq Letters
    <3>1. \A k \in 1..(dot - 1) : ext[k] \in Letters
      <4> TAKE k \in 1..(dot - 1)
      <4>1. /\ dot - k \in 1..(sl - 1) /\ dot - k < dot /\ dot - k \in 1..n /\ dot - k < sl
        BY <1>0, <1>2, <2>1
      <4>2. seg[dot - k] # "." /\ seg[dot - k] # "/" /\ seg[dot - k] \in Marked
        BY <1>2, <1>3, <1>4, <4>1, ElementOfSeq
      <4> QED BY <2>3, <4>2 DEF Marked
    <3>2. DOMAIN ext = 1..(dot - 1)
      BY <2>3
    <3> QED BY <3>1, <3>2 DEF Range
  <2>6. <<".">> \o ext \in Ends(Segment)
    <3> DEFINE p == sl - dot
               e == SubSeq(Segment, p, Len(Segment))
    <3>1. p \in 1..(Len(Segment) + 1) /\ Len(Segment) - p + 1 = dot
      BY <1>2, <1>8, <2>1
    <3>2. /\ e \in Seq(Marked) /\ Len(e) = Len(Segment) - p + 1
          /\ \A k \in 1..(Len(Segment) - p + 1) : e[k] = Segment[p + k - 1]
      BY <1>8, <3>1, EndOfSeq
    <3>3. e \in Ends(Segment)
      BY <3>1 DEF Ends
    <3> HIDE DEF e
    <3>4. /\ <<".">> \in Seq(Marked) /\ Len(<<".">>) = 1 /\ <<".">>[1] = "."
      BY DEF Marked
    <3>5. /\ <<".">> \o ext \in Seq(Marked) /\ Len(<<".">> \o ext) = 1 + (dot - 1)
          /\ \A k \in 1..(1 + (dot - 1)) :
               (<<".">> \o ext)[k] = IF k <= 1 THEN <<".">>[k] ELSE ext[k - 1]
      BY <2>3, <3>4, ConcatProperties
    <3>6. \A k \in 1..dot : (<<".">> \o ext)[k] = e[k]
      <4> TAKE k \in 1..dot
      <4>1. /\ p + k - 1 \in 1..(sl - 1) /\ sl - (p + k - 1) = dot - k + 1
            /\ k \in 1..(1 + (dot - 1)) /\ k \in 1..(Len(Segment) - p + 1)
        BY <1>2, <2>1, <3>1
      <4>2. e[k] = seg[dot - k + 1]
        BY <1>8, <3>2, <4>1
      <4>3. CASE k = 1
        BY <1>4, <1>12, <2>1, <3>4, <3>5, <4>1, <4>2, <4>3
      <4>4. CASE k # 1
        <5>1. k - 1 \in 1..(dot - 1) /\ dot - (k - 1) = dot - k + 1 /\ ~(k <= 1)
          BY <2>1, <4>4
        <5> QED BY <2>3, <3>5, <4>1, <4>2, <5>1
      <4> QED BY <4>3, <4>4
    <3>7. 1 + (dot - 1) = dot /\ Len(e) = dot
      BY <2>1, <3>1, <3>2
    <3>8. <<".">> \o ext = e
      BY <3>2, <3>5, <3>6, <3>7, SeqEqual
    <3> QED BY <3>3, <3>8
  <2>7. try_fetch_extension(urlpath) = ext
    BY <1>2, <1>11, <1>12
  <2> QED BY <1>9, <1>10, <1>12, <2>4, <2>5, <2>6, <2>7 DEF PathExtension
<1>13. CASE ~(dot < sl /\ dot # 1)
  <2>1. dot \in {sl, 1}
    BY <1>2, <1>4, <1>13
  <2> QED BY <1>9, <1>10, <1>11, <1>13, <2>1 DEF PathExtension
<1> QED BY <1>12, <1>13

\* The extension of an image of a server that names its type.
LEMMA ExtensionOfTheType ==
  ASSUME AnswersType, mime # << >>
  PROVE  LET ext == get_mime_extension(mime, urlpath)
         IN  /\ "+" \notin Range(ext)
             /\ ext # << >> => \E e \in Ends(mime) : IsPrefix(<<"image/">> \o ext, e)
             /\ \A w \in DOMAIN Width : mime = <<"image/", w>> /\ w # "+" =>
                  ext = IF Length(mime) >= MAX_MIME_LENGTH THEN << >> ELSE <<w>>
<1> DEFINE n   == Len(mime)
           W   == DOMAIN Width
           at  == Find(mime, "image/")
           sub == SubSeq(mime, at + 1, n)
           to  == Find(sub, "+")
           cut == SubSeq(sub, 1, to - 1)
           ext == get_mime_extension(mime, urlpath)
<1>1. mime \in Seq(W) /\ n \in Nat /\ "image/" \in W
  BY NamesAssumption DEF AnswersType
<1>2. ext = IF Length(mime) >= MAX_MIME_LENGTH THEN << >> ELSE cut
  BY DEF get_mime_extension
<1> HIDE DEF ext
<1>3. at \in 1..(n + 1) /\ (at <= n => mime[at] = "image/")
  <2>1. at \in 1..(Len(mime) + 1) /\ (at <= Len(mime) => mime[at] = "image/")
    BY <1>1, FindIsFirst
  <2> QED BY <2>1
<1>4. /\ sub \in Seq(W) /\ Len(sub) = (IF at < n THEN n - at ELSE 0)
      /\ \A k \in 1..(n - at) : sub[k] = mime[at + k]
  <2>1. at \in Nat /\ n \in 0..Len(mime)
    BY <1>1, <1>3
  <2> HIDE DEF at, n
  <2> QED BY <1>1, <2>1, PartOfSeq DEF n
<1> HIDE DEF sub
<1>5. /\ to \in 1..(Len(sub) + 1) /\ (to <= Len(sub) => sub[to] = "+")
      /\ \A k \in 1..Len(sub) : k < to => sub[k] # "+"
  BY <1>4, FindIsFirst
<1> HIDE DEF to
<1>6. /\ cut \in Seq(W) /\ Len(cut) = to - 1 /\ to \in Nat /\ Len(sub) \in Nat
      /\ \A k \in 1..(to - 1) : cut[k] = sub[k]
  <2>1. 0 \in Nat /\ to - 1 \in 0..Len(sub) /\ to \in Nat /\ Len(sub) \in Nat
    BY <1>4, <1>5
  <2>2. /\ SubSeq(sub, 0 + 1, to - 1) \in Seq(W)
        /\ Len(SubSeq(sub, 0 + 1, to - 1)) = IF 0 < to - 1 THEN (to - 1) - 0 ELSE 0
        /\ \A k \in 1..((to - 1) - 0) : SubSeq(sub, 0 + 1, to - 1)[k] = sub[0 + k]
    BY <1>4, <2>1, PartOfSeq
  <2>3. 0 + 1 = 1 /\ (to - 1) - 0 = to - 1 /\ \A k \in 1..(to - 1) : sub[0 + k] = sub[k]
    BY <2>1
  <2> QED BY <2>1, <2>2, <2>3
<1> HIDE DEF cut
<1>7. "+" \notin Range(ext)
  <2>1. \A k \in 1..(to - 1) : cut[k] # "+"
    BY <1>5, <1>6
  <2>2. DOMAIN cut = 1..(to - 1)
    BY <1>6
  <2>3. "+" \notin Range(cut)
    BY <2>1, <2>2 DEF Range
  <2>4. "+" \notin Range(<< >>)
    BY DEF Range
  <2> QED BY <1>2, <2>3, <2>4
<1>8. ASSUME ext # << >>
      PROVE  \E e \in Ends(mime) : IsPrefix(<<"image/">> \o ext, e)
  <2>1. ext = cut /\ cut # << >>
    BY <1>2, <1>8
  <2>2. to > 1 /\ Len(sub) >= 1 /\ at < n /\ Len(sub) = n - at /\ to - 1 <= n - at
    <3>1. Len(cut) # 0
      BY <1>6, <2>1, EmptySeq
    <3> QED BY <1>1, <1>3, <1>4, <1>5, <1>6, <3>1
  <2> DEFINE e == SubSeq(mime, at, n)
             p == <<"image/">> \o cut
  <2>3. /\ e \in Seq(W) /\ Len(e) = n - at + 1
        /\ \A k \in 1..(n - at + 1) : e[k] = mime[at + k - 1]
    <3>1. at \in 1..(Len(mime) + 1)
      BY <1>3
    <3> HIDE DEF at
    <3> QED BY <1>1, <3>1, EndOfSeq
  <2>4. e \in Ends(mime)
    BY <1>3 DEF Ends
  <2> HIDE DEF e, n
  <2>5. <<"image/">> \in Seq(W) /\ Len(<<"image/">>) = 1 /\ <<"image/">>[1] = "image/"
    BY <1>1
  <2>6. /\ p \in Seq(W) /\ Len(p) = 1 + (to - 1)
        /\ \A k \in 1..(1 + (to - 1)) : p[k] = IF k <= 1 THEN <<"image/">>[k] ELSE cut[k - 1]
    BY <1>6, <2>5, ConcatProperties
  <2> HIDE DEF p, at
  <2>7. Len(p) = to /\ to <= Len(e) /\ at \in Nat
    BY <1>1, <1>3, <1>6, <2>2, <2>3, <2>6
  <2>8. \A k \in 1..to : p[k] = e[k]
    <3> TAKE k \in 1..to
    <3>1. k \in 1..(n - at + 1) /\ k \in 1..(1 + (to - 1))
      BY <1>1, <1>6, <2>2, <2>7
    <3>2. CASE k = 1
      <4>1. p[k] = "image/"
        BY <2>5, <2>6, <3>1, <3>2
      <4>2. at + k - 1 = at /\ at <= n
        BY <1>1, <2>2, <2>7, <3>2
      <4> QED BY <1>3, <2>3, <3>1, <4>1, <4>2
    <3>3. CASE k # 1
      <4>1. /\ ~(k <= 1) /\ k - 1 \in 1..(to - 1) /\ k - 1 \in 1..(n - at)
            /\ at + (k - 1) = at + k - 1
        BY <1>1, <1>6, <2>2, <2>7, <3>3
      <4>2. p[k] = cut[k - 1] /\ cut[k - 1] = sub[k - 1] /\ sub[k - 1] = mime[at + (k - 1)]
        BY <1>4, <1>6, <2>6, <3>1, <4>1
      <4> QED BY <2>3, <3>1, <4>1, <4>2
    <3> QED BY <3>2, <3>3
  <2>9. SubSeq(p, 1, to) = SubSeq(e, 1, to)
    <3>1. /\ \A k \in 1..to : p[k] \in W /\ e[k] \in W
          /\ 1 \in Int /\ to \in Int
      BY <1>6, <2>3, <2>6, <2>7, <2>8, ElementOfSeq
    <3>2. /\ SubSeq(p, 1, to) \in Seq(W) /\ Len(SubSeq(p, 1, to)) = (IF 1 <= to THEN to - 1 + 1 ELSE 0)
          /\ \A k \in 1..(to - 1 + 1) : SubSeq(p, 1, to)[k] = p[1 + k - 1]
      BY <3>1, SubSeqProperties
    <3>3. /\ SubSeq(e, 1, to) \in Seq(W) /\ Len(SubSeq(e, 1, to)) = (IF 1 <= to THEN to - 1 + 1 ELSE 0)
          /\ \A k \in 1..(to - 1 + 1) : SubSeq(e, 1, to)[k] = e[1 + k - 1]
      BY <3>1, SubSeqProperties
    <3>4. to - 1 + 1 = to /\ 1 <= to /\ \A k \in 1..to : 1 + k - 1 = k
      BY <1>6, <2>2
    <3>5. \A k \in 1..Len(SubSeq(p, 1, to)) : SubSeq(p, 1, to)[k] = SubSeq(e, 1, to)[k]
      BY <2>8, <3>2, <3>3, <3>4
    <3> QED BY <3>2, <3>3, <3>5, SeqEqual
  <2>10. IsPrefix(p, e)
    BY <2>7, <2>9 DEF IsPrefix
  <2> QED BY <2>1, <2>4, <2>10 DEF p
<1>9. ASSUME NEW w \in W, mime = <<"image/", w>>, w # "+"
      PROVE  cut = <<w>>
  <2>1. n = 2 /\ mime[1] = "image/" /\ mime[2] = w
    BY <1>9
  <2>2. at = 1
    <3>1. \A k \in 1..Len(mime) : k < Find(mime, "image/") => mime[k] # "image/"
      BY <1>1, FindIsFirst
    <3> HIDE DEF at
    <3>2. ~(1 < at)
      BY <2>1, <3>1 DEF at
    <3> QED BY <1>1, <1>3, <3>2
  <2> HIDE DEF at, n
  <2>3. Len(sub) = 1 /\ sub[1] = w
    <3>1. 1 \in 1..(n - at) /\ at + 1 = 2
      BY <2>1, <2>2
    <3> QED BY <1>4, <2>1, <2>2, <3>1
  <2>4. to = 2
    BY <1>5, <1>6, <1>9, <2>3
  <2>5. Len(cut) = 1 /\ cut[1] = w
    BY <1>6, <2>3, <2>4
  <2>6. <<w>> \in Seq(W) /\ Len(<<w>>) = 1 /\ <<w>>[1] = w
    BY <1>9
  <2>7. \A k \in 1..Len(cut) : cut[k] = <<w>>[k]
    BY <2>5, <2>6
  <2> QED BY <1>6, <2>5, <2>6, <2>7, SeqEqual
<1> QED BY <1>2, <1>7, <1>8, <1>9, Zenon DEF ext

\* However long the path and the content type are: an image has the extension
\* of its file name or of its type, never one of a directory of its path.
THEOREM ExtensionIsAlwaysOfTheImage == NameSpec => []ExtensionIsOfTheImage
<1>1. NoAnswer => AnswersType
  BY DEF NoAnswer, AnswersType
<1>2. AnswersType /\ [NextAnswer]_<<mime, urlpath>> => AnswersType'
  <2> SUFFICES ASSUME AnswersType, [NextAnswer]_<<mime, urlpath>> PROVE AnswersType'
    OBVIOUS
  <2>1. ASSUME NEW w \in DOMAIN Width, mime' = Append(mime, w), urlpath' = urlpath
        PROVE  AnswersType'
    BY <2>1, AppendProperties DEF AnswersType
  <2>2. ASSUME NEW c \in Letters \cup {"/", "."}, urlpath' = Append(urlpath, c), mime' = mime
        PROVE  AnswersType'
    BY <2>2, AppendProperties DEF AnswersType, Marked
  <2>3. CASE UNCHANGED <<mime, urlpath>>
    BY <2>3 DEF AnswersType
  <2> QED BY <2>1, <2>2, <2>3 DEF NextAnswer
<1>3. AnswersType => ExtensionIsOfTheImage
  <2> SUFFICES ASSUME AnswersType PROVE ExtensionIsOfTheImage
    OBVIOUS
  <2>1. CASE mime = << >>
    <3>1. get_mime_extension(mime, urlpath) = try_fetch_extension(urlpath)
      BY <2>1 DEF get_mime_extension
    <3> QED BY <2>1, <3>1, ExtensionOfThePath DEF ExtensionIsOfTheImage, PathExtension
  <2>2. CASE mime # << >>
    BY <2>2, ExtensionOfTheType DEF ExtensionIsOfTheImage
  <2> QED BY <2>1, <2>2
<1> QED BY <1>1, <1>2, <1>3, PTL DEF NameSpec

-----------------------------------------------------------------------------
(* Texts that are read a token at a time *)

\* Tokens that give characters and leave some place of the text or its end.
AreTokens(tokens) ==
  /\ tokens \in Seq([gives : Seq(Int), takes : Nat])
  /\ \A p \in 1..Len(tokens) :
       tokens[p].takes >= 1 /\ p + tokens[p].takes <= Len(tokens) + 1

\* What the tokens from a place on give together, for each place.
Walk(tokens, f) ==
  /\ f \in [1..(Len(tokens) + 1) -> Seq(Int)]
  /\ f[Len(tokens) + 1] = << >>
  /\ \A p \in 1..Len(tokens) : f[p] = tokens[p].gives \o f[p + tokens[p].takes]

\* The function Walked chooses.
RestIs(tokens, f) ==
  f = [p \in 1..(Len(tokens) + 1) |->
        IF p \notin DOMAIN tokens THEN << >>
        ELSE LET token == tokens[p] IN token.gives \o f[p + token.takes]]

\* The same from the place k on.
WalkOn(tokens, k, f) ==
  /\ f \in [k..(Len(tokens) + 1) -> Seq(Int)]
  /\ f[Len(tokens) + 1] = << >>
  /\ \A p \in k..Len(tokens) : f[p] = tokens[p].gives \o f[p + tokens[p].takes]

LEMMA WalkFrom ==
  ASSUME NEW tokens, AreTokens(tokens), NEW k \in 1..(Len(tokens) + 1)
  PROVE  \E f : WalkOn(tokens, k, f)
<1> DEFINE n == Len(tokens)
           Wrong == {i \in 0..n : ~\E f : WalkOn(tokens, n + 1 - i, f)}
<1>0. n \in Nat
  BY DEF AreTokens
<1> HIDE DEF n
<1>1. SUFFICES ASSUME Wrong # {} PROVE FALSE
  <2>1. n + 1 - k \in 0..n /\ n + 1 - (n + 1 - k) = k
    BY <1>0 DEF n
  <2> QED BY <2>1
<1>3. PICK i \in Wrong : \A y \in Wrong : i <= y
  <2>1. Wrong \subseteq Nat
    BY <1>0
  <2> HIDE DEF Wrong
  <2> QED BY <1>1, <2>1, LeastMember
<1>4. i \in 0..n
  OBVIOUS
<1>5. CASE i = 0
  <2> DEFINE f == [p \in (n + 1)..(n + 1) |-> << >>]
  <2>1. f \in [(n + 1)..(n + 1) -> Seq(Int)] /\ f[n + 1] = << >>
    BY <1>0
  <2> HIDE DEF f
  <2>2. WalkOn(tokens, n + 1, f)
    <3>1. \A p \in (n + 1)..n : FALSE
      BY <1>0
    <3>2. \A p \in (n + 1)..n : f[p] = tokens[p].gives \o f[p + tokens[p].takes]
      BY <3>1, Zenon
    <3> QED BY <2>1, <3>2 DEF WalkOn, n
  <2>3. n + 1 - 0 = n + 1
    BY <1>0
  <2> QED BY <1>3, <1>5, <2>2, <2>3
<1>6. CASE i # 0
  <2> DEFINE j == n + 1 - i
  <2>1. i - 1 \in 0..n /\ ~(i <= i - 1) /\ n + 1 - (i - 1) = j + 1 /\ j \in 1..n
    BY <1>0, <1>4, <1>6
  <2>2. i - 1 \notin Wrong
    <3> HIDE DEF Wrong
    <3> QED BY <1>3, <2>1
  <2>3. \E f : WalkOn(tokens, n + 1 - (i - 1), f)
    BY <2>1, <2>2
  <2> HIDE DEF j
  <2>4. PICK f : WalkOn(tokens, j + 1, f)
    BY <2>1, <2>3
  <2>5. /\ tokens[j].gives \in Seq(Int) /\ tokens[j].takes \in Nat
        /\ j + tokens[j].takes \in (j + 1)..(n + 1)
    <3>1. tokens[j] \in [gives : Seq(Int), takes : Nat]
      BY <2>1, ElementOfSeq DEF AreTokens, n
    <3> QED BY <1>0, <2>1, <3>1 DEF AreTokens, n
  <2> DEFINE new == tokens[j].gives \o f[j + tokens[j].takes]
             g == [p \in j..(n + 1) |-> IF p = j THEN new ELSE f[p]]
  <2>6. new \in Seq(Int)
    BY <1>0, <2>1, <2>4, <2>5, ConcatProperties DEF WalkOn, n
  <2> HIDE DEF new
  <2>7. g \in [j..(n + 1) -> Seq(Int)] /\ g[n + 1] = << >>
    BY <1>0, <2>1, <2>4, <2>6 DEF WalkOn, n
  <2>8. ASSUME NEW p \in j..n
        PROVE  g[p] = tokens[p].gives \o g[p + tokens[p].takes]
    <3>1. CASE p = j
      <4>1. g[p] = new /\ g[j + tokens[j].takes] = f[j + tokens[j].takes]
        BY <1>0, <2>1, <2>5, <3>1
      <4> QED BY <3>1, <4>1 DEF new
    <3>2. CASE p # j
      <4>1. p \in (j + 1)..n /\ p \in 1..n
        BY <1>0, <2>1, <3>2
      <4>2. p + tokens[p].takes \in (j + 1)..(n + 1)
        <5>1. tokens[p] \in [gives : Seq(Int), takes : Nat]
          BY <4>1, ElementOfSeq DEF AreTokens, n
        <5> QED BY <1>0, <2>1, <4>1, <5>1 DEF AreTokens, n
      <4>3. g[p] = f[p] /\ g[p + tokens[p].takes] = f[p + tokens[p].takes]
        BY <1>0, <2>1, <4>1, <4>2
      <4> QED BY <2>4, <4>1, <4>3 DEF WalkOn, n
    <3> QED BY <3>1, <3>2
  <2>9. WalkOn(tokens, j, g)
    BY <2>7, <2>8 DEF WalkOn, n
  <2>10. i \notin Wrong
    <3> HIDE DEF g
    <3> QED BY <2>9 DEF j
  <2> QED BY <2>10
<1> QED BY <1>5, <1>6

\* There is one such function, and Walked is what it has for the first place.
LEMMA WalkIs ==
  ASSUME NEW tokens, AreTokens(tokens), NEW f, Walk(tokens, f)
  PROVE  Walked(tokens) = f[1]
<1> DEFINE n == Len(tokens)
<1>0. n \in Nat /\ DOMAIN tokens = 1..n
  BY DEF AreTokens
<1>1. /\ f \in [1..(n + 1) -> Seq(Int)] /\ f[n + 1] = << >>
      /\ \A p \in 1..n : f[p] = tokens[p].gives \o f[p + tokens[p].takes]
  BY DEF Walk
<1> DEFINE Continued(g, p) == IF p \notin DOMAIN tokens THEN << >>
                          ELSE tokens[p].gives \o g[p + tokens[p].takes]
<1>3. RestIs(tokens, f)
  <2>1. \A p \in 1..(n + 1) : f[p] = Continued(f, p)
    <3> TAKE p \in 1..(n + 1)
    <3>1. CASE p \in 1..n
      BY <1>0, <1>1, <3>1
    <3>2. CASE p \notin 1..n
      <4>1. p = n + 1
        BY <1>0, <3>2
      <4> QED BY <1>0, <1>1, <3>2, <4>1
    <3> QED BY <3>1, <3>2
  <2>2. f = [p \in 1..(n + 1) |-> f[p]]
    BY <1>1
  <2>3. f = [p \in 1..(n + 1) |-> Continued(f, p)]
    <3> HIDE DEF Continued
    <3> QED BY <2>1, <2>2
  <2> QED BY <2>3 DEF RestIs
<1> DEFINE rest == CHOOSE g : RestIs(tokens, g)
<1>4. RestIs(tokens, rest)
  BY <1>3
<1>5. Walked(tokens) = rest[1]
  BY DEF Walked, RestIs
<1> HIDE DEF rest
<1>6. \A p \in 1..(n + 1) : rest[p] = Continued(rest, p)
  <2>1. rest = [p \in 1..(n + 1) |-> Continued(rest, p)]
    BY <1>4 DEF RestIs
  <2> HIDE DEF Continued
  <2> QED BY <2>1
<1> DEFINE Wrong == {i \in 0..n : rest[n + 1 - i] # f[n + 1 - i]}
<1>7. Wrong = {}
  <2> SUFFICES ASSUME Wrong # {} PROVE FALSE
    OBVIOUS
  <2>1. PICK i \in Wrong : \A y \in Wrong : i <= y
    <3>1. Wrong \subseteq Nat
      BY <1>0
    <3> HIDE DEF Wrong
    <3> QED BY <3>1, LeastMember
  <2>2. i \in 0..n
    OBVIOUS
  <2> DEFINE p == n + 1 - i
  <2>3. CASE i = 0
    <3>1. rest[n + 1] = << >>
      BY <1>0, <1>6
    <3> QED BY <1>0, <1>1, <2>1, <2>3, <3>1
  <2>4. CASE i # 0
    <3>1. p \in 1..n
      BY <1>0, <2>2, <2>4
    <3> DEFINE q == p + tokens[p].takes
    <3>2. q \in (p + 1)..(n + 1)
      <4> HIDE DEF p
      <4>1. tokens[p] \in [gives : Seq(Int), takes : Nat]
        BY <3>1, ElementOfSeq DEF AreTokens
      <4> QED BY <1>0, <3>1, <4>1 DEF AreTokens
    <3>3. n + 1 - q \in 0..n /\ ~(i <= n + 1 - q) /\ n + 1 - (n + 1 - q) = q
      BY <1>0, <2>2, <3>1, <3>2
    <3>4. n + 1 - q \notin Wrong
      <4> HIDE DEF Wrong
      <4> QED BY <2>1, <3>3
    <3>5. rest[q] = f[q]
      <4> HIDE DEF q
      <4> QED BY <3>3, <3>4
    <3>6. rest[p] = tokens[p].gives \o rest[q]
      <4>1. rest[p] = Continued(rest, p) /\ p \in DOMAIN tokens
        <5> HIDE DEF Continued, p
        <5> QED BY <1>0, <1>6, <3>1
      <4> QED BY <4>1
    <3>7. rest[p] = f[p]
      BY <1>1, <3>1, <3>5, <3>6
    <3> QED BY <2>1, <3>7
  <2> QED BY <2>3, <2>4
<1>8. rest[1] = f[1]
  <2>1. n \in 0..n /\ n + 1 - n = 1
    BY <1>0
  <2>2. n \notin Wrong
    BY <1>7
  <2> QED BY <2>1, <2>2
<1> QED BY <1>5, <1>8

LEMMA WalkExists ==
  ASSUME NEW tokens, AreTokens(tokens)
  PROVE  \E f : Walk(tokens, f) /\ Walked(tokens) = f[1]
<1> DEFINE n == Len(tokens)
<1>0. n \in Nat
  BY DEF AreTokens
<1>1. PICK f : WalkOn(tokens, 1, f)
  <2>1. 1 \in 1..(n + 1)
    BY <1>0
  <2> QED BY <2>1, WalkFrom
<1>2. Walk(tokens, f)
  BY <1>1 DEF Walk, WalkOn
<1> QED BY <1>2, WalkIs

\* The text w has u from the place q on, up to its end.
AtPlace(w, q, u) ==
  /\ q \in 1..(Len(w) + 1)
  /\ Len(u) = Len(w) + 1 - q
  /\ \A k \in 1..Len(u) : w[q + k - 1] = u[k]

\* Of a part in front of the rest, both have their places.
LEMMA PlaceOfParts ==
  ASSUME NEW w \in Seq(Int), NEW q, NEW c \in Seq(Int), NEW v \in Seq(Int), AtPlace(w, q, c \o v)
  PROVE  /\ AtPlace(w, q + Len(c), v)
         /\ q \in 1..(Len(w) + 1) /\ q + Len(c) <= Len(w) + 1
         /\ \A k \in 1..Len(c) : q + k - 1 \in 1..Len(w) /\ w[q + k - 1] = c[k]
<1>1. Len(c) \in Nat /\ Len(v) \in Nat /\ Len(w) \in Nat
  OBVIOUS
<1>2. /\ Len(c \o v) = Len(c) + Len(v)
      /\ \A k \in 1..(Len(c) + Len(v)) :
           (c \o v)[k] = IF k <= Len(c) THEN c[k] ELSE v[k - Len(c)]
  BY ConcatProperties
<1> DEFINE u == c \o v
<1>3. /\ q \in 1..(Len(w) + 1) /\ Len(u) = Len(w) + 1 - q
      /\ \A k \in 1..Len(u) : w[q + k - 1] = u[k]
  BY DEF AtPlace
<1> HIDE DEF u
<1>4. Len(c) + Len(v) = Len(w) + 1 - q
  BY <1>2, <1>3 DEF u
<1>5. \A k \in 1..Len(c) : q + k - 1 \in 1..Len(w) /\ w[q + k - 1] = c[k]
  <2> TAKE k \in 1..Len(c)
  <2>1. k \in 1..Len(u) /\ u[k] = c[k]
    BY <1>1, <1>2 DEF u
  <2>2. q + k - 1 \in 1..Len(w)
    BY <1>1, <1>3, <1>4
  <2> QED BY <1>3, <2>1, <2>2
<1>6. q + Len(c) \in 1..(Len(w) + 1) /\ Len(v) = Len(w) + 1 - (q + Len(c))
  BY <1>1, <1>3, <1>4
<1>7. \A k \in 1..Len(v) : w[q + Len(c) + k - 1] = v[k]
  <2> TAKE k \in 1..Len(v)
  <2> DEFINE j == Len(c) + k
  <2>1. j \in 1..(Len(c) + Len(v)) /\ ~(j <= Len(c)) /\ j - Len(c) = k
        /\ q + j - 1 = q + Len(c) + k - 1
    BY <1>1, <1>3
  <2> HIDE DEF j
  <2>2. j \in 1..Len(u) /\ u[j] = v[k]
    BY <1>2, <2>1 DEF u
  <2>3. w[q + j - 1] = u[j]
    BY <1>3, <2>2
  <2> QED BY <2>1, <2>2, <2>3
<1> QED BY <1>3, <1>5, <1>6, <1>7 DEF AtPlace

\* What was written for the places 1..n, wr[p] from p on, is read as X[p] when
\* each part that was written is read as its own.  A part takes len[p] places.
PartsRead(w, n, len, wr, rd, X) ==
  \A p \in 1..n, q \in 1..(Len(w) + 1) :
    AtPlace(w, q, wr[p]) =>
      \E c \in Seq(Int), g \in Seq(Int) :
        /\ wr[p] = c \o wr[p + len[p]]
        /\ X[p] = g \o X[p + len[p]]
        /\ rd[q] = g \o rd[q + Len(c)]

\* The parts are not empty and end within n places; wr[1] is the text.
PartsWritten(w, n, len, wr) ==
  /\ n \in Nat /\ w \in Seq(Int)
  /\ len \in [1..n -> Nat] /\ \A p \in 1..n : len[p] >= 1 /\ p + len[p] <= n + 1
  /\ wr \in [1..(n + 1) -> Seq(Int)] /\ wr[1] = w /\ wr[n + 1] = << >>

LEMMA Chain ==
  ASSUME NEW n, NEW w, NEW len, NEW wr, NEW rd, NEW X, PartsWritten(w, n, len, wr),
         rd[Len(w) + 1] = << >>, X[n + 1] = << >>, PartsRead(w, n, len, wr, rd, X)
  PROVE  rd[1] = X[1]
<1>00. /\ n \in Nat /\ w \in Seq(Int)
       /\ len \in [1..n -> Nat] /\ \A p \in 1..n : len[p] >= 1 /\ p + len[p] <= n + 1
       /\ wr \in [1..(n + 1) -> Seq(Int)] /\ wr[1] = w /\ wr[n + 1] = << >>
  BY DEF PartsWritten
<1> DEFINE Read(p) == \A q \in 1..(Len(w) + 1) : AtPlace(w, q, wr[p]) => rd[q] = X[p]
           Wrong == {i \in 0..n : ~Read(n + 1 - i)}
<1> USE <1>00
<1>0. Len(w) \in Nat
  OBVIOUS
<1>1. Read(n + 1)
  <2> SUFFICES ASSUME NEW q \in 1..(Len(w) + 1), AtPlace(w, q, << >>) PROVE rd[q] = << >>
    OBVIOUS
  <2>1. Len(<< >>) = 0 /\ Len(<< >>) = Len(w) + 1 - q
    BY DEF AtPlace
  <2>2. q = Len(w) + 1
    BY <1>0, <2>1
  <2> QED BY <2>2
<1>2. ASSUME NEW p \in 1..n, Read(p + len[p])
      PROVE  Read(p)
  <2> SUFFICES ASSUME NEW q \in 1..(Len(w) + 1), AtPlace(w, q, wr[p]) PROVE rd[q] = X[p]
    OBVIOUS
  <2>1. p + len[p] \in 1..(n + 1)
    <3> DEFINE l == len[p]
    <3>1. l \in Nat /\ l >= 1 /\ p + l <= n + 1
      BY <1>00
    <3> HIDE DEF l
    <3>2. n \in Nat /\ p \in 1..n
      OBVIOUS
    <3>3. p + l \in 1..(n + 1)
      BY ONLY <3>1, <3>2
    <3> QED BY <3>3 DEF l
  <2>2. PICK c \in Seq(Int), g \in Seq(Int) :
          /\ wr[p] = c \o wr[p + len[p]]
          /\ X[p] = g \o X[p + len[p]]
          /\ rd[q] = g \o rd[q + Len(c)]
    BY DEF PartsRead
  <2>3. AtPlace(w, q + Len(c), wr[p + len[p]])
        /\ q + Len(c) <= Len(w) + 1 /\ q + Len(c) \in 1..(Len(w) + 1)
    <3>1. wr[p + len[p]] \in Seq(Int)
      BY <2>1
    <3>2. AtPlace(w, q + Len(c), wr[p + len[p]]) /\ q + Len(c) <= Len(w) + 1
      BY <2>2, <3>1, PlaceOfParts
    <3>3. Len(c) \in Nat
      OBVIOUS
    <3> QED BY <1>0, <3>2, <3>3
  <2>4. rd[q + Len(c)] = X[p + len[p]]
    BY <1>2, <2>3
  <2> QED BY <2>2, <2>4
<1> HIDE DEF Read
<1>3. Wrong = {}
  <2> SUFFICES ASSUME Wrong # {} PROVE FALSE
    OBVIOUS
  <2>1. PICK i \in Wrong : \A y \in Wrong : i <= y
    <3>1. Wrong \subseteq Nat
      OBVIOUS
    <3> HIDE DEF Wrong
    <3> QED BY <3>1, LeastMember
  <2>2. i \in 0..n /\ ~Read(n + 1 - i)
    OBVIOUS
  <2>3. i # 0
    <3>1. n + 1 - 0 = n + 1
      OBVIOUS
    <3> QED BY <1>1, <2>2, <3>1
  <2> DEFINE p == n + 1 - i
             j == n + 1 - (p + len[p])
  <2>4. p \in 1..n
    BY <2>2, <2>3
  <2>5. j \in 0..n /\ ~(i <= j) /\ n + 1 - j = p + len[p]
    <3>1. len[p] \in Nat /\ len[p] >= 1 /\ p + len[p] <= n + 1
      BY <1>00, <2>4
    <3> DEFINE l == len[p]
    <3> HIDE DEF l
    <3>2. l \in Nat /\ l >= 1 /\ p + l <= n + 1
      BY <3>1 DEF l
    <3>3. j = n + 1 - (p + l)
      BY DEF l
    <3> HIDE DEF j
    <3>4. j \in 0..n /\ ~(i <= j) /\ n + 1 - j = p + l
      BY <2>2, <2>4, <3>2, <3>3
    <3> QED BY <3>4 DEF l
  <2>6. j \notin Wrong
    <3> HIDE DEF Wrong, j
    <3> QED BY <2>1, <2>5
  <2>7. Read(p + len[p])
    BY <2>5, <2>6
  <2>8. Read(p)
    <3> HIDE DEF p
    <3> QED BY <1>2, <2>4, <2>7
  <2> QED BY <2>2, <2>8
<1>4. Read(1)
  <2>1. n \in 0..n /\ n + 1 - n = 1
    OBVIOUS
  <2>2. n \notin Wrong
    BY <1>3
  <2> QED BY <2>1, <2>2
<1>5. AtPlace(w, 1, w)
  <2>1. \A k \in 1..Len(w) : 1 + k - 1 = k
    BY <1>0
  <2>2. 1 \in 1..(Len(w) + 1) /\ Len(w) = Len(w) + 1 - 1
    BY <1>0
  <2> QED BY <2>1, <2>2 DEF AtPlace
<1>6. 1 \in 1..(Len(w) + 1)
  BY <1>0
<1> QED BY <1>4, <1>5, <1>6 DEF Read

LEMMA TokensOf ==
  ASSUME NEW n \in Nat, NEW tokens, tokens = [p \in 1..n |-> tokens[p]],
         \A p \in 1..n : /\ tokens[p] \in [gives : Seq(Int), takes : Nat]
                         /\ tokens[p].takes >= 1 /\ p + tokens[p].takes <= n + 1
  PROVE  AreTokens(tokens) /\ Len(tokens) = n
<1> DEFINE T == [gives : Seq(Int), takes : Nat]
<1>1. tokens \in [1..n -> T]
  BY Zenon
<1>2. tokens \in Seq(T) /\ Len(tokens) = n
  <2> HIDE DEF T
  <2>1. tokens \in Seq(T)
    BY <1>1, SeqDef
  <2>2. DOMAIN tokens = 1..n
    BY <1>1
  <2>3. Len(tokens) \in Nat /\ 1..Len(tokens) = 1..n
    BY ONLY <2>1, <2>2, LenProperties
  <2>4. Len(tokens) = n
    BY ONLY <2>3, n \in Nat
  <2> QED BY <2>1, <2>4
<1> QED BY <1>2 DEF AreTokens

\* The part c of the text w begins at the place q and ends before m.
Holds(w, q, c, m) ==
  /\ q \in 1..(Len(w) + 1) /\ m = q + Len(c) /\ m <= Len(w) + 1
  /\ \A k \in 1..Len(c) : q + k - 1 \in 1..Len(w) /\ w[q + k - 1] = c[k]

\* Where what the writer wrote for the place p stands in w, the reader gives
\* what is given for p.
EachIsRead(written, reader, given) ==
  \A rd, p, q, m :
    /\ Walk(reader, rd) /\ p \in 1..Len(written)
    /\ Holds(Walked(written), q, written[p].gives, m)
    => rd[q] = given[p].gives \o rd[m]

LEMMA TokenType ==
  ASSUME NEW tokens, AreTokens(tokens), NEW p \in 1..Len(tokens)
  PROVE  /\ tokens[p].gives \in Seq(Int) /\ tokens[p].takes \in Nat
         /\ tokens[p].takes >= 1 /\ p + tokens[p].takes <= Len(tokens) + 1
         /\ p + tokens[p].takes \in 1..(Len(tokens) + 1)
<1>1. tokens[p] \in [gives : Seq(Int), takes : Nat]
  BY ElementOfSeq DEF AreTokens
<1>2. Len(tokens) \in Nat
  BY DEF AreTokens
<1>3. tokens[p].takes >= 1 /\ p + tokens[p].takes <= Len(tokens) + 1
  BY DEF AreTokens
<1>4. tokens[p].gives \in Seq(Int) /\ tokens[p].takes \in Nat
  BY <1>1
<1> QED BY <1>2, <1>3, <1>4

LEMMA WalkedType ==
  ASSUME NEW tokens, AreTokens(tokens)
  PROVE  Walked(tokens) \in Seq(Int)
<1>1. Len(tokens) \in Nat
  BY DEF AreTokens
<1>2. 1 \in 1..(Len(tokens) + 1)
  BY <1>1
<1> QED BY <1>2, WalkExists DEF Walk

\* What is written token by token is read token by token.
LEMMA TokensAreRead ==
  ASSUME NEW written, AreTokens(written), NEW given, AreTokens(given),
         Len(given) = Len(written),
         \A p \in 1..Len(written) : given[p].takes = written[p].takes,
         NEW reader, AreTokens(reader), Len(reader) = Len(Walked(written)),
         EachIsRead(written, reader, given)
  PROVE  Walked(reader) = Walked(given)
<1>1. PICK wr : Walk(written, wr) /\ Walked(written) = wr[1]
  BY WalkExists
<1>2. PICK rd : Walk(reader, rd) /\ Walked(reader) = rd[1]
  BY WalkExists
<1>3. PICK X : Walk(given, X) /\ Walked(given) = X[1]
  BY WalkExists
<1> DEFINE n == Len(written)
           w == Walked(written)
           len == [p \in 1..n |-> written[p].takes]
<1>4. n \in Nat /\ w \in Seq(Int) /\ Len(w) \in Nat
  <2>1. n \in Nat
    BY DEF AreTokens
  <2>2. w \in Seq(Int)
    BY WalkedType
  <2> HIDE DEF w
  <2>3. Len(w) \in Nat
    BY <2>2
  <2> QED BY <2>1, <2>2, <2>3
<1>5. len \in [1..n -> Nat] /\ \A p \in 1..n : len[p] >= 1 /\ p + len[p] <= n + 1
  BY TokenType
<1>6. wr \in [1..(n + 1) -> Seq(Int)] /\ wr[1] = w /\ wr[n + 1] = << >>
  BY <1>1 DEF Walk
<1>7. rd[Len(w) + 1] = << >> /\ X[n + 1] = << >>
  BY <1>2, <1>3 DEF Walk
<1>8. PartsRead(w, n, len, wr, rd, X)
  <2> SUFFICES ASSUME NEW p \in 1..n, NEW q \in 1..(Len(w) + 1), AtPlace(w, q, wr[p])
               PROVE  \E c \in Seq(Int), g \in Seq(Int) :
                        /\ wr[p] = c \o wr[p + len[p]]
                        /\ X[p] = g \o X[p + len[p]]
                        /\ rd[q] = g \o rd[q + Len(c)]
    BY DEF PartsRead
  <2> DEFINE c == written[p].gives
             g == given[p].gives
  <2>1. c \in Seq(Int) /\ len[p] = written[p].takes /\ p + len[p] \in 1..(n + 1)
    BY TokenType
  <2>2. g \in Seq(Int)
    BY TokenType
  <2>3. wr[p] = c \o wr[p + len[p]]
    BY <1>1, <2>1 DEF Walk
  <2>4. X[p] = g \o X[p + len[p]]
    BY <1>3, <2>1 DEF Walk
  <2>5. rd[q] = g \o rd[q + Len(c)]
    <3>1. wr[p + len[p]] \in Seq(Int)
      BY <1>6, <2>1
    <3> DEFINE m == q + Len(c)
    <3>2. Holds(w, q, c, m)
      <4> HIDE DEF w, c, n, len
      <4> QED BY <1>4, <2>1, <2>3, <3>1, PlaceOfParts DEF Holds
    <3>3. m = q + Len(c)
      OBVIOUS
    <3> HIDE DEF m
    <3>4. EachIsRead(written, reader, given) /\ Walk(reader, rd) /\ p \in 1..Len(written)
          /\ Holds(Walked(written), q, written[p].gives, m)
      BY <1>2, <3>2
    <3> HIDE DEF c, g, w
    <3>5. rd[q] = given[p].gives \o rd[m]
      BY ONLY <3>4 DEF EachIsRead
    <3> QED BY <3>3, <3>5 DEF g
  <2> HIDE DEF c, g
  <2> QED BY <2>1, <2>2, <2>3, <2>4, <2>5
<1> HIDE DEF n, w, len
<1>9. PartsWritten(w, n, len, wr)
  BY <1>4, <1>5, <1>6, Zenon DEF PartsWritten
<1>10. rd[1] = X[1]
  BY <1>7, <1>8, <1>9, Chain
<1> QED BY <1>2, <1>3, <1>10

\* What stands at a place of a walk, and the place behind it.
TokenAt(tokens, q, g, m) ==
  q \in 1..Len(tokens) /\ tokens[q].gives = g /\ q + tokens[q].takes = m

LEMMA TokenIs ==
  ASSUME NEW tokens, NEW f, Walk(tokens, f), NEW q, NEW g, NEW m, TokenAt(tokens, q, g, m)
  PROVE  f[q] = g \o f[m]
BY DEF Walk, TokenAt

LEMMA MarkStarts ==
  ASSUME NEW s \in Seq(Int), NEW p \in 1..(Len(s) + 1), NEW mark \in Seq(Int)
  PROVE  StartsAt(s, p, mark) <=> /\ p + Len(mark) - 1 <= Len(s)
                                  /\ \A k \in 1..Len(mark) : s[p + k - 1] = mark[k]
<1> DEFINE l == Len(mark)
           m == p - 1
           n == p + l - 1
<1>1. l \in Nat /\ Len(s) \in Nat /\ m \in Nat
  OBVIOUS
<1>2. SUFFICES ASSUME n <= Len(s)
               PROVE  SubSeq(s, p, n) = mark <=> \A k \in 1..l : s[p + k - 1] = mark[k]
  BY DEF StartsAt
<1>3. n \in 0..Len(s) /\ p = m + 1 /\ n - m = l /\ (m < n \/ (l = 0 /\ ~(m < n)))
  BY <1>1, <1>2
<1> HIDE DEF l, m, n
<1>4. /\ SubSeq(s, m + 1, n) \in Seq(Int)
      /\ Len(SubSeq(s, m + 1, n)) = IF m < n THEN n - m ELSE 0
      /\ \A k \in 1..(n - m) : SubSeq(s, m + 1, n)[k] = s[m + k]
  BY <1>1, <1>3, PartOfSeq
<1> DEFINE u == SubSeq(s, p, n)
<1>5. u \in Seq(Int) /\ Len(u) = l /\ \A k \in 1..l : u[k] = s[p + k - 1]
  <2>1. u \in Seq(Int) /\ Len(u) = l
    BY <1>1, <1>3, <1>4
  <2>2. \A k \in 1..l : m + k = p + k - 1
    BY <1>1, <1>3
  <2> QED BY <1>3, <1>4, <2>1, <2>2
<1> HIDE DEF u
<1>6. (\A k \in 1..l : u[k] = mark[k]) => u = mark
  BY <1>5, SeqEqual DEF l
<1> QED BY <1>2, <1>5, <1>6 DEF u

\* A text that is read byte by byte is what it is.
LettersOf(t) == [p \in 1..Len(t) |-> Token(<<t[p]>>, 1)]

\* Each character of t is written as the part of it in r.
Rewritten(t, r) == [p \in 1..Len(t) |-> Token(r[p], 1)]

LEMMA RewrittenTokens ==
  ASSUME NEW t \in Seq(Int), NEW r \in [1..Len(t) -> Seq(Int)]
  PROVE  /\ AreTokens(Rewritten(t, r)) /\ Len(Rewritten(t, r)) = Len(t)
         /\ \A p \in 1..Len(t) : Rewritten(t, r)[p] = Token(r[p], 1)
                                 /\ Rewritten(t, r)[p].gives = r[p]
                                 /\ Rewritten(t, r)[p].takes = 1
<1> DEFINE n == Len(t)
           tokens == Rewritten(t, r)
<1>1. n \in Nat
  OBVIOUS
<1>2. \A p \in 1..n : tokens[p] = Token(r[p], 1)
  BY DEF Rewritten
<1>3. tokens = [p \in 1..n |-> tokens[p]]
  BY DEF Rewritten
<1> HIDE DEF tokens
<1>4. \A p \in 1..n : /\ tokens[p] \in [gives : Seq(Int), takes : Nat]
                      /\ tokens[p].takes = 1 /\ tokens[p].gives = r[p]
  <2> TAKE p \in 1..n
  <2>1. r[p] \in Seq(Int) /\ tokens[p] = [gives |-> r[p], takes |-> 1]
    BY <1>2 DEF Token
  <2> QED BY <2>1
<1>5. AreTokens(tokens) /\ Len(tokens) = n
  <2>1. \A p \in 1..n : /\ tokens[p] \in [gives : Seq(Int), takes : Nat]
                        /\ tokens[p].takes >= 1 /\ p + tokens[p].takes <= n + 1
    BY <1>1, <1>4
  <2> HIDE DEF n
  <2> QED BY <1>1, <1>3, <2>1, TokensOf
<1> QED BY <1>2, <1>4, <1>5 DEF tokens

LEMMA LettersGive ==
  ASSUME NEW t \in Seq(Int)
  PROVE  /\ AreTokens(LettersOf(t)) /\ Len(LettersOf(t)) = Len(t) /\ Walked(LettersOf(t)) = t
         /\ \A p \in 1..Len(t) : /\ LettersOf(t)[p].gives = <<t[p]>>
                                 /\ LettersOf(t)[p].takes = 1
<1> DEFINE r == [p \in 1..Len(t) |-> <<t[p]>>]
           tokens == LettersOf(t)
           n == Len(t)
<1>1. r \in [1..Len(t) -> Seq(Int)]
  <2>1. \A p \in 1..Len(t) : <<t[p]>> \in Seq(Int)
    OBVIOUS
  <2> QED BY <2>1
<1>2. tokens = Rewritten(t, r)
  BY DEF LettersOf, Rewritten
<1>3. AreTokens(tokens) /\ Len(tokens) = n
      /\ \A p \in 1..n : tokens[p].gives = <<t[p]>> /\ tokens[p].takes = 1
  <2>1. \A p \in 1..n : r[p] = <<t[p]>>
    OBVIOUS
  <2> HIDE DEF r
  <2> QED BY <1>1, <1>2, <2>1, RewrittenTokens
<1> HIDE DEF tokens
<1> DEFINE f == [p \in 1..(n + 1) |-> SubSeq(t, p, n)]
<1>4. n \in Nat
  OBVIOUS
<1>5. \A p \in 1..(n + 1) : /\ SubSeq(t, p, n) \in Seq(Int)
                            /\ Len(SubSeq(t, p, n)) = n + 1 - p
                            /\ \A k \in 1..(n + 1 - p) : SubSeq(t, p, n)[k] = t[p + k - 1]
  <2> TAKE p \in 1..(n + 1)
  <2> DEFINE m == p - 1
  <2>1. m \in Nat /\ p = m + 1 /\ n \in 0..n /\ n - m = n + 1 - p
        /\ (m < n \/ (n - m = 0 /\ ~(m < n)))
        /\ \A k \in 1..(n + 1 - p) : m + k = p + k - 1
    BY <1>4
  <2> HIDE DEF m
  <2>2. /\ SubSeq(t, m + 1, n) \in Seq(Int)
        /\ Len(SubSeq(t, m + 1, n)) = IF m < n THEN n - m ELSE 0
        /\ \A k \in 1..(n - m) : SubSeq(t, m + 1, n)[k] = t[m + k]
    BY <2>1, PartOfSeq
  <2> QED BY <2>1, <2>2
<1>6. Walk(tokens, f)
  <2>1. f \in [1..(n + 1) -> Seq(Int)]
    BY <1>5
  <2>2. f[n + 1] = << >>
    <3>1. n + 1 \in 1..(n + 1) /\ n + 1 - (n + 1) = 0
      BY <1>4
    <3>2. SubSeq(t, n + 1, n) \in Seq(Int) /\ Len(SubSeq(t, n + 1, n)) = 0
      BY <1>5, <3>1
    <3> QED BY <3>1, <3>2, EmptySeq
  <2>3. ASSUME NEW p \in 1..n
        PROVE  f[p] = tokens[p].gives \o f[p + tokens[p].takes]
    <3>1. p \in 1..(n + 1) /\ p + 1 \in 1..(n + 1)
      BY <1>4
    <3> DEFINE u == SubSeq(t, p, n)
               v == SubSeq(t, p + 1, n)
               c == <<t[p]>>
    <3>2. /\ u \in Seq(Int) /\ Len(u) = n + 1 - p
          /\ \A k \in 1..(n + 1 - p) : u[k] = t[p + k - 1]
      BY <1>5, <3>1
    <3>3. /\ v \in Seq(Int) /\ Len(v) = n + 1 - (p + 1)
          /\ \A k \in 1..(n + 1 - (p + 1)) : v[k] = t[(p + 1) + k - 1]
      BY <1>5, <3>1
    <3>4. c \in Seq(Int) /\ Len(c) = 1 /\ c[1] = t[p]
      OBVIOUS
    <3>5. f[p] = u /\ f[p + 1] = v
      BY <3>1
    <3> HIDE DEF u, v, c, f
    <3>6. /\ c \o v \in Seq(Int) /\ Len(c \o v) = 1 + Len(v)
          /\ \A k \in 1..(1 + Len(v)) : (c \o v)[k] = IF k <= 1 THEN c[k] ELSE v[k - 1]
      <4>1. c \in Seq(Int) /\ v \in Seq(Int)
        BY <3>3, <3>4
      <4>2. /\ c \o v \in Seq(Int) /\ Len(c \o v) = Len(c) + Len(v)
            /\ \A k \in 1..(Len(c) + Len(v)) :
                 (c \o v)[k] = IF k <= Len(c) THEN c[k] ELSE v[k - Len(c)]
        BY <4>1, ConcatProperties
      <4> QED BY ONLY <3>4, <4>2
    <3>7. Len(c \o v) = Len(u)
      BY <1>4, <3>1, <3>2, <3>3, <3>6
    <3>8. \A k \in 1..Len(u) : (c \o v)[k] = u[k]
      <4> TAKE k \in 1..Len(u)
      <4>1. k \in 1..(n + 1 - p) /\ k \in 1..(1 + Len(v))
        BY <1>4, <3>1, <3>2, <3>3
      <4>2. CASE k = 1
        <5>1. p + k - 1 = p /\ k <= 1
          BY <1>4, <3>1, <4>2
        <5>2. (c \o v)[k] = t[p]
          BY <3>4, <3>6, <4>1, <4>2, <5>1
        <5>3. u[k] = t[p]
          BY <3>2, <4>1, <5>1
        <5> QED BY <5>2, <5>3
      <4>3. CASE k # 1
        <5>1. k - 1 \in 1..(n + 1 - (p + 1)) /\ ~(k <= 1) /\ (p + 1) + (k - 1) - 1 = p + k - 1
          BY <1>4, <3>1, <4>1, <4>3
        <5> QED BY <3>2, <3>3, <3>6, <4>1, <5>1
      <4> QED BY <4>2, <4>3
    <3>9. u = c \o v
      BY ONLY <3>2, <3>6, <3>7, <3>8, SeqEqual
    <3>10. tokens[p].gives = c /\ tokens[p].takes = 1
      BY <1>3 DEF c
    <3> QED BY <3>5, <3>9, <3>10
  <2> HIDE DEF f
  <2> QED BY <1>3, <2>1, <2>2, <2>3 DEF Walk
<1>7. f[1] = t
  <2>1. 1 \in 1..(n + 1) /\ n + 1 - 1 = n /\ \A k \in 1..n : 1 + k - 1 = k
    BY <1>4
  <2>2. SubSeq(t, 1, n) \in Seq(Int) /\ Len(SubSeq(t, 1, n)) = n
        /\ \A k \in 1..n : SubSeq(t, 1, n)[k] = t[k]
    BY <1>5, <2>1
  <2>3. SubSeq(t, 1, n) = t
    BY <2>2
  <2> QED BY <2>1, <2>3
<1>8. Walked(tokens) = f[1]
  <2> HIDE DEF f
  <2> QED BY <1>3, <1>6, WalkIs
<1> QED BY <1>3, <1>7, <1>8 DEF tokens

\* Where what was written for a character stands in w, the reader gives what
\* is in s for it.
RewrittenRead(t, r, w, reader, s) ==
  \A rd, p, q, m : /\ Walk(reader, rd) /\ p \in 1..Len(t)
                   /\ Holds(w, q, r[p], m)
                   => rd[q] = s[p] \o rd[m]

\* A part for each character, and what they are together.
Writes(t, r, w) ==
  t \in Seq(Int) /\ r \in [1..Len(t) -> Seq(Int)] /\ w = Walked(Rewritten(t, r))

\* A token for each place of w.
Reads(reader, w) == AreTokens(reader) /\ Len(reader) = Len(w)

LEMMA RewrittenIsRead ==
  ASSUME NEW t, NEW r, NEW w, Writes(t, r, w), NEW s, NEW v, Writes(t, s, v),
         NEW reader, Reads(reader, w), RewrittenRead(t, r, w, reader, s)
  PROVE  Walked(reader) = v
<1>0. /\ t \in Seq(Int) /\ r \in [1..Len(t) -> Seq(Int)] /\ s \in [1..Len(t) -> Seq(Int)]
      /\ w = Walked(Rewritten(t, r)) /\ v = Walked(Rewritten(t, s))
      /\ AreTokens(reader) /\ Len(reader) = Len(w)
  BY DEF Writes, Reads
<1> DEFINE written == Rewritten(t, r)
           given == Rewritten(t, s)
<1>1. /\ AreTokens(written) /\ Len(written) = Len(t)
      /\ \A p \in 1..Len(t) : written[p].gives = r[p] /\ written[p].takes = 1
  BY <1>0, RewrittenTokens
<1>2. /\ AreTokens(given) /\ Len(given) = Len(t)
      /\ \A p \in 1..Len(t) : given[p].gives = s[p] /\ given[p].takes = 1
  BY <1>0, RewrittenTokens
<1>3. Walked(written) = w
  BY <1>0
<1> HIDE DEF written, given
<1>4. EachIsRead(written, reader, given)
  <2> SUFFICES ASSUME NEW rd, NEW p, NEW q, NEW m, Walk(reader, rd), p \in 1..Len(written),
                      Holds(Walked(written), q, written[p].gives, m)
               PROVE  rd[q] = given[p].gives \o rd[m]
    BY DEF EachIsRead
  <2>1. p \in 1..Len(t) /\ written[p].gives = r[p] /\ given[p].gives = s[p]
    BY <1>1, <1>2
  <2>2. Holds(w, q, r[p], m)
    BY <1>3, <2>1
  <2>3. rd[q] = s[p] \o rd[m]
    BY <2>1, <2>2 DEF RewrittenRead
  <2> QED BY <2>1, <2>3
<1>5. Len(given) = Len(written) /\ \A p \in 1..Len(written) : given[p].takes = written[p].takes
  BY <1>1, <1>2
<1>6. Walked(reader) = Walked(given)
  BY <1>0, <1>1, <1>2, <1>3, <1>4, <1>5, TokensAreRead
<1> QED BY <1>0, <1>6 DEF given

\* What a reader finds at the place p of a text of n characters.
IsToken(token, p, n) ==
  /\ token \in [gives : Seq(Int), takes : Nat]
  /\ token.takes >= 1 /\ p + token.takes <= n + 1

LEMMA FitToken ==
  ASSUME NEW n, NEW p, NEW g \in Seq(Int), NEW k \in Nat, k >= 1, p + k <= n + 1
  PROVE  IsToken(Token(g, k), p, n)
BY DEF IsToken, Token

LEMMA NoTokenFits ==
  ASSUME NEW w \in Seq(Int), NEW p \in 1..Len(w)
  PROVE  IsToken(NoToken(w, p), p, Len(w))
<1>1. Len(w) \in Nat /\ <<-1>> \in Seq(Int)
  OBVIOUS
<1> DEFINE k == Len(w) + 1 - p
<1>2. k \in Nat /\ k >= 1 /\ p + k <= Len(w) + 1
  BY <1>1
<1> HIDE DEF k
<1>3. IsToken(Token(<<-1>>, k), p, Len(w))
  BY <1>1, <1>2, FitToken
<1> QED BY <1>3 DEF k, NoToken

LEMMA ReaderTokens ==
  ASSUME NEW w \in Seq(Int), NEW tokens, tokens = [p \in 1..Len(w) |-> tokens[p]],
         \A p \in 1..Len(w) : IsToken(tokens[p], p, Len(w))
  PROVE  AreTokens(tokens) /\ Len(tokens) = Len(w)
<1>1. Len(w) \in Nat
  OBVIOUS
<1> QED BY <1>1, TokensOf DEF IsToken

\* A part that begins with a mark.
LEMMA HeldMark ==
  ASSUME NEW w \in Seq(Int), NEW q, NEW c \in Seq(Int), NEW m, Holds(w, q, c, m), Len(c) >= 1
  PROVE  StartsAt(w, q, c) /\ q \in 1..Len(w) /\ w[q] = c[1]
         /\ m = q + Len(c) /\ m <= Len(w) + 1
<1>1. Len(c) \in Nat /\ Len(w) \in Nat
  OBVIOUS
<1>2. /\ q \in 1..(Len(w) + 1) /\ q + Len(c) <= Len(w) + 1
      /\ m = q + Len(c) /\ m <= Len(w) + 1
      /\ \A k \in 1..Len(c) : w[q + k - 1] = c[k]
  BY DEF Holds
<1>3. q + Len(c) - 1 <= Len(w) /\ q \in 1..Len(w)
  BY <1>1, <1>2
<1>4. 1 \in 1..Len(c) /\ q + 1 - 1 = q
  BY <1>1, <1>2
<1>5. w[q] = c[1]
  BY <1>2, <1>4
<1>6. StartsAt(w, q, c)
  BY <1>2, <1>3, MarkStarts
<1> QED BY <1>2, <1>3, <1>5, <1>6

\* A mark that begins with another character does not stand there.
LEMMA OtherMark ==
  ASSUME NEW w \in Seq(Int), NEW q \in 1..Len(w), NEW mark \in Seq(Int), Len(mark) >= 1,
         w[q] # mark[1]
  PROVE  ~StartsAt(w, q, mark)
<1>1. Len(mark) \in Nat /\ Len(w) \in Nat
  OBVIOUS
<1>2. 1 \in 1..Len(mark) /\ q + 1 - 1 = q /\ q \in 1..(Len(w) + 1)
  BY <1>1
<1> QED BY <1>2, MarkStarts

-----------------------------------------------------------------------------
(* The YAML scalar *)

YamlTokens(w) == [p \in 1..Len(w) |-> YamlCharacter(w, p)]

LEMMA YamlReader ==
  ASSUME NEW w \in Seq(Int)
  PROVE  /\ AreTokens(YamlTokens(w)) /\ Len(YamlTokens(w)) = Len(w)
         /\ YamlText(w) = Walked(YamlTokens(w))
<1>0. DOMAIN w = 1..Len(w) /\ Len(w) \in Nat
  OBVIOUS
<1>1. \A p \in 1..Len(w) : IsToken(YamlCharacter(w, p), p, Len(w))
  <2> TAKE p \in 1..Len(w)
  <2>1. w[p] \in Int
    OBVIOUS
  <2>2. p + 1 <= Len(w) => IsToken(Token(<<39>>, 2), p, Len(w))
    <3> SUFFICES ASSUME p + 1 <= Len(w) PROVE IsToken(Token(<<39>>, 2), p, Len(w))
      OBVIOUS
    <3>1. <<39>> \in Seq(Int) /\ 2 \in Nat /\ 2 >= 1 /\ p + 2 <= Len(w) + 1
      BY <1>0
    <3> QED BY <3>1, FitToken
  <2>3. IsToken(Token(<<w[p]>>, 1), p, Len(w))
    <3>1. <<w[p]>> \in Seq(Int) /\ 1 \in Nat /\ 1 >= 1 /\ p + 1 <= Len(w) + 1
      BY <1>0, <2>1
    <3> QED BY <3>1, FitToken
  <2>4. IsToken(NoToken(w, p), p, Len(w))
    BY NoTokenFits
  <2>5. StartsAt(w, p, <<39, 39>>) => p + 1 <= Len(w)
    <3>1. Len(<<39, 39>>) = 2 /\ p + 2 - 1 = p + 1
      BY <1>0
    <3> QED BY <3>1 DEF StartsAt
  <2> QED BY <2>2, <2>3, <2>4, <2>5 DEF YamlCharacter
<1> DEFINE tokens == YamlTokens(w)
<1>2. \A p \in 1..Len(w) : tokens[p] = YamlCharacter(w, p)
  BY DEF YamlTokens
<1>3. tokens = [p \in 1..Len(w) |-> tokens[p]]
  BY <1>2, Zenon DEF YamlTokens
<1> HIDE DEF tokens
<1>4. AreTokens(tokens) /\ Len(tokens) = Len(w)
  <2>1. \A p \in 1..Len(w) : IsToken(tokens[p], p, Len(w))
    BY <1>1, <1>2
  <2> QED BY <1>3, <2>1, ReaderTokens
<1>5. YamlText(w) = Walked(YamlTokens(w))
  BY <1>0 DEF YamlText, YamlTokens
<1> QED BY <1>4, <1>5 DEF tokens

\* A text of bytes.
IsBytes(t) == t \in Seq(0..255)

LEMMA AtLeast32 ==
  ASSUME NEW b, b \in 0..255, b >= 32
  PROVE  b \in 32..255 /\ b \in Int
OBVIOUS

LEMMA BytesAreInts ==
  ASSUME NEW t, IsBytes(t)
  PROVE  /\ t \in Seq(Int) /\ DOMAIN t = 1..Len(t) /\ Len(t) \in Nat
         /\ \A p \in 1..Len(t) : t[p] \in 0..255 /\ t[p] \in Int
<1> DEFINE S == 0..255
<1>1. t \in Seq(S)
  BY DEF IsBytes
<1>2. \A b \in S : b \in Int
  OBVIOUS
<1>3. \A p \in 1..Len(t) : t[p] \in S
  <2> HIDE DEF S
  <2> QED BY <1>1, ElementOfSeq
<1>4. Len(t) \in Nat /\ DOMAIN t = 1..Len(t) /\ t \in [1..Len(t) -> S]
  <2> HIDE DEF S
  <2> QED BY <1>1, LenProperties
<1>5. \A p \in 1..Len(t) : t[p] \in Int
  <2> HIDE DEF S
  <2> QED BY <1>2, <1>3
<1>6. t \in [1..Len(t) -> Int]
  <2> HIDE DEF S
  <2> QED BY <1>4, <1>5
<1>7. t \in Seq(Int)
  <2> HIDE DEF S
  <2> QED BY <1>4, <1>6, SeqDef
<1> QED BY ONLY <1>3, <1>4, <1>5, <1>7

LEMMA YamlReadsBack ==
  ASSUME NEW t, IsBytes(t), \A p \in DOMAIN t : t[p] >= 32
  PROVE  YamlText(yaml_quoted(t)) = t
<1>0. /\ t \in Seq(Int) /\ DOMAIN t = 1..Len(t) /\ Len(t) \in Nat
      /\ \A p \in 1..Len(t) : t[p] \in 0..255 /\ t[p] \in Int
  BY BytesAreInts
<1>2. \A p \in 1..Len(t) : t[p] \in 32..255 /\ t[p] \in Int
  <2> TAKE p \in 1..Len(t)
  <2>1. t[p] \in 0..255 /\ t[p] >= 32
    BY <1>0
  <2> QED BY <2>1, AtLeast32
<1> DEFINE r == [p \in 1..Len(t) |-> IF t[p] = 39 THEN <<39, 39>> ELSE <<t[p]>>]
           written == Rewritten(t, r)
<1>1. yaml_quoted(t) = Walked(written)
  <2>1. written = [p \in DOMAIN t |-> Token(IF t[p] = 39 THEN <<39, 39>> ELSE <<t[p]>>, 1)]
    BY <1>0 DEF Rewritten
  <2> QED BY <2>1 DEF yaml_quoted, Escaped
<1>3. \A p \in 1..Len(t) : /\ r[p] = IF t[p] = 39 THEN <<39, 39>> ELSE <<t[p]>>
                           /\ r[p] \in Seq(Int)
  <2> TAKE p \in 1..Len(t)
  <2>1. r[p] = IF t[p] = 39 THEN <<39, 39>> ELSE <<t[p]>>
    OBVIOUS
  <2>2. t[p] \in Int
    BY <1>2
  <2>3. <<39, 39>> \in Seq(Int) /\ <<t[p]>> \in Seq(Int)
    BY <2>2
  <2> QED BY <2>1, <2>3
<1>4. r \in [1..Len(t) -> Seq(Int)]
  BY <1>3
<1> DEFINE w == Walked(Rewritten(t, r))
           letter == [p \in 1..Len(t) |-> <<t[p]>>]
<1>5. letter \in [1..Len(t) -> Seq(Int)] /\ \A p \in 1..Len(t) : letter[p] = <<t[p]>>
  BY <1>2
<1>6. w \in Seq(Int) /\ w = Walked(Rewritten(t, r))
  BY <1>0, <1>4, RewrittenTokens, WalkedType
<1>7. LettersOf(t) = Rewritten(t, letter) /\ Walked(LettersOf(t)) = t
  BY <1>0, LettersGive DEF LettersOf, Rewritten
<1>8. yaml_quoted(t) = w
  BY <1>1
<1> HIDE DEF r, w, letter
<1>9. /\ AreTokens(YamlTokens(w)) /\ Len(YamlTokens(w)) = Len(w)
      /\ YamlText(w) = Walked(YamlTokens(w))
  BY <1>6, YamlReader
<1>10. RewrittenRead(t, r, w, YamlTokens(w), letter)
  <2> SUFFICES ASSUME NEW rd, NEW p \in 1..Len(t), NEW q, NEW m, Walk(YamlTokens(w), rd),
                      Holds(w, q, r[p], m)
               PROVE  rd[q] = letter[p] \o rd[m]
    BY DEF RewrittenRead
  <2>1. /\ r[p] \in Seq(Int) /\ Len(r[p]) \in Nat /\ Len(r[p]) >= 1 /\ r[p][1] = t[p]
        /\ t[p] = 39 => r[p] = <<39, 39>> /\ Len(r[p]) = 2
        /\ t[p] # 39 => Len(r[p]) = 1
    <3>1. t[p] \in Int /\ r[p] \in Seq(Int) /\ r[p] = IF t[p] = 39 THEN <<39, 39>> ELSE <<t[p]>>
      BY <1>2, <1>3
    <3> QED BY ONLY <3>1
  <2>2. StartsAt(w, q, r[p]) /\ q \in 1..Len(w) /\ w[q] = t[p] /\ m = q + Len(r[p])
    <3> DEFINE c == r[p]
    <3>1. c \in Seq(Int) /\ Len(c) >= 1 /\ Holds(w, q, c, m)
      BY <2>1
    <3> HIDE DEF c
    <3>2. StartsAt(w, q, c) /\ q \in 1..Len(w) /\ w[q] = c[1] /\ m = q + Len(c)
      BY <1>6, <3>1, HeldMark
    <3> QED BY <2>1, <3>2 DEF c
  <2>3. YamlTokens(w)[q] = YamlCharacter(w, q) /\ q \in 1..Len(YamlTokens(w))
    BY <1>9, <2>2 DEF YamlTokens
  <2>4. TokenAt(YamlTokens(w), q, letter[p], m)
    <3>1. CASE t[p] = 39
      <4>1. YamlCharacter(w, q) = Token(<<39>>, 2)
        BY <2>1, <2>2, <3>1 DEF YamlCharacter
      <4>2. YamlTokens(w)[q].gives = <<39>> /\ YamlTokens(w)[q].takes = 2
        BY <2>3, <4>1 DEF Token
      <4>3. letter[p] = <<39>> /\ q + 2 = m
        BY <1>5, <2>1, <2>2, <3>1
      <4> QED BY <2>3, <4>2, <4>3 DEF TokenAt
    <3>2. CASE t[p] # 39
      <4>1. ~StartsAt(w, q, <<39, 39>>)
        <5>1. <<39, 39>> \in Seq(Int) /\ Len(<<39, 39>>) >= 1 /\ w[q] # <<39, 39>>[1]
          BY <2>2, <3>2
        <5> QED BY <1>6, <2>2, <5>1, OtherMark
      <4>2. w[q] \in (32..255) \ {39}
        BY <1>2, <2>2, <3>2
      <4>3. YamlCharacter(w, q) = Token(<<t[p]>>, 1)
        BY <2>2, <4>1, <4>2 DEF YamlCharacter
      <4>4. YamlTokens(w)[q].gives = <<t[p]>> /\ YamlTokens(w)[q].takes = 1
        BY <2>3, <4>3 DEF Token
      <4>5. letter[p] = <<t[p]>> /\ q + 1 = m
        BY <1>5, <2>1, <2>2, <3>2
      <4> QED BY <2>3, <4>4, <4>5 DEF TokenAt
    <3> QED BY <3>1, <3>2
  <2>5. Walk(YamlTokens(w), rd)
    OBVIOUS
  <2> DEFINE g == letter[p]
  <2>6. TokenAt(YamlTokens(w), q, g, m)
    BY <2>4
  <2> HIDE DEF g
  <2>7. rd[q] = g \o rd[m]
    BY ONLY <2>5, <2>6, TokenIs
  <2> QED BY <2>7 DEF g
<1>11. Writes(t, r, w) /\ Writes(t, letter, t) /\ Reads(YamlTokens(w), w)
  BY <1>0, <1>4, <1>5, <1>6, <1>7, <1>9 DEF Writes, Reads
<1>12. Walked(YamlTokens(w)) = t
  BY <1>10, <1>11, RewrittenIsRead
<1> QED BY <1>8, <1>9, <1>12

\* Where a part stands in w, the reader finds one token, for what is given.
TokenForEach(written, reader, given) ==
  \A p, q, m :
    p \in 1..Len(written) /\ Holds(Walked(written), q, written[p].gives, m)
    => TokenAt(reader, q, given[p].gives, m)

LEMMA OneTokenEach ==
  ASSUME NEW written, NEW reader, NEW given, TokenForEach(written, reader, given)
  PROVE  EachIsRead(written, reader, given)
<1> SUFFICES ASSUME NEW rd, NEW p, NEW q, NEW m, Walk(reader, rd), p \in 1..Len(written),
                    Holds(Walked(written), q, written[p].gives, m)
             PROVE  rd[q] = given[p].gives \o rd[m]
  BY DEF EachIsRead
<1> DEFINE g == given[p].gives
<1>1. TokenAt(reader, q, g, m)
  BY DEF TokenForEach
<1>2. Walk(reader, rd)
  OBVIOUS
<1> HIDE DEF g
<1>3. rd[q] = g \o rd[m]
  BY ONLY <1>1, <1>2, TokenIs
<1> QED BY <1>3 DEF g

\* The same of characters that are written as parts.
TokenForPart(t, r, w, reader, s) ==
  \A p, q, m : p \in 1..Len(t) /\ Holds(w, q, r[p], m) => TokenAt(reader, q, s[p], m)

LEMMA OneTokenForPart ==
  ASSUME NEW t, NEW r, NEW w, NEW reader, NEW s, TokenForPart(t, r, w, reader, s)
  PROVE  RewrittenRead(t, r, w, reader, s)
<1> SUFFICES ASSUME NEW rd, NEW p, NEW q, NEW m, Walk(reader, rd), p \in 1..Len(t),
                    Holds(w, q, r[p], m)
             PROVE  rd[q] = s[p] \o rd[m]
  BY DEF RewrittenRead
<1> DEFINE g == s[p]
<1>1. TokenAt(reader, q, g, m)
  BY DEF TokenForPart
<1>2. Walk(reader, rd)
  OBVIOUS
<1> HIDE DEF g
<1>3. rd[q] = g \o rd[m]
  BY ONLY <1>1, <1>2, TokenIs
<1> QED BY <1>3 DEF g

-----------------------------------------------------------------------------
(* The characters of a JSON string *)

JsonTokens(w) == [p \in 1..Len(w) |-> JsonCharacter(w, p)]

LEMMA JsonReader ==
  ASSUME NEW w \in Seq(Int)
  PROVE  Reads(JsonTokens(w), w) /\ Unescaped(w) = Walked(JsonTokens(w))
<1>0. DOMAIN w = 1..Len(w) /\ Len(w) \in Nat
  OBVIOUS
<1>1. \A p \in 1..Len(w) : IsToken(JsonCharacter(w, p), p, Len(w))
  <2> TAKE p \in 1..Len(w)
  <2>1. w[p] \in Int
    OBVIOUS
  <2>2. ASSUME NEW g \in Int, NEW k \in {1, 2, 6}, p + k <= Len(w) + 1
        PROVE  IsToken(Token(<<g>>, k), p, Len(w))
    <3>1. <<g>> \in Seq(Int) /\ k \in Nat /\ k >= 1
      BY <2>2
    <3> QED BY <2>2, <3>1, FitToken
  <2>3. IsToken(Token(<<w[p]>>, 1), p, Len(w))
    <3>1. p + 1 <= Len(w) + 1
      BY <1>0
    <3> QED BY <2>1, <2>2, <3>1
  <2>4. IsToken(NoToken(w, p), p, Len(w))
    BY NoTokenFits
  <2> DEFINE short == Unabridged(w[p + 1])
             code == DigitValue(w[p + 4]) * 16 + DigitValue(w[p + 5])
  <2>5. p < Len(w) => IsToken(Token(<<short>>, 2), p, Len(w))
    <3> SUFFICES ASSUME p < Len(w) PROVE IsToken(Token(<<short>>, 2), p, Len(w))
      OBVIOUS
    <3>1. w[p + 1] \in Int
      <4>1. p + 1 \in 1..Len(w)
        BY <1>0
      <4> QED BY <4>1, ElementOfSeq
    <3>2. short \in Int /\ p + 2 <= Len(w) + 1
      BY <1>0, <3>1 DEF Unabridged
    <3> HIDE DEF short
    <3> QED BY <2>2, <3>2
  <2>6. p + 5 <= Len(w) => IsToken(Token(<<code>>, 6), p, Len(w))
    <3> SUFFICES ASSUME p + 5 <= Len(w) PROVE IsToken(Token(<<code>>, 6), p, Len(w))
      OBVIOUS
    <3>1. p + 4 \in 1..Len(w) /\ p + 5 \in 1..Len(w) /\ p + 6 <= Len(w) + 1
      BY <1>0
    <3>2. w[p + 4] \in Int /\ w[p + 5] \in Int
      BY <3>1, ElementOfSeq
    <3>3. DigitValue(w[p + 4]) \in Int /\ DigitValue(w[p + 5]) \in Int
      <4>1. \A d \in Int : DigitValue(d) \in Int
        BY DEF DigitValue
      <4> QED BY <3>2, <4>1
    <3>4. code \in Int
      BY <3>3
    <3> HIDE DEF code
    <3> QED BY <2>2, <3>1, <3>4
  <2>7. \/ JsonCharacter(w, p) = Token(<<w[p]>>, 1)
        \/ p < Len(w) /\ JsonCharacter(w, p) = Token(<<short>>, 2)
        \/ p + 5 <= Len(w) /\ JsonCharacter(w, p) = Token(<<code>>, 6)
        \/ JsonCharacter(w, p) = NoToken(w, p)
    BY SMT DEF JsonCharacter
  <2> HIDE DEF short, code
  <2> QED BY <2>3, <2>4, <2>5, <2>6, <2>7
<1> DEFINE tokens == JsonTokens(w)
<1>2. \A p \in 1..Len(w) : tokens[p] = JsonCharacter(w, p)
  BY DEF JsonTokens
<1>3. tokens = [p \in 1..Len(w) |-> tokens[p]]
  BY <1>2, Zenon DEF JsonTokens
<1> HIDE DEF tokens
<1>4. Reads(tokens, w)
  <2>1. \A p \in 1..Len(w) : IsToken(tokens[p], p, Len(w))
    BY <1>1, <1>2
  <2> QED BY <1>3, <2>1, ReaderTokens DEF Reads
<1>5. Unescaped(w) = Walked(JsonTokens(w))
  BY <1>0 DEF Unescaped, JsonTokens
<1> QED BY <1>4, <1>5 DEF tokens

\* The ways a code is written in a JSON string.
JsonPart(c, code) ==
  \/ c = <<code>> /\ IsPlain(code)
  \/ c = <<92, code>> /\ code \in {34, 92}
  \/ c = <<92, 110>> /\ code = 10
  \/ c = <<92, 114>> /\ code = 13
  \/ c = <<92, 116>> /\ code = 9
  \/ c = <<92, 117, 48, 48, hexDigit(code \div 16), hexDigit(code % 16)>> /\ code \in 0..31

LEMMA HexDigits ==
  ASSUME NEW code \in 0..31
  PROVE  DigitValue(hexDigit(code \div 16)) * 16 + DigitValue(hexDigit(code % 16)) = code
<1>1. \A d \in 0..15 : DigitValue(hexDigit(d)) = d
  BY DEF DigitValue, hexDigit
<1>2. code \div 16 \in 0..15 /\ code % 16 \in 0..15 /\ (code \div 16) * 16 + (code % 16) = code
  OBVIOUS
<1> QED BY <1>1, <1>2

LEMMA BackslashIsNotPlain == ~IsPlain(92)
BY SMT DEF IsPlain

LEMMA JsonPartIsRead ==
  ASSUME NEW w \in Seq(Int), NEW code \in Int, NEW c \in Seq(Int), NEW q, NEW m,
         Holds(w, q, c, m), JsonPart(c, code)
  PROVE  TokenAt(JsonTokens(w), q, <<code>>, m)
<1>0. /\ q \in 1..(Len(w) + 1) /\ m = q + Len(c) /\ m <= Len(w) + 1
      /\ \A k \in 1..Len(c) : q + k - 1 \in 1..Len(w) /\ w[q + k - 1] = c[k]
      /\ Len(w) \in Nat /\ DOMAIN w = 1..Len(w)
  BY DEF Holds
<1>1. SUFFICES q \in 1..Len(w) /\ \E k : JsonCharacter(w, q) = Token(<<code>>, k) /\ q + k = m
  <2>1. Len(JsonTokens(w)) = Len(w)
    BY JsonReader DEF Reads
  <2>2. q \in 1..Len(w) => JsonTokens(w)[q] = JsonCharacter(w, q)
    BY DEF JsonTokens
  <2> QED BY <2>1, <2>2 DEF TokenAt, Token
<1>2. CASE c = <<code>> /\ IsPlain(code)
  <2>1. Len(c) = 1 /\ c[1] = code
    BY <1>2
  <2>2. q \in 1..Len(w) /\ w[q] = code /\ q + 1 = m
    <3>1. q + 1 - 1 = q /\ 1 \in 1..Len(c)
      BY <1>0, <2>1
    <3> QED BY <1>0, <2>1, <3>1
  <2>3. JsonCharacter(w, q) = Token(<<code>>, 1)
    <3>1. w[q] # 92 /\ IsPlain(w[q])
      BY <1>2, <2>2, BackslashIsNotPlain
    <3> QED BY <2>2, <3>1, SMT DEF JsonCharacter
  <2> QED BY <2>2, <2>3
<1>3. ASSUME NEW u \in Short, c = <<92, u>>,
             code = Unabridged(u)
      PROVE  q \in 1..Len(w) /\ JsonCharacter(w, q) = Token(<<code>>, 2) /\ q + 2 = m
  <2>1. Len(c) = 2 /\ c[1] = 92 /\ c[2] = u
    BY <1>3
  <2>2. q + 1 - 1 = q /\ q + 2 - 1 = q + 1 /\ 1 \in 1..Len(c) /\ 2 \in 1..Len(c)
    BY <1>0, <2>1
  <2>3. q \in 1..Len(w) /\ q + 1 \in 1..Len(w) /\ w[q] = 92 /\ w[q + 1] = u /\ q + 2 = m
    BY <1>0, <2>1, <2>2
  <2>4. ~IsPlain(w[q]) /\ u # 117 /\ q < Len(w)
    BY <1>0, <1>3, <2>3, BackslashIsNotPlain DEF Short
  <2>5. JsonCharacter(w, q) = Token(<<Unabridged(w[q + 1])>>, 2)
    BY <2>3, <2>4, SMT DEF JsonCharacter
  <2>6. JsonCharacter(w, q) = Token(<<code>>, 2)
    BY <1>3, <2>3, <2>5
  <2> QED BY <2>3, <2>6
<1>4. CASE code \in 0..31
           /\ c = <<92, 117, 48, 48, hexDigit(code \div 16), hexDigit(code % 16)>>
  <2>1. /\ Len(c) = 6 /\ c[1] = 92 /\ c[2] = 117
        /\ c[5] = hexDigit(code \div 16) /\ c[6] = hexDigit(code % 16)
    BY <1>4
  <2>2. /\ q + 1 - 1 = q /\ q + 2 - 1 = q + 1 /\ q + 5 - 1 = q + 4 /\ q + 6 - 1 = q + 5
        /\ 1 \in 1..Len(c) /\ 2 \in 1..Len(c) /\ 5 \in 1..Len(c) /\ 6 \in 1..Len(c)
    BY <1>0, <2>1
  <2>3. /\ q \in 1..Len(w) /\ w[q] = 92 /\ w[q + 1] = 117 /\ q + 6 = m
        /\ w[q + 4] = hexDigit(code \div 16) /\ w[q + 5] = hexDigit(code % 16)
        /\ q + 5 \in 1..Len(w)
    BY <1>0, <2>1, <2>2
  <2>4. ~IsPlain(w[q]) /\ w[q + 1] \notin Short /\ q + 5 <= Len(w)
    BY <1>0, <2>3, BackslashIsNotPlain DEF Short
  <2>5. JsonCharacter(w, q)
          = Token(<<DigitValue(w[q + 4]) * 16 + DigitValue(w[q + 5])>>, 6)
    BY <2>3, <2>4, SMT DEF JsonCharacter
  <2>6. DigitValue(w[q + 4]) * 16 + DigitValue(w[q + 5]) = code
    <3>1. DigitValue(hexDigit(code \div 16)) * 16 + DigitValue(hexDigit(code % 16)) = code
      BY <1>4, HexDigits
    <3> QED BY ONLY <2>3, <3>1
  <2> QED BY <2>3, <2>5, <2>6
<1>5. CASE c = <<92, code>> /\ code \in {34, 92}
  <2>1. code \in Short
    BY <1>5 DEF Short
  <2>2. code = Unabridged(code)
    BY <1>5 DEF Unabridged
  <2> QED BY <1>3, <1>5, <2>1, <2>2
<1>6. CASE c = <<92, 110>> /\ code = 10
  <2>1. 110 \in Short /\ code = Unabridged(110)
    BY <1>6 DEF Short, Unabridged
  <2> QED BY <1>3, <1>6, <2>1
<1>7. CASE c = <<92, 114>> /\ code = 13
  <2>1. 114 \in Short /\ code = Unabridged(114)
    BY <1>7 DEF Short, Unabridged
  <2> QED BY <1>3, <1>7, <2>1
<1>8. CASE c = <<92, 116>> /\ code = 9
  <2>1. 116 \in Short /\ code = Unabridged(116)
    BY <1>8 DEF Short, Unabridged
  <2> QED BY <1>3, <1>8, <2>1
<1> QED BY <1>2, <1>4, <1>5, <1>6, <1>7, <1>8 DEF JsonPart

\* The JSON of COCO and Create ML reads back.
LEMMA JsonRule ==
  ASSUME NEW b \in 0..255
  PROVE  json_rule(b) \in Seq(Int) /\ JsonPart(json_rule(b), b)
<1>1. CASE b \in {34, 92}
  <2>1. json_rule(b) = <<92, b>>
    BY <1>1 DEF json_rule
  <2> QED BY <1>1, <2>1 DEF JsonPart
<1>2. CASE b \in 0..31
  <2>1. json_rule(b) = <<92, 117, 48, 48, hexDigit(b \div 16), hexDigit(b % 16)>>
    BY <1>2 DEF json_rule
  <2>2. hexDigit(b \div 16) \in Int /\ hexDigit(b % 16) \in Int
    BY <1>2 DEF hexDigit
  <2>3. <<92, 117, 48, 48, hexDigit(b \div 16), hexDigit(b % 16)>> \in Seq(Int)
    BY <2>2
  <2> QED BY <1>2, <2>1, <2>3 DEF JsonPart
<1>3. CASE b \notin {34, 92} /\ b \notin 0..31
  <2>1. json_rule(b) = <<b>>
    BY <1>3 DEF json_rule
  <2>2. IsPlain(b)
    BY <1>3, SMT DEF IsPlain
  <2> QED BY <2>1, <2>2 DEF JsonPart
<1> QED BY <1>1, <1>2, <1>3

LEMMA JsonReadsBack ==
  ASSUME NEW t, IsBytes(t)
  PROVE  Unescaped(json_quoted(t)) = t
<1>0. /\ t \in Seq(Int) /\ DOMAIN t = 1..Len(t) /\ Len(t) \in Nat
      /\ \A p \in 1..Len(t) : t[p] \in 0..255 /\ t[p] \in Int
  BY BytesAreInts
<1> DEFINE r == [p \in 1..Len(t) |-> json_rule(t[p])]
           letter == [p \in 1..Len(t) |-> <<t[p]>>]
           w == Walked(Rewritten(t, r))
<1>1. json_quoted(t) = w
  <2>1. Rewritten(t, r) = [p \in DOMAIN t |-> Token(json_rule(t[p]), 1)]
    BY <1>0 DEF Rewritten
  <2> QED BY <2>1 DEF json_quoted, Escaped
<1>2. \A p \in 1..Len(t) : /\ r[p] = json_rule(t[p]) /\ r[p] \in Seq(Int)
                           /\ JsonPart(r[p], t[p])
  BY <1>0, JsonRule
<1>3. r \in [1..Len(t) -> Seq(Int)]
  BY <1>2
<1>4. letter \in [1..Len(t) -> Seq(Int)] /\ \A p \in 1..Len(t) : letter[p] = <<t[p]>>
  BY <1>0
<1>5. LettersOf(t) = Rewritten(t, letter) /\ Walked(LettersOf(t)) = t
  BY <1>0, LettersGive DEF LettersOf, Rewritten
<1>6. w \in Seq(Int) /\ w = Walked(Rewritten(t, r))
  BY <1>0, <1>3, RewrittenTokens, WalkedType
<1> HIDE DEF r, w, letter
<1>7. Reads(JsonTokens(w), w) /\ Unescaped(w) = Walked(JsonTokens(w))
  BY <1>6, JsonReader
<1>8. TokenForPart(t, r, w, JsonTokens(w), letter)
  <2> SUFFICES ASSUME NEW p \in 1..Len(t), NEW q, NEW m, Holds(w, q, r[p], m)
               PROVE  TokenAt(JsonTokens(w), q, letter[p], m)
    BY DEF TokenForPart
  <2> DEFINE c == r[p]
             code == t[p]
  <2>1. c \in Seq(Int) /\ code \in Int /\ Holds(w, q, c, m) /\ JsonPart(c, code)
    BY <1>0, <1>2
  <2> HIDE DEF c, code
  <2>2. TokenAt(JsonTokens(w), q, <<code>>, m)
    BY <1>6, <2>1, JsonPartIsRead
  <2> QED BY <1>4, <2>2 DEF code
<1>9. RewrittenRead(t, r, w, JsonTokens(w), letter)
  BY <1>8, OneTokenForPart
<1>10. Writes(t, r, w) /\ Writes(t, letter, t)
  BY <1>0, <1>3, <1>4, <1>5, <1>6 DEF Writes
<1>11. Walked(JsonTokens(w)) = t
  BY <1>7, <1>9, <1>10, RewrittenIsRead
<1> QED BY <1>1, <1>7, <1>11

\* What tokens give together is made of what they give.
LEMMA WalkedOver ==
  ASSUME NEW S, S \subseteq Int, NEW tokens, AreTokens(tokens),
         \A p \in 1..Len(tokens) : tokens[p].gives \in Seq(S)
  PROVE  Walked(tokens) \in Seq(S)
<1> DEFINE n == Len(tokens)
<1>0. n \in Nat
  BY DEF AreTokens
<1>1. PICK f : Walk(tokens, f) /\ Walked(tokens) = f[1]
  BY WalkExists
<1> DEFINE Wrong == {i \in 0..n : f[n + 1 - i] \notin Seq(S)}
<1>2. Wrong = {}
  <2> SUFFICES ASSUME Wrong # {} PROVE FALSE
    OBVIOUS
  <2>1. PICK i \in Wrong : \A y \in Wrong : i <= y
    <3>1. Wrong \subseteq Nat
      BY <1>0
    <3> HIDE DEF Wrong
    <3> QED BY <3>1, LeastMember
  <2>2. i \in 0..n /\ f[n + 1 - i] \notin Seq(S)
    OBVIOUS
  <2>3. i # 0
    <3>1. f[n + 1] = << >> /\ << >> \in Seq(S) /\ n + 1 - 0 = n + 1
      BY <1>0, <1>1, EmptySeq DEF Walk
    <3> QED BY <2>2, <3>1
  <2> DEFINE p == n + 1 - i
             l == tokens[p].takes
             j == n + 1 - (p + l)
             g == tokens[p].gives
  <2>4. p \in 1..n
    BY <1>0, <2>2, <2>3
  <2>5. l \in Nat /\ l >= 1 /\ p + l <= n + 1
    <3> HIDE DEF p
    <3> QED BY <2>4, TokenType
  <2>6. f[p] = g \o f[p + l] /\ g \in Seq(S)
    <3> HIDE DEF p
    <3> QED BY <1>1, <2>4 DEF Walk
  <2> HIDE DEF l, g
  <2>7. j \in 0..n /\ ~(i <= j) /\ n + 1 - j = p + l
    BY <1>0, <2>2, <2>4, <2>5
  <2>8. j \notin Wrong
    <3> HIDE DEF Wrong, j
    <3> QED BY <2>1, <2>7
  <2>9. f[p + l] \in Seq(S)
    <3> HIDE DEF j
    <3> QED BY <2>7, <2>8
  <2>10. f[p] \in Seq(S)
    <3> HIDE DEF p
    <3> DEFINE v == f[p + l]
    <3>1. v \in Seq(S) /\ g \in Seq(S)
      BY <2>6, <2>9
    <3> HIDE DEF v
    <3>2. g \o v \in Seq(S)
      BY <3>1, ConcatProperties
    <3> QED BY <2>6, <3>2 DEF v
  <2> QED BY <2>2, <2>10
<1>3. n \in 0..n /\ n + 1 - n = 1
  BY <1>0
<1>4. n \notin Wrong
  BY <1>2
<1>5. f[1] \in Seq(S)
  BY <1>3, <1>4
<1> QED BY <1>1, <1>5

-----------------------------------------------------------------------------
(* The text of an XML element *)

\* The parts a text is written as in XML, and the ones that are kept of it.
XmlParts(t) == [p \in 1..Len(t) |-> xml_rule(t[p])]
KeptParts(t) == [p \in 1..Len(t) |-> IF IsXml(t[p]) THEN <<t[p]>> ELSE << >>]

LEMMA XmlRule ==
  ASSUME NEW b \in 0..255
  PROVE  /\ xml_rule(b) \in Seq(Int)
         /\ IsXml(b) => Len(xml_rule(b)) >= 1 /\ (xml_rule(b)[1] = 10 => b = 10)
         /\ ~IsXml(b) => xml_rule(b) = << >>
         /\ IsXml(b) /\ b \notin {38, 60, 62} => xml_rule(b) = <<b>>
         /\ b = 38 => xml_rule(b) = Amp
         /\ b = 60 => xml_rule(b) = Lt
         /\ b = 62 => xml_rule(b) = Gt
<1>1. Amp \in Seq(Int) /\ Lt \in Seq(Int) /\ Gt \in Seq(Int) /\ <<b>> \in Seq(Int)
      /\ << >> \in Seq(Int)
  BY DEF Amp, Lt, Gt
<1>2. /\ b = 38 => xml_rule(b) = Amp
      /\ b = 60 => xml_rule(b) = Lt
      /\ b = 62 => xml_rule(b) = Gt
      /\ ~IsXml(b) => xml_rule(b) = << >>
      /\ IsXml(b) /\ b \notin {38, 60, 62} => xml_rule(b) = <<b>>
  <2>1. b = 38 => xml_rule(b) = Amp
    BY DEF xml_rule
  <2>2. b = 60 => xml_rule(b) = Lt
    BY DEF xml_rule
  <2>3. b = 62 => xml_rule(b) = Gt
    BY DEF xml_rule
  <2>4. ~IsXml(b) => b \in (0..31) \ {9, 10, 13}
    BY DEF IsXml
  <2>5. b \in (0..31) \ {9, 10, 13} => xml_rule(b) = << >>
    BY DEF xml_rule
  <2>6. IsXml(b) /\ b \notin {38, 60, 62} => xml_rule(b) = <<b>>
    BY DEF xml_rule, IsXml
  <2> QED BY ONLY <2>1, <2>2, <2>3, <2>4, <2>5, <2>6
<1>3. \/ b = 38 \/ b = 60 \/ b = 62 \/ ~IsXml(b) \/ (IsXml(b) /\ b \notin {38, 60, 62})
  OBVIOUS
<1>4. xml_rule(b) \in Seq(Int)
  BY ONLY <1>1, <1>2, <1>3
<1>5. IsXml(b) => Len(xml_rule(b)) >= 1 /\ (xml_rule(b)[1] = 10 => b = 10)
  <2>1. CASE b \in {38, 60, 62}
    <3>1. /\ Len(Amp) = 5 /\ Amp[1] = 38 /\ Len(Lt) = 4 /\ Lt[1] = 38
          /\ Len(Gt) = 4 /\ Gt[1] = 38
      BY DEF Amp, Lt, Gt
    <3> QED BY ONLY <1>2, <2>1, <3>1
  <2>2. CASE b \notin {38, 60, 62}
    <3>1. Len(<<b>>) = 1 /\ <<b>>[1] = b
      OBVIOUS
    <3> QED BY ONLY <1>2, <2>2, <3>1
  <2> QED BY <2>1, <2>2
<1> QED BY ONLY <1>2, <1>4, <1>5

LEMMA XmlEscapedIs ==
  ASSUME NEW t, IsBytes(t)
  PROVE  /\ Writes(t, XmlParts(t), xml_escaped(t))
         /\ Writes(t, KeptParts(t), ForXmlKept(t))
         /\ \A p \in 1..Len(t) : /\ XmlParts(t)[p] = xml_rule(t[p])
                                 /\ KeptParts(t)[p] = IF IsXml(t[p]) THEN <<t[p]>> ELSE << >>
<1>0. /\ t \in Seq(Int) /\ DOMAIN t = 1..Len(t) /\ Len(t) \in Nat
      /\ \A p \in 1..Len(t) : t[p] \in 0..255 /\ t[p] \in Int
  BY BytesAreInts
<1>1. \A p \in 1..Len(t) : /\ XmlParts(t)[p] = xml_rule(t[p])
                           /\ KeptParts(t)[p] = IF IsXml(t[p]) THEN <<t[p]>> ELSE << >>
  BY DEF XmlParts, KeptParts
<1>2. XmlParts(t) \in [1..Len(t) -> Seq(Int)]
  BY <1>0, XmlRule DEF XmlParts
<1>3. KeptParts(t) \in [1..Len(t) -> Seq(Int)]
  <2>1. \A p \in 1..Len(t) : <<t[p]>> \in Seq(Int) /\ << >> \in Seq(Int)
    BY <1>0
  <2> QED BY <2>1 DEF KeptParts
<1>4. xml_escaped(t) = Walked(Rewritten(t, XmlParts(t)))
  <2>1. Rewritten(t, XmlParts(t)) = [p \in DOMAIN t |-> Token(xml_rule(t[p]), 1)]
    BY <1>0 DEF Rewritten, XmlParts
  <2> QED BY <2>1 DEF xml_escaped, Escaped
<1>5. ForXmlKept(t) = Walked(Rewritten(t, KeptParts(t)))
  <2>1. Rewritten(t, KeptParts(t))
          = [p \in DOMAIN t |-> Token(IF IsXml(t[p]) THEN <<t[p]>> ELSE << >>, 1)]
    BY <1>0 DEF Rewritten, KeptParts
  <2> QED BY <2>1 DEF ForXmlKept, Escaped
<1> QED BY <1>0, <1>1, <1>2, <1>3, <1>4, <1>5 DEF Writes

\* What is kept has a place in XML, each byte of it.
LEMMA KeptIsXml ==
  ASSUME NEW t, IsBytes(t)
  PROVE  /\ IsBytes(ForXmlKept(t))
         /\ \A q \in 1..Len(ForXmlKept(t)) : IsXml(ForXmlKept(t)[q])
<1> DEFINE S == {b \in 0..255 : IsXml(b)}
           r == KeptParts(t)
           tokens == Rewritten(t, r)
<1>0. \A p \in 1..Len(t) : t[p] \in 0..255
  BY BytesAreInts
<1>1. t \in Seq(Int) /\ r \in [1..Len(t) -> Seq(Int)] /\ ForXmlKept(t) = Walked(tokens)
  BY XmlEscapedIs DEF Writes
<1>2. \A p \in 1..Len(t) : r[p] \in Seq(S)
  <2> TAKE p \in 1..Len(t)
  <2>1. r[p] = IF IsXml(t[p]) THEN <<t[p]>> ELSE << >>
    BY XmlEscapedIs
  <2>2. IsXml(t[p]) => t[p] \in S
    BY <1>0
  <2> HIDE DEF S, r
  <2>3. IsXml(t[p]) => <<t[p]>> \in Seq(S)
    BY <2>2
  <2>4. << >> \in Seq(S)
    OBVIOUS
  <2> QED BY <2>1, <2>3, <2>4
<1> HIDE DEF r
<1>3. /\ AreTokens(tokens) /\ Len(tokens) = Len(t)
      /\ \A p \in 1..Len(t) : tokens[p].gives = r[p]
  BY <1>1, RewrittenTokens
<1> HIDE DEF tokens
<1>4. S \subseteq Int
  OBVIOUS
<1>5. ForXmlKept(t) \in Seq(S)
  <2> HIDE DEF S
  <2>1. \A p \in 1..Len(tokens) : tokens[p].gives \in Seq(S)
    BY <1>2, <1>3
  <2>2. Walked(tokens) \in Seq(S)
    BY <1>3, <1>4, <2>1, WalkedOver
  <2> QED BY <1>1, <2>2
<1> DEFINE k == ForXmlKept(t)
<1> HIDE DEF k
<1>6. \A q \in 1..Len(k) : k[q] \in S
  <2> HIDE DEF S
  <2> QED BY <1>5, ElementOfSeq DEF k
<1>7. \A q \in 1..Len(k) : IsXml(k[q])
  BY <1>6
<1>8. IsBytes(k)
  <2> DEFINE B == 0..255
  <2>1. S \subseteq B
    OBVIOUS
  <2>2. k \in Seq(B)
    <3> HIDE DEF S, B
    <3>1. k \in [1..Len(k) -> S] /\ Len(k) \in Nat
      BY <1>5, LenProperties DEF k
    <3>2. k \in [1..Len(k) -> B]
      BY <2>1, <3>1
    <3> QED BY <3>1, <3>2, SeqDef
  <2> QED BY <2>2 DEF IsBytes
<1> QED BY <1>7, <1>8 DEF k

\* The characters that are dropped leave no trace.
LEMMA XmlOfKept ==
  ASSUME NEW t, IsBytes(t)
  PROVE  xml_escaped(ForXmlKept(t)) = xml_escaped(t)
<1> DEFINE k == ForXmlKept(t)
           s == XmlParts(k)
           reader == Rewritten(k, s)
<1>0. \A p \in 1..Len(t) : t[p] \in 0..255 /\ t[p] \in Int
  BY BytesAreInts
<1>1. /\ Writes(t, XmlParts(t), xml_escaped(t)) /\ Writes(t, KeptParts(t), k)
      /\ \A p \in 1..Len(t) : /\ XmlParts(t)[p] = xml_rule(t[p])
                              /\ KeptParts(t)[p] = IF IsXml(t[p]) THEN <<t[p]>> ELSE << >>
  BY XmlEscapedIs
<1>2. IsBytes(k)
  BY KeptIsXml
<1> HIDE DEF k
<1>3. /\ Writes(k, s, xml_escaped(k))
      /\ \A q \in 1..Len(k) : s[q] = xml_rule(k[q])
  BY <1>2, XmlEscapedIs
<1> HIDE DEF s
<1>4. k \in Seq(Int) /\ s \in [1..Len(k) -> Seq(Int)] /\ xml_escaped(k) = Walked(reader)
  BY <1>3 DEF Writes
<1>5. /\ AreTokens(reader) /\ Len(reader) = Len(k)
      /\ \A q \in 1..Len(k) : reader[q].gives = s[q] /\ reader[q].takes = 1
  BY <1>4, RewrittenTokens
<1> HIDE DEF reader
<1>6. RewrittenRead(t, KeptParts(t), k, reader, XmlParts(t))
  <2> SUFFICES ASSUME NEW rd, NEW p \in 1..Len(t), NEW q, NEW m, Walk(reader, rd),
                      Holds(k, q, KeptParts(t)[p], m)
               PROVE  rd[q] = XmlParts(t)[p] \o rd[m]
    BY DEF RewrittenRead
  <2> DEFINE c == KeptParts(t)[p]
             g == XmlParts(t)[p]
  <2>0. Walk(reader, rd) /\ Holds(k, q, c, m)
    OBVIOUS
  <2>1. c = (IF IsXml(t[p]) THEN <<t[p]>> ELSE << >>) /\ g = xml_rule(t[p])
    BY <1>1
  <2> HIDE DEF c, g
  <2>2. CASE IsXml(t[p])
    <3>1. c = <<t[p]>> /\ c \in Seq(Int) /\ Len(c) = 1 /\ c[1] = t[p]
      BY <1>0, <2>1, <2>2
    <3>2. q \in 1..Len(k) /\ k[q] = c[1] /\ m = q + Len(c)
      <4>1. k \in Seq(Int) /\ c \in Seq(Int) /\ Len(c) >= 1 /\ Holds(k, q, c, m)
        BY <1>4, <2>0, <3>1
      <4> QED BY ONLY <4>1, HeldMark
    <3>3. reader[q].gives = g /\ reader[q].takes = 1
      BY <1>3, <1>5, <2>1, <3>1, <3>2
    <3>4. TokenAt(reader, q, g, m)
      BY <1>5, <3>1, <3>2, <3>3 DEF TokenAt
    <3>5. rd[q] = g \o rd[m]
      BY ONLY <2>0, <3>4, TokenIs
    <3> QED BY <3>5 DEF g
  <2>3. CASE ~IsXml(t[p])
    <3>1. c = << >> /\ Len(c) = 0 /\ g = << >>
      BY <1>0, <2>1, <2>3, XmlRule
    <3>2. m = q /\ q \in 1..(Len(reader) + 1)
      BY <1>5, <2>0, <3>1 DEF Holds
    <3>3. rd[q] \in Seq(Int)
      BY <2>0, <3>2 DEF Walk
    <3> DEFINE v == rd[q]
    <3> HIDE DEF v
    <3>4. << >> \o v = v
      BY <3>3, ConcatEmptySeq DEF v
    <3>5. rd[m] = v /\ rd[q] = v
      BY <3>2 DEF v
    <3> QED BY <3>1, <3>4, <3>5 DEF g
  <2> QED BY <2>2, <2>3
<1>7. Reads(reader, k)
  BY <1>5 DEF Reads
<1>8. Walked(reader) = xml_escaped(t)
  BY <1>1, <1>6, <1>7, RewrittenIsRead
<1> QED BY <1>4, <1>8 DEF k

\* The tokens of an XML reader, and of a text with its line ends joined.
XmlTokens(w) == [p \in 1..Len(w) |-> XmlCharacter(w, p)]

JoinedTokens(k) ==
  [p \in 1..Len(k) |->
    CASE StartsAt(k, p, <<13, 10>>) -> Token(<<10>>, 2)
      [] k[p] = 13 /\ ~StartsAt(k, p, <<13, 10>>) -> Token(<<10>>, 1)
      [] OTHER -> Token(<<k[p]>>, 1)]

LEMMA OneFits ==
  ASSUME NEW w \in Seq(Int), NEW p \in 1..Len(w), NEW code \in Int
  PROVE  IsToken(Token(<<code>>, 1), p, Len(w))
<1>1. <<code>> \in Seq(Int) /\ Len(w) \in Nat
  OBVIOUS
<1>2. p + 1 <= Len(w) + 1
  BY <1>1
<1> QED BY <1>1, <1>2 DEF IsToken, Token

LEMMA MarksAre ==
  /\ Amp \in Seq(Int) /\ Len(Amp) = 5 /\ Amp[1] = 38 /\ Amp[2] = 97
  /\ Lt \in Seq(Int) /\ Len(Lt) = 4 /\ Lt[1] = 38 /\ Lt[2] = 108
  /\ Gt \in Seq(Int) /\ Len(Gt) = 4 /\ Gt[1] = 38 /\ Gt[2] = 103
  /\ <<13, 10>> \in Seq(Int) /\ Len(<<13, 10>>) = 2 /\ <<13, 10>>[1] = 13 /\ <<13, 10>>[2] = 10
BY DEF Amp, Lt, Gt

LEMMA XmlReader ==
  ASSUME NEW w \in Seq(Int)
  PROVE  Reads(XmlTokens(w), w) /\ XmlText(w) = Walked(XmlTokens(w))
<1>0. DOMAIN w = 1..Len(w) /\ Len(w) \in Nat
  OBVIOUS
<1>1. \A p \in 1..Len(w) : IsToken(XmlCharacter(w, p), p, Len(w))
  <2> TAKE p \in 1..Len(w)
  <2>1. w[p] \in Int
    OBVIOUS
  <2>2. StartsAt(w, p, Amp) => IsToken(Token(<<38>>, 5), p, Len(w))
    <3>1. StartsAt(w, p, Amp) => p + 5 <= Len(w) + 1
      BY <1>0, MarksAre DEF StartsAt
    <3>2. <<38>> \in Seq(Int)
      OBVIOUS
    <3> QED BY <3>1, <3>2 DEF IsToken, Token
  <2>3. StartsAt(w, p, Lt) => IsToken(Token(<<60>>, 4), p, Len(w))
    <3>1. StartsAt(w, p, Lt) => p + 4 <= Len(w) + 1
      BY <1>0, MarksAre DEF StartsAt
    <3>2. <<60>> \in Seq(Int)
      OBVIOUS
    <3> QED BY <3>1, <3>2 DEF IsToken, Token
  <2>4. StartsAt(w, p, Gt) => IsToken(Token(<<62>>, 4), p, Len(w))
    <3>1. StartsAt(w, p, Gt) => p + 4 <= Len(w) + 1
      BY <1>0, MarksAre DEF StartsAt
    <3>2. <<62>> \in Seq(Int)
      OBVIOUS
    <3> QED BY <3>1, <3>2 DEF IsToken, Token
  <2>5. StartsAt(w, p, <<13, 10>>) => IsToken(Token(<<10>>, 2), p, Len(w))
    <3> SUFFICES ASSUME StartsAt(w, p, <<13, 10>>) PROVE IsToken(Token(<<10>>, 2), p, Len(w))
      OBVIOUS
    <3> DEFINE mark == <<13, 10>>
    <3>1. mark \in Seq(Int) /\ Len(mark) = 2 /\ StartsAt(w, p, mark)
      BY MarksAre
    <3> HIDE DEF mark
    <3>2. p + Len(mark) <= Len(w) + 1
      BY <1>0, <3>1 DEF StartsAt
    <3>3. <<10>> \in Seq(Int)
      OBVIOUS
    <3> QED BY <3>1, <3>2, <3>3 DEF IsToken, Token
  <2>6. IsToken(Token(<<w[p]>>, 1), p, Len(w)) /\ IsToken(Token(<<10>>, 1), p, Len(w))
    BY <2>1, OneFits
  <2>7. IsToken(NoToken(w, p), p, Len(w))
    BY NoTokenFits
  <2>8. \/ StartsAt(w, p, Amp) /\ XmlCharacter(w, p) = Token(<<38>>, 5)
        \/ StartsAt(w, p, Lt) /\ XmlCharacter(w, p) = Token(<<60>>, 4)
        \/ StartsAt(w, p, Gt) /\ XmlCharacter(w, p) = Token(<<62>>, 4)
        \/ StartsAt(w, p, <<13, 10>>) /\ XmlCharacter(w, p) = Token(<<10>>, 2)
        \/ XmlCharacter(w, p) = Token(<<10>>, 1)
        \/ XmlCharacter(w, p) = Token(<<w[p]>>, 1)
        \/ XmlCharacter(w, p) = NoToken(w, p)
    BY SMT DEF XmlCharacter
  <2> QED BY <2>2, <2>3, <2>4, <2>5, <2>6, <2>7, <2>8
<1> DEFINE tokens == XmlTokens(w)
<1>2. \A p \in 1..Len(w) : tokens[p] = XmlCharacter(w, p)
  BY DEF XmlTokens
<1>3. tokens = [p \in 1..Len(w) |-> tokens[p]]
  BY <1>2, Zenon DEF XmlTokens
<1> HIDE DEF tokens
<1>4. Reads(tokens, w)
  <2>1. \A p \in 1..Len(w) : IsToken(tokens[p], p, Len(w))
    BY <1>1, <1>2
  <2> QED BY <1>3, <2>1, ReaderTokens DEF Reads
<1>5. XmlText(w) = Walked(XmlTokens(w))
  BY <1>0 DEF XmlText, XmlTokens
<1> QED BY <1>4, <1>5 DEF tokens

LEMMA JoinedReader ==
  ASSUME NEW k \in Seq(Int)
  PROVE  /\ Reads(JoinedTokens(k), k) /\ LinesJoined(k) = Walked(JoinedTokens(k))
         /\ \A p \in 1..Len(k) :
              /\ StartsAt(k, p, <<13, 10>>) => JoinedTokens(k)[p] = Token(<<10>>, 2)
              /\ ~StartsAt(k, p, <<13, 10>>) =>
                   JoinedTokens(k)[p] = Token(<<IF k[p] = 13 THEN 10 ELSE k[p]>>, 1)
<1> DEFINE tokens == JoinedTokens(k)
<1>0. DOMAIN k = 1..Len(k) /\ Len(k) \in Nat
  OBVIOUS
<1>1. \A p \in 1..Len(k) :
         /\ StartsAt(k, p, <<13, 10>>) => tokens[p] = Token(<<10>>, 2)
         /\ ~StartsAt(k, p, <<13, 10>>) =>
              tokens[p] = Token(<<IF k[p] = 13 THEN 10 ELSE k[p]>>, 1)
  <2> TAKE p \in 1..Len(k)
  <2>1. tokens[p] = CASE StartsAt(k, p, <<13, 10>>) -> Token(<<10>>, 2)
                      [] k[p] = 13 /\ ~StartsAt(k, p, <<13, 10>>) -> Token(<<10>>, 1)
                      [] OTHER -> Token(<<k[p]>>, 1)
    BY DEF JoinedTokens
  <2> HIDE DEF tokens
  <2> QED BY <2>1
<1>2. tokens = [p \in 1..Len(k) |-> tokens[p]]
  BY Zenon DEF JoinedTokens
<1>3. LinesJoined(k) = Walked(tokens)
  BY <1>0 DEF LinesJoined, JoinedTokens
<1> HIDE DEF tokens
<1>4. \A p \in 1..Len(k) : IsToken(tokens[p], p, Len(k))
  <2> TAKE p \in 1..Len(k)
  <2>1. CASE StartsAt(k, p, <<13, 10>>)
    <3> DEFINE mark == <<13, 10>>
    <3>1. mark \in Seq(Int) /\ Len(mark) = 2 /\ StartsAt(k, p, mark)
      BY <2>1, MarksAre
    <3>2. tokens[p] = Token(<<10>>, 2)
      BY <1>1, <2>1
    <3> HIDE DEF mark
    <3>3. p + Len(mark) <= Len(k) + 1
      BY <1>0, <3>1 DEF StartsAt
    <3>4. <<10>> \in Seq(Int)
      OBVIOUS
    <3> QED BY <3>1, <3>2, <3>3, <3>4 DEF IsToken, Token
  <2>2. CASE ~StartsAt(k, p, <<13, 10>>)
    <3> DEFINE code == IF k[p] = 13 THEN 10 ELSE k[p]
    <3>1. code \in Int
      OBVIOUS
    <3>2. tokens[p] = Token(<<code>>, 1)
      BY <1>1, <2>2
    <3> HIDE DEF code
    <3>3. IsToken(Token(<<code>>, 1), p, Len(k))
      BY <3>1, OneFits
    <3> QED BY <3>2, <3>3
  <2> QED BY <2>1, <2>2
<1>5. Reads(tokens, k)
  BY <1>2, <1>4, ReaderTokens DEF Reads
<1> QED BY <1>1, <1>3, <1>5 DEF tokens

LEMMA MarkAt ==
  ASSUME NEW w \in Seq(Int), NEW q \in 1..Len(w), NEW mark \in Seq(Int), Len(mark) >= 2,
         StartsAt(w, q, mark)
  PROVE  w[q] = mark[1] /\ w[q + 1] = mark[2] /\ q + 1 \in 1..Len(w)
<1>1. Len(mark) \in Nat /\ Len(w) \in Nat
  OBVIOUS
<1>2. /\ q \in 1..(Len(w) + 1) /\ 1 \in 1..Len(mark) /\ 2 \in 1..Len(mark)
      /\ q + 1 - 1 = q /\ q + 2 - 1 = q + 1
  BY <1>1
<1>3. /\ q + Len(mark) - 1 <= Len(w)
      /\ \A k \in 1..Len(mark) : w[q + k - 1] = mark[k]
  BY <1>2, MarkStarts
<1>4. q + 1 \in 1..Len(w)
  BY <1>1, <1>3
<1> QED BY <1>2, <1>3, <1>4

\* What stands where a mark was held: the token of the reader.
LEMMA XmlMarkIsRead ==
  ASSUME NEW w \in Seq(Int), NEW q \in 1..Len(w)
  PROVE  /\ StartsAt(w, q, Amp) => XmlCharacter(w, q) = Token(<<38>>, 5)
         /\ StartsAt(w, q, Lt) => XmlCharacter(w, q) = Token(<<60>>, 4)
         /\ StartsAt(w, q, Gt) => XmlCharacter(w, q) = Token(<<62>>, 4)
         /\ StartsAt(w, q, <<13, 10>>) => XmlCharacter(w, q) = Token(<<10>>, 2)
         /\ w[q] = 13 /\ ~StartsAt(w, q, <<13, 10>>) => XmlCharacter(w, q) = Token(<<10>>, 1)
         /\ IsXml(w[q]) /\ w[q] \notin {13, 38, 60} => XmlCharacter(w, q) = Token(<<w[q]>>, 1)
<1> DEFINE A == StartsAt(w, q, Amp)
           L == StartsAt(w, q, Lt)
           G == StartsAt(w, q, Gt)
           E == StartsAt(w, q, <<13, 10>>)
<1>1. ASSUME NEW mark \in Seq(Int), Len(mark) >= 2, StartsAt(w, q, mark)
      PROVE  w[q] = mark[1] /\ w[q + 1] = mark[2]
  BY <1>1, MarkAt
<1>2. A => w[q] = 38 /\ w[q + 1] = 97
  <2>1. Amp \in Seq(Int) /\ Len(Amp) >= 2 /\ Amp[1] = 38 /\ Amp[2] = 97
    BY MarksAre
  <2> QED BY <1>1, <2>1
<1>3. L => w[q] = 38 /\ w[q + 1] = 108
  <2>1. Lt \in Seq(Int) /\ Len(Lt) >= 2 /\ Lt[1] = 38 /\ Lt[2] = 108
    BY MarksAre
  <2> QED BY <1>1, <2>1
<1>4. G => w[q] = 38 /\ w[q + 1] = 103
  <2>1. Gt \in Seq(Int) /\ Len(Gt) >= 2 /\ Gt[1] = 38 /\ Gt[2] = 103
    BY MarksAre
  <2> QED BY <1>1, <2>1
<1>7. E => w[q] = 13
  <2> DEFINE mark == <<13, 10>>
  <2>1. mark \in Seq(Int) /\ Len(mark) >= 2 /\ mark[1] = 13
    BY MarksAre
  <2> HIDE DEF mark
  <2>2. StartsAt(w, q, mark) => w[q] = 13
    BY <1>1, <2>1
  <2> QED BY <2>2 DEF mark
<1>5. XmlCharacter(w, q)
        = CASE A -> Token(<<38>>, 5) [] L -> Token(<<60>>, 4) [] G -> Token(<<62>>, 4)
            [] E -> Token(<<10>>, 2) [] w[q] = 13 /\ ~E -> Token(<<10>>, 1)
            [] IsXml(w[q]) /\ w[q] \notin {13, 38, 60} -> Token(<<w[q]>>, 1)
            [] OTHER -> NoToken(w, q)
  BY DEF XmlCharacter
<1> HIDE DEF A, L, G, E
<1>6. /\ A => XmlCharacter(w, q) = Token(<<38>>, 5)
      /\ L => XmlCharacter(w, q) = Token(<<60>>, 4)
      /\ G => XmlCharacter(w, q) = Token(<<62>>, 4)
      /\ E => XmlCharacter(w, q) = Token(<<10>>, 2)
      /\ w[q] = 13 /\ ~E => XmlCharacter(w, q) = Token(<<10>>, 1)
      /\ IsXml(w[q]) /\ w[q] \notin {13, 38, 60} => XmlCharacter(w, q) = Token(<<w[q]>>, 1)
  BY ONLY <1>2, <1>3, <1>4, <1>5, <1>7
<1> QED BY <1>6 DEF A, L, G, E

LEMMA PairConcat ==
  ASSUME NEW a \in Int, NEW b \in Int, NEW v \in Seq(Int)
  PROVE  <<a>> \o (<<b>> \o v) = <<a, b>> \o v
<1> DEFINE u == <<a>>
           y == <<b>>
           z == <<a, b>>
<1>1. /\ u \in Seq(Int) /\ Len(u) = 1 /\ u[1] = a /\ y \in Seq(Int) /\ Len(y) = 1 /\ y[1] = b
      /\ z \in Seq(Int) /\ Len(z) = 2 /\ z[1] = a /\ z[2] = b
  OBVIOUS
<1> HIDE DEF u, y, z
<1>2. /\ u \o y \in Seq(Int) /\ Len(u \o y) = 2
      /\ \A i \in 1..2 : (u \o y)[i] = IF i <= 1 THEN u[i] ELSE y[i - 1]
  <2>1. /\ u \o y \in Seq(Int) /\ Len(u \o y) = Len(u) + Len(y)
        /\ \A i \in 1..(Len(u) + Len(y)) :
             (u \o y)[i] = IF i <= Len(u) THEN u[i] ELSE y[i - Len(u)]
    BY <1>1, ConcatProperties
  <2>2. Len(u) + Len(y) = 2
    BY <1>1
  <2> QED BY <1>1, <2>1, <2>2
<1>3. (u \o y)[1] = a /\ (u \o y)[2] = b
  BY <1>1, <1>2
<1>4. \A i \in 1..2 : (u \o y)[i] = z[i]
  <2> TAKE i \in 1..2
  <2>1. i = 1 \/ i = 2
    OBVIOUS
  <2> QED BY <1>1, <1>3, <2>1
<1>5. u \o y = z
  BY ONLY <1>1, <1>2, <1>4, SeqEqual
<1>6. (u \o y) \o v = u \o (y \o v)
  <2>1. u \in Seq(Int) /\ y \in Seq(Int) /\ v \in Seq(Int)
    BY <1>1
  <2> QED BY ONLY <2>1, ConcatAssociative
<1> QED BY <1>5, <1>6 DEF u, y, z

\* A text of what XML has a place for reads back but for its line ends.
LEMMA XmlReadsBack ==
  ASSUME NEW k, IsBytes(k), \A p \in 1..Len(k) : IsXml(k[p])
  PROVE  XmlText(xml_escaped(k)) = LinesJoined(k)
<1> DEFINE n == Len(k)
           r == XmlParts(k)
           w == xml_escaped(k)
           tokens == JoinedTokens(k)
           reader == XmlTokens(w)
           len == [p \in 1..n |-> tokens[p].takes]
<1>0. /\ k \in Seq(Int) /\ n \in Nat /\ DOMAIN k = 1..n
      /\ \A p \in 1..n : k[p] \in 0..255 /\ k[p] \in Int /\ IsXml(k[p])
  BY BytesAreInts
<1>1. Writes(k, r, w) /\ \A p \in 1..n : r[p] = xml_rule(k[p])
  BY XmlEscapedIs
<1>2. \A p \in 1..n :
        /\ r[p] \in Seq(Int)
        /\ Len(r[p]) >= 1 /\ (r[p][1] = 10 => k[p] = 10)
        /\ k[p] \notin {38, 60, 62} => r[p] = <<k[p]>>
        /\ k[p] = 38 => r[p] = Amp
        /\ k[p] = 60 => r[p] = Lt
        /\ k[p] = 62 => r[p] = Gt
  <2> TAKE p \in 1..n
  <2> DEFINE b == k[p]
             c == r[p]
  <2>1. b \in 0..255 /\ IsXml(b) /\ c = xml_rule(b)
    BY <1>0, <1>1
  <2> HIDE DEF b, c
  <2>2. /\ c \in Seq(Int) /\ Len(c) >= 1 /\ (c[1] = 10 => b = 10)
        /\ b \notin {38, 60, 62} => c = <<b>>
        /\ b = 38 => c = Amp
        /\ b = 60 => c = Lt
        /\ b = 62 => c = Gt
    BY <2>1, XmlRule
  <2> QED BY <2>2 DEF b, c
<1> HIDE DEF r, w
<1>3. k \in Seq(Int) /\ r \in [1..n -> Seq(Int)] /\ w = Walked(Rewritten(k, r))
  BY <1>1 DEF Writes
<1> DEFINE written == Rewritten(k, r)
<1>4. /\ AreTokens(written) /\ Len(written) = n
      /\ \A p \in 1..n : written[p].gives = r[p] /\ written[p].takes = 1
  BY <1>3, RewrittenTokens
<1>5. w \in Seq(Int) /\ w = Walked(written)
  BY <1>3, <1>4, WalkedType
<1> HIDE DEF written
<1>6. Reads(reader, w) /\ XmlText(w) = Walked(reader)
  BY <1>5, XmlReader
<1>7. /\ Reads(tokens, k) /\ LinesJoined(k) = Walked(tokens)
      /\ \A p \in 1..n :
           /\ StartsAt(k, p, <<13, 10>>) => tokens[p] = Token(<<10>>, 2)
           /\ ~StartsAt(k, p, <<13, 10>>) =>
                tokens[p] = Token(<<IF k[p] = 13 THEN 10 ELSE k[p]>>, 1)
  BY <1>0, JoinedReader
<1>8. \A q \in 1..Len(w) : reader[q] = XmlCharacter(w, q)
  BY DEF XmlTokens
<1> HIDE DEF reader, tokens
<1>9. PICK wr : Walk(written, wr) /\ wr[1] = w
  BY <1>4, <1>5, WalkExists
<1>10. PICK rd : Walk(reader, rd) /\ Walked(reader) = rd[1]
  BY <1>6, WalkExists DEF Reads
<1>11. PICK X : Walk(tokens, X) /\ Walked(tokens) = X[1]
  BY <1>7, WalkExists DEF Reads
<1>12. /\ wr \in [1..(n + 1) -> Seq(Int)] /\ wr[n + 1] = << >>
       /\ \A p \in 1..n : wr[p] = r[p] \o wr[p + 1]
  BY <1>4, <1>9 DEF Walk
<1>13. rd[Len(w) + 1] = << >> /\ X[n + 1] = << >>
  BY <1>6, <1>7, <1>10, <1>11 DEF Walk, Reads
<1>14. /\ \A p \in 1..n : /\ tokens[p].gives \in Seq(Int) /\ tokens[p].takes \in Nat
                          /\ tokens[p].takes >= 1 /\ p + tokens[p].takes <= n + 1
       /\ len \in [1..n -> Nat] /\ \A p \in 1..n : len[p] >= 1 /\ p + len[p] <= n + 1
  <2>1. \A p \in 1..n : /\ tokens[p].gives \in Seq(Int) /\ tokens[p].takes \in Nat
                        /\ tokens[p].takes >= 1 /\ p + tokens[p].takes <= n + 1
    BY <1>7, TokenType DEF Reads
  <2> QED BY <2>1
<1>15. PartsWritten(w, n, len, wr)
  BY <1>0, <1>5, <1>9, <1>12, <1>14, Zenon DEF PartsWritten
<1>16. \A p \in 1..n : len[p] = tokens[p].takes /\ X[p] = tokens[p].gives \o X[p + len[p]]
  BY <1>7, <1>11 DEF Walk, Reads
<1> HIDE DEF len, n
<1>17. PartsRead(w, n, len, wr, rd, X)
  <2> SUFFICES ASSUME NEW p \in 1..n, NEW q \in 1..(Len(w) + 1), AtPlace(w, q, wr[p])
               PROVE  \E c \in Seq(Int), g \in Seq(Int) :
                        /\ wr[p] = c \o wr[p + len[p]]
                        /\ X[p] = g \o X[p + len[p]]
                        /\ rd[q] = g \o rd[q + Len(c)]
    BY DEF PartsRead
  <2>1. /\ p + 1 \in 1..(n + 1) /\ wr[p + 1] \in Seq(Int) /\ wr[p] = r[p] \o wr[p + 1]
        /\ r[p] \in Seq(Int)
    <3>1. p + 1 \in 1..(n + 1) /\ r[p] \in Seq(Int) /\ wr[p] = r[p] \o wr[p + 1]
      <4>1. p + 1 \in 1..(n + 1)
        BY <1>0
      <4>2. r[p] \in Seq(Int)
        BY <1>2
      <4>3. wr[p] = r[p] \o wr[p + 1]
        BY <1>12
      <4> QED BY <4>1, <4>2, <4>3
    <3> QED BY <1>12, <3>1
  <2> DEFINE c1 == r[p]
             v1 == wr[p + 1]
             m1 == q + Len(c1)
  <2>2. /\ Holds(w, q, c1, m1) /\ AtPlace(w, m1, v1)
    <3>1. c1 \in Seq(Int) /\ v1 \in Seq(Int) /\ AtPlace(w, q, c1 \o v1)
      BY <2>1
    <3>2. m1 = q + Len(c1) /\ w \in Seq(Int)
      BY <1>5
    <3> HIDE DEF c1, v1, m1
    <3>3. /\ AtPlace(w, q + Len(c1), v1) /\ q \in 1..(Len(w) + 1) /\ q + Len(c1) <= Len(w) + 1
          /\ \A j \in 1..Len(c1) : q + j - 1 \in 1..Len(w) /\ w[q + j - 1] = c1[j]
      BY <3>1, <3>2, PlaceOfParts
    <3> QED BY <3>2, <3>3 DEF Holds
  <2>3. q \in 1..Len(w) /\ w[q] = c1[1] /\ StartsAt(w, q, c1) /\ m1 = q + Len(c1)
    <3>1. c1 \in Seq(Int) /\ Len(c1) >= 1
      BY <1>2
    <3> HIDE DEF c1, m1
    <3> QED BY ONLY <1>5, <2>2, <3>1, HeldMark
  <2>4. tokens[p].gives \in Seq(Int) /\ X[p] = tokens[p].gives \o X[p + len[p]]
    BY <1>14, <1>16
  <2>5. k[p] \in 0..255 /\ k[p] \in Int /\ IsXml(k[p])
    BY <1>0
  <2>6. \/ StartsAt(k, p, <<13, 10>>)
        \/ ~StartsAt(k, p, <<13, 10>>) /\ k[p] = 13
        \/ k[p] # 13 /\ k[p] \notin {38, 60, 62}
        \/ k[p] \in {38, 60, 62}
    OBVIOUS
  <2>7. ASSUME TokenAt(reader, q, tokens[p].gives, m1), len[p] = 1
        PROVE  \E c \in Seq(Int), g \in Seq(Int) :
                 /\ wr[p] = c \o wr[p + len[p]]
                 /\ X[p] = g \o X[p + len[p]]
                 /\ rd[q] = g \o rd[q + Len(c)]
    <3> DEFINE g1 == tokens[p].gives
    <3>1. TokenAt(reader, q, g1, m1) /\ Walk(reader, rd)
      BY <1>10, <2>7
    <3> HIDE DEF g1
    <3>2. rd[q] = g1 \o rd[m1]
      <4> HIDE DEF m1
      <4> QED BY ONLY <3>1, TokenIs
    <3>3. wr[p] = c1 \o wr[p + len[p]]
      BY <2>1, <2>7
    <3>4. g1 \in Seq(Int) /\ X[p] = g1 \o X[p + len[p]]
      BY <2>4 DEF g1
    <3>5. c1 \in Seq(Int)
      BY <2>1
    <3> HIDE DEF c1
    <3> QED BY <3>2, <3>3, <3>4, <3>5
  <2>8. CASE k[p] # 13 /\ k[p] \notin {38, 60, 62}
    <3>1. c1 = <<k[p]>> /\ w[q] = k[p] /\ m1 = q + 1
      <4>1. c1 = <<k[p]>>
        BY <1>2, <2>8
      <4>2. Len(c1) = 1 /\ c1[1] = k[p]
        BY <4>1
      <4> HIDE DEF c1, m1
      <4> QED BY <2>3, <4>1, <4>2
    <3>2. reader[q] = Token(<<k[p]>>, 1)
      BY <1>5, <1>8, <2>3, <2>5, <2>8, <3>1, XmlMarkIsRead
    <3>3. ~StartsAt(k, p, <<13, 10>>)
      <4> DEFINE mark == <<13, 10>>
      <4>1. mark \in Seq(Int) /\ Len(mark) >= 1 /\ k[p] # mark[1]
        BY <2>8, MarksAre
      <4> HIDE DEF mark
      <4>2. ~StartsAt(k, p, mark)
        BY <1>0, <4>1, OtherMark DEF n
      <4> QED BY <4>2 DEF mark
    <3>4. tokens[p] = Token(<<k[p]>>, 1)
      BY <1>7, <2>8, <3>3
    <3>5. tokens[p].gives = <<k[p]>> /\ len[p] = 1
      <4>1. tokens[p].gives = <<k[p]>> /\ tokens[p].takes = 1
        BY <3>4 DEF Token
      <4> QED BY <1>16, <4>1
    <3>6. TokenAt(reader, q, tokens[p].gives, m1)
      <4>1. reader[q].gives = <<k[p]>> /\ reader[q].takes = 1 /\ Len(reader) = Len(w)
        BY <1>6, <3>2 DEF Token, Reads
      <4> QED BY <2>3, <3>1, <3>5, <4>1 DEF TokenAt
    <3> QED BY <2>7, <3>5, <3>6
  <2>9. CASE k[p] \in {38, 60, 62}
    <3>1. ASSUME NEW mark, NEW l, c1 = mark, Len(mark) = l, reader[q] = Token(<<k[p]>>, l)
          PROVE  TokenAt(reader, q, <<k[p]>>, m1)
      <4>1. reader[q].gives = <<k[p]>> /\ reader[q].takes = l /\ Len(reader) = Len(w)
        BY <1>6, <3>1 DEF Token, Reads
      <4>2. m1 = q + l
        BY <2>3, <3>1
      <4> QED BY <2>3, <4>1, <4>2 DEF TokenAt
    <3>2. TokenAt(reader, q, <<k[p]>>, m1)
      <4>1. CASE k[p] = 38
        <5>1. c1 = Amp /\ Len(Amp) = 5
          BY <1>2, <4>1, MarksAre
        <5>2. reader[q] = Token(<<k[p]>>, 5)
          BY <1>5, <1>8, <2>3, <4>1, <5>1, XmlMarkIsRead
        <5> QED BY <3>1, <5>1, <5>2
      <4>2. CASE k[p] = 60
        <5>1. c1 = Lt /\ Len(Lt) = 4
          BY <1>2, <4>2, MarksAre
        <5>2. reader[q] = Token(<<k[p]>>, 4)
          BY <1>5, <1>8, <2>3, <4>2, <5>1, XmlMarkIsRead
        <5> QED BY <3>1, <5>1, <5>2
      <4>3. CASE k[p] = 62
        <5>1. c1 = Gt /\ Len(Gt) = 4
          BY <1>2, <4>3, MarksAre
        <5>2. reader[q] = Token(<<k[p]>>, 4)
          BY <1>5, <1>8, <2>3, <4>3, <5>1, XmlMarkIsRead
        <5> QED BY <3>1, <5>1, <5>2
      <4> QED BY <2>9, <4>1, <4>2, <4>3
    <3>3. ~StartsAt(k, p, <<13, 10>>)
      <4> DEFINE mark == <<13, 10>>
      <4>1. mark \in Seq(Int) /\ Len(mark) >= 1 /\ k[p] # mark[1]
        BY <2>9, MarksAre
      <4> HIDE DEF mark
      <4>2. ~StartsAt(k, p, mark)
        BY <1>0, <4>1, OtherMark DEF n
      <4> QED BY <4>2 DEF mark
    <3>4. tokens[p] = Token(<<k[p]>>, 1)
      BY <1>7, <2>9, <3>3
    <3>5. tokens[p].gives = <<k[p]>> /\ len[p] = 1
      <4>1. tokens[p].gives = <<k[p]>> /\ tokens[p].takes = 1
        BY <3>4 DEF Token
      <4> QED BY <1>16, <4>1
    <3> QED BY <2>7, <3>2, <3>5
  <2>10. CASE ~StartsAt(k, p, <<13, 10>>) /\ k[p] = 13
    <3>1. c1 = <<13>> /\ w[q] = 13 /\ m1 = q + 1
      <4>1. c1 = <<13>>
        BY <1>2, <2>10
      <4>2. Len(c1) = 1 /\ c1[1] = 13
        BY <4>1
      <4> HIDE DEF c1, m1
      <4> QED BY <2>3, <4>1, <4>2
    <3>2. ~StartsAt(w, q, <<13, 10>>)
      <4> DEFINE mark == <<13, 10>>
      <4>1. mark \in Seq(Int) /\ Len(mark) = 2 /\ mark[1] = 13 /\ mark[2] = 10
        BY MarksAre
      <4>2. ~StartsAt(k, p, mark)
        BY <2>10
      <4> HIDE DEF mark
      <4> SUFFICES ASSUME StartsAt(w, q, mark) PROVE FALSE
        BY DEF mark
      <4>3. q + 2 - 1 <= Len(w) /\ w[q + 2 - 1] = 10
        <5>1. q \in 1..(Len(w) + 1) /\ 2 \in 1..2
          OBVIOUS
        <5> QED BY <1>5, <4>1, <5>1, MarkStarts
      <4>4. m1 \in 1..Len(w) /\ w[m1] = 10
        <5>1. Len(w) \in Nat /\ m1 = q + 2 - 1
          BY <1>5, <2>3, <3>1
        <5> QED BY <2>3, <4>3, <5>1
      <4>5. /\ Len(v1) = Len(w) + 1 - m1
            /\ \A j \in 1..Len(v1) : w[m1 + j - 1] = v1[j]
        <5> HIDE DEF m1, v1
        <5> QED BY <2>2 DEF AtPlace
      <4>6. v1[1] = 10 /\ Len(v1) >= 1
        <5> HIDE DEF m1, v1
        <5>1. Len(w) \in Nat
          BY <1>5
        <5>2. 1 \in 1..Len(v1) /\ m1 + 1 - 1 = m1
          BY <4>4, <4>5, <5>1
        <5> QED BY <4>4, <4>5, <5>2
      <4>7. p + 1 \in 1..n
        <5>1. p # n
          <6>1. Len(<< >>) = 0
            OBVIOUS
          <6> QED BY <1>12, <4>6, <6>1
        <5> QED BY <1>0, <5>1
      <4>8. k[p + 1] = 10
        <5> DEFINE c2 == r[p + 1]
                   v2 == wr[(p + 1) + 1]
        <5>1. c2 \in Seq(Int) /\ Len(c2) >= 1 /\ (c2[1] = 10 => k[p + 1] = 10)
          BY <1>2, <4>7
        <5>2. v1 = c2 \o v2
          BY <1>12, <4>7
        <5>3. v2 \in Seq(Int)
          <6>1. (p + 1) + 1 \in 1..(n + 1)
            BY <1>0, <4>7
          <6> QED BY <1>12, <6>1
        <5> HIDE DEF c2, v2, v1
        <5>4. (c2 \o v2)[1] = c2[1]
          <6>1. Len(c2) \in Nat /\ Len(v2) \in Nat
            BY <5>1, <5>3
          <6>2. 1 \in 1..(Len(c2) + Len(v2)) /\ 1 <= Len(c2)
            BY <5>1, <6>1
          <6> QED BY <5>1, <5>3, <6>2, ConcatProperties
        <5> QED BY <4>6, <5>1, <5>2, <5>4
      <4>9. StartsAt(k, p, mark)
        <5>1. p \in 1..(Len(k) + 1) /\ p + 2 - 1 <= Len(k) /\ p + 1 - 1 = p /\ p + 2 - 1 = p + 1
          BY <1>0, <4>7 DEF n
        <5>2. \A j \in 1..2 : k[p + j - 1] = mark[j]
          <6> TAKE j \in 1..2
          <6>1. j = 1 \/ j = 2
            OBVIOUS
          <6> QED BY <2>10, <4>1, <4>8, <5>1, <6>1
        <5> QED BY <1>0, <4>1, <5>1, <5>2, MarkStarts
      <4> QED BY <4>2, <4>9
    <3>3. reader[q] = Token(<<10>>, 1)
      BY <1>5, <1>8, <2>3, <3>1, <3>2, XmlMarkIsRead
    <3>4. tokens[p] = Token(<<10>>, 1)
      <4>1. tokens[p] = Token(<<IF k[p] = 13 THEN 10 ELSE k[p]>>, 1)
        BY <1>7, <2>10
      <4>2. (IF k[p] = 13 THEN 10 ELSE k[p]) = 10
        BY <2>10
      <4> QED BY ONLY <4>1, <4>2
    <3>5. tokens[p].gives = <<10>> /\ len[p] = 1
      <4>1. tokens[p].gives = <<10>> /\ tokens[p].takes = 1
        BY <3>4 DEF Token
      <4> QED BY <1>16, <4>1
    <3>6. TokenAt(reader, q, tokens[p].gives, m1)
      <4>1. reader[q].gives = <<10>> /\ reader[q].takes = 1 /\ Len(reader) = Len(w)
        BY <1>6, <3>3 DEF Token, Reads
      <4> QED BY <2>3, <3>1, <3>5, <4>1 DEF TokenAt
    <3> QED BY <2>7, <3>5, <3>6
  <2>11. CASE StartsAt(k, p, <<13, 10>>)
    <3> DEFINE mark == <<13, 10>>
               m2 == q + 2
               v2 == wr[p + 2]
    <3>1. mark \in Seq(Int) /\ Len(mark) = 2 /\ mark[1] = 13 /\ mark[2] = 10
      BY MarksAre
    <3>2. k[p] = 13 /\ k[p + 1] = 10 /\ p + 1 \in 1..n /\ (p + 1) + 1 = p + 2
      <4>1. StartsAt(k, p, mark)
        BY <2>11
      <4> HIDE DEF mark
      <4>2. p \in 1..(Len(k) + 1) /\ 1 \in 1..2 /\ 2 \in 1..2
            /\ p + 1 - 1 = p /\ p + 2 - 1 = p + 1
        BY <1>0 DEF n
      <4>3. p + 2 - 1 <= Len(k) /\ k[p + 1 - 1] = 13 /\ k[p + 2 - 1] = 10
        <5>1. p + Len(mark) - 1 <= Len(k)
              /\ \A j \in 1..Len(mark) : k[p + j - 1] = mark[j]
          BY <1>0, <3>1, <4>1, <4>2, MarkStarts
        <5>2. p + 2 - 1 <= Len(k) /\ \A j \in 1..2 : k[p + j - 1] = mark[j]
          BY ONLY <3>1, <5>1
        <5> QED BY ONLY <3>1, <4>2, <5>2
      <4> QED BY <1>0, <4>2, <4>3 DEF n
    <3>3. tokens[p] = Token(<<10>>, 2)
      BY <1>7, <2>11
    <3>4. tokens[p].gives = <<10>> /\ len[p] = 2
      <4>1. tokens[p].gives = <<10>> /\ tokens[p].takes = 2
        BY <3>3 DEF Token
      <4> QED BY <1>16, <4>1
    <3>5. v2 \in Seq(Int) /\ wr[p] = mark \o v2
      <4>1. r[p] = <<13>> /\ r[p + 1] = <<10>>
        <5>1. 13 \notin {38, 60, 62} /\ 10 \notin {38, 60, 62}
          OBVIOUS
        <5>2. r[p] = <<k[p]>> /\ r[p + 1] = <<k[p + 1]>>
          BY <1>2, <3>2, <5>1
        <5> QED BY <3>2, <5>2
      <4>2. wr[p] = <<13>> \o wr[p + 1] /\ wr[p + 1] = <<10>> \o v2
        BY <1>12, <3>2, <4>1
      <4>3. v2 \in Seq(Int)
        <5>1. p + 2 \in 1..(n + 1)
          BY <1>0, <3>2
        <5> QED BY <1>12, <5>1
      <4> HIDE DEF v2
      <4>4. wr[p] = <<13>> \o (<<10>> \o v2)
        BY <4>2
      <4>5. <<13>> \o (<<10>> \o v2) = <<13, 10>> \o v2
        BY <4>3, PairConcat
      <4> QED BY <4>3, <4>4, <4>5
    <3> HIDE DEF v2, mark
    <3>6. AtPlace(w, q, mark \o v2)
      BY <3>5
    <3>7. /\ q \in 1..(Len(w) + 1) /\ q + Len(mark) <= Len(w) + 1
          /\ \A j \in 1..Len(mark) : q + j - 1 \in 1..Len(w) /\ w[q + j - 1] = mark[j]
      <4>1. w \in Seq(Int) /\ mark \in Seq(Int) /\ v2 \in Seq(Int)
        BY <1>5, <3>1, <3>5
      <4> QED BY <3>6, <4>1, PlaceOfParts
    <3>8. StartsAt(w, q, mark)
      <4>1. q + Len(mark) - 1 <= Len(w)
        <5>1. Len(w) \in Nat
          BY <1>5
        <5> QED BY <3>1, <3>7, <5>1
      <4> QED BY <1>5, <3>1, <3>7, <4>1, MarkStarts
    <3>9. reader[q] = Token(<<10>>, 2)
      BY <1>5, <1>8, <2>3, <3>8, XmlMarkIsRead DEF mark
    <3>10. TokenAt(reader, q, <<10>>, m2)
      <4>1. reader[q].gives = <<10>> /\ reader[q].takes = 2 /\ Len(reader) = Len(w)
        BY <1>6, <3>9 DEF Token, Reads
      <4> QED BY <2>3, <4>1 DEF TokenAt
    <3> DEFINE g2 == <<10>>
    <3>11. g2 \in Seq(Int) /\ TokenAt(reader, q, g2, m2) /\ Walk(reader, rd)
      BY <1>10, <3>10
    <3>12. X[p] = g2 \o X[p + len[p]]
      BY <2>4, <3>4
    <3> HIDE DEF g2
    <3>13. rd[q] = g2 \o rd[m2]
      <4> HIDE DEF m2
      <4> QED BY ONLY <3>11, TokenIs
    <3>14. wr[p] = mark \o wr[p + len[p]] /\ m2 = q + Len(mark)
      BY <3>1, <3>4, <3>5 DEF v2
    <3> QED BY <3>1, <3>11, <3>12, <3>13, <3>14
  <2> QED BY <2>6, <2>8, <2>9, <2>10, <2>11
<1>18. rd[1] = X[1]
  BY <1>13, <1>15, <1>17, Chain
<1> QED BY <1>6, <1>7, <1>10, <1>11, <1>18 DEF w

-----------------------------------------------------------------------------
(* UTF-8 *)

\* The remainders of the bytes of a sequence.
LEMMA Payload ==
  ASSUME NEW b \in 0..255
  PROVE  /\ b % 8 \in 0..7 /\ b % 16 \in 0..15 /\ b % 32 \in 0..31 /\ b % 64 \in 0..63
         /\ (b = 192 + (b % 32)) <=> b \in 192..223
         /\ (b = 224 + (b % 16)) <=> b \in 224..239
         /\ (b = 240 + (b % 8)) <=> b \in 240..247
         /\ (b = 128 + (b % 64)) <=> b \in 128..191
BY SMT

LEMMA LengthOfEncoding ==
  ASSUME NEW c \in Nat
  PROVE  /\ c < 128 => Encoding(c) = <<c>> /\ Len(Encoding(c)) = 1
         /\ 128 <= c /\ c < 2048 =>
              /\ Encoding(c) = <<192 + c \div 64, 128 + (c % 64)>> /\ Len(Encoding(c)) = 2
         /\ 2048 <= c /\ c < 65536 =>
              /\ Encoding(c) = <<224 + c \div 4096, 128 + ((c \div 64) % 64), 128 + (c % 64)>>
              /\ Len(Encoding(c)) = 3
         /\ 65536 <= c =>
              /\ Encoding(c) = <<240 + c \div 262144, 128 + ((c \div 4096) % 64),
                                 128 + ((c \div 64) % 64), 128 + (c % 64)>>
              /\ Len(Encoding(c)) = 4
BY SMT DEF Encoding

\* Whether a sequence of two, three or four bytes begins with these bytes.
Two(b0, b1) == b0 \in 194..223 /\ b1 \in 128..191
Three(b0, b1, b2) ==
  /\ b0 \in 224..239 /\ b1 \in 128..191 /\ b2 \in 128..191
  /\ (b0 = 224 => b1 >= 160) /\ (b0 = 237 => b1 <= 159)
Four(b0, b1, b2, b3) ==
  /\ b0 \in 240..244 /\ b1 \in 128..191 /\ b2 \in 128..191 /\ b3 \in 128..191
  /\ (b0 = 240 => b1 >= 144) /\ (b0 = 244 => b1 <= 143)

LEMMA WellFormedOne ==
  ASSUME NEW b \in 0..255
  PROVE  /\ WellFormed(<<b>>) <=> b < 128
         /\ Bits(<<b>>) = b
<1>1. Bits(<<b>>) = b
  BY SMT DEF Bits
<1>2. b < 128 => Encoding(b) = <<b>>
  BY LengthOfEncoding, SMT
<1>3. ~(b < 128) => Encoding(b) # <<b>>
  <2>1. ~(b < 128) => Len(Encoding(b)) = 2
    BY LengthOfEncoding, SMT
  <2>2. Len(<<b>>) = 1
    BY SMT
  <2> QED BY <2>1, <2>2, SMT
<1>4. b < 128 => IsCodePoint(b)
  BY SMT DEF IsCodePoint
<1> QED BY <1>1, <1>2, <1>3, <1>4, SMT DEF WellFormed

LEMMA WellFormedTwo ==
  ASSUME NEW a \in 0..255, NEW b \in 0..255
  PROVE  WellFormed(<<a, b>>) <=> Two(a, b)
<1> SUFFICES WellFormed(<<a, b>>) <=> a \in 194..223 /\ b \in 128..191
  BY DEF Two
<1> DEFINE c == (a % 32) * 64 + (b % 64)
<1>1. Bits(<<a, b>>) = c
  BY SMT DEF Bits
<1>2. a % 32 \in 0..31 /\ b % 64 \in 0..63
  BY Payload, SMT
<1>3. c \in Nat /\ c < 2048 /\ (c >= 128 <=> a % 32 >= 2)
  BY <1>2, SMT
<1>4. c \div 64 = a % 32 /\ c % 64 = b % 64
  <2> DEFINE A == a % 32
             B == b % 64
  <2>1. A \in 0..31 /\ B \in 0..63 /\ c = A * 64 + B
    BY <1>2, SMT
  <2> HIDE DEF A, B, c
  <2>2. c \div 64 = A /\ c % 64 = B
    BY ONLY <2>1, SMT
  <2> QED BY <2>2, SMT DEF A, B
<1>5. IsCodePoint(c)
  BY <1>3, SMT DEF IsCodePoint
<1> HIDE DEF c
<1>6. CASE c >= 128
  <2>1. Encoding(c) = <<192 + (a % 32), 128 + (b % 64)>>
    BY <1>3, <1>4, <1>6, LengthOfEncoding, SMT
  <2>2. Encoding(c) = <<a, b>> <=> a = 192 + (a % 32) /\ b = 128 + (b % 64)
    BY <2>1, SMT
  <2>3. a = 192 + (a % 32) <=> a \in 192..223
    BY Payload, SMT
  <2>4. b = 128 + (b % 64) <=> b \in 128..191
    BY Payload, SMT
  <2>5. a \in 192..223 /\ a % 32 >= 2 <=> a \in 194..223
    BY SMT
  <2>6. Encoding(c) = <<a, b>> <=> a \in 194..223 /\ b \in 128..191
    BY <1>3, <1>6, <2>2, <2>3, <2>4, <2>5, SMT
  <2> QED BY <1>1, <1>3, <1>5, <2>6, SMT DEF WellFormed
<1>7. CASE ~(c >= 128)
  <2>1. Len(Encoding(c)) = 1 /\ Len(<<a, b>>) = 2
    BY <1>3, <1>7, LengthOfEncoding, SMT
  <2>2. a \notin 194..223
    BY <1>3, <1>7, SMT
  <2> QED BY <1>1, <1>3, <2>1, <2>2, SMT DEF WellFormed
<1> QED BY <1>6, <1>7, SMT

LEMMA WellFormedThree ==
  ASSUME NEW a \in 0..255, NEW b \in 0..255, NEW d \in 0..255
  PROVE  /\ WellFormed(<<a, b, d>>) <=>
              /\ a \in 224..239 /\ b \in 128..191 /\ d \in 128..191
              /\ (a = 224 => b >= 160) /\ (a = 237 => b <= 159)
         /\ Bits(<<a, b, d>>) \in Nat
<1> DEFINE c == (a % 16) * 4096 + (b % 64) * 64 + (d % 64)
<1>1. Bits(<<a, b, d>>) = c
  BY SMT DEF Bits
<1>2. a % 16 \in 0..15 /\ b % 64 \in 0..63 /\ d % 64 \in 0..63
  BY Payload, SMT
<1>3. /\ c \in Nat /\ c < 65536 /\ (c >= 2048 <=> a % 16 >= 1 \/ b % 64 >= 32)
      /\ (55296 <= c /\ c <= 57343) <=> (a % 16 = 13 /\ b % 64 >= 32)
  BY <1>2, SMT
<1>4. c \div 4096 = a % 16 /\ (c \div 64) % 64 = b % 64 /\ c % 64 = d % 64
  <2> DEFINE A == a % 16
             B == b % 64
             C == d % 64
  <2>1. A \in 0..15 /\ B \in 0..63 /\ C \in 0..63 /\ c = A * 4096 + B * 64 + C
    BY <1>2, SMT
  <2> HIDE DEF A, B, C, c
  <2>2. c \div 4096 = A /\ (c \div 64) % 64 = B /\ c % 64 = C
    BY ONLY <2>1, SMT
  <2> QED BY <2>2, SMT DEF A, B, C
<1>5. IsCodePoint(c) <=> ~(a % 16 = 13 /\ b % 64 >= 32)
  BY <1>3, SMT DEF IsCodePoint
<1> HIDE DEF c
<1>6. CASE c >= 2048
  <2>1. Encoding(c) = <<224 + (a % 16), 128 + (b % 64), 128 + (d % 64)>>
    <3>1. c \in Nat /\ 2048 <= c /\ c < 65536
      BY <1>3, <1>6, SMT
    <3>2. Encoding(c) = <<224 + c \div 4096, 128 + ((c \div 64) % 64), 128 + (c % 64)>>
      BY ONLY <3>1, LengthOfEncoding, SMT
    <3> QED BY ONLY <1>4, <3>2, SMT
  <2>2. Encoding(c) = <<a, b, d>> <=>
          a = 224 + (a % 16) /\ b = 128 + (b % 64) /\ d = 128 + (d % 64)
    BY <2>1, SMT
  <2>3. a = 224 + (a % 16) <=> a \in 224..239
    BY Payload, SMT
  <2>4. (b = 128 + (b % 64) <=> b \in 128..191) /\ (d = 128 + (d % 64) <=> d \in 128..191)
    BY Payload, SMT
  <2>5. a \in 224..239 => (a = 224 <=> a % 16 = 0) /\ (a = 237 <=> a % 16 = 13)
    BY SMT
  <2>6. b \in 128..191 => (b >= 160 <=> b % 64 >= 32) /\ (b <= 159 <=> ~(b % 64 >= 32))
    BY SMT
  <2> QED BY <1>1, <1>2, <1>3, <1>5, <1>6, <2>2, <2>3, <2>4, <2>5, <2>6, SMT DEF WellFormed
<1>7. CASE ~(c >= 2048)
  <2>1. Len(Encoding(c)) # 3 /\ Len(<<a, b, d>>) = 3
    <3>1. c \in Nat /\ (c < 128 \/ (128 <= c /\ c < 2048))
      BY <1>3, <1>7, SMT
    <3>2. Len(Encoding(c)) = 1 \/ Len(Encoding(c)) = 2
      BY ONLY <3>1, LengthOfEncoding, SMT
    <3> QED BY <3>2, SMT
  <2>2. a % 16 = 0 /\ ~(b % 64 >= 32)
    BY <1>2, <1>3, <1>7, SMT
  <2>3. a \in 224..239 /\ b \in 128..191 => a = 224 /\ ~(b >= 160)
    BY <2>2, SMT
  <2> QED BY <1>1, <1>3, <2>1, <2>3, SMT DEF WellFormed
<1> QED BY <1>6, <1>7, SMT

LEMMA WellFormedFour ==
  ASSUME NEW a \in 0..255, NEW b \in 0..255, NEW d \in 0..255, NEW e \in 0..255
  PROVE  /\ WellFormed(<<a, b, d, e>>) <=>
              /\ a \in 240..244 /\ b \in 128..191 /\ d \in 128..191 /\ e \in 128..191
              /\ (a = 240 => b >= 144) /\ (a = 244 => b <= 143)
         /\ Bits(<<a, b, d, e>>) \in Nat
<1> DEFINE c == (a % 8) * 262144 + (b % 64) * 4096 + (d % 64) * 64 + (e % 64)
<1>1. Bits(<<a, b, d, e>>) = c
  BY SMT DEF Bits
<1>2. a % 8 \in 0..7 /\ b % 64 \in 0..63 /\ d % 64 \in 0..63 /\ e % 64 \in 0..63
  BY Payload, SMT
<1>3. /\ c \in Nat /\ (c >= 65536 <=> a % 8 >= 1 \/ b % 64 >= 16)
      /\ c <= 1114111 <=> (a % 8 < 4 \/ (a % 8 = 4 /\ b % 64 < 16))
  BY <1>2, SMT
<1>4. /\ c \div 262144 = a % 8 /\ (c \div 4096) % 64 = b % 64
      /\ (c \div 64) % 64 = d % 64 /\ c % 64 = e % 64
  <2> DEFINE A == a % 8
             B == b % 64
             C == d % 64
             D == e % 64
  <2>1. A \in 0..7 /\ B \in 0..63 /\ C \in 0..63 /\ D \in 0..63
        /\ c = A * 262144 + B * 4096 + C * 64 + D
    BY <1>2, SMT
  <2> HIDE DEF A, B, C, D, c
  <2>2. c \div 262144 = A /\ (c \div 4096) % 64 = B /\ (c \div 64) % 64 = C /\ c % 64 = D
    BY ONLY <2>1, SMT
  <2> QED BY <2>2, SMT DEF A, B, C, D
<1>5. c >= 65536 => (IsCodePoint(c) <=> a % 8 < 4 \/ (a % 8 = 4 /\ b % 64 < 16))
  BY <1>3, SMT DEF IsCodePoint
<1> HIDE DEF c
<1>6. CASE c >= 65536
  <2>1. Encoding(c) = <<240 + (a % 8), 128 + (b % 64), 128 + (d % 64), 128 + (e % 64)>>
    <3>1. c \in Nat /\ 65536 <= c
      BY <1>3, <1>6, SMT
    <3>2. Encoding(c) = <<240 + c \div 262144, 128 + ((c \div 4096) % 64),
                          128 + ((c \div 64) % 64), 128 + (c % 64)>>
      BY ONLY <3>1, LengthOfEncoding, SMT
    <3> QED BY ONLY <1>4, <3>2, SMT
  <2>2. Encoding(c) = <<a, b, d, e>> <=>
          a = 240 + (a % 8) /\ b = 128 + (b % 64) /\ d = 128 + (d % 64) /\ e = 128 + (e % 64)
    BY <2>1, SMT
  <2>3. a = 240 + (a % 8) <=> a \in 240..247
    BY Payload, SMT
  <2>4. /\ b = 128 + (b % 64) <=> b \in 128..191
        /\ d = 128 + (d % 64) <=> d \in 128..191
        /\ e = 128 + (e % 64) <=> e \in 128..191
    BY Payload, SMT
  <2>5. a \in 240..247 => /\ a = 240 <=> a % 8 = 0
                          /\ a = 244 <=> a % 8 = 4
                          /\ a \in 240..244 <=> a % 8 <= 4
    BY SMT
  <2>6. b \in 128..191 => (b >= 144 <=> b % 64 >= 16) /\ (b <= 143 <=> b % 64 < 16)
    BY SMT
  <2> QED BY <1>1, <1>2, <1>3, <1>5, <1>6, <2>2, <2>3, <2>4, <2>5, <2>6, SMT DEF WellFormed
<1>7. CASE ~(c >= 65536)
  <2>1. Len(Encoding(c)) # 4 /\ Len(<<a, b, d, e>>) = 4
    <3>1. c \in Nat /\ (c < 128 \/ (128 <= c /\ c < 2048) \/ (2048 <= c /\ c < 65536))
      BY <1>3, <1>7, SMT
    <3>2. Len(Encoding(c)) = 1 \/ Len(Encoding(c)) = 2 \/ Len(Encoding(c)) = 3
      BY ONLY <3>1, LengthOfEncoding, SMT
    <3> QED BY <3>2, SMT
  <2>2. a % 8 = 0 /\ ~(b % 64 >= 16)
    BY <1>2, <1>3, <1>7, SMT
  <2>3. a \in 240..244 /\ b \in 128..191 => a = 240 /\ ~(b >= 144)
    BY <2>2, SMT
  <2> QED BY <1>1, <1>3, <2>1, <2>3, SMT DEF WellFormed
<1> QED BY <1>6, <1>7, SMT

LEMMA Announced ==
  ASSUME NEW b \in 0..255
  PROVE  /\ b \in 194..223 => announced(b) = [length |-> 2, second |-> 128..191]
         /\ b = 224 => announced(b) = [length |-> 3, second |-> 160..191]
         /\ b = 237 => announced(b) = [length |-> 3, second |-> 128..159]
         /\ b \in 225..239 /\ b # 237 => announced(b) = [length |-> 3, second |-> 128..191]
         /\ b = 240 => announced(b) = [length |-> 4, second |-> 144..191]
         /\ b = 244 => announced(b) = [length |-> 4, second |-> 128..143]
         /\ b \in 241..243 => announced(b) = [length |-> 4, second |-> 128..191]
         /\ ~(b \in 194..244) => announced(b) = [length |-> 0, second |-> {}]
<1>1. b \in 194..223 => announced(b) = [length |-> 2, second |-> 128..191]
  BY SMT DEF announced
<1>2. b = 224 => announced(b) = [length |-> 3, second |-> 160..191]
  BY SMT DEF announced
<1>3. b = 237 => announced(b) = [length |-> 3, second |-> 128..159]
  BY SMT DEF announced
<1>4. b \in 225..239 /\ b # 237 => announced(b) = [length |-> 3, second |-> 128..191]
  BY SMT DEF announced
<1>5. b = 240 => announced(b) = [length |-> 4, second |-> 144..191]
  BY SMT DEF announced
<1>6. b = 244 => announced(b) = [length |-> 4, second |-> 128..143]
  BY SMT DEF announced
<1>7. b \in 241..243 => announced(b) = [length |-> 4, second |-> 128..191]
  BY SMT DEF announced
<1>8. ~(b \in 194..244) => announced(b) = [length |-> 0, second |-> {}]
  BY SMT DEF announced
<1> QED BY <1>1, <1>2, <1>3, <1>4, <1>5, <1>6, <1>7, <1>8, SMT

\* The length of the sequence that these bytes begin with.
LengthOf(b0, b1, b2, b3) ==
  IF b0 < 128 THEN 1 ELSE IF Two(b0, b1) THEN 2
  ELSE IF Three(b0, b1, b2) THEN 3 ELSE IF Four(b0, b1, b2, b3) THEN 4 ELSE 0

\* The text t has these bytes at p; past its end, 256.
BytesAt(t, p, b0, b1, b2, b3) ==
  /\ b0 \in 0..255 /\ b1 \in 0..256 /\ b2 \in 0..256 /\ b3 \in 0..256 /\ p \in Int
  /\ byte(t, p) = b0 /\ byte(t, p + 1) = b1 /\ byte(t, p + 2) = b2 /\ byte(t, p + 3) = b3

LEMMA ByteType ==
  ASSUME NEW t, IsBytes(t), NEW k \in Int
  PROVE  /\ byte(t, k) \in 0..256
         /\ byte(t, k) # 256 => k \in 1..Len(t)
         /\ k \in 1..Len(t) => byte(t, k) = t[k] /\ byte(t, k) \in 0..255
<1> DEFINE b == byte(t, k)
<1>1. /\ DOMAIN t = 1..Len(t) /\ Len(t) \in Nat
      /\ \A j \in 1..Len(t) : t[j] \in 0..255
  BY BytesAreInts
<1>2. b = IF k \in 1..Len(t) THEN t[k] ELSE 256
  BY <1>1 DEF byte
<1> HIDE DEF b
<1>3. CASE k \in 1..Len(t)
  <2>1. b = t[k] /\ b \in 0..255
    BY <1>1, <1>2, <1>3
  <2>2. b \in 0..256
    BY <2>1
  <2> QED BY <1>3, <2>1, <2>2 DEF b
<1>4. CASE k \notin 1..Len(t)
  <2>1. b = 256
    BY <1>2, <1>4
  <2>2. b \in 0..256
    BY <2>1
  <2> QED BY <1>4, <2>1, <2>2 DEF b
<1> QED BY <1>3, <1>4

LEMMA SequenceLength ==
  ASSUME NEW t, NEW p, NEW b0, NEW b1, NEW b2, NEW b3, BytesAt(t, p, b0, b1, b2, b3)
  PROVE  utf8_sequence(t, p) = LengthOf(b0, b1, b2, b3)
<1>0. /\ b0 \in 0..255 /\ b1 \in 0..256 /\ b2 \in 0..256 /\ b3 \in 0..256 /\ p \in Int
      /\ byte(t, p) = b0 /\ byte(t, p + 1) = b1 /\ byte(t, p + 2) = b2 /\ byte(t, p + 3) = b3
  BY DEF BytesAt
<1> USE <1>0
<1>00. SUFFICES utf8_sequence(t, p) = IF b0 < 128 THEN 1 ELSE IF Two(b0, b1) THEN 2
                               ELSE IF Three(b0, b1, b2) THEN 3
                               ELSE IF Four(b0, b1, b2, b3) THEN 4 ELSE 0
  BY DEF LengthOf
<1> DEFINE s == announced(b0)
           L == utf8_sequence(t, p)
           follows == b1 \in s.second /\ \A o \in 2..(s.length - 1) : byte(t, p + o) \in 128..191
<1>1. L = IF b0 < 128 THEN 1 ELSE IF follows THEN s.length ELSE 0
  BY SMT DEF utf8_sequence
<1> HIDE DEF L
<1>2. CASE b0 < 128
  BY <1>1, <1>2 DEF L
<1>3. CASE b0 \in 194..223
  <2>1. s = [length |-> 2, second |-> 128..191]
    BY <1>3, Announced
  <2>2. s.length = 2 /\ s.second = 128..191
    BY <2>1
  <2> HIDE DEF s
  <2>3. follows <=> b1 \in 128..191
    BY <2>2, SMT
  <2>4. ~(b0 < 128) /\ (Two(b0, b1) <=> b1 \in 128..191)
        /\ ~Three(b0, b1, b2) /\ ~Four(b0, b1, b2, b3)
    BY <1>3, SMT DEF Two, Three, Four
  <2> HIDE DEF follows
  <2> QED BY <1>1, <2>2, <2>3, <2>4 DEF L
<1>4. CASE b0 \in 224..239
  <2>1. s.length = 3 /\ (b1 \in s.second <=> /\ b1 \in 128..191 /\ (b0 = 224 => b1 >= 160)
                                             /\ (b0 = 237 => b1 <= 159))
    <3>1. CASE b0 = 224
      <4>1. s = [length |-> 3, second |-> 160..191]
        BY <3>1, Announced
      <4>2. s.length = 3 /\ s.second = 160..191
        BY <4>1
      <4> HIDE DEF s
      <4> QED BY <3>1, <4>2, SMT
    <3>2. CASE b0 = 237
      <4>1. s = [length |-> 3, second |-> 128..159]
        BY <3>2, Announced
      <4>2. s.length = 3 /\ s.second = 128..159
        BY <4>1
      <4> HIDE DEF s
      <4> QED BY <3>2, <4>2, SMT
    <3>3. CASE b0 # 224 /\ b0 # 237
      <4>1. s = [length |-> 3, second |-> 128..191]
        BY <1>4, <3>3, Announced, SMT
      <4>2. s.length = 3 /\ s.second = 128..191
        BY <4>1
      <4> HIDE DEF s
      <4> QED BY <3>3, <4>2, SMT
    <3> QED BY <3>1, <3>2, <3>3
  <2> HIDE DEF s
  <2>2. (\A o \in 2..(s.length - 1) : byte(t, p + o) \in 128..191) <=> b2 \in 128..191
    <3>1. 2..(s.length - 1) = {2}
      BY <2>1, SMT
    <3> QED BY <3>1
  <2>3. follows <=> Three(b0, b1, b2)
    BY <1>4, <2>1, <2>2, SMT DEF Three
  <2>4. ~(b0 < 128) /\ ~Two(b0, b1) /\ ~Four(b0, b1, b2, b3)
    BY <1>4, SMT DEF Two, Four
  <2> HIDE DEF follows
  <2> QED BY <1>1, <2>1, <2>3, <2>4 DEF L
<1>5. CASE b0 \in 240..244
  <2>1. s.length = 4 /\ (b1 \in s.second <=> /\ b1 \in 128..191 /\ (b0 = 240 => b1 >= 144)
                                             /\ (b0 = 244 => b1 <= 143))
    <3>1. CASE b0 = 240
      <4>1. s = [length |-> 4, second |-> 144..191]
        BY <3>1, Announced
      <4>2. s.length = 4 /\ s.second = 144..191
        BY <4>1
      <4> HIDE DEF s
      <4> QED BY <3>1, <4>2, SMT
    <3>2. CASE b0 = 244
      <4>1. s = [length |-> 4, second |-> 128..143]
        BY <3>2, Announced
      <4>2. s.length = 4 /\ s.second = 128..143
        BY <4>1
      <4> HIDE DEF s
      <4> QED BY <3>2, <4>2, SMT
    <3>3. CASE b0 \in 241..243
      <4>1. s = [length |-> 4, second |-> 128..191]
        BY <3>3, Announced
      <4>2. s.length = 4 /\ s.second = 128..191
        BY <4>1
      <4> HIDE DEF s
      <4> QED BY <3>3, <4>2, SMT
    <3> QED BY <1>5, <3>1, <3>2, <3>3
  <2> HIDE DEF s
  <2>2. (\A o \in 2..(s.length - 1) : byte(t, p + o) \in 128..191)
          <=> b2 \in 128..191 /\ b3 \in 128..191
    <3>1. 2..(s.length - 1) = {2, 3}
      BY <2>1, SMT
    <3> QED BY <3>1
  <2>3. follows <=> Four(b0, b1, b2, b3)
    BY <1>5, <2>1, <2>2, SMT DEF Four
  <2>4. ~(b0 < 128) /\ ~Two(b0, b1) /\ ~Three(b0, b1, b2)
    BY <1>5, SMT DEF Two, Three
  <2> HIDE DEF follows
  <2> QED BY <1>1, <2>1, <2>3, <2>4 DEF L
<1>6. CASE ~(b0 < 128) /\ ~(b0 \in 194..244)
  <2>1. s = [length |-> 0, second |-> {}]
    BY <1>6, Announced
  <2>2. s.length = 0 /\ s.second = {}
    BY <2>1
  <2> HIDE DEF s
  <2>3. ~follows
    BY <2>2
  <2>4. ~(b0 < 128) /\ ~Two(b0, b1) /\ ~Three(b0, b1, b2) /\ ~Four(b0, b1, b2, b3)
    BY <1>6, SMT DEF Two, Three, Four
  <2> HIDE DEF follows
  <2> QED BY <1>1, <2>3, <2>4 DEF L
<1> QED BY <1>2, <1>3, <1>4, <1>5, <1>6, SMT DEF L

\* The parts of up to four bytes, byte by byte.
LEMMA ShortParts ==
  ASSUME NEW t \in Seq(Int), NEW p \in 1..Len(t), NEW n \in 1..4, p + n - 1 <= Len(t)
  PROVE  /\ SubSeq(t, p, p + n - 1) \in Seq(Int) /\ Len(SubSeq(t, p, p + n - 1)) = n
         /\ \A k \in 1..n : SubSeq(t, p, p + n - 1)[k] = t[p + k - 1]
         /\ n = 1 => SubSeq(t, p, p + n - 1) = <<t[p]>>
         /\ n = 2 => SubSeq(t, p, p + n - 1) = <<t[p], t[p + 1]>>
         /\ n = 3 => SubSeq(t, p, p + n - 1) = <<t[p], t[p + 1], t[p + 2]>>
         /\ n = 4 => SubSeq(t, p, p + n - 1) = <<t[p], t[p + 1], t[p + 2], t[p + 3]>>
<1> DEFINE m == p - 1
           e == p + n - 1
           u == SubSeq(t, p, e)
<1>1. /\ Len(t) \in Nat /\ m \in Nat /\ e \in 0..Len(t) /\ p = m + 1 /\ e - m = n /\ m < e
      /\ \A k \in 1..n : m + k = p + k - 1
  OBVIOUS
<1> HIDE DEF m, e
<1>2. /\ SubSeq(t, m + 1, e) \in Seq(Int)
      /\ Len(SubSeq(t, m + 1, e)) = IF m < e THEN e - m ELSE 0
      /\ \A k \in 1..(e - m) : SubSeq(t, m + 1, e)[k] = t[m + k]
  BY <1>1, PartOfSeq
<1>3. u \in Seq(Int) /\ Len(u) = n /\ \A k \in 1..n : u[k] = t[p + k - 1]
  BY <1>1, <1>2
<1> HIDE DEF u
<1>4. \A k \in 1..n : p + k - 1 \in 1..Len(t) /\ t[p + k - 1] \in Int
  <2> TAKE k \in 1..n
  <2>1. p + k - 1 \in 1..Len(t)
    BY <1>1
  <2> QED BY <2>1, ElementOfSeq
<1>5. p + 1 - 1 = p /\ p + 2 - 1 = p + 1 /\ p + 3 - 1 = p + 2 /\ p + 4 - 1 = p + 3
  OBVIOUS
<1>6. CASE n = 1
  <2> DEFINE v == <<t[p]>>
  <2>1. v \in Seq(Int) /\ Len(v) = 1 /\ v[1] = t[p]
    OBVIOUS
  <2> HIDE DEF v
  <2>2. \A k \in 1..1 : k = 1
    OBVIOUS
  <2>3. \A k \in 1..Len(u) : u[k] = v[k]
    BY <1>3, <1>5, <1>6, <2>1, <2>2
  <2>4. u = v
    BY <1>3, <1>6, <2>1, <2>3, SeqEqual
  <2> QED BY <1>3, <1>6, <2>4 DEF u, v, e
<1>7. CASE n = 2
  <2> DEFINE v == <<t[p], t[p + 1]>>
  <2>0. t[p] \in Int /\ t[p + 1] \in Int
    BY <1>4, <1>5, <1>7
  <2>1. v \in Seq(Int) /\ Len(v) = 2 /\ v[1] = t[p] /\ v[2] = t[p + 1]
    BY <2>0
  <2> HIDE DEF v
  <2>2. \A k \in 1..2 : k = 1 \/ k = 2
    OBVIOUS
  <2>3. \A k \in 1..Len(u) : u[k] = v[k]
    BY <1>3, <1>5, <1>7, <2>1, <2>2
  <2>4. u = v
    BY <1>3, <1>7, <2>1, <2>3, SeqEqual
  <2> QED BY <1>3, <1>7, <2>4 DEF u, v, e
<1>8. CASE n = 3
  <2> DEFINE v == <<t[p], t[p + 1], t[p + 2]>>
  <2>0. t[p] \in Int /\ t[p + 1] \in Int /\ t[p + 2] \in Int
    BY <1>4, <1>5, <1>8
  <2>1. v \in Seq(Int) /\ Len(v) = 3 /\ v[1] = t[p] /\ v[2] = t[p + 1] /\ v[3] = t[p + 2]
    BY <2>0
  <2> HIDE DEF v
  <2>2. \A k \in 1..3 : k = 1 \/ k = 2 \/ k = 3
    OBVIOUS
  <2>3. \A k \in 1..Len(u) : u[k] = v[k]
    BY <1>3, <1>5, <1>8, <2>1, <2>2
  <2>4. u = v
    BY <1>3, <1>8, <2>1, <2>3, SeqEqual
  <2> QED BY <1>3, <1>8, <2>4 DEF u, v, e
<1>9. CASE n = 4
  <2> DEFINE v == <<t[p], t[p + 1], t[p + 2], t[p + 3]>>
  <2>0. t[p] \in Int /\ t[p + 1] \in Int /\ t[p + 2] \in Int /\ t[p + 3] \in Int
    BY <1>4, <1>5, <1>9
  <2>1. /\ v \in Seq(Int) /\ Len(v) = 4 /\ v[1] = t[p] /\ v[2] = t[p + 1]
        /\ v[3] = t[p + 2] /\ v[4] = t[p + 3]
    BY <2>0
  <2> HIDE DEF v
  <2>2. \A k \in 1..4 : k = 1 \/ k = 2 \/ k = 3 \/ k = 4
    OBVIOUS
  <2>3. \A k \in 1..Len(u) : u[k] = v[k]
    BY <1>3, <1>5, <1>9, <2>1, <2>2
  <2>4. u = v
    BY <1>3, <1>9, <2>1, <2>3, SeqEqual
  <2> QED BY <1>3, <1>9, <2>4 DEF u, v, e
<1> QED BY <1>6, <1>7, <1>8, <1>9

\* Whether a well-formed sequence of n bytes begins at p.
Begins(t, p, n) ==
  \/ n = 1 /\ byte(t, p) < 128
  \/ n = 2 /\ Two(byte(t, p), byte(t, p + 1))
  \/ n = 3 /\ Three(byte(t, p), byte(t, p + 1), byte(t, p + 2))
  \/ n = 4 /\ Four(byte(t, p), byte(t, p + 1), byte(t, p + 2), byte(t, p + 3))

\* The definition of UTF-8 and the ranges the code looks at are the same.
LEMMA BeginsIs ==
  ASSUME NEW t, IsBytes(t), NEW p \in 1..Len(t), NEW n \in 1..4
  PROVE  p + n - 1 <= Len(t) /\ WellFormed(SubSeq(t, p, p + n - 1)) <=> Begins(t, p, n)
<1>0. t \in Seq(Int) /\ Len(t) \in Nat
  BY BytesAreInts
<1> DEFINE b0 == byte(t, p)
           b1 == byte(t, p + 1)
           b2 == byte(t, p + 2)
           b3 == byte(t, p + 3)
<1>1. /\ b0 \in 0..255 /\ b0 = t[p]
      /\ b1 \in 0..256 /\ (p + 1 <= Len(t) => b1 \in 0..255 /\ b1 = t[p + 1])
      /\ b1 \in 0..255 => p + 1 <= Len(t)
      /\ b2 \in 0..256 /\ (p + 2 <= Len(t) => b2 \in 0..255 /\ b2 = t[p + 2])
      /\ b2 \in 0..255 => p + 2 <= Len(t)
      /\ b3 \in 0..256 /\ (p + 3 <= Len(t) => b3 \in 0..255 /\ b3 = t[p + 3])
      /\ b3 \in 0..255 => p + 3 <= Len(t)
  <2>1. ASSUME NEW o \in 0..3
        PROVE  /\ byte(t, p + o) \in 0..256
               /\ p + o <= Len(t) => byte(t, p + o) \in 0..255 /\ byte(t, p + o) = t[p + o]
               /\ byte(t, p + o) \in 0..255 => p + o <= Len(t)
    <3> DEFINE k == p + o
               b == byte(t, k)
    <3>0. k \in Int
      OBVIOUS
    <3>2. p \in Int /\ p >= 1 /\ o \in Int /\ o >= 0 /\ k = p + o
      OBVIOUS
    <3> HIDE DEF k
    <3>1. /\ b \in 0..256
          /\ b # 256 => k \in 1..Len(t)
          /\ k \in 1..Len(t) => b = t[k] /\ b \in 0..255
      BY <3>0, ByteType
    <3> HIDE DEF b
    <3>3. k <= Len(t) => k \in 1..Len(t)
      BY <1>0, <3>2
    <3>4. b \in 0..255 => k <= Len(t)
      BY <3>1
    <3>5. b \in 0..256 /\ (k <= Len(t) => b \in 0..255 /\ b = t[k]) /\ (b \in 0..255 => k <= Len(t))
      BY <3>1, <3>3, <3>4
    <3> QED BY <3>5 DEF b, k
  <2>2. p + 0 = p /\ p <= Len(t) /\ 0 \in 0..3 /\ 1 \in 0..3 /\ 2 \in 0..3 /\ 3 \in 0..3
    BY <1>0
  <2> QED BY <2>1, <2>2
<1>2. p + 1 - 1 = p /\ p + 2 - 1 = p + 1 /\ p + 3 - 1 = p + 2 /\ p + 4 - 1 = p + 3
      /\ p <= Len(t) /\ p \in Int
  BY <1>0
<1> DEFINE u == SubSeq(t, p, p + n - 1)
<1>3. p + n - 1 <= Len(t) => /\ n = 1 => u = <<t[p]>>
                             /\ n = 2 => u = <<t[p], t[p + 1]>>
                             /\ n = 3 => u = <<t[p], t[p + 1], t[p + 2]>>
                             /\ n = 4 => u = <<t[p], t[p + 1], t[p + 2], t[p + 3]>>
  BY <1>0, ShortParts
<1> HIDE DEF u, b0, b1, b2, b3
<1>4. Begins(t, p, n) <=> \/ n = 1 /\ b0 < 128
                          \/ n = 2 /\ Two(b0, b1)
                          \/ n = 3 /\ Three(b0, b1, b2)
                          \/ n = 4 /\ Four(b0, b1, b2, b3)
  BY DEF Begins, b0, b1, b2, b3
<1>5. CASE n = 1
  <2>1. u = <<b0>>
    BY <1>1, <1>2, <1>3, <1>5
  <2>2. WellFormed(u) <=> b0 < 128
    BY <1>1, <2>1, WellFormedOne
  <2>3. Begins(t, p, n) <=> b0 < 128
    BY <1>4, <1>5
  <2> QED BY <1>2, <1>5, <2>2, <2>3 DEF u
<1>6. CASE n = 2
  <2>1. Begins(t, p, n) <=> Two(b0, b1)
    BY <1>4, <1>6
  <2>2. CASE p + 1 <= Len(t)
    <3>1. u = <<b0, b1>> /\ b1 \in 0..255
      BY <1>1, <1>2, <1>3, <1>6, <2>2
    <3>2. WellFormed(u) <=> Two(b0, b1)
      <4>1. WellFormed(<<b0, b1>>) <=> Two(b0, b1)
        <5>1. b0 \in 0..255 /\ b1 \in 0..255
          BY <1>1, <3>1
        <5> QED BY ONLY <5>1, WellFormedTwo
      <4> QED BY <3>1, <4>1
    <3> QED BY <1>2, <1>6, <2>1, <2>2, <3>2 DEF u
  <2>3. CASE ~(p + 1 <= Len(t))
    <3>1. ~Two(b0, b1)
      BY <1>1, <2>3 DEF Two
    <3> QED BY <1>2, <1>6, <2>1, <2>3, <3>1
  <2> QED BY <2>2, <2>3
<1>7. CASE n = 3
  <2>1. Begins(t, p, n) <=> Three(b0, b1, b2)
    BY <1>4, <1>7
  <2>2. CASE p + 2 <= Len(t)
    <3>1. p + 1 <= Len(t)
      BY <1>0, <2>2
    <3>2. u = <<b0, b1, b2>> /\ b1 \in 0..255 /\ b2 \in 0..255
      BY <1>1, <1>2, <1>3, <1>7, <2>2, <3>1
    <3>3. WellFormed(u) <=> Three(b0, b1, b2)
      <4>1. WellFormed(<<b0, b1, b2>>) <=> Three(b0, b1, b2)
        <5>1. b0 \in 0..255 /\ b1 \in 0..255 /\ b2 \in 0..255
          BY <1>1, <3>2
        <5> QED BY ONLY <5>1, WellFormedThree DEF Three
      <4> QED BY <3>2, <4>1
    <3> QED BY <1>2, <1>7, <2>1, <2>2, <3>3 DEF u
  <2>3. CASE ~(p + 2 <= Len(t))
    <3>1. ~Three(b0, b1, b2)
      BY <1>1, <2>3 DEF Three
    <3> QED BY <1>2, <1>7, <2>1, <2>3, <3>1
  <2> QED BY <2>2, <2>3
<1>8. CASE n = 4
  <2>1. Begins(t, p, n) <=> Four(b0, b1, b2, b3)
    BY <1>4, <1>8
  <2>2. CASE p + 3 <= Len(t)
    <3>1. p + 1 <= Len(t) /\ p + 2 <= Len(t)
      BY <1>0, <2>2
    <3>2. u = <<b0, b1, b2, b3>> /\ b1 \in 0..255 /\ b2 \in 0..255 /\ b3 \in 0..255
      BY <1>1, <1>2, <1>3, <1>8, <2>2, <3>1
    <3>3. WellFormed(u) <=> Four(b0, b1, b2, b3)
      <4>1. WellFormed(<<b0, b1, b2, b3>>) <=> Four(b0, b1, b2, b3)
        <5>1. b0 \in 0..255 /\ b1 \in 0..255 /\ b2 \in 0..255 /\ b3 \in 0..255
          BY <1>1, <3>2
        <5> QED BY ONLY <5>1, WellFormedFour DEF Four
      <4> QED BY <3>2, <4>1
    <3> QED BY <1>2, <1>8, <2>1, <2>2, <3>3 DEF u
  <2>3. CASE ~(p + 3 <= Len(t))
    <3>1. ~Four(b0, b1, b2, b3)
      BY <1>1, <2>3 DEF Four
    <3> QED BY <1>2, <1>8, <2>1, <2>3, <3>1
  <2> QED BY <2>2, <2>3
<1> QED BY <1>5, <1>6, <1>7, <1>8

\* At most one sequence begins at a place, and it is the one of utf8_sequence.
LEMMA LengthIs ==
  ASSUME NEW t, IsBytes(t), NEW p \in 1..Len(t)
  PROVE  /\ utf8_sequence(t, p) \in 0..4
         /\ LengthsAt(t, p) = IF utf8_sequence(t, p) = 0 THEN {} ELSE {utf8_sequence(t, p)}
         /\ utf8_sequence(t, p) = 1 => t[p] < 128
<1>0. t \in Seq(Int) /\ Len(t) \in Nat
  BY BytesAreInts
<1> DEFINE b0 == byte(t, p)
           b1 == byte(t, p + 1)
           b2 == byte(t, p + 2)
           b3 == byte(t, p + 3)
           L  == utf8_sequence(t, p)
<1>1. b0 \in 0..255 /\ b0 = t[p] /\ b1 \in 0..256 /\ b2 \in 0..256 /\ b3 \in 0..256 /\ p \in Int
  <2>1. p \in Int /\ p + 1 \in Int /\ p + 2 \in Int /\ p + 3 \in Int
    OBVIOUS
  <2>2. byte(t, p) \in 0..255 /\ byte(t, p) = t[p]
    BY <2>1, ByteType
  <2>3. b1 \in 0..256 /\ b2 \in 0..256 /\ b3 \in 0..256
    BY <2>1, ByteType
  <2> QED BY <2>1, <2>2, <2>3
<1>2. LengthsAt(t, p) = {n \in 1..4 : Begins(t, p, n)}
  BY BeginsIs DEF LengthsAt
<1> HIDE DEF b0, b1, b2, b3, L
<1>3. L = IF b0 < 128 THEN 1 ELSE IF Two(b0, b1) THEN 2
          ELSE IF Three(b0, b1, b2) THEN 3 ELSE IF Four(b0, b1, b2, b3) THEN 4 ELSE 0
  <2>1. byte(t, p) = b0 /\ byte(t, p + 1) = b1 /\ byte(t, p + 2) = b2 /\ byte(t, p + 3) = b3
    BY DEF b0, b1, b2, b3
  <2>2. p \in Int /\ b0 \in 0..255 /\ b1 \in 0..256 /\ b2 \in 0..256 /\ b3 \in 0..256
    BY <1>1
  <2>3. BytesAt(t, p, b0, b1, b2, b3)
    BY <2>1, <2>2 DEF BytesAt
  <2>4. utf8_sequence(t, p) = LengthOf(b0, b1, b2, b3)
    BY ONLY <2>3, SequenceLength
  <2> QED BY <2>4 DEF L, LengthOf
<1>4. \A n : Begins(t, p, n) <=> \/ n = 1 /\ b0 < 128
                                 \/ n = 2 /\ Two(b0, b1)
                                 \/ n = 3 /\ Three(b0, b1, b2)
                                 \/ n = 4 /\ Four(b0, b1, b2, b3)
  BY DEF Begins, b0, b1, b2, b3
<1>5. /\ Two(b0, b1) => ~(b0 < 128)
      /\ Three(b0, b1, b2) => ~(b0 < 128) /\ ~Two(b0, b1)
      /\ Four(b0, b1, b2, b3) => ~(b0 < 128) /\ ~Two(b0, b1) /\ ~Three(b0, b1, b2)
  <2>1. b0 \in 0..255 /\ b1 \in 0..256 /\ b2 \in 0..256 /\ b3 \in 0..256
    BY <1>1
  <2>2. Two(b0, b1) => ~(b0 < 128)
    BY ONLY <2>1, SMT DEF Two
  <2>3. Three(b0, b1, b2) => ~(b0 < 128) /\ ~Two(b0, b1)
    BY ONLY <2>1, SMT DEF Two, Three
  <2>4. Four(b0, b1, b2, b3) => ~(b0 < 128) /\ ~Two(b0, b1) /\ ~Three(b0, b1, b2)
    BY ONLY <2>1, SMT DEF Two, Three, Four
  <2> QED BY <2>2, <2>3, <2>4
<1>6. L \in 0..4 /\ (L = 1 => b0 < 128)
  BY <1>3
<1>7. \A n \in 1..4 : Begins(t, p, n) <=> n = L
  BY <1>3, <1>4, <1>5
<1>8. {n \in 1..4 : Begins(t, p, n)} = IF L = 0 THEN {} ELSE {L}
  <2>1. L # 0 => L \in 1..4
    BY <1>6
  <2>2. L = 0 => L \notin 1..4
    OBVIOUS
  <2> QED BY <1>7, <2>1, <2>2
<1> QED BY <1>1, <1>2, <1>6, <1>8 DEF L

\* A sequence that begins at p, and its code point.
SequenceAt(t, p, c) ==
  /\ p \in 1..Len(t) /\ c \in Seq(Int) /\ Len(c) \in 1..4
  /\ Len(c) = utf8_sequence(t, p) /\ c = SubSeq(t, p, p + Len(c) - 1)
  /\ p + Len(c) - 1 <= Len(t) /\ \A k \in 1..Len(c) : c[k] = t[p + k - 1]
  /\ WellFormed(c) /\ LengthsAt(t, p) = {Len(c)}

LEMMA SequenceIs ==
  ASSUME NEW t, IsBytes(t), NEW p \in 1..Len(t), utf8_sequence(t, p) # 0
  PROVE  SequenceAt(t, p, SubSeq(t, p, p + utf8_sequence(t, p) - 1))
<1> DEFINE L == utf8_sequence(t, p)
           c == SubSeq(t, p, p + L - 1)
<1>0. t \in Seq(Int) /\ Len(t) \in Nat
  BY BytesAreInts
<1>1. L \in 0..4 /\ L # 0 /\ LengthsAt(t, p) = {L}
  BY LengthIs
<1> HIDE DEF L
<1>2. L \in 1..4
  BY <1>1
<1>3. L \in LengthsAt(t, p)
  BY <1>1
<1>4. p + L - 1 <= Len(t) /\ WellFormed(c)
  BY <1>3 DEF LengthsAt
<1>5. c \in Seq(Int) /\ Len(c) = L /\ \A k \in 1..L : c[k] = t[p + k - 1]
  BY <1>0, <1>2, <1>4, ShortParts
<1> DEFINE u == c
<1>6. u = SubSeq(t, p, p + L - 1) /\ Len(u) = L
  BY <1>5
<1> HIDE DEF c
<1>7. SequenceAt(t, p, c)
  BY <1>1, <1>2, <1>4, <1>5, <1>6 DEF SequenceAt, L
<1> QED BY <1>7 DEF c, L

\* U+FFFD, for a byte out of place.
Unknown == 65533

\* What Decoded and Misfits find at each place.
DecodedTokens(t) ==
  [p \in 1..Len(t) |->
    IF LengthsAt(t, p) = {} THEN Token(<<Unknown>>, 1)
    ELSE LET n == CHOOSE n \in LengthsAt(t, p) : TRUE
         IN  Token(<<Bits(SubSeq(t, p, p + n - 1))>>, n)]
MisfitTokens(t) ==
  [p \in 1..Len(t) |->
    IF LengthsAt(t, p) = {} THEN Token(<<t[p]>>, 1)
    ELSE Token(<< >>, CHOOSE n \in LengthsAt(t, p) : TRUE)]

LEMMA NoneDecodedAt ==
  ASSUME NEW t, IsBytes(t), NEW p \in 1..Len(t), utf8_sequence(t, p) = 0
  PROVE  /\ DecodedTokens(t)[p] = Token(<<Unknown>>, 1)
         /\ MisfitTokens(t)[p] = Token(<<t[p]>>, 1)
<1>1. LengthsAt(t, p) = {}
  BY LengthIs
<1> QED BY <1>1 DEF DecodedTokens, MisfitTokens

LEMMA DecodedAt ==
  ASSUME NEW t, NEW p, NEW c, SequenceAt(t, p, c)
  PROVE  /\ DecodedTokens(t)[p] = Token(<<Bits(c)>>, Len(c))
         /\ MisfitTokens(t)[p] = Token(<< >>, Len(c))
<1> DEFINE L == Len(c)
           n == CHOOSE n \in LengthsAt(t, p) : TRUE
<1>1. LengthsAt(t, p) = {L} /\ c = SubSeq(t, p, p + L - 1) /\ p \in 1..Len(t)
  BY DEF SequenceAt
<1>2. LengthsAt(t, p) # {} /\ n = L
  BY <1>1
<1>3. DecodedTokens(t)[p] = Token(<<Bits(SubSeq(t, p, p + n - 1))>>, n)
  BY <1>1, <1>2 DEF DecodedTokens
<1>4. MisfitTokens(t)[p] = Token(<< >>, n)
  BY <1>1, <1>2 DEF MisfitTokens
<1> HIDE DEF n, L
<1> QED BY <1>1, <1>2, <1>3, <1>4 DEF L

LEMMA BitsType ==
  ASSUME NEW c \in Seq(Int), Len(c) \in 1..4
  PROVE  Bits(c) \in Int
<1>1. \A k \in 1..Len(c) : c[k] \in Int
  BY ElementOfSeq
<1>2. CASE Len(c) = 1
  <2>1. c[1] \in Int
    BY <1>1, <1>2
  <2> QED BY <1>2, <2>1 DEF Bits
<1>3. CASE Len(c) = 2
  <2> DEFINE a == c[1]
             b == c[2]
  <2>1. a \in Int /\ b \in Int
    BY <1>1, <1>3
  <2>2. Bits(c) = (a % 32) * 64 + (b % 64)
    BY <1>3 DEF Bits
  <2> HIDE DEF a, b
  <2> QED BY <2>1, <2>2, SMT
<1>4. CASE Len(c) = 3
  <2> DEFINE a == c[1]
             b == c[2]
             d == c[3]
  <2>1. a \in Int /\ b \in Int /\ d \in Int
    BY <1>1, <1>4
  <2>2. Bits(c) = (a % 16) * 4096 + (b % 64) * 64 + (d % 64)
    BY <1>4, SMT DEF Bits
  <2> HIDE DEF a, b, d
  <2> QED BY <2>1, <2>2, SMT
<1>5. CASE Len(c) = 4
  <2> DEFINE a == c[1]
             b == c[2]
             d == c[3]
             e == c[4]
  <2>1. a \in Int /\ b \in Int /\ d \in Int /\ e \in Int
    BY <1>1, <1>5
  <2>2. Bits(c) = (a % 8) * 262144 + (b % 64) * 4096 + (d % 64) * 64 + (e % 64)
    BY <1>5, SMT DEF Bits
  <2> HIDE DEF a, b, d, e
  <2> QED BY <2>1, <2>2, SMT
<1> QED BY <1>2, <1>3, <1>4, <1>5

\* The code point of a longer sequence is no ASCII character.
LEMMA LongIsPlain ==
  ASSUME NEW c \in Seq(Int), Len(c) \in 2..4, WellFormed(c)
  PROVE  IsPlain(Bits(c)) /\ Bits(c) \in Int
<1> DEFINE v == Bits(c)
<1>1. v \in Int /\ IsCodePoint(v) /\ Encoding(v) = c
  BY BitsType DEF WellFormed
<1> HIDE DEF v
<1>2. v \in Nat /\ v <= 1114111
  BY <1>1, SMT DEF IsCodePoint
<1>3. ~(v < 128)
  <2>1. v < 128 => Len(Encoding(v)) = 1
    BY <1>2, LengthOfEncoding, SMT
  <2>2. Len(c) # 1
    OBVIOUS
  <2> QED BY ONLY <1>1, <2>1, <2>2
<1>4. IsPlain(v)
  BY <1>2, <1>3, SMT DEF IsPlain
<1> QED BY <1>1, <1>4 DEF v

LEMMA ReplacementIs ==
  /\ Replacement = <<239, 191, 189>> /\ Replacement \in Seq(Int) /\ Len(Replacement) = 3
  /\ WellFormed(Replacement) /\ Bits(Replacement) = Unknown
<1>1. Replacement = <<239, 191, 189>> /\ Replacement \in Seq(Int) /\ Len(Replacement) = 3
  BY SMT DEF Replacement
<1>2. Bits(<<239, 191, 189>>) = 65533
  BY SMT DEF Bits
<1>3. WellFormed(<<239, 191, 189>>)
  <2> DEFINE v == 65533
  <2>1. /\ v \in Nat /\ 2048 <= v /\ v < 65536 /\ v \div 4096 = 15
        /\ (v \div 64) % 64 = 63 /\ v % 64 = 61 /\ IsCodePoint(v)
    BY SMT DEF IsCodePoint
  <2> HIDE DEF v
  <2>2. Encoding(v) = <<224 + v \div 4096, 128 + ((v \div 64) % 64), 128 + (v % 64)>>
    BY <2>1, LengthOfEncoding, SMT
  <2>3. Encoding(v) = <<239, 191, 189>>
    BY <2>1, <2>2, SMT
  <2>4. Bits(<<239, 191, 189>>) = v
    BY <1>2 DEF v
  <2> QED BY <2>1, <2>3, <2>4 DEF WellFormed
<1> QED BY <1>1, <1>2, <1>3 DEF Unknown

\* The token of w where a sequence stands.
LEMMA HeldSequence ==
  ASSUME NEW w, IsBytes(w), NEW c, c \in Seq(Int), NEW q, NEW m,
         Holds(w, q, c, m), Len(c) \in 1..4, WellFormed(c)
  PROVE  /\ TokenAt(DecodedTokens(w), q, <<Bits(c)>>, m)
         /\ TokenAt(MisfitTokens(w), q, << >>, m)
<1>0. w \in Seq(Int) /\ Len(w) \in Nat
  BY BytesAreInts
<1> DEFINE n == Len(c)
<1>1. /\ n \in 1..4 /\ q \in 1..(Len(w) + 1) /\ m = q + n /\ m <= Len(w) + 1
      /\ \A k \in 1..n : w[q + k - 1] = c[k]
  BY DEF Holds
<1>2. q \in 1..Len(w) /\ q + n - 1 <= Len(w)
  <2> HIDE DEF n
  <2> QED BY <1>0, <1>1
<1>3. SubSeq(w, q, q + n - 1) = c
  <2> DEFINE u == SubSeq(w, q, q + n - 1)
  <2>1. u \in Seq(Int) /\ Len(u) = n /\ \A k \in 1..n : u[k] = w[q + k - 1]
    <3> HIDE DEF n
    <3> QED BY <1>0, <1>1, <1>2, ShortParts
  <2> HIDE DEF u
  <2>2. \A k \in 1..Len(u) : u[k] = c[k]
    BY <1>1, <2>1
  <2>3. u = c
    BY <2>1, <2>2, SeqEqual
  <2> QED BY <2>3 DEF u
<1>4. n \in LengthsAt(w, q)
  <2> HIDE DEF n
  <2> QED BY <1>1, <1>2, <1>3 DEF LengthsAt
<1>5. utf8_sequence(w, q) # 0 /\ n = utf8_sequence(w, q)
  <2> HIDE DEF n
  <2> QED BY <1>2, <1>4, LengthIs
<1>6. SequenceAt(w, q, c)
  BY <1>2, <1>3, <1>5, SequenceIs
<1>7. DecodedTokens(w)[q] = Token(<<Bits(c)>>, n) /\ MisfitTokens(w)[q] = Token(<< >>, n)
  BY <1>6, DecodedAt
<1>8. Len(DecodedTokens(w)) = Len(w) /\ Len(MisfitTokens(w)) = Len(w)
  BY <1>0 DEF DecodedTokens, MisfitTokens
<1> HIDE DEF n
<1> QED BY <1>1, <1>2, <1>7, <1>8 DEF TokenAt, Token

\* A run of n tokens from q on, read one after the other; h[k] is what the first
\* k of them give.
Run(n, q, rd, g, h) ==
  /\ n \in Nat /\ q \in Int
  /\ h \in [0..n -> Seq(Int)] /\ h[0] = << >>
  /\ \A k \in 1..n : g[k] \in Seq(Int) /\ h[k] = h[k - 1] \o g[k]
  /\ \A k \in 1..n : rd[q + k - 1] = g[k] \o rd[q + k]
  /\ \A k \in 0..n : rd[q + k] \in Seq(Int)

LEMMA RunIsRead ==
  ASSUME NEW n, NEW q, NEW rd, NEW g, NEW h, Run(n, q, rd, g, h)
  PROVE  rd[q] = h[n] \o rd[q + n]
<1>0. /\ n \in Nat /\ q \in Int
      /\ h \in [0..n -> Seq(Int)] /\ h[0] = << >>
      /\ \A k \in 1..n : g[k] \in Seq(Int) /\ h[k] = h[k - 1] \o g[k]
      /\ \A k \in 1..n : rd[q + k - 1] = g[k] \o rd[q + k]
      /\ \A k \in 0..n : rd[q + k] \in Seq(Int)
  BY DEF Run
<1> USE <1>0
<1> DEFINE Wrong == {k \in 0..n : rd[q] # h[k] \o rd[q + k]}
<1>1. Wrong = {}
  <2> SUFFICES ASSUME Wrong # {} PROVE FALSE
    OBVIOUS
  <2>1. PICK k \in Wrong : \A y \in Wrong : k <= y
    <3>1. Wrong \subseteq Nat
      OBVIOUS
    <3> HIDE DEF Wrong
    <3> QED BY <3>1, LeastMember
  <2>2. k \in 0..n /\ rd[q] # h[k] \o rd[q + k]
    OBVIOUS
  <2>3. k # 0
    <3>1. q + 0 = q /\ rd[q + 0] \in Seq(Int)
      <4>1. q + 0 = q /\ 0 \in 0..n
        OBVIOUS
      <4> QED BY <4>1, Zenon
    <3>2. << >> \o rd[q] = rd[q]
      BY <3>1, ConcatEmptySeq
    <3> QED BY <2>2, <3>1, <3>2
  <2> DEFINE j == k - 1
             a == h[j]
             b == g[k]
             d == rd[q + k]
  <2>4. j \in 0..n /\ k \in 1..n /\ ~(k <= j) /\ q + j = q + k - 1
    BY <2>2, <2>3
  <2>5. j \notin Wrong
    <3> HIDE DEF Wrong, j
    <3> QED BY <2>1, <2>4
  <2>6. rd[q] = a \o rd[q + j]
    <3> HIDE DEF j
    <3> QED BY <2>4, <2>5
  <2>7. rd[q + j] = b \o d /\ h[k] = a \o b
    BY <2>4
  <2>8. a \in Seq(Int) /\ b \in Seq(Int) /\ d \in Seq(Int)
    <3> HIDE DEF j
    <3> QED BY <2>2, <2>4
  <2> HIDE DEF a, b, d, j, Wrong
  <2>9. (a \o b) \o d = a \o (b \o d)
    BY ONLY <2>8, ConcatAssociative
  <2> QED BY <2>2, <2>6, <2>7, <2>9 DEF d
<1>2. n \in 0..n
  OBVIOUS
<1>3. n \notin Wrong
  BY <1>1, Zenon
<1> QED BY <1>2, <1>3

\* A character of a text that is ASCII stands there as itself.
LEMMA HeldCharacter ==
  ASSUME NEW w, IsBytes(w), NEW b, b \in 0..127, NEW q, q \in 1..Len(w), w[q] = b
  PROVE  /\ TokenAt(DecodedTokens(w), q, <<b>>, q + 1)
         /\ TokenAt(MisfitTokens(w), q, << >>, q + 1)
<1> DEFINE c == <<b>>
<1>0. Len(w) \in Nat
  BY BytesAreInts
<1>1. c \in Seq(Int) /\ Len(c) = 1 /\ c[1] = b
  OBVIOUS
<1>2. WellFormed(c) /\ Bits(c) = b
  <2>1. b \in 0..255 /\ b < 128
    OBVIOUS
  <2> QED BY <2>1, WellFormedOne
<1> HIDE DEF c
<1>3. Holds(w, q, c, q + 1)
  <2>1. \A k \in 1..Len(c) : q + k - 1 = q /\ c[k] = b
    BY <1>1
  <2>2. q \in 1..(Len(w) + 1) /\ q + 1 <= Len(w) + 1
    BY <1>0
  <2> QED BY <1>1, <2>1, <2>2 DEF Holds
<1>4. Len(c) \in 1..4
  BY <1>1
<1> DEFINE v == Bits(c)
           m == q + 1
<1>5. v = b /\ Holds(w, q, c, m)
  BY <1>2, <1>3
<1> HIDE DEF v, m
<1>6. TokenAt(DecodedTokens(w), q, <<Bits(c)>>, m) /\ TokenAt(MisfitTokens(w), q, << >>, m)
  BY <1>1, <1>2, <1>4, <1>5, HeldSequence
<1> QED BY <1>5, <1>6 DEF v, m

\* ASCII characters.
IsAscii(c) == c \in Seq(Int) /\ \A k \in 1..Len(c) : c[k] \in 0..127

LEMMA AsciiIsRead ==
  ASSUME NEW w, IsBytes(w), NEW c, IsAscii(c), NEW q, NEW m, Holds(w, q, c, m), NEW rd
  PROVE  /\ Walk(DecodedTokens(w), rd) => rd[q] = c \o rd[m]
         /\ Walk(MisfitTokens(w), rd) => rd[q] = << >> \o rd[m]
<1> DEFINE n == Len(c)
<1>0. /\ w \in Seq(Int) /\ Len(w) \in Nat /\ c \in Seq(Int) /\ n \in Nat
      /\ q \in 1..(Len(w) + 1) /\ q \in Int /\ m = q + n /\ m <= Len(w) + 1
  BY BytesAreInts DEF Holds, IsAscii
<1>1. /\ Len(DecodedTokens(w)) = Len(w) /\ Len(MisfitTokens(w)) = Len(w)
  BY <1>0 DEF DecodedTokens, MisfitTokens
<1>2. ASSUME NEW k \in 1..n
      PROVE  /\ TokenAt(DecodedTokens(w), q + k - 1, <<c[k]>>, q + k)
             /\ TokenAt(MisfitTokens(w), q + k - 1, << >>, q + k)
  <2> DEFINE j == q + k - 1
             b == c[k]
  <2>1. b \in 0..127 /\ j \in 1..Len(w) /\ w[j] = b
    BY DEF Holds, IsAscii
  <2>2. j + 1 = q + k
    BY <1>0
  <2> HIDE DEF j, b
  <2>3. TokenAt(DecodedTokens(w), j, <<b>>, j + 1) /\ TokenAt(MisfitTokens(w), j, << >>, j + 1)
    BY <2>1, HeldCharacter
  <2> QED BY <2>2, <2>3 DEF j, b
<1>3. \A k \in 0..n : q + k \in 1..(Len(w) + 1)
  <2> HIDE DEF n
  <2> QED BY <1>0
<1>4. ASSUME Walk(DecodedTokens(w), rd) PROVE rd[q] = c \o rd[m]
  <2> DEFINE g == [k \in 1..n |-> <<c[k]>>]
             h == [k \in 0..n |-> SubSeq(c, 1, k)]
  <2>1. \A k \in 0..n : rd[q + k] \in Seq(Int)
    BY <1>1, <1>3, <1>4 DEF Walk
  <2>2. \A k \in 1..n : rd[q + k - 1] = g[k] \o rd[q + k]
    <3> TAKE k \in 1..n
    <3> DEFINE s == <<c[k]>>
               a == q + k - 1
               z == q + k
    <3>1. TokenAt(DecodedTokens(w), a, s, z)
      BY <1>2
    <3> HIDE DEF s, a, z
    <3>2. rd[a] = s \o rd[z]
      BY <1>4, <3>1, TokenIs
    <3> QED BY <3>2 DEF s, a, z
  <2>3. \A k \in 1..n : g[k] \in Seq(Int) /\ h[k] = h[k - 1] \o g[k]
    <3> TAKE k \in 1..n
    <3>1. c[k] \in Int /\ k - 1 \in 0..n /\ k \in 0..n /\ 1 \in 1..Len(c) /\ k \in 1..Len(c)
      BY <1>0
    <3>2. SubSeq(c, 1, k) = SubSeq(c, 1, k - 1) \o <<c[k]>>
      BY <1>0, <3>1, SubSeqRecursiveSecond
    <3> QED BY <3>1, <3>2
  <2>4. h \in [0..n -> Seq(Int)] /\ h[0] = << >> /\ h[n] = c
    <3>1. \A k \in 0..n : SubSeq(c, 1, k) \in Seq(Int)
      <4> TAKE k \in 0..n
      <4>1. k \in Int /\ \A i \in 1..k : c[i] \in Int
        BY <1>0
      <4> QED BY <4>1, SubSeqProperties
    <3>2. SubSeq(c, 1, 0) = << >>
      BY SubSeqEmpty
    <3>3. SubSeq(c, 1, n) = c
      BY <1>0, SubSeqFull
    <3>4. 0 \in 0..n /\ n \in 0..n
      BY <1>0
    <3> QED BY <3>1, <3>2, <3>3, <3>4
  <2> HIDE DEF g, h, n
  <2>5. rd[q] = h[n] \o rd[q + n]
    <3>1. Run(n, q, rd, g, h)
      BY <1>0, <2>1, <2>2, <2>3, <2>4, Zenon DEF Run
    <3> QED BY <3>1, RunIsRead, Zenon
  <2> QED BY <1>0, <2>4, <2>5
<1>5. ASSUME Walk(MisfitTokens(w), rd) PROVE rd[q] = << >> \o rd[m]
  <2> DEFINE g == [k \in 1..n |-> << >>]
             h == [k \in 0..n |-> << >>]
  <2>1. \A k \in 0..n : rd[q + k] \in Seq(Int)
    BY <1>1, <1>3, <1>5 DEF Walk
  <2>2. \A k \in 1..n : rd[q + k - 1] = g[k] \o rd[q + k]
    <3> TAKE k \in 1..n
    <3> DEFINE s == << >>
               a == q + k - 1
               z == q + k
    <3>1. TokenAt(MisfitTokens(w), a, s, z)
      BY <1>2
    <3> HIDE DEF s, a, z
    <3>2. rd[a] = s \o rd[z]
      BY <1>5, <3>1, TokenIs
    <3> QED BY <3>2 DEF s, a, z
  <2>3. << >> \in Seq(Int) /\ << >> \o << >> = << >>
    BY EmptySeq, ConcatEmptySeq
  <2>4. \A k \in 1..n : g[k] \in Seq(Int) /\ h[k] = h[k - 1] \o g[k]
    <3> TAKE k \in 1..n
    <3>1. k - 1 \in 0..n /\ k \in 0..n
      BY <1>0
    <3> QED BY <2>3, <3>1
  <2>5. h \in [0..n -> Seq(Int)] /\ h[0] = << >> /\ h[n] = << >>
    BY <1>0, <2>3
  <2> HIDE DEF g, h, n
  <2>6. rd[q] = h[n] \o rd[q + n]
    <3>1. Run(n, q, rd, g, h)
      BY <1>0, <2>1, <2>2, <2>4, <2>5, Zenon DEF Run
    <3> QED BY <3>1, RunIsRead, Zenon
  <2> QED BY <1>0, <2>5, <2>6
<1> QED BY <1>4, <1>5

-----------------------------------------------------------------------------
(* The JSON of the network to train *)

LEMMA EscapeIs ==
  ASSUME NEW b, b \in 0..127
  PROVE  IsAscii(escape(b)) /\ JsonPart(escape(b), b)
<1>1. CASE b \in {34, 92}
  <2>1. escape(b) = <<92, b>>
    BY <1>1 DEF escape
  <2>2. IsAscii(<<92, b>>)
    BY <1>1 DEF IsAscii
  <2> QED BY <1>1, <2>1, <2>2 DEF JsonPart
<1>2. CASE b \in {9, 10, 13}
  <2>1. /\ b = 10 => escape(b) = <<92, 110>>
        /\ b = 13 => escape(b) = <<92, 114>>
        /\ b = 9 => escape(b) = <<92, 116>>
    BY DEF escape
  <2>2. IsAscii(<<92, 110>>) /\ IsAscii(<<92, 114>>) /\ IsAscii(<<92, 116>>)
    BY DEF IsAscii
  <2> QED BY <1>2, <2>1, <2>2 DEF JsonPart
<1>3. CASE b \in (0..31) \ {9, 10, 13}
  <2> DEFINE g == hexDigit(b \div 16)
             h == hexDigit(b % 16)
  <2>1. escape(b) = <<92, 117, 48, 48, g, h>>
    BY <1>3 DEF escape
  <2>2. g \in 0..127 /\ h \in 0..127
    <3>1. b \div 16 \in 0..15 /\ b % 16 \in 0..15
      BY <1>3
    <3>2. \A d \in 0..15 : hexDigit(d) \in 0..127
      BY DEF hexDigit
    <3> QED BY <3>1, <3>2
  <2> HIDE DEF g, h
  <2>3. IsAscii(<<92, 117, 48, 48, g, h>>)
    <3> DEFINE c == <<92, 117, 48, 48, g, h>>
    <3>1. c \in Seq(Int) /\ Len(c) = 6
      BY <2>2
    <3>2. c[1] = 92 /\ c[2] = 117 /\ c[3] = 48 /\ c[4] = 48 /\ c[5] = g /\ c[6] = h
      OBVIOUS
    <3> HIDE DEF c
    <3>3. \A k \in 1..6 : k = 1 \/ k = 2 \/ k = 3 \/ k = 4 \/ k = 5 \/ k = 6
      OBVIOUS
    <3>4. \A k \in 1..6 : c[k] \in 0..127
      BY <2>2, <3>2, <3>3
    <3>5. IsAscii(c)
      BY <3>1, <3>4 DEF IsAscii
    <3> QED BY <3>5 DEF c
  <2> QED BY <1>3, <2>1, <2>3 DEF JsonPart, g, h
<1>4. CASE b \notin {34, 92} /\ b \notin 0..31
  <2>1. escape(b) = <<b>>
    BY <1>4 DEF escape
  <2>2. IsPlain(b)
    BY <1>4, SMT DEF IsPlain
  <2>3. IsAscii(<<b>>)
    BY DEF IsAscii
  <2> QED BY <2>1, <2>2, <2>3 DEF JsonPart
<1> QED BY <1>1, <1>2, <1>3, <1>4

LEMMA OneCharacter ==
  ASSUME NEW b, b \in 0..127
  PROVE  b \in 0..127 /\ Bits(<<b>>) = b
<1>1. b \in 0..255
  OBVIOUS
<1> QED BY <1>1, WellFormedOne

\* The three things that stand at a place of a text, and what the writer and the
\* reader make of them: a byte out of place, ...
OutOfPlace(t, p, written, given) ==
  /\ written = Token(Replacement, 1) /\ given = Token(<<Unknown>>, 1)
  /\ DecodedTokens(t)[p] = Token(<<Unknown>>, 1)

\* ... an ASCII character ...
Character(t, p, written, given) ==
  /\ t[p] \in 0..127 /\ written = Token(escape(t[p]), 1) /\ given = Token(escape(t[p]), 1)
  /\ DecodedTokens(t)[p] = Token(<<t[p]>>, 1)

\* ... and a longer sequence.
Longer(t, p, written, given) ==
  \E c : /\ SequenceAt(t, p, c) /\ Len(c) \in 2..4
         /\ written = Token(c, Len(c)) /\ given = Token(<<Bits(c)>>, Len(c))
         /\ DecodedTokens(t)[p] = Token(<<Bits(c)>>, Len(c))

\* What quote writes for each place, and what a reader of UTF-8 gets of it.
QuotedTokens(t) == [p \in 1..Len(t) |-> quoted(t, p)]
QuotedGiven(t) ==
  [p \in 1..Len(t) |-> IF utf8_sequence(t, p) = 1 THEN Token(escape(t[p]), 1)
                       ELSE DecodedTokens(t)[p]]

LEMMA QuotedAt ==
  ASSUME NEW t, IsBytes(t), NEW p \in 1..Len(t)
  PROVE  \/ OutOfPlace(t, p, QuotedTokens(t)[p], QuotedGiven(t)[p])
         \/ Character(t, p, QuotedTokens(t)[p], QuotedGiven(t)[p])
         \/ Longer(t, p, QuotedTokens(t)[p], QuotedGiven(t)[p])
<1> DEFINE L == utf8_sequence(t, p)
           c == SubSeq(t, p, p + L - 1)
           written == QuotedTokens(t)[p]
           given == QuotedGiven(t)[p]
<1>0. t[p] \in 0..255 /\ t \in Seq(Int) /\ Len(t) \in Nat
  BY BytesAreInts
<1>1. L \in 0..4 /\ (L = 1 => t[p] < 128)
  BY LengthIs
<1>2. L # 0 => SequenceAt(t, p, c)
  BY SequenceIs
<1>3. SequenceAt(t, p, c) => Len(c) = L
  BY DEF SequenceAt
<1>4. written = quoted(t, p)
      /\ given = IF L = 1 THEN Token(escape(t[p]), 1) ELSE DecodedTokens(t)[p]
  BY DEF QuotedTokens, QuotedGiven
<1> HIDE DEF written, given
<1>5. CASE L = 0
  <2>1. written = Token(Replacement, 1)
    BY <1>4, <1>5 DEF quoted
  <2>2. DecodedTokens(t)[p] = Token(<<Unknown>>, 1)
    BY <1>5, NoneDecodedAt
  <2>3. OutOfPlace(t, p, written, given)
    BY <1>4, <1>5, <2>1, <2>2 DEF OutOfPlace
  <2> QED BY <2>3 DEF written, given
<1>6. CASE L = 1
  <2>1. written = Token(escape(t[p]), 1)
    BY <1>4, <1>6 DEF quoted
  <2>2. c = <<t[p]>>
    <3>1. 1 \in 1..4 /\ p + 1 - 1 <= Len(t)
      BY <1>0
    <3>2. SubSeq(t, p, p + 1 - 1) = <<t[p]>>
      BY <1>0, <3>1, ShortParts
    <3> QED BY <1>6, <3>2
  <2>3. DecodedTokens(t)[p] = Token(<<Bits(c)>>, L)
    <3>1. SequenceAt(t, p, c)
      BY <1>2, <1>6
    <3> HIDE DEF c, L
    <3> QED BY <1>3, <3>1, DecodedAt
  <2> DEFINE b == t[p]
  <2>4. b \in 0..255 /\ b < 128
    BY <1>0, <1>1, <1>6
  <2> HIDE DEF b
  <2>5. b \in 0..127 /\ Bits(<<b>>) = b
    <3>1. b \in 0..127
      BY <2>4
    <3> QED BY ONLY <3>1, OneCharacter, Zenon
  <2>6. Character(t, p, written, given)
    BY <1>4, <1>6, <2>1, <2>2, <2>3, <2>5 DEF Character, b
  <2> QED BY <2>6 DEF written, given
<1>7. CASE L # 0 /\ L # 1
  <2>1. written = Token(c, L)
    BY <1>4, <1>7 DEF quoted
  <2>2. SequenceAt(t, p, c) /\ Len(c) = L
    BY <1>2, <1>3, <1>7
  <2> HIDE DEF c
  <2>3. DecodedTokens(t)[p] = Token(<<Bits(c)>>, Len(c))
    BY <2>2, DecodedAt
  <2>4. Len(c) \in 2..4
    BY <1>1, <1>7, <2>2
  <2>5. Longer(t, p, written, given)
    BY <1>4, <1>7, <2>1, <2>2, <2>3, <2>4 DEF Longer
  <2> QED BY <2>5 DEF written, given
<1> QED BY <1>1, <1>5, <1>6, <1>7

LEMMA BytesOfInts ==
  ASSUME NEW c \in Seq(Int), \A k \in 1..Len(c) : c[k] \in 0..255
  PROVE  c \in Seq(0..255)
<1> DEFINE S == 0..255
<1>1. Len(c) \in Nat /\ c \in [1..Len(c) -> Int] /\ \A k \in 1..Len(c) : c[k] \in S
  OBVIOUS
<1> HIDE DEF S
<1>2. c \in [1..Len(c) -> S]
  BY <1>1
<1>3. c \in Seq(S)
  BY <1>1, <1>2, SeqDef
<1> QED BY <1>3 DEF S

\* What is written, given and read for a place is made of characters.
LEMMA PlaceTokens ==
  ASSUME NEW t, IsBytes(t), NEW p \in 1..Len(t)
  PROVE  /\ IsToken(QuotedTokens(t)[p], p, Len(t))
         /\ QuotedTokens(t)[p].gives \in Seq(0..255)
         /\ IsToken(QuotedGiven(t)[p], p, Len(t))
         /\ IsToken(DecodedTokens(t)[p], p, Len(t))
         /\ QuotedGiven(t)[p].takes = QuotedTokens(t)[p].takes
         /\ DecodedTokens(t)[p].takes = QuotedTokens(t)[p].takes
<1> DEFINE written == QuotedTokens(t)[p]
           given == QuotedGiven(t)[p]
           read == DecodedTokens(t)[p]
           n == Len(t)
<1>0. t \in Seq(Int) /\ n \in Nat /\ t[p] \in 0..255 /\ t[p] \in Int
      /\ \A k \in 1..n : t[k] \in 0..255
  BY BytesAreInts
<1>1. p + 1 <= n + 1 /\ p \in Nat
  BY <1>0
<1>2. \/ OutOfPlace(t, p, written, given)
      \/ Character(t, p, written, given)
      \/ Longer(t, p, written, given)
  BY QuotedAt
<1> HIDE DEF written, given, read, n
<1>3. ASSUME NEW g, NEW k, g \in Seq(Int), k \in Nat, k >= 1, p + k <= n + 1
      PROVE  IsToken(Token(g, k), p, n) /\ Token(g, k).gives = g /\ Token(g, k).takes = k
  BY <1>3 DEF IsToken, Token
<1>4. SUFFICES /\ IsToken(written, p, n) /\ written.gives \in Seq(0..255)
               /\ IsToken(given, p, n) /\ IsToken(read, p, n)
               /\ given.takes = written.takes /\ read.takes = written.takes
  BY DEF written, given, read, n
<1>5. CASE OutOfPlace(t, p, written, given)
  <2>1. /\ written = Token(Replacement, 1) /\ given = Token(<<Unknown>>, 1)
        /\ read = Token(<<Unknown>>, 1)
    BY <1>5 DEF OutOfPlace, read
  <2>2. <<Unknown>> \in Seq(Int) /\ Replacement \in Seq(Int) /\ 1 \in Nat /\ 1 >= 1
    BY ReplacementIs DEF Unknown
  <2>3. Replacement \in Seq(0..255)
    BY ReplacementIs
  <2> DEFINE c == Replacement
             u == <<Unknown>>
             k == 1
  <2>4. /\ c \in Seq(Int) /\ u \in Seq(Int) /\ k \in Nat /\ k >= 1 /\ p + k <= n + 1
        /\ written = Token(c, k) /\ given = Token(u, k) /\ read = Token(u, k)
    BY <1>1, <2>1, <2>2
  <2>5. c \in Seq(0..255)
    BY <2>3
  <2> HIDE DEF c, u, k
  <2>6. /\ IsToken(Token(c, k), p, n) /\ Token(c, k).gives = c /\ Token(c, k).takes = k
        /\ IsToken(Token(u, k), p, n) /\ Token(u, k).takes = k
    BY <1>3, <2>4
  <2> QED BY <2>4, <2>5, <2>6
<1>6. CASE Character(t, p, written, given)
  <2> DEFINE b == t[p]
             g == escape(b)
  <2>1. b \in 0..127 /\ written = Token(g, 1) /\ given = Token(g, 1) /\ read = Token(<<b>>, 1)
    BY <1>6 DEF Character, read
  <2>2. IsAscii(g)
    BY <2>1, EscapeIs
  <2> HIDE DEF b, g
  <2>3. g \in Seq(Int) /\ <<b>> \in Seq(Int) /\ 1 \in Nat /\ 1 >= 1
    BY <2>1, <2>2 DEF IsAscii
  <2>4. g \in Seq(0..255)
    <3>1. \A k \in 1..Len(g) : g[k] \in 0..255
      BY <2>2 DEF IsAscii
    <3> QED BY <2>3, <3>1, BytesOfInts
  <2> DEFINE u == <<b>>
             k == 1
  <2>5. /\ g \in Seq(Int) /\ u \in Seq(Int) /\ k \in Nat /\ k >= 1 /\ p + k <= n + 1
        /\ written = Token(g, k) /\ given = Token(g, k) /\ read = Token(u, k)
    BY <1>1, <2>1, <2>3
  <2> HIDE DEF u, k
  <2>6. /\ IsToken(Token(g, k), p, n) /\ Token(g, k).gives = g /\ Token(g, k).takes = k
        /\ IsToken(Token(u, k), p, n) /\ Token(u, k).takes = k
    BY <1>3, <2>5
  <2> QED BY <2>4, <2>5, <2>6
<1>7. CASE Longer(t, p, written, given)
  <2>1. PICK c : /\ SequenceAt(t, p, c) /\ Len(c) \in 2..4
                 /\ written = Token(c, Len(c)) /\ given = Token(<<Bits(c)>>, Len(c))
                 /\ read = Token(<<Bits(c)>>, Len(c))
    BY <1>7 DEF Longer, read
  <2> DEFINE L == Len(c)
  <2>2. /\ c \in Seq(Int) /\ p + L - 1 <= n /\ WellFormed(c)
        /\ \A k \in 1..L : c[k] = t[p + k - 1]
    BY <2>1 DEF SequenceAt, n
  <2>3. Bits(c) \in Int
    BY <2>1, <2>2, LongIsPlain
  <2>4. c \in Seq(0..255)
    <3>1. \A k \in 1..L : p + k - 1 \in 1..n
      <4> HIDE DEF L
      <4>1. L \in 2..4
        BY <2>1 DEF L
      <4> QED BY <1>0, <1>1, <2>2, <4>1
    <3>2. \A k \in 1..L : c[k] \in 0..255
      BY <1>0, <2>2, <3>1
    <3> QED BY <2>2, <3>2, BytesOfInts
  <2>5. L \in Nat /\ L >= 1 /\ p + L <= n + 1
    <3> HIDE DEF L
    <3>1. L \in 2..4
      BY <2>1 DEF L
    <3> QED BY <1>0, <1>1, <2>2, <3>1
  <2>6. <<Bits(c)>> \in Seq(Int)
    BY <2>3
  <2> DEFINE g == <<Bits(c)>>
  <2> HIDE DEF L, g
  <2>7. g \in Seq(Int) /\ c \in Seq(Int) /\ written = Token(c, L) /\ given = Token(g, L)
        /\ read = Token(g, L)
    BY <2>1, <2>2, <2>6 DEF L, g
  <2>8. /\ IsToken(Token(c, L), p, n) /\ Token(c, L).gives = c /\ Token(c, L).takes = L
        /\ IsToken(Token(g, L), p, n) /\ Token(g, L).takes = L
    BY <1>3, <2>5, <2>7
  <2> QED BY <2>4, <2>7, <2>8
<1> QED BY <1>2, <1>5, <1>6, <1>7

LEMMA QuotedTypes ==
  ASSUME NEW t, IsBytes(t)
  PROVE  /\ AreTokens(QuotedTokens(t)) /\ Len(QuotedTokens(t)) = Len(t)
         /\ AreTokens(QuotedGiven(t)) /\ Len(QuotedGiven(t)) = Len(t)
         /\ AreTokens(DecodedTokens(t)) /\ Len(DecodedTokens(t)) = Len(t)
<1>0. t \in Seq(Int)
  BY BytesAreInts
<1>1. /\ QuotedTokens(t) = [p \in 1..Len(t) |-> QuotedTokens(t)[p]]
      /\ QuotedGiven(t) = [p \in 1..Len(t) |-> QuotedGiven(t)[p]]
      /\ DecodedTokens(t) = [p \in 1..Len(t) |-> DecodedTokens(t)[p]]
  BY DEF QuotedTokens, QuotedGiven, DecodedTokens
<1>2. \A p \in 1..Len(t) : /\ IsToken(QuotedTokens(t)[p], p, Len(t))
                           /\ IsToken(QuotedGiven(t)[p], p, Len(t))
                           /\ IsToken(DecodedTokens(t)[p], p, Len(t))
  BY PlaceTokens
<1> DEFINE a == QuotedTokens(t)
           b == QuotedGiven(t)
           d == DecodedTokens(t)
<1> HIDE DEF a, b, d
<1>3. /\ a = [p \in 1..Len(t) |-> a[p]] /\ \A p \in 1..Len(t) : IsToken(a[p], p, Len(t))
      /\ b = [p \in 1..Len(t) |-> b[p]] /\ \A p \in 1..Len(t) : IsToken(b[p], p, Len(t))
      /\ d = [p \in 1..Len(t) |-> d[p]] /\ \A p \in 1..Len(t) : IsToken(d[p], p, Len(t))
  BY <1>1, <1>2 DEF a, b, d
<1>4. AreTokens(a) /\ Len(a) = Len(t)
  BY <1>0, <1>3, ReaderTokens
<1>5. AreTokens(b) /\ Len(b) = Len(t)
  BY <1>0, <1>3, ReaderTokens
<1>6. AreTokens(d) /\ Len(d) = Len(t)
  BY <1>0, <1>3, ReaderTokens
<1> QED BY <1>4, <1>5, <1>6 DEF a, b, d

LEMMA MisfitTypes ==
  ASSUME NEW t, IsBytes(t)
  PROVE  AreTokens(MisfitTokens(t)) /\ Len(MisfitTokens(t)) = Len(t)
<1>0. t \in Seq(Int) /\ Len(t) \in Nat
  BY BytesAreInts
<1>1. ASSUME NEW p \in 1..Len(t)
      PROVE  IsToken(MisfitTokens(t)[p], p, Len(t))
  <2> DEFINE L == utf8_sequence(t, p)
             c == SubSeq(t, p, p + L - 1)
  <2>1. CASE L = 0
    <3> DEFINE g == <<t[p]>>
               k == 1
    <3>1. g \in Seq(Int) /\ k \in Nat /\ k >= 1 /\ p + k <= Len(t) + 1
      BY <1>0
    <3>2. MisfitTokens(t)[p] = Token(g, k)
      BY <2>1, NoneDecodedAt
    <3> HIDE DEF g, k
    <3> QED BY <3>1, <3>2, FitToken
  <2>2. CASE L # 0
    <3>1. SequenceAt(t, p, c)
      BY <2>2, SequenceIs
    <3> HIDE DEF c
    <3> DEFINE g == << >>
               k == Len(c)
    <3>2. MisfitTokens(t)[p] = Token(g, k)
      BY <3>1, DecodedAt
    <3>3. k \in 1..4 /\ p + k - 1 <= Len(t)
      BY <3>1 DEF SequenceAt
    <3>4. g \in Seq(Int)
      BY EmptySeq
    <3> HIDE DEF g, k
    <3>5. k \in Nat /\ k >= 1 /\ p + k <= Len(t) + 1
      BY <1>0, <3>3
    <3> QED BY <3>2, <3>4, <3>5, FitToken
  <2> QED BY <2>1, <2>2
<1> DEFINE tokens == MisfitTokens(t)
<1>2. tokens = [p \in 1..Len(t) |-> tokens[p]]
  BY DEF MisfitTokens
<1> HIDE DEF tokens
<1>3. \A p \in 1..Len(t) : IsToken(tokens[p], p, Len(t))
  BY <1>1 DEF tokens
<1>4. AreTokens(tokens) /\ Len(tokens) = Len(t)
  BY <1>0, <1>2, <1>3, ReaderTokens
<1> QED BY <1>4 DEF tokens

\* Nothing is out of place of what is written for a place.
NoneGiven(t) == [p \in 1..Len(t) |-> Token(<< >>, QuotedTokens(t)[p].takes)]

LEMMA NoneIsGiven ==
  ASSUME NEW t, IsBytes(t)
  PROVE  /\ AreTokens(NoneGiven(t)) /\ Len(NoneGiven(t)) = Len(t)
         /\ \A p \in 1..Len(t) : NoneGiven(t)[p].gives = << >>
                                 /\ NoneGiven(t)[p].takes = QuotedTokens(t)[p].takes
         /\ Walked(NoneGiven(t)) = << >>
<1>0. t \in Seq(Int) /\ Len(t) \in Nat
  BY BytesAreInts
<1> DEFINE tokens == NoneGiven(t)
<1>1. /\ tokens = [p \in 1..Len(t) |-> tokens[p]]
      /\ \A p \in 1..Len(t) : tokens[p] = Token(<< >>, QuotedTokens(t)[p].takes)
  BY DEF NoneGiven
<1> HIDE DEF tokens
<1>2. ASSUME NEW p \in 1..Len(t)
      PROVE  /\ IsToken(tokens[p], p, Len(t)) /\ tokens[p].gives = << >>
             /\ tokens[p].takes = QuotedTokens(t)[p].takes
  <2> DEFINE g == << >>
             k == QuotedTokens(t)[p].takes
  <2>1. k \in Nat /\ k >= 1 /\ p + k <= Len(t) + 1
    <3>1. IsToken(QuotedTokens(t)[p], p, Len(t))
      BY PlaceTokens
    <3> QED BY <3>1 DEF IsToken
  <2>2. g \in Seq(Int) /\ tokens[p] = Token(g, k)
    BY <1>1, EmptySeq
  <2> HIDE DEF g, k
  <2>3. IsToken(Token(g, k), p, Len(t)) /\ Token(g, k).gives = g /\ Token(g, k).takes = k
    BY <2>1, <2>2, FitToken DEF Token
  <2> QED BY <2>2, <2>3 DEF g, k
<1>3. AreTokens(tokens) /\ Len(tokens) = Len(t)
  BY <1>0, <1>1, <1>2, ReaderTokens
<1>4. Walked(tokens) = << >>
  <2> DEFINE S == {}
  <2>1. S \subseteq Int
    OBVIOUS
  <2>2. \A p \in 1..Len(tokens) : tokens[p].gives \in Seq(S)
    BY <1>2, <1>3, EmptySeq
  <2> HIDE DEF S
  <2>3. Walked(tokens) \in Seq(S)
    BY <1>3, <2>1, <2>2, WalkedOver
  <2> DEFINE w == Walked(tokens)
  <2> HIDE DEF w
  <2>4. w \in Seq(S)
    BY <2>3 DEF w
  <2>5. ASSUME w # << >> PROVE FALSE
    <3>1. Len(w) \in Nat \ {0} /\ \A k \in 1..Len(w) : w[k] \in S
      BY <2>4, <2>5, EmptySeq, ElementOfSeq
    <3>2. 1 \in 1..Len(w)
      BY <3>1
    <3>3. w[1] \in S
      BY <3>1, <3>2
    <3> QED BY <3>3 DEF S
  <2> QED BY <2>5 DEF w
<1> QED BY <1>2, <1>3, <1>4 DEF tokens

\* What the reader gives for a part that stands at q and ends before m.
GivesAt(tokens, q, g, m) == \A rd : Walk(tokens, rd) => rd[q] = g \o rd[m]

LEMMA QuotedIsRead ==
  ASSUME NEW t, IsBytes(t), NEW w, IsBytes(w), NEW p, NEW q, NEW m, p \in 1..Len(t),
         Holds(w, q, QuotedTokens(t)[p].gives, m)
  PROVE  /\ GivesAt(DecodedTokens(w), q, QuotedGiven(t)[p].gives, m)
         /\ GivesAt(MisfitTokens(w), q, << >>, m)
<1> DEFINE written == QuotedTokens(t)[p]
           given == QuotedGiven(t)[p]
           reader == DecodedTokens(w)
           misfits == MisfitTokens(w)
<1>1. Holds(w, q, written.gives, m)
  OBVIOUS
<1>2. \/ OutOfPlace(t, p, written, given)
      \/ Character(t, p, written, given)
      \/ Longer(t, p, written, given)
  BY QuotedAt
<1> HIDE DEF written, given, reader, misfits
<1> SUFFICES ASSUME NEW rd
             PROVE  /\ Walk(reader, rd) => rd[q] = given.gives \o rd[m]
                    /\ Walk(misfits, rd) => rd[q] = << >> \o rd[m]
  BY DEF GivesAt, given, reader, misfits
<1>3. ASSUME NEW c, c \in Seq(Int), Len(c) \in 1..4, WellFormed(c), written.gives = c,
             given.gives = <<Bits(c)>>
      PROVE  /\ Walk(reader, rd) => rd[q] = given.gives \o rd[m]
             /\ Walk(misfits, rd) => rd[q] = << >> \o rd[m]
  <2> DEFINE g == <<Bits(c)>>
             e == << >>
  <2>1. TokenAt(reader, q, g, m) /\ TokenAt(misfits, q, e, m)
    BY <1>1, <1>3, HeldSequence DEF reader, misfits
  <2>2. given.gives = g
    BY <1>3
  <2> HIDE DEF g, e
  <2>3. Walk(reader, rd) => rd[q] = g \o rd[m]
    BY ONLY <2>1, TokenIs
  <2>4. Walk(misfits, rd) => rd[q] = e \o rd[m]
    BY ONLY <2>1, TokenIs
  <2> QED BY <2>2, <2>3, <2>4 DEF e
<1>4. CASE OutOfPlace(t, p, written, given)
  <2>1. written.gives = Replacement /\ given.gives = <<Unknown>>
    BY <1>4 DEF OutOfPlace, Token
  <2>2. Replacement \in Seq(Int) /\ Len(Replacement) \in 1..4 /\ WellFormed(Replacement)
    BY ReplacementIs
  <2>3. <<Unknown>> = <<Bits(Replacement)>>
    BY ReplacementIs
  <2> QED BY <1>3, <2>1, <2>2, <2>3
<1>5. CASE Longer(t, p, written, given)
  <2>1. PICK c : /\ SequenceAt(t, p, c) /\ Len(c) \in 2..4
                 /\ written = Token(c, Len(c)) /\ given = Token(<<Bits(c)>>, Len(c))
    BY <1>5 DEF Longer
  <2>2. c \in Seq(Int) /\ WellFormed(c) /\ Len(c) \in 1..4
    BY <2>1 DEF SequenceAt
  <2>3. written.gives = c /\ given.gives = <<Bits(c)>>
    BY <2>1 DEF Token
  <2> QED BY <1>3, <2>2, <2>3
<1>6. CASE Character(t, p, written, given)
  <2> DEFINE c == escape(t[p])
  <2>1. IsAscii(c)
    BY <1>6, EscapeIs DEF Character
  <2>2. written.gives = c /\ given.gives = c
    BY <1>6 DEF Character, Token
  <2> HIDE DEF c
  <2>3. /\ Walk(reader, rd) => rd[q] = c \o rd[m]
        /\ Walk(misfits, rd) => rd[q] = << >> \o rd[m]
    BY <1>1, <2>1, <2>2, AsciiIsRead DEF reader, misfits
  <2> QED BY <2>2, <2>3
<1> QED BY <1>2, <1>4, <1>5, <1>6

\* What quote writes is valid UTF-8, and what a reader gets of it.
LEMMA QuoteIsDecoded ==
  ASSUME NEW t, IsBytes(t)
  PROVE  /\ IsBytes(quote(t)) /\ IsUtf8(quote(t))
         /\ Decoded(quote(t)) = Walked(QuotedGiven(t))
<1> DEFINE written == QuotedTokens(t)
           given == QuotedGiven(t)
           none == NoneGiven(t)
           w == quote(t)
           reader == DecodedTokens(w)
           misfits == MisfitTokens(w)
<1>0. t \in Seq(Int) /\ Len(t) \in Nat /\ DOMAIN t = 1..Len(t)
  BY BytesAreInts
<1>1. w = Walked(written)
  BY <1>0 DEF quote, QuotedTokens
<1>2. AreTokens(written) /\ Len(written) = Len(t) /\ AreTokens(given) /\ Len(given) = Len(t)
  BY QuotedTypes
<1> HIDE DEF w, reader, misfits, written, given, none
<1>3. IsBytes(w)
  <2> DEFINE S == 0..255
  <2>1. S \subseteq Int
    OBVIOUS
  <2>2. \A p \in 1..Len(written) : written[p].gives \in Seq(S)
    BY <1>2, PlaceTokens DEF written
  <2> HIDE DEF S
  <2>3. Walked(written) \in Seq(S)
    BY <1>2, <2>1, <2>2, WalkedOver
  <2> QED BY <1>1, <2>3 DEF IsBytes, S
<1>4. w \in Seq(Int) /\ DOMAIN w = 1..Len(w)
  BY <1>3, BytesAreInts
<1>5. Decoded(w) = Walked(reader) /\ Misfits(w) = Walked(misfits)
  BY <1>4 DEF Decoded, Misfits, reader, misfits, DecodedTokens, MisfitTokens, Unknown
<1>6. /\ AreTokens(reader) /\ Len(reader) = Len(w)
      /\ AreTokens(misfits) /\ Len(misfits) = Len(w)
  BY <1>3, QuotedTypes, MisfitTypes DEF reader, misfits
<1>7. ASSUME NEW p, NEW q, NEW m, p \in 1..Len(written),
             Holds(Walked(written), q, written[p].gives, m)
      PROVE  GivesAt(reader, q, given[p].gives, m) /\ GivesAt(misfits, q, << >>, m)
  <2>1. p \in 1..Len(t) /\ Holds(w, q, QuotedTokens(t)[p].gives, m)
    BY <1>1, <1>2, <1>7 DEF written
  <2> QED BY <1>3, <2>1, QuotedIsRead DEF reader, given, misfits
<1>8. EachIsRead(written, reader, given)
  <2> SUFFICES ASSUME NEW rd, NEW p, NEW q, NEW m, Walk(reader, rd), p \in 1..Len(written),
                      Holds(Walked(written), q, written[p].gives, m)
               PROVE  rd[q] = given[p].gives \o rd[m]
    BY DEF EachIsRead
  <2> DEFINE g == given[p].gives
  <2>1. GivesAt(reader, q, g, m) /\ Walk(reader, rd)
    BY <1>7
  <2> HIDE DEF g
  <2>2. rd[q] = g \o rd[m]
    BY ONLY <2>1 DEF GivesAt
  <2> QED BY <2>2 DEF g
<1>9. /\ AreTokens(none) /\ Len(none) = Len(t) /\ Walked(none) = << >>
      /\ \A p \in 1..Len(t) : none[p].gives = << >> /\ none[p].takes = written[p].takes
  BY NoneIsGiven DEF none, written
<1>10. EachIsRead(written, misfits, none)
  <2> SUFFICES ASSUME NEW rd, NEW p, NEW q, NEW m, Walk(misfits, rd), p \in 1..Len(written),
                      Holds(Walked(written), q, written[p].gives, m)
               PROVE  rd[q] = none[p].gives \o rd[m]
    BY DEF EachIsRead
  <2> DEFINE g == none[p].gives
  <2>1. g = << >>
    BY <1>2, <1>9
  <2>2. GivesAt(misfits, q, << >>, m) /\ Walk(misfits, rd)
    BY <1>7
  <2> HIDE DEF g
  <2>3. GivesAt(misfits, q, g, m) /\ Walk(misfits, rd)
    BY <2>1, <2>2
  <2>4. rd[q] = g \o rd[m]
    BY ONLY <2>3 DEF GivesAt
  <2> QED BY <2>4 DEF g
<1>11. \A p \in 1..Len(written) : given[p].takes = written[p].takes
  BY <1>2, PlaceTokens DEF given, written
<1>12. Walked(reader) = Walked(given)
  BY <1>1, <1>2, <1>6, <1>8, <1>11, TokensAreRead
<1>13. Walked(misfits) = Walked(none)
  BY <1>1, <1>2, <1>6, <1>9, <1>10, TokensAreRead
<1> QED BY <1>3, <1>5, <1>9, <1>12, <1>13 DEF IsUtf8, w, given

\* What a reader of JSON gets of it.
LEMMA QuoteReadsBack ==
  ASSUME NEW t, IsBytes(t)
  PROVE  IsUtf8(quote(t)) /\ Unescaped(Decoded(quote(t))) = Decoded(t)
<1> DEFINE written == QuotedGiven(t)
           given == DecodedTokens(t)
           w == Walked(written)
           reader == JsonTokens(w)
<1>0. t \in Seq(Int) /\ Len(t) \in Nat /\ DOMAIN t = 1..Len(t)
  BY BytesAreInts
<1>1. /\ AreTokens(written) /\ Len(written) = Len(t)
      /\ AreTokens(given) /\ Len(given) = Len(t)
  BY QuotedTypes
<1>2. \A p \in 1..Len(t) : given[p].takes = written[p].takes
  BY PlaceTokens, Zenon
<1> HIDE DEF written, given, w, reader
<1>3. w \in Seq(Int)
  BY <1>1, WalkedType DEF w
<1>4. AreTokens(reader) /\ Len(reader) = Len(w) /\ Unescaped(w) = Walked(reader)
  BY <1>3, JsonReader DEF Reads, reader
<1>5. ASSUME NEW p, NEW q, NEW m, p \in 1..Len(written),
             Holds(Walked(written), q, written[p].gives, m)
      PROVE  TokenAt(reader, q, given[p].gives, m)
  <2>0. Holds(w, q, written[p].gives, m)
    BY <1>5 DEF w
  <2>1. \/ OutOfPlace(t, p, QuotedTokens(t)[p], written[p])
        \/ Character(t, p, QuotedTokens(t)[p], written[p])
        \/ Longer(t, p, QuotedTokens(t)[p], written[p])
    BY <1>1, <1>5, QuotedAt DEF written
  <2>2. ASSUME NEW c, NEW code, c \in Seq(Int), code \in Int, JsonPart(c, code),
               written[p].gives = c, given[p].gives = <<code>>
        PROVE  TokenAt(reader, q, given[p].gives, m)
    <3>1. TokenAt(JsonTokens(w), q, <<code>>, m)
      BY <1>3, <2>0, <2>2, JsonPartIsRead
    <3> QED BY <2>2, <3>1 DEF reader
  <2>3. CASE OutOfPlace(t, p, QuotedTokens(t)[p], written[p])
    <3> DEFINE code == Unknown
               c == <<code>>
    <3>1. written[p].gives = c /\ given[p].gives = <<code>>
      BY <2>3 DEF OutOfPlace, Token, given
    <3>2. code \in Int /\ IsPlain(code)
      BY SMT DEF IsPlain, Unknown
    <3> HIDE DEF code
    <3>3. c \in Seq(Int) /\ JsonPart(c, code)
      BY <3>2 DEF JsonPart
    <3> QED BY <2>2, <3>1, <3>2, <3>3
  <2>4. CASE Longer(t, p, QuotedTokens(t)[p], written[p])
    <3>1. PICK u : /\ SequenceAt(t, p, u) /\ Len(u) \in 2..4
                   /\ written[p] = Token(<<Bits(u)>>, Len(u))
                   /\ given[p] = Token(<<Bits(u)>>, Len(u))
      BY <2>4 DEF Longer, given
    <3> DEFINE code == Bits(u)
               c == <<code>>
    <3>2. u \in Seq(Int) /\ WellFormed(u)
      BY <3>1 DEF SequenceAt
    <3>3. code \in Int /\ IsPlain(code)
      BY <3>1, <3>2, LongIsPlain
    <3>4. written[p].gives = c /\ given[p].gives = <<code>>
      BY <3>1 DEF Token
    <3> HIDE DEF code
    <3>5. c \in Seq(Int) /\ JsonPart(c, code)
      BY <3>3 DEF JsonPart
    <3> QED BY <2>2, <3>3, <3>4, <3>5
  <2>5. CASE Character(t, p, QuotedTokens(t)[p], written[p])
    <3> DEFINE code == t[p]
               c == escape(code)
    <3>1. code \in 0..127 /\ written[p].gives = c /\ given[p].gives = <<code>>
      BY <2>5 DEF Character, Token, given
    <3> HIDE DEF code
    <3>2. IsAscii(c) /\ JsonPart(c, code) /\ code \in Int
      BY <3>1, EscapeIs
    <3> HIDE DEF c
    <3>3. c \in Seq(Int)
      BY <3>2 DEF IsAscii
    <3> QED BY <2>2, <3>1, <3>2, <3>3
  <2> QED BY <2>1, <2>3, <2>4, <2>5
<1>6. TokenForEach(written, reader, given)
  <2> SUFFICES ASSUME NEW p, NEW q, NEW m, p \in 1..Len(written),
                      Holds(Walked(written), q, written[p].gives, m)
               PROVE  TokenAt(reader, q, given[p].gives, m)
    BY DEF TokenForEach
  <2> QED BY <1>5, Zenon
<1>7. EachIsRead(written, reader, given)
  BY <1>6, OneTokenEach
<1>8. Walked(reader) = Walked(given)
  <2>1. Len(reader) = Len(Walked(written)) /\ Len(given) = Len(written)
        /\ \A p \in 1..Len(written) : given[p].takes = written[p].takes
    BY <1>1, <1>2, <1>4 DEF w
  <2> QED BY <1>1, <1>4, <1>7, <2>1, TokensAreRead
<1>9. Decoded(t) = Walked(given)
  BY <1>0 DEF Decoded, DecodedTokens, given, Unknown
<1>10. IsUtf8(quote(t)) /\ Decoded(quote(t)) = w
  BY QuoteIsDecoded DEF w, written
<1> QED BY <1>4, <1>8, <1>9, <1>10

-----------------------------------------------------------------------------
(* The names in the documents *)

\* The texts a name may have, a byte longer each time.
TextSpec == NoText /\ [][NextByte(Bytes) \/ NextByte(Marks)]_text

\* Of bytes, whatever they are, every document holds the name it was given.
LEMMA BytesReadBack ==
  ASSUME IsBytes(text)
  PROVE  NamesReadBack
<1>1. QuotedReadsBack
  BY QuoteReadsBack DEF QuotedReadsBack
<1>2. Unescaped(json_quoted(text)) = text
  BY JsonReadsBack
<1>3. XmlText(xml_escaped(text)) = ForXml(text)
  <2> DEFINE k == ForXmlKept(text)
  <2>1. IsBytes(k) /\ \A p \in 1..Len(k) : IsXml(k[p])
    BY KeptIsXml
  <2>2. xml_escaped(k) = xml_escaped(text)
    BY XmlOfKept
  <2> HIDE DEF k
  <2>3. XmlText(xml_escaped(k)) = LinesJoined(k)
    BY <2>1, XmlReadsBack
  <2> QED BY <2>2, <2>3 DEF ForXml, k
<1>4. (\A p \in DOMAIN text : text[p] >= 32) => YamlText(yaml_quoted(text)) = text
  <2> SUFFICES ASSUME \A p \in DOMAIN text : text[p] >= 32
               PROVE  YamlText(yaml_quoted(text)) = text
    OBVIOUS
  <2>1. DOMAIN text = 1..Len(text)
    BY BytesAreInts
  <2> QED BY <2>1, YamlReadsBack
<1> QED BY <1>1, <1>2, <1>3, <1>4 DEF NamesReadBack

\* A name of any bytes and any length reads back from every document: the JSON
\* of the network, of COCO and of Create ML, the XML of Pascal VOC and the YAML
\* of Ultralytics.
THEOREM NamesAlwaysReadBack == TextSpec => []NamesReadBack
<1>1. NoText => IsBytes(text)
  <2>1. << >> \in Seq(0..255)
    BY EmptySeq
  <2> QED BY <2>1 DEF NoText, IsBytes
<1>2. IsBytes(text) /\ [NextByte(Bytes) \/ NextByte(Marks)]_text => IsBytes(text)'
  <2> SUFFICES ASSUME IsBytes(text), NextByte(Bytes) \/ NextByte(Marks)
               PROVE  IsBytes(text)'
    BY DEF IsBytes
  <2> DEFINE S == 0..255
  <2>1. PICK b \in Bytes \cup Marks : text' = Append(text, b)
    BY DEF NextByte
  <2>2. b \in S /\ text \in Seq(S)
    BY BytesAssumption DEF IsBytes
  <2> HIDE DEF S
  <2>3. Append(text, b) \in Seq(S)
    BY <2>2, AppendProperties
  <2> QED BY <2>1, <2>3 DEF IsBytes, S
<1>3. IsBytes(text) => NamesReadBack
  BY BytesReadBack
<1> QED BY <1>1, <1>2, <1>3, PTL DEF TextSpec

\* The sequences that the recursion of FlattenSeq makes of the first n.
Flattens(seqs, n, c) ==
  c = [i \in 1..n |-> IF i = 1 THEN seqs[i] ELSE c[i - 1] \o seqs[i]]

LEMMA FlattensAt ==
  ASSUME NEW seqs, NEW n, NEW c, Flattens(seqs, n, c), NEW i \in 1..n
  PROVE  c[i] = IF i = 1 THEN seqs[i] ELSE c[i - 1] \o seqs[i]
BY DEF Flattens

LEMMA FlattenExists ==
  ASSUME NEW seqs, NEW n \in Nat
  PROVE  \E c : Flattens(seqs, n, c)
<1> DEFINE Missing == {m \in Nat : ~ \E c : Flattens(seqs, m, c)}
<1> SUFFICES ASSUME Missing # {} PROVE FALSE
  OBVIOUS
<1>1. PICK m \in Missing : \A k \in Missing : m <= k
  BY LeastMember
<1>2. m \in Nat /\ ~ \E c : Flattens(seqs, m, c)
  BY <1>1
<1>3. m # 0
  <2> DEFINE c == [i \in 1..0 |-> 0]
  <2>1. c = [i \in 1..0 |-> IF i = 1 THEN seqs[i] ELSE c[i - 1] \o seqs[i]]
    OBVIOUS
  <2> HIDE DEF c
  <2> QED BY <1>2, <2>1 DEF Flattens
<1>4. m - 1 \in Nat \ Missing
  BY <1>1, <1>2, <1>3
<1>5. PICK c : Flattens(seqs, m - 1, c)
  BY <1>4
<1> DEFINE d == [i \in 1..m |-> IF i = m THEN (IF i = 1 THEN seqs[i] ELSE c[i - 1] \o seqs[i])
                                         ELSE c[i]]
<1>6. ASSUME NEW i \in 1..m PROVE d[i] = IF i = 1 THEN seqs[i] ELSE d[i - 1] \o seqs[i]
  <2>1. i # m => i \in 1..(m - 1)
    BY <1>2
  <2>2. i # m => c[i] = IF i = 1 THEN seqs[i] ELSE c[i - 1] \o seqs[i]
    BY <1>5, <2>1 DEF Flattens
  <2>3. i # 1 => i - 1 \in 1..m /\ i - 1 # m
    BY <1>2
  <2>4. i # 1 => d[i - 1] = c[i - 1]
    BY <2>3
  <2> QED BY <2>2, <2>4
<1>7. d = [i \in 1..m |-> d[i]]
  OBVIOUS
<1> HIDE DEF d
<1>8. Flattens(seqs, m, d)
  BY <1>6, <1>7, Zenon DEF Flattens
<1> QED BY <1>2, <1>8

\* FlattenSeq is the last of them.
LEMMA FlattenSeqIs ==
  ASSUME NEW seqs, Len(seqs) \in Nat, Len(seqs) # 0
  PROVE  \E c : Flattens(seqs, Len(seqs), c) /\ FlattenSeq(seqs) = c[Len(seqs)]
BY FlattenExists, Zenon DEF FlattenSeq, Flattens

\* The sequence h has the numbers P, each once, from the least on.
Lists(h, P) ==
  /\ h \in Seq(Int)
  /\ \A i \in 1..Len(h) : h[i] \in P
  /\ \A p \in P : \E i \in 1..Len(h) : h[i] = p
  /\ \A i, j \in 1..Len(h) : i < j => h[i] < h[j]

LEMMA ListsNone == Lists(<< >>, {})
<1>1. << >> \in Seq(Int) /\ Len(<< >>) = 0
  OBVIOUS
<1>2. \A i \in 1..0 : FALSE
  OBVIOUS
<1> QED BY <1>1, <1>2 DEF Lists

LEMMA ListsNext ==
  ASSUME NEW h, NEW P, Lists(h, P), NEW v \in Int, \A p \in P : p < v
  PROVE  Lists(Append(h, v), P \cup {v})
<1> DEFINE n == Len(h)
           g == Append(h, v)
<1>1. h \in Seq(Int) /\ n \in Nat /\ n + 1 \in Nat
  BY DEF Lists
<1>2. /\ g \in Seq(Int) /\ Len(g) = n + 1 /\ g[n + 1] = v
      /\ \A i \in 1..n : g[i] = h[i]
  BY <1>1, AppendProperties
<1>3. \A i \in 1..(n + 1) : i \in 1..n \/ i = n + 1
  BY <1>1
<1>4. \A i \in 1..n : i \in 1..(n + 1) /\ i < n + 1 /\ ~(n + 1 < i)
  BY <1>1
<1>5. n + 1 \in 1..(n + 1) /\ ~(n + 1 < n + 1)
  BY <1>1
<1> HIDE DEF g
<1>6. /\ \A i \in 1..n : h[i] \in P
      /\ \A p \in P : \E i \in 1..n : h[i] = p
      /\ \A i, j \in 1..n : i < j => h[i] < h[j]
  BY DEF Lists
<1> HIDE DEF n
<1>7. \A i \in 1..(n + 1) : g[i] \in P \cup {v}
  BY <1>2, <1>3, <1>6
<1>8. \A p \in P \cup {v} : \E i \in 1..(n + 1) : g[i] = p
  <2>1. ASSUME NEW p \in P PROVE \E i \in 1..(n + 1) : g[i] = p
    BY <1>2, <1>4, <1>6
  <2>2. \E i \in 1..(n + 1) : g[i] = v
    BY <1>2, <1>5
  <2> QED BY <2>1, <2>2
<1>9. ASSUME NEW i \in 1..(n + 1), NEW j \in 1..(n + 1), i < j PROVE g[i] < g[j]
  <2>1. i \in 1..n
    BY <1>1, <1>9
  <2>2. CASE j \in 1..n
    BY <1>2, <1>6, <1>9, <2>1, <2>2
  <2>3. CASE j = n + 1
    <3>1. g[i] \in P /\ g[j] = v
      BY <1>2, <1>6, <2>1, <2>3
    <3> QED BY <3>1
  <2> QED BY <1>3, <2>2, <2>3
<1> QED BY <1>2, <1>7, <1>8, <1>9 DEF Lists, g

\* There is one such sequence.
LEMMA ListsOnce ==
  ASSUME NEW h, NEW g, NEW P, Lists(h, P), Lists(g, P)
  PROVE  h = g
<1>1. /\ h \in Seq(Int) /\ Len(h) \in Nat /\ DOMAIN h = 1..Len(h)
      /\ g \in Seq(Int) /\ Len(g) \in Nat /\ DOMAIN g = 1..Len(g)
  BY LenProperties DEF Lists
<1>2. ASSUME NEW a, NEW b, Lists(a, P), Lists(b, P), Len(a) \in Nat, Len(b) \in Nat,
             NEW i \in 1..Len(a), \A k \in 1..(i - 1) : k \in 1..Len(b) /\ a[k] = b[k]
      PROVE  i \in 1..Len(b) /\ b[i] <= a[i]
  <2>1. PICK j \in 1..Len(b) : b[j] = a[i]
    BY <1>2 DEF Lists
  <2>2. ~(j < i)
    <3> SUFFICES ASSUME j < i PROVE FALSE
      OBVIOUS
    <3>1. j \in 1..(i - 1)
      BY <1>2
    <3>2. a[j] = b[j]
      BY <1>2, <3>1
    <3>3. j \in 1..Len(a)
      BY <1>2, <3>1
    <3>4. a[j] < a[i] /\ a[i] \in Int
      BY <1>2, <3>3 DEF Lists
    <3> QED BY <2>1, <3>2, <3>4
  <2>3. i \in 1..Len(b) /\ (i = j \/ i < j)
    BY <1>2, <2>2
  <2>4. b[i] \in Int /\ b[j] \in Int
    BY <1>2, <2>3 DEF Lists
  <2>5. i < j => b[i] < b[j]
    BY <1>2, <2>3 DEF Lists
  <2>6. b[i] <= b[j]
    BY <2>3, <2>4, <2>5
  <2> QED BY <2>1, <2>3, <2>6
<1> DEFINE Differ == {i \in Nat : i >= 1 /\ ~((i \in 1..Len(h) <=> i \in 1..Len(g))
                                              /\ (i \in 1..Len(h) => h[i] = g[i]))}
<1>3. Differ = {}
  <2> SUFFICES ASSUME Differ # {} PROVE FALSE
    OBVIOUS
  <2>1. PICK i \in Differ : \A k \in Differ : i <= k
    <3>1. Differ \subseteq Nat
      OBVIOUS
    <3> HIDE DEF Differ
    <3> QED BY <3>1, LeastMember
  <2>2. i \in Nat /\ i >= 1
    BY <2>1
  <2>3. \A k \in 1..(i - 1) : (k \in 1..Len(h) <=> k \in 1..Len(g))
                              /\ (k \in 1..Len(h) => h[k] = g[k])
    <3> TAKE k \in 1..(i - 1)
    <3>1. k \in Nat /\ k >= 1 /\ ~(i <= k)
      BY <2>2
    <3> QED BY <2>1, <3>1
  <2>4. i \in 1..Len(h) => i \in 1..Len(g) /\ g[i] <= h[i]
    <3> SUFFICES ASSUME i \in 1..Len(h) PROVE i \in 1..Len(g) /\ g[i] <= h[i]
      OBVIOUS
    <3>1. \A k \in 1..(i - 1) : k \in 1..Len(h)
      BY <1>1
    <3>2. \A k \in 1..(i - 1) : k \in 1..Len(g) /\ h[k] = g[k]
      BY <2>3, <3>1
    <3> HIDE DEF Differ
    <3> QED BY <1>1, <1>2, <3>2
  <2>5. i \in 1..Len(g) => i \in 1..Len(h) /\ h[i] <= g[i]
    <3> SUFFICES ASSUME i \in 1..Len(g) PROVE i \in 1..Len(h) /\ h[i] <= g[i]
      OBVIOUS
    <3>1. \A k \in 1..(i - 1) : k \in 1..Len(g)
      BY <1>1
    <3>2. \A k \in 1..(i - 1) : k \in 1..Len(h) /\ g[k] = h[k]
      BY <2>3, <3>1
    <3> HIDE DEF Differ
    <3> QED BY <1>1, <1>2, <3>2
  <2>6. i \in 1..Len(h) => h[i] \in Int /\ (i \in 1..Len(g) => g[i] \in Int)
    BY DEF Lists
  <2>7. i \in 1..Len(h) => h[i] = g[i]
    <3> HIDE DEF Differ
    <3> QED BY <2>4, <2>5, <2>6
  <2> QED BY <2>1, <2>4, <2>5, <2>7
<1>4. \A i \in Nat : i >= 1 => (i \in 1..Len(h) <=> i \in 1..Len(g))
                               /\ (i \in 1..Len(h) => h[i] = g[i])
  BY <1>3
<1> HIDE DEF Differ
<1>5. Len(h) = Len(g)
  <2>1. \A n, m \in Nat : (\A i \in Nat : i >= 1 => (i \in 1..n <=> i \in 1..m)) => n <= m
    <3> TAKE n, m \in Nat
    <3> SUFFICES ASSUME \A i \in Nat : i >= 1 => (i \in 1..n <=> i \in 1..m), n > m PROVE FALSE
      OBVIOUS
    <3>1. n >= 1 /\ n \in 1..n /\ n \notin 1..m
      OBVIOUS
    <3> QED BY <3>1
  <2> DEFINE n == Len(h)
             m == Len(g)
  <2>2. n \in Nat /\ m \in Nat /\ \A i \in Nat : i >= 1 => (i \in 1..n <=> i \in 1..m)
    BY <1>1, <1>4
  <2> HIDE DEF n, m
  <2>3. n <= m /\ m <= n
    BY <2>1, <2>2
  <2>4. n = m
    BY <2>2, <2>3
  <2> QED BY <2>4 DEF n, m
<1>6. \A i \in 1..Len(h) : h[i] = g[i]
  BY <1>1, <1>4
<1> QED BY <1>1, <1>5, <1>6, SeqEqual

\* InOrder gives it.
LEMMA InOrderLists ==
  ASSUME NEW s, NEW n \in Nat, DOMAIN s = 1..n, NEW P
  PROVE  Lists(InOrder(s, P), {p \in 1..n : p \in P})
<1> DEFINE parts == [p \in 1..n |-> IF p \in P THEN <<p>> ELSE << >>]
           To(k) == {p \in 1..k : p \in P}
<1>1. InOrder(s, P) = FlattenSeq(parts)
  BY DEF InOrder
<1>2. Len(parts) = n
  <2>1. \A p \in 1..n : (IF p \in P THEN <<p>> ELSE << >>) \in Seq(Int)
    OBVIOUS
  <2>2. parts \in [1..n -> Seq(Int)]
    BY <2>1
  <2> HIDE DEF parts
  <2> QED BY <2>2
<1>3. CASE n = 0
  <2>1. parts = << >> /\ Len(parts) = 0
    BY <1>3
  <2>2. To(n) = {}
    BY <1>3
  <2> HIDE DEF parts, To
  <2>3. FlattenSeq(parts) = << >>
    BY <2>1, Zenon DEF FlattenSeq
  <2>4. Lists(InOrder(s, P), To(n))
    BY <1>1, <2>2, <2>3, ListsNone
  <2> QED BY <2>4 DEF To
<1>4. CASE n # 0
  <2>1. PICK c : Flattens(parts, n, c) /\ FlattenSeq(parts) = c[n]
    <3> HIDE DEF parts
    <3> QED BY <1>2, <1>4, FlattenSeqIs
  <2> DEFINE Failing == {k \in Nat : k \in 1..n /\ ~Lists(c[k], To(k))}
  <2>2. Failing = {}
    <3> SUFFICES ASSUME Failing # {} PROVE FALSE
      OBVIOUS
    <3>1. PICK k \in Failing : \A j \in Failing : k <= j
      <4>1. Failing \subseteq Nat
        OBVIOUS
      <4> HIDE DEF Failing
      <4> QED BY <4>1, LeastMember
    <3>2. k \in 1..n /\ ~Lists(c[k], To(k))
      BY <3>1
    <3>3. k # 1 => k - 1 \in 1..n /\ k - 1 \in Nat /\ ~(k <= k - 1)
      BY <3>2
    <3>4. k # 1 => Lists(c[k - 1], To(k - 1))
      BY <3>1, <3>3
    <3>5. c[k] = IF k = 1 THEN parts[k] ELSE c[k - 1] \o parts[k]
      <4> HIDE DEF parts
      <4> QED BY <2>1, <3>2, FlattensAt
    <3>6. parts[k] = IF k \in P THEN <<k>> ELSE << >>
      BY <3>2
    <3>7. PICK before : Lists(before, To(k - 1)) /\ c[k] = before \o parts[k]
      <4>1. CASE k = 1
        <5>1. To(k - 1) = {}
          BY <4>1
        <5>2. Lists(<< >>, To(k - 1))
          <6> HIDE DEF To
          <6> QED BY <5>1, ListsNone
        <5>3. parts[k] \in Seq(Int)
          <6> HIDE DEF parts
          <6> QED BY <3>2, <3>6
        <5>4. c[k] = << >> \o parts[k]
          <6> HIDE DEF parts
          <6> QED BY <3>5, <4>1, <5>3, ConcatEmptySeq
        <5> HIDE DEF To, parts
        <5> QED BY <5>2, <5>4
      <4>2. CASE k # 1
        <5> HIDE DEF To, parts
        <5> QED BY <3>4, <3>5, <4>2
      <4> QED BY <4>1, <4>2
    <3>8. before \in Seq(Int)
      BY <3>7 DEF Lists
    <3> HIDE DEF parts
    <3>9. CASE k \in P
      <4>1. To(k) = To(k - 1) \cup {k} /\ k \in Int /\ \A p \in To(k - 1) : p < k
        BY <3>2, <3>9
      <4>2. c[k] = Append(before, k)
        BY <3>6, <3>7, <3>8, <3>9, <4>1, AppendIsConcat
      <4> HIDE DEF To
      <4> QED BY <3>2, <3>7, <4>1, <4>2, ListsNext
    <3>10. CASE k \notin P
      <4>1. To(k) = To(k - 1)
        BY <3>2, <3>10
      <4>2. c[k] = before
        BY <3>6, <3>7, <3>8, <3>10, ConcatEmptySeq
      <4> HIDE DEF To
      <4> QED BY <3>2, <3>7, <4>1, <4>2
    <3> QED BY <3>9, <3>10
  <2>3. Lists(c[n], To(n))
    BY <1>4, <2>2
  <2> QED BY <1>1, <2>1, <2>3
<1> QED BY <1>3, <1>4

-----------------------------------------------------------------------------
(* The lines of a text *)

CfgNames  == {"net"} \cup {l.name : l \in {c \in CfgLines : c.kind = "header"}}
CfgKeys   == {l.key : l \in {c \in CfgLines : c.kind = "option"}}
CfgValues == {l.value : l \in {c \in CfgLines : c.kind = "option"}}

Headings == {Header(a, closed) : a \in CfgNames, closed \in BOOLEAN}
CfgText  == {Comment} \cup Headings \cup {Option(key, v) : key \in CfgKeys, v \in CfgValues}

\* The options read_sections keeps, and its sections.
KeptOption == [key : CfgKeys, value : CfgValues \ {Nothing}]
Section    == [header : Headings, options : Seq(KeptOption)]

IsGiven(l) == l.kind = "option" /\ l.value # Nothing

LEMMA HeaderFields ==
  ASSUME NEW a, NEW closed
  PROVE  /\ Header(a, closed).kind = "header" /\ Header(a, closed).name = a
         /\ Header(a, closed).closed = closed
BY DEF Header

LEMMA OptionFields ==
  ASSUME NEW key, NEW v
  PROVE  /\ Option(key, v).kind = "option" /\ Option(key, v).key = key
         /\ Option(key, v).value = v
BY DEF Option

LEMMA CommentIs == Comment.kind = "comment"
BY DEF Comment

LEMMA HeadingIs ==
  ASSUME NEW l \in CfgText, l.kind = "header"
  PROVE  l \in Headings /\ l = Header(l.name, l.closed) /\ l.closed \in BOOLEAN /\ l.name \in CfgNames
<1>1. l # Comment
  BY CommentIs
<1>2. ASSUME NEW key, NEW v PROVE l # Option(key, v)
  BY OptionFields
<1>3. l \in Headings
  BY <1>1, <1>2 DEF CfgText
<1>4. PICK a \in CfgNames, closed \in BOOLEAN : l = Header(a, closed)
  BY <1>3 DEF Headings
<1>5. l.name = a /\ l.closed = closed
  BY <1>4, HeaderFields
<1> QED BY <1>3, <1>4, <1>5

LEMMA OptionIs ==
  ASSUME NEW l \in CfgText, l.kind = "option"
  PROVE  l = Option(l.key, l.value) /\ l.key \in CfgKeys /\ l.value \in CfgValues
<1>1. l # Comment
  BY CommentIs
<1>2. ASSUME NEW a, NEW closed PROVE l # Header(a, closed)
  BY HeaderFields
<1>3. PICK key \in CfgKeys, v \in CfgValues : l = Option(key, v)
  BY <1>1, <1>2 DEF CfgText, Headings
<1>4. l.key = key /\ l.value = v
  BY <1>3, OptionFields
<1> QED BY <1>3, <1>4

LEMMA HeadingType ==
  ASSUME NEW l \in Headings
  PROVE  l \in CfgText /\ l.kind = "header"
<1>1. PICK a \in CfgNames, closed \in BOOLEAN : l = Header(a, closed)
  BY DEF Headings
<1> QED BY <1>1, HeaderFields DEF CfgText

LEMMA OptionType ==
  ASSUME NEW o \in KeptOption
  PROVE  /\ Option(o.key, o.value) \in CfgText /\ IsGiven(Option(o.key, o.value))
         /\ Option(o.key, o.value).kind = "option"
<1>1. o.key \in CfgKeys /\ o.value \in CfgValues /\ o.value # Nothing
  BY DEF KeptOption
<1> QED BY <1>1, OptionFields DEF CfgText, IsGiven

LEMMA LinesAreText == CfgLines \subseteq CfgText
<1> SUFFICES ASSUME NEW l \in CfgLines PROVE l \in CfgText
  OBVIOUS
<1>1. CASE l.kind = "header"
  <2>1. l = Header(l.name, l.closed) /\ l.closed \in BOOLEAN
    BY <1>1, LinesAssumption
  <2>2. l.name \in CfgNames
    BY <1>1 DEF CfgNames
  <2> QED BY <2>1, <2>2 DEF CfgText, Headings
<1>2. CASE l.kind = "option"
  <2>1. l = Option(l.key, l.value)
    BY <1>2, LinesAssumption
  <2>2. l.key \in CfgKeys /\ l.value \in CfgValues
    BY <1>2 DEF CfgKeys, CfgValues
  <2> QED BY <2>1, <2>2 DEF CfgText
<1>3. CASE l.kind # "header" /\ l.kind # "option"
  <2>1. l = Comment
    BY <1>3, LinesAssumption
  <2> QED BY <2>1 DEF CfgText
<1> QED BY <1>1, <1>2, <1>3

-----------------------------------------------------------------------------
(* The sections of a text, and what read_sections makes of its lines *)

HeadersTo(t, n) == {p \in 1..n : t[p].kind = "header"}

\* The options with a value in the section of the header p, up to the line n.
GivenTo(t, n, p) ==
  {q \in 1..n : q > p /\ IsGiven(t[q]) /\ \A a \in HeadersTo(t, n) : a <= p \/ a > q}

OptionsAt(t, g, options) ==
  /\ Len(g) = Len(options)
  /\ \A i \in 1..Len(options) : t[g[i]] = Option(options[i].key, options[i].value)

IsSection(t, n, p, section1) ==
  /\ t[p] = section1.header
  /\ \E g : Lists(g, GivenTo(t, n, p)) /\ OptionsAt(t, g, section1.options)

\* The first n lines of t are those of the sections S.
SectionsTo(t, n, S) ==
  \E h : /\ Lists(h, HeadersTo(t, n)) /\ Len(h) = Len(S)
         /\ \A k \in 1..Len(S) : IsSection(t, n, h[k], S[k])

LEMMA NoSections ==
  ASSUME NEW t
  PROVE  SectionsTo(t, 0, << >>)
<1>1. HeadersTo(t, 0) = {}
  BY DEF HeadersTo
<1>2. Len(<< >>) = 0 /\ 1..0 = {}
  OBVIOUS
<1> QED BY <1>1, <1>2, ListsNone DEF SectionsTo

\* A line that opens a section.
LEMMA HeaderOpens ==
  ASSUME NEW t, NEW n \in Nat, NEW S \in Seq(Section), SectionsTo(t, n, S),
         t[n + 1] \in Headings
  PROVE  LET T == Append(S, [header |-> t[n + 1], options |-> << >>])
         IN  T \in Seq(Section) /\ SectionsTo(t, n + 1, T)
<1> DEFINE new == [header |-> t[n + 1], options |-> << >>]
           T == Append(S, new)
           m == Len(S)
<1>1. new \in Section /\ new.header = t[n + 1] /\ new.options = << >>
  BY EmptySeq DEF Section
<1> HIDE DEF new
<1>2. /\ m \in Nat /\ T \in Seq(Section) /\ Len(T) = m + 1 /\ T[m + 1] = new
      /\ \A k \in 1..m : T[k] = S[k]
  BY <1>1, AppendProperties
<1> HIDE DEF T
<1>3. PICK h : /\ Lists(h, HeadersTo(t, n)) /\ Len(h) = m
               /\ \A k \in 1..m : IsSection(t, n, h[k], S[k])
  BY DEF SectionsTo
<1> HIDE DEF m
<1> DEFINE g == Append(h, n + 1)
<1>4. h \in Seq(Int) /\ \A k \in 1..m : h[k] \in HeadersTo(t, n)
  BY <1>3 DEF Lists
<1>5. /\ Len(g) = m + 1 /\ g[m + 1] = n + 1 /\ \A k \in 1..m : g[k] = h[k]
  BY <1>3, <1>4, AppendProperties
<1>6. t[n + 1].kind = "header"
  BY HeadingType
<1>7. HeadersTo(t, n + 1) = HeadersTo(t, n) \cup {n + 1} /\ \A p \in HeadersTo(t, n) : p < n + 1
  BY <1>6 DEF HeadersTo
<1>8. Lists(g, HeadersTo(t, n + 1))
  BY <1>3, <1>7, ListsNext
<1> HIDE DEF g
<1>9. ASSUME NEW k \in 1..m PROVE IsSection(t, n + 1, g[k], T[k])
  <2>1. h[k] \in 1..n
    BY <1>4 DEF HeadersTo
  <2>2. GivenTo(t, n + 1, h[k]) = GivenTo(t, n, h[k])
    <3>1. ~IsGiven(t[n + 1])
      BY <1>6 DEF IsGiven
    <3>2. \A q \in 1..(n + 1) : q \in 1..n \/ q = n + 1
      OBVIOUS
    <3>3. \A q \in 1..n : q \in 1..(n + 1) /\ n + 1 > q
      OBVIOUS
    <3> QED BY <1>7, <3>1, <3>2, <3>3 DEF GivenTo
  <2> QED BY <1>2, <1>3, <1>5, <2>2 DEF IsSection
<1>10. IsSection(t, n + 1, g[m + 1], T[m + 1])
  <2>1. GivenTo(t, n + 1, n + 1) = {}
    BY DEF GivenTo
  <2>2. OptionsAt(t, << >>, << >>)
    BY DEF OptionsAt
  <2> QED BY <1>1, <1>2, <1>5, <2>1, <2>2, ListsNone DEF IsSection
<1>11. \A k \in 1..(m + 1) : k \in 1..m \/ k = m + 1
  BY <1>2
<1>12. \A k \in 1..Len(T) : IsSection(t, n + 1, g[k], T[k])
  BY <1>2, <1>9, <1>10, <1>11
<1>13. SectionsTo(t, n + 1, T)
  BY <1>2, <1>5, <1>8, <1>12 DEF SectionsTo
<1> QED BY <1>2, <1>13 DEF T, new

\* A line that gives the last section an option.
LEMMA OptionContinues ==
  ASSUME NEW t, NEW n \in Nat, NEW S \in Seq(Section), SectionsTo(t, n, S), S # << >>,
         t[n + 1] \in CfgText, IsGiven(t[n + 1])
  PROVE  LET option == [key |-> t[n + 1].key, value |-> t[n + 1].value]
             T == [S EXCEPT ![Len(S)].options = Append(@, option)]
         IN  T \in Seq(Section) /\ SectionsTo(t, n + 1, T)
<1> DEFINE option == [key |-> t[n + 1].key, value |-> t[n + 1].value]
           m == Len(S)
           T == [S EXCEPT ![m].options = Append(@, option)]
           o == S[m].options
           o1 == Append(o, option)
           last == [header |-> S[m].header, options |-> o1]
<1>1. m \in Nat /\ m >= 1 /\ m \in 1..m /\ DOMAIN S = 1..m
  <2>1. m \in Nat /\ m # 0 /\ DOMAIN S = 1..m
    BY EmptySeq
  <2> HIDE DEF m
  <2> QED BY <2>1
<1>2. /\ t[n + 1] = Option(option.key, option.value) /\ option \in KeptOption
      /\ t[n + 1].kind = "option"
  <2>1. t[n + 1].kind = "option" /\ t[n + 1].value # Nothing
    BY DEF IsGiven
  <2> QED BY <2>1, OptionIs DEF KeptOption
<1>3. S[m] \in Section
  BY <1>1
<1>4. S[m].header \in Headings /\ o \in Seq(KeptOption)
  BY <1>3 DEF Section
<1>5. S[m] = [header |-> S[m].header, options |-> o]
  BY <1>3 DEF Section
<1> HIDE DEF option, o
<1>6. /\ o1 \in Seq(KeptOption) /\ Len(o) \in Nat /\ Len(o1) = Len(o) + 1
      /\ o1[Len(o) + 1] = option /\ \A i \in 1..Len(o) : o1[i] = o[i]
  BY <1>2, <1>4, AppendProperties
<1>7. last \in Section /\ last.header = S[m].header /\ last.options = o1
  BY <1>4, <1>6 DEF Section
<1>8. T = [S EXCEPT ![m] = last]
  <2> DEFINE rec == S[m]
  <2>1. rec = [header |-> rec.header, options |-> rec.options]
    BY <1>3 DEF Section
  <2>2. [rec EXCEPT !.options = o1] = [header |-> rec.header, options |-> o1]
    <3> HIDE DEF rec, o1
    <3> QED BY <2>1
  <2>3. T = [S EXCEPT ![m] = [rec EXCEPT !.options = o1]]
    BY Zenon DEF o
  <2> QED BY <2>2, <2>3
<1> HIDE DEF T, last, o1
<1>9. /\ T \in Seq(Section) /\ Len(T) = m /\ T[m] = last
      /\ \A k \in 1..m : k # m => T[k] = S[k]
  <2> HIDE DEF m
  <2>1. T = [k \in 1..m |-> IF k = m THEN last ELSE S[k]]
    BY <1>1, <1>8
  <2>2. \A k \in 1..m : S[k] \in Section
    BY <1>1
  <2>3. T \in [1..m -> Section]
    BY <1>7, <2>1, <2>2
  <2>4. T \in Seq(Section) /\ Len(T) = m
    BY <1>1, <2>3
  <2> QED BY <1>1, <2>1, <2>4
<1>10. PICK h : /\ Lists(h, HeadersTo(t, n)) /\ Len(h) = m
                /\ \A k \in 1..m : IsSection(t, n, h[k], S[k])
  BY DEF SectionsTo
<1> HIDE DEF m
<1>11. HeadersTo(t, n + 1) = HeadersTo(t, n)
  <2>1. t[n + 1].kind # "header"
    BY <1>2
  <2>2. \A q \in 1..(n + 1) : q \in 1..n \/ q = n + 1
    OBVIOUS
  <2>3. \A q \in 1..n : q \in 1..(n + 1)
    OBVIOUS
  <2> QED BY <2>1, <2>2, <2>3 DEF HeadersTo
<1>12. \A k \in 1..m : h[k] \in HeadersTo(t, n) /\ h[k] \in 1..n
  BY <1>10 DEF Lists, HeadersTo
<1>13. h[m] \in HeadersTo(t, n) /\ \A p \in HeadersTo(t, n) : p <= h[m]
  <2>1. ASSUME NEW p \in HeadersTo(t, n) PROVE p <= h[m]
    <3>1. PICK i \in 1..m : h[i] = p
      BY <1>10 DEF Lists
    <3>2. i = m \/ i < m
      BY <1>1
    <3>3. h[i] \in Int /\ h[m] \in Int
      BY <1>1, <1>12
    <3>4. i < m => h[i] < h[m]
      BY <1>1, <1>10 DEF Lists
    <3> QED BY <3>1, <3>2, <3>3, <3>4
  <2> QED BY <1>1, <1>12, <2>1
<1>14. ASSUME NEW k \in 1..m, k # m PROVE IsSection(t, n + 1, h[k], T[k])
  <2>1. k < m
    BY <1>1, <1>14
  <2>2. h[k] < h[m] /\ h[k] \in 1..n /\ h[m] \in 1..n
    BY <1>1, <1>10, <1>12, <2>1 DEF Lists
  <2>3. GivenTo(t, n + 1, h[k]) = GivenTo(t, n, h[k])
    <3>1. n + 1 \notin GivenTo(t, n + 1, h[k])
      BY <1>11, <1>13, <2>2 DEF GivenTo
    <3>2. \A q \in 1..(n + 1) : q \in 1..n \/ q = n + 1
      OBVIOUS
    <3>3. \A q \in 1..n : q \in 1..(n + 1)
      OBVIOUS
    <3> QED BY <1>11, <3>1, <3>2, <3>3 DEF GivenTo
  <2> QED BY <1>9, <1>10, <1>14, <2>3 DEF IsSection
<1>15. IsSection(t, n + 1, h[m], T[m])
  <2>1. PICK g : Lists(g, GivenTo(t, n, h[m])) /\ OptionsAt(t, g, o)
    BY <1>1, <1>10 DEF IsSection, o
  <2> DEFINE g1 == Append(g, n + 1)
  <2>2. g \in Seq(Int) /\ Len(g) = Len(o)
    BY <2>1 DEF Lists, OptionsAt
  <2>3. /\ Len(g1) = Len(o) + 1 /\ g1[Len(o) + 1] = n + 1
        /\ \A i \in 1..Len(o) : g1[i] = g[i]
    BY <2>2, AppendProperties
  <2>4. GivenTo(t, n + 1, h[m]) = GivenTo(t, n, h[m]) \cup {n + 1}
    <3>1. n + 1 \in GivenTo(t, n + 1, h[m])
      <4>1. n + 1 \in 1..(n + 1) /\ n + 1 > h[m]
        BY <1>1, <1>12
      <4> QED BY <1>11, <1>13, <4>1 DEF GivenTo
    <3>2. \A q \in 1..(n + 1) : q \in 1..n \/ q = n + 1
      OBVIOUS
    <3>3. \A q \in 1..n : q \in 1..(n + 1)
      OBVIOUS
    <3> QED BY <1>11, <3>1, <3>2, <3>3 DEF GivenTo
  <2>5. \A q \in GivenTo(t, n, h[m]) : q < n + 1
    BY DEF GivenTo
  <2>6. Lists(g1, GivenTo(t, n + 1, h[m]))
    BY <2>1, <2>4, <2>5, ListsNext
  <2> HIDE DEF g1
  <2>7. OptionsAt(t, g1, o1)
    <3>1. \A i \in 1..(Len(o) + 1) : i \in 1..Len(o) \/ i = Len(o) + 1
      BY <1>6
    <3>2. \A i \in 1..Len(o) : t[g1[i]] = Option(o1[i].key, o1[i].value)
      BY <1>6, <2>1, <2>3 DEF OptionsAt
    <3>3. t[g1[Len(o) + 1]] = Option(o1[Len(o) + 1].key, o1[Len(o) + 1].value)
      BY <1>2, <1>6, <2>3
    <3>4. \A i \in 1..Len(o1) : t[g1[i]] = Option(o1[i].key, o1[i].value)
      BY <1>6, <3>1, <3>2, <3>3
    <3> QED BY <1>6, <2>3, <3>4 DEF OptionsAt
  <2>8. t[h[m]] = last.header
    BY <1>1, <1>7, <1>10 DEF IsSection
  <2> QED BY <1>7, <1>9, <2>6, <2>7, <2>8 DEF IsSection
<1>16. \A k \in 1..m : IsSection(t, n + 1, h[k], T[k])
  BY <1>14, <1>15
<1>17. SectionsTo(t, n + 1, T)
  BY <1>9, <1>10, <1>11, <1>16 DEF SectionsTo
<1> QED BY <1>9, <1>17 DEF T, option, m

\* Any other line.
LEMMA LineIsDropped ==
  ASSUME NEW t, NEW n \in Nat, NEW S, SectionsTo(t, n, S),
         t[n + 1].kind # "header", ~IsGiven(t[n + 1])
  PROVE  SectionsTo(t, n + 1, S)
<1>1. \A q \in 1..(n + 1) : q \in 1..n \/ q = n + 1
  OBVIOUS
<1>2. \A q \in 1..n : q \in 1..(n + 1)
  OBVIOUS
<1>3. HeadersTo(t, n + 1) = HeadersTo(t, n)
  BY <1>1, <1>2 DEF HeadersTo
<1>4. \A p : GivenTo(t, n + 1, p) = GivenTo(t, n, p)
  <2> TAKE p
  <2> QED BY <1>1, <1>2, <1>3 DEF GivenTo
<1>5. PICK h : /\ Lists(h, HeadersTo(t, n)) /\ Len(h) = Len(S)
               /\ \A k \in 1..Len(S) : IsSection(t, n, h[k], S[k])
  BY DEF SectionsTo
<1>6. \A k \in 1..Len(S) : IsSection(t, n + 1, h[k], S[k])
  BY <1>4, <1>5 DEF IsSection
<1> QED BY <1>3, <1>5, <1>6 DEF SectionsTo

\* The step of read_sections.
LEMMA LineIsRead ==
  ASSUME NEW t \in Seq(CfgText), NEW n \in Nat, n + 1 \in 1..Len(t),
         NEW S \in Seq(Section), SectionsTo(t, n, S), ~Misplaced(t)
  PROVE  read_line(S, t[n + 1]) \in Seq(Section) /\ SectionsTo(t, n + 1, read_line(S, t[n + 1]))
<1> DEFINE l == t[n + 1]
           option == [key |-> t[n + 1].key, value |-> t[n + 1].value]
<1>1. l \in CfgText /\ Len(t) \in Nat /\ DOMAIN t = 1..Len(t)
  OBVIOUS
<1>2. CASE l.kind = "header"
  <2>1. l \in Headings
    BY <1>1, <1>2, HeadingIs
  <2>2. read_line(S, l) = Append(S, [header |-> l, options |-> << >>])
    BY <1>2 DEF read_line
  <2> QED BY <2>1, <2>2, HeaderOpens
<1>3. CASE IsGiven(l)
  <2>1. l.kind = "option" /\ l.value # Nothing /\ l.kind # "header"
    BY <1>3 DEF IsGiven
  <2>2. read_line(S, l) = [S EXCEPT ![Len(S)].options = Append(@, option)]
    BY <2>1, Zenon DEF read_line
  <2>3. S # << >>
    <3>1. PICK q \in 1..(n + 1) : t[q].kind = "header"
      BY <1>1, <2>1 DEF Misplaced
    <3>2. q \in 1..n
      BY <2>1, <3>1
    <3>3. q \in HeadersTo(t, n)
      BY <3>1, <3>2 DEF HeadersTo
    <3>4. PICK h : Lists(h, HeadersTo(t, n)) /\ Len(h) = Len(S)
      BY DEF SectionsTo
    <3>5. \E i \in 1..Len(S) : h[i] = q
      BY <3>3, <3>4 DEF Lists
    <3>6. Len(<< >>) = 0 /\ 1..0 = {}
      OBVIOUS
    <3> QED BY <3>5, <3>6
  <2> DEFINE T == [S EXCEPT ![Len(S)].options = Append(@, option)]
  <2>4. T \in Seq(Section) /\ SectionsTo(t, n + 1, T)
    <3>1. t[n + 1] \in CfgText /\ IsGiven(t[n + 1])
      BY <1>1, <1>3
    <3> QED BY <2>3, <3>1, OptionContinues, Zenon
  <2> HIDE DEF T
  <2> QED BY <2>2, <2>4 DEF T
<1>4. CASE l.kind # "header" /\ ~IsGiven(l)
  <2>1. read_line(S, l) = S
    BY <1>4 DEF read_line, IsGiven
  <2> QED BY <1>4, <2>1, LineIsDropped
<1> QED BY <1>2, <1>3, <1>4

\* The sections that the recursion of read_sections makes of the first n lines.
ReadTo(t, n, f) ==
  f = [p \in 0..n |-> IF p = 0 THEN << >> ELSE read_line(f[p - 1], t[p])]

LEMMA ReadExists ==
  ASSUME NEW t, NEW n \in Nat
  PROVE  \E f : ReadTo(t, n, f)
<1> DEFINE Missing == {m \in Nat : ~ \E f : ReadTo(t, m, f)}
<1> SUFFICES ASSUME Missing # {} PROVE FALSE
  OBVIOUS
<1>1. PICK m \in Missing : \A k \in Missing : m <= k
  BY LeastMember
<1>2. m \in Nat /\ ~ \E f : ReadTo(t, m, f)
  BY <1>1
<1>3. m # 0
  <2> DEFINE f == [p \in 0..0 |-> << >>]
  <2>1. f = [p \in 0..0 |-> IF p = 0 THEN << >> ELSE read_line(f[p - 1], t[p])]
    OBVIOUS
  <2> HIDE DEF f
  <2> QED BY <1>2, <2>1 DEF ReadTo
<1>4. m - 1 \in Nat \ Missing
  BY <1>1, <1>2, <1>3
<1>5. PICK f : ReadTo(t, m - 1, f)
  BY <1>4
<1> DEFINE d == [p \in 0..m |-> IF p = m THEN read_line(f[p - 1], t[p]) ELSE f[p]]
<1>6. ASSUME NEW p \in 0..m PROVE d[p] = IF p = 0 THEN << >> ELSE read_line(d[p - 1], t[p])
  <2>1. p # m => p \in 0..(m - 1)
    BY <1>2
  <2>2. p # m => f[p] = IF p = 0 THEN << >> ELSE read_line(f[p - 1], t[p])
    BY <1>5, <2>1 DEF ReadTo
  <2>3. p # 0 => p - 1 \in 0..m /\ p - 1 # m
    BY <1>2
  <2>4. p # 0 => d[p - 1] = f[p - 1]
    BY <2>3
  <2>5. d[p] = IF p = m THEN read_line(f[p - 1], t[p]) ELSE f[p]
    OBVIOUS
  <2> HIDE DEF d
  <2> QED BY <1>3, <2>2, <2>4, <2>5
<1>7. d = [p \in 0..m |-> d[p]]
  OBVIOUS
<1> HIDE DEF d
<1>8. ReadTo(t, m, d)
  BY <1>6, <1>7, Zenon DEF ReadTo
<1> QED BY <1>2, <1>8

LEMMA ReadSections ==
  ASSUME NEW t \in Seq(CfgText), ~Misplaced(t)
  PROVE  read_sections(t) \in Seq(Section) /\ SectionsTo(t, Len(t), read_sections(t))
<1> DEFINE n == Len(t)
<1>1. n \in Nat
  OBVIOUS
<1>2. PICK f : ReadTo(t, n, f) /\ read_sections(t) = f[n]
  <2>1. \E f : ReadTo(t, n, f)
    BY <1>1, ReadExists
  <2> QED BY <2>1, Zenon DEF read_sections, ReadTo
<1> HIDE DEF n
<1> DEFINE Right(k) == f[k] \in Seq(Section) /\ SectionsTo(t, k, f[k])
           Failing == {k \in Nat : k \in 0..n /\ ~Right(k)}
<1>3. Failing = {}
  <2> SUFFICES ASSUME Failing # {} PROVE FALSE
    OBVIOUS
  <2>1. PICK k \in Failing : \A j \in Failing : k <= j
    <3>1. Failing \subseteq Nat
      OBVIOUS
    <3> HIDE DEF Failing
    <3> QED BY <3>1, LeastMember
  <2>2. k \in Nat /\ k \in 0..n /\ ~Right(k)
    BY <2>1
  <2>3. f[k] = IF k = 0 THEN << >> ELSE read_line(f[k - 1], t[k])
    BY <1>2, <2>2 DEF ReadTo
  <2>4. k # 0
    <3> SUFFICES ASSUME k = 0 PROVE FALSE
      OBVIOUS
    <3>1. f[k] = << >> /\ << >> \in Seq(Section)
      BY <2>3, EmptySeq
    <3> QED BY <2>2, <3>1, NoSections
  <2>5. k - 1 \in Nat /\ k - 1 \in 0..n /\ ~(k <= k - 1) /\ (k - 1) + 1 = k /\ k \in 1..n
    BY <1>1, <2>2, <2>4
  <2>6. Right(k - 1)
    BY <2>1, <2>5
  <2> HIDE DEF Failing
  <2>7. read_line(f[k - 1], t[k]) \in Seq(Section) /\ SectionsTo(t, k, read_line(f[k - 1], t[k]))
    <3> DEFINE j == k - 1
    <3>1. j \in Nat /\ j + 1 = k /\ j + 1 \in 1..n /\ f[j] \in Seq(Section)
          /\ SectionsTo(t, j, f[j])
      BY <2>5, <2>6
    <3> HIDE DEF j
    <3>2. read_line(f[j], t[j + 1]) \in Seq(Section) /\ SectionsTo(t, j + 1, read_line(f[j], t[j + 1]))
      BY <3>1, LineIsRead DEF n
    <3> QED BY <3>1, <3>2 DEF j
  <2> QED BY <2>2, <2>3, <2>4, <2>7
<1>4. Right(n)
  BY <1>1, <1>3
<1> QED BY <1>2, <1>4 DEF n

-----------------------------------------------------------------------------
(* What darknet makes of a text of given sections *)

\* The places of the first option of every key, and what they give.
FirstAt(options) ==
  {i \in 1..Len(options) : \A j \in 1..(i - 1) : options[j].key # options[i].key}
FirstsOf(options) == {<<options[i].key, options[i].value>> : i \in FirstAt(options)}

NetworkOf(S) ==
  [k \in 1..Len(S) |-> [type |-> IF k = 1 THEN "net" ELSE S[k].header.name,
                        options |-> FirstsOf(S[k].options)]]

LEMMA FoundIs ==
  ASSUME NEW t, NEW n \in Nat, DOMAIN t = 1..n, NEW p, NEW s \in Section, IsSection(t, n, p, s)
  PROVE  Found(t, p) = FirstsOf(s.options)
<1> DEFINE given == {q \in Body(t, p) : t[q].kind = "option" /\ t[q].value # Nothing}
           first == {q \in given : \A o \in given : o < q => t[o].key # t[q].key}
           options == s.options
<1>1. PICK g : Lists(g, GivenTo(t, n, p)) /\ OptionsAt(t, g, options)
  BY DEF IsSection
<1>2. given = GivenTo(t, n, p)
  <2>1. Headers(t) = HeadersTo(t, n)
    BY DEF Headers, HeadersTo
  <2>2. Body(t, p) = {q \in 1..n : q > p /\ \A h \in HeadersTo(t, n) : h <= p \/ h > q}
    BY <2>1 DEF Body
  <2> HIDE DEF given
  <2> QED BY <2>2 DEF given, GivenTo, IsGiven
<1>3. Found(t, p) = {<<t[q].key, t[q].value>> : q \in first}
  BY DEF Found
<1> HIDE DEF given
<1>4. options \in Seq(KeptOption)
  BY DEF Section
<1> HIDE DEF options
<1> DEFINE m == Len(options)
<1>5. /\ Len(g) = m /\ m \in Nat
      /\ \A i \in 1..m : /\ g[i] \in given /\ g[i] \in Int
                         /\ t[g[i]].key = options[i].key /\ t[g[i]].value = options[i].value
      /\ \A q \in given : \E i \in 1..m : g[i] = q
      /\ \A i, j \in 1..m : i < j => g[i] < g[j]
  BY <1>1, <1>2, <1>4, OptionFields DEF Lists, OptionsAt
<1> HIDE DEF m
<1>6. \A i, j \in 1..m : g[j] < g[i] <=> j < i
  <2> TAKE i, j \in 1..m
  <2>1. i = j \/ i < j \/ j < i
    BY <1>5
  <2> QED BY <1>5, <2>1
<1>7. \A i \in 1..m : g[i] \in first <=> i \in FirstAt(options)
  <2> TAKE i \in 1..m
  <2>1. g[i] \in first <=> \A o \in given : o < g[i] => t[o].key # t[g[i]].key
    BY <1>5
  <2>2. (\A o \in given : o < g[i] => t[o].key # t[g[i]].key)
          <=> \A j \in 1..m : g[j] < g[i] => t[g[j]].key # t[g[i]].key
    BY <1>5
  <2>3. (\A j \in 1..m : g[j] < g[i] => t[g[j]].key # t[g[i]].key)
          <=> \A j \in 1..m : j < i => options[j].key # options[i].key
    BY <1>5, <1>6
  <2>4. \A j : j \in 1..(i - 1) <=> j \in 1..m /\ j < i
    BY <1>5
  <2>5. i \in FirstAt(options) <=> \A j \in 1..(i - 1) : options[j].key # options[i].key
    BY DEF FirstAt, m
  <2> HIDE DEF first
  <2> QED BY <2>1, <2>2, <2>3, <2>4, <2>5
<1>8. \A q \in first : \E i \in 1..m : g[i] = q
  BY <1>5
<1>9. \A i \in FirstAt(options) : i \in 1..m
  BY DEF FirstAt, m
<1> HIDE DEF first
<1>10. {<<t[q].key, t[q].value>> : q \in first} = FirstsOf(options)
  <2>1. ASSUME NEW q \in first PROVE <<t[q].key, t[q].value>> \in FirstsOf(options)
    <3>1. PICK i \in 1..m : g[i] = q
      BY <1>8
    <3>2. i \in FirstAt(options) /\ t[q].key = options[i].key /\ t[q].value = options[i].value
      BY <1>5, <1>7, <3>1
    <3> QED BY <3>2 DEF FirstsOf
  <2>2. ASSUME NEW i \in FirstAt(options)
        PROVE  <<options[i].key, options[i].value>> \in {<<t[q].key, t[q].value>> : q \in first}
    <3>1. g[i] \in first /\ t[g[i]].key = options[i].key /\ t[g[i]].value = options[i].value
      BY <1>5, <1>7, <1>9
    <3> QED BY <3>1
  <2> QED BY <2>1, <2>2 DEF FirstsOf
<1> QED BY <1>3, <1>10 DEF options

LEMMA NetworkReadIs ==
  ASSUME NEW t, NEW n \in Nat, DOMAIN t = 1..n, NEW S \in Seq(Section), SectionsTo(t, n, S)
  PROVE  NetworkRead(t) = NetworkOf(S)
<1> DEFINE order == InOrder(t, Headers(t))
<1>1. PICK h : /\ Lists(h, HeadersTo(t, n)) /\ Len(h) = Len(S)
               /\ \A k \in 1..Len(S) : IsSection(t, n, h[k], S[k])
  BY DEF SectionsTo
<1>2. order = h
  <2>1. Lists(order, {p \in 1..n : p \in Headers(t)})
    BY InOrderLists
  <2>2. {p \in 1..n : p \in Headers(t)} = HeadersTo(t, n)
    BY DEF Headers, HeadersTo
  <2> HIDE DEF order
  <2> QED BY <1>1, <2>1, <2>2, ListsOnce
<1>3. DOMAIN h = 1..Len(S)
  <2>1. h \in Seq(Int)
    BY <1>1 DEF Lists
  <2> QED BY <1>1, <2>1
<1>4. NetworkRead(t) = [k \in DOMAIN order |->
         [type |-> IF k = 1 THEN "net" ELSE t[order[k]].name, options |-> Found(t, order[k])]]
  BY Zenon DEF NetworkRead
<1> HIDE DEF order
<1>5. ASSUME NEW k \in 1..Len(S)
      PROVE  t[h[k]] = S[k].header /\ Found(t, h[k]) = FirstsOf(S[k].options)
  <2>1. S[k] \in Section /\ IsSection(t, n, h[k], S[k])
    BY <1>1
  <2>2. t[h[k]] = S[k].header
    BY <2>1 DEF IsSection
  <2> QED BY <2>1, <2>2, FoundIs
<1> QED BY <1>2, <1>3, <1>4, <1>5, Zenon DEF NetworkOf

\* The members of an object are the options darknet finds.
LEMMA MembersKeep ==
  ASSUME NEW options \in Seq(KeptOption)
  PROVE  members(options) \in Seq(KeptOption) /\ FirstsOf(members(options)) = FirstsOf(options)
<1> DEFINE n == Len(options)
           first == {p \in DOMAIN options : \A q \in 1..(p - 1) : options[q].key # options[p].key}
           taken == InOrder(options, first)
           kept == [i \in DOMAIN taken |-> options[taken[i]]]
<1>1. n \in Nat /\ DOMAIN options = 1..n /\ \A p \in 1..n : options[p] \in KeptOption
  OBVIOUS
<1>2. members(options) = kept
  BY DEF members
<1> HIDE DEF n
<1>3. first = FirstAt(options) /\ first \subseteq 1..n
  BY <1>1 DEF FirstAt, n
<1>4. Lists(taken, FirstAt(options))
  <2>1. Lists(taken, {p \in 1..n : p \in first})
    <3> HIDE DEF first
    <3> QED BY <1>1, InOrderLists
  <2>2. {p \in 1..n : p \in first} = FirstAt(options)
    <3> HIDE DEF first
    <3> QED BY <1>3
  <2> HIDE DEF taken
  <2> QED BY <2>1, <2>2
<1>5. FirstAt(options) \subseteq 1..n
  BY <1>3
<1> HIDE DEF first, taken
<1> DEFINE m == Len(taken)
<1>6. /\ m \in Nat /\ DOMAIN taken = 1..m
      /\ \A i \in 1..m : taken[i] \in FirstAt(options) /\ taken[i] \in 1..n
      /\ \A p \in FirstAt(options) : \E i \in 1..m : taken[i] = p
      /\ \A i, j \in 1..m : i < j => taken[i] < taken[j]
  BY <1>4, <1>5 DEF Lists
<1> HIDE DEF m
<1>7. kept = [i \in 1..m |-> options[taken[i]]]
  BY <1>6
<1> HIDE DEF kept
<1>8. kept \in [1..m -> KeptOption]
  BY <1>1, <1>6, <1>7
<1>9. kept \in Seq(KeptOption) /\ Len(kept) = m /\ \A i \in 1..m : kept[i] = options[taken[i]]
  BY <1>6, <1>7, <1>8
<1>10. ASSUME NEW i \in 1..m, NEW j \in 1..m, j < i PROVE kept[j].key # kept[i].key
  <2> DEFINE p == taken[i]
             q == taken[j]
  <2>1. p \in FirstAt(options) /\ q \in 1..n /\ p \in 1..n /\ q < p
    BY <1>6, <1>10
  <2> HIDE DEF p, q
  <2>2. q \in 1..(p - 1)
    BY <1>1, <2>1
  <2>3. options[q].key # options[p].key
    BY <2>1, <2>2 DEF FirstAt
  <2> QED BY <1>9, <2>3 DEF p, q
<1>11. FirstAt(kept) = 1..m
  <2>1. ASSUME NEW i \in 1..m, NEW j \in 1..(i - 1) PROVE kept[j].key # kept[i].key
    <3>1. j \in 1..m /\ j < i
      BY <1>6
    <3> QED BY <1>10, <3>1
  <2> QED BY <1>9, <2>1 DEF FirstAt
<1>12. FirstsOf(kept) = {<<options[p].key, options[p].value>> : p \in FirstAt(options)}
  <2>1. FirstsOf(kept) = {<<kept[i].key, kept[i].value>> : i \in 1..m}
    BY <1>11 DEF FirstsOf
  <2>2. \A i \in 1..m : <<kept[i].key, kept[i].value>> = <<options[taken[i]].key, options[taken[i]].value>>
    BY <1>9
  <2> DEFINE give(p) == <<options[p].key, options[p].value>>
  <2>3. FirstsOf(kept) = {give(taken[i]) : i \in 1..m}
    BY <2>1, <2>2
  <2> HIDE DEF give
  <2>4. {give(taken[i]) : i \in 1..m} = {give(p) : p \in FirstAt(options)}
    BY <1>6
  <2> QED BY <2>3, <2>4 DEF give
<1> QED BY <1>2, <1>9, <1>12 DEF FirstsOf

-----------------------------------------------------------------------------
(* The sections of the text darknetxx makes *)

OptionLines(options) == [i \in DOMAIN options |-> Option(options[i].key, options[i].value)]

LEMMA OptionLinesType ==
  ASSUME NEW options \in Seq(KeptOption)
  PROVE  /\ OptionLines(options) \in Seq(CfgText) /\ Len(OptionLines(options)) = Len(options)
         /\ \A i \in 1..Len(options) :
              /\ OptionLines(options)[i] = Option(options[i].key, options[i].value)
              /\ IsGiven(OptionLines(options)[i]) /\ OptionLines(options)[i].kind = "option"
<1> DEFINE o == OptionLines(options)
           n == Len(options)
<1>1. n \in Nat /\ DOMAIN options = 1..n /\ \A i \in 1..n : options[i] \in KeptOption
  OBVIOUS
<1> HIDE DEF n
<1>2. o = [i \in 1..n |-> Option(options[i].key, options[i].value)]
  BY <1>1 DEF OptionLines
<1>3. \A i \in 1..n : /\ Option(options[i].key, options[i].value) \in CfgText
                      /\ IsGiven(Option(options[i].key, options[i].value))
                      /\ Option(options[i].key, options[i].value).kind = "option"
  BY <1>1, OptionType
<1> HIDE DEF o
<1>4. o \in [1..n -> CfgText]
  BY <1>2, <1>3
<1>5. o \in Seq(CfgText) /\ Len(o) = n
  BY <1>1, <1>4
<1> QED BY <1>2, <1>3, <1>5 DEF o, n

\* The lines of a section behind a text are one more section.
LEMMA SectionIsAdded ==
  ASSUME NEW t \in Seq(CfgText), NEW S \in Seq(Section), SectionsTo(t, Len(t), S),
         NEW s \in Section
  PROVE  LET u == t \o (<<s.header>> \o OptionLines(s.options))
             T == Append(S, s)
         IN  u \in Seq(CfgText) /\ T \in Seq(Section) /\ SectionsTo(u, Len(u), T)
<1> DEFINE n == Len(t)
           o == s.options
           c == Len(o)
           w == <<s.header>> \o OptionLines(o)
           u == t \o w
           m == Len(S)
           T == Append(S, s)
<1>1. s.header \in Headings /\ o \in Seq(KeptOption)
  BY DEF Section
<1>2. s.header \in CfgText /\ s.header.kind = "header"
  BY <1>1, HeadingType
<1> HIDE DEF o
<1>3. /\ OptionLines(o) \in Seq(CfgText) /\ Len(OptionLines(o)) = c /\ c \in Nat
      /\ \A i \in 1..c : /\ OptionLines(o)[i] = Option(o[i].key, o[i].value)
                         /\ IsGiven(OptionLines(o)[i]) /\ OptionLines(o)[i].kind = "option"
  BY <1>1, OptionLinesType
<1> HIDE DEF c
<1>4. /\ w \in Seq(CfgText) /\ Len(w) = c + 1 /\ w[1] = s.header
      /\ \A i \in 1..c : w[i + 1] = OptionLines(o)[i]
  <2> DEFINE v == OptionLines(o)
             b == <<s.header>>
  <2>1. b \in Seq(CfgText) /\ Len(b) = 1 /\ b[1] = s.header
    BY <1>2
  <2> HIDE DEF v, b
  <2>2. /\ b \o v \in Seq(CfgText) /\ Len(b \o v) = 1 + c
        /\ \A i \in 1..(1 + c) : (b \o v)[i] = IF i <= 1 THEN b[i] ELSE v[i - 1]
    <3>1. v \in Seq(CfgText) /\ Len(v) = c
      BY <1>3 DEF v
    <3>2. /\ b \o v \in Seq(CfgText) /\ Len(b \o v) = Len(b) + Len(v)
          /\ \A i \in 1..(Len(b) + Len(v)) : (b \o v)[i] = IF i <= Len(b) THEN b[i] ELSE v[i - Len(b)]
      BY <2>1, <3>1, ConcatProperties
    <3> QED BY <2>1, <3>1, <3>2
  <2>3. 1 \in 1..(1 + c) /\ \A i \in 1..c : i + 1 \in 1..(1 + c) /\ ~(i + 1 <= 1) /\ (i + 1) - 1 = i
    BY <1>3
  <2> QED BY <1>3, <2>1, <2>2, <2>3 DEF v, b
<1> HIDE DEF w
<1>5. n \in Nat
  OBVIOUS
<1>6. /\ u \in Seq(CfgText) /\ Len(u) = n + c + 1
      /\ \A i \in 1..n : u[i] = t[i]
      /\ u[n + 1] = s.header
      /\ \A i \in 1..c : u[n + 1 + i] = OptionLines(o)[i]
  <2>1. /\ u \in Seq(CfgText) /\ Len(u) = n + (c + 1)
        /\ \A i \in 1..(n + (c + 1)) : u[i] = IF i <= n THEN t[i] ELSE w[i - n]
    <3>1. Len(w) = c + 1 /\ w \in Seq(CfgText) /\ t \in Seq(CfgText)
      BY <1>4
    <3>2. /\ t \o w \in Seq(CfgText) /\ Len(t \o w) = Len(t) + Len(w)
          /\ \A i \in 1..(Len(t) + Len(w)) : (t \o w)[i] = IF i <= Len(t) THEN t[i] ELSE w[i - Len(t)]
      BY <3>1, ConcatProperties
    <3> QED BY <3>1, <3>2
  <2> HIDE DEF u, n
  <2>2. \A i \in 1..n : u[i] = t[i]
    BY <1>3, <1>5, <2>1
  <2>3. u[n + 1] = w[1]
    <3>1. n + 1 \in 1..(n + (c + 1)) /\ ~(n + 1 <= n) /\ (n + 1) - n = 1
      BY <1>3, <1>5
    <3> QED BY <2>1, <3>1
  <2>4. ASSUME NEW i \in 1..c PROVE u[n + 1 + i] = OptionLines(o)[i]
    <3>1. n + 1 + i \in 1..(n + (c + 1)) /\ ~(n + 1 + i <= n) /\ (n + 1 + i) - n = i + 1
      BY <1>3, <1>5
    <3> QED BY <1>4, <2>1, <3>1
  <2>5. n + (c + 1) = n + c + 1
    BY <1>3, <1>5
  <2> QED BY <1>4, <2>1, <2>2, <2>3, <2>4, <2>5
<1>7. /\ T \in Seq(Section) /\ m \in Nat /\ Len(T) = m + 1 /\ T[m + 1] = s
      /\ \A k \in 1..m : T[k] = S[k]
  BY AppendProperties
<1>8. PICK h : /\ Lists(h, HeadersTo(t, n)) /\ Len(h) = m
               /\ \A k \in 1..m : IsSection(t, n, h[k], S[k])
  BY DEF SectionsTo
<1> HIDE DEF u, T, n, m
<1> DEFINE l == n + c + 1
<1>9. l \in Nat /\ l >= n + 1
  BY <1>3, <1>5
<1>10. \A p \in 1..l : p \in 1..n \/ p = n + 1 \/ (p > n + 1 /\ \E i \in 1..c : p = n + 1 + i)
  <2> TAKE p \in 1..l
  <2>1. p > n + 1 => p - (n + 1) \in 1..c /\ p = n + 1 + (p - (n + 1))
    BY <1>3, <1>5
  <2> QED BY <1>3, <1>5, <2>1
<1>11. ASSUME NEW i \in 1..c
       PROVE  /\ n + 1 + i \in 1..l /\ n + 1 + i > n + 1
              /\ IsGiven(u[n + 1 + i]) /\ u[n + 1 + i].kind # "header"
              /\ u[n + 1 + i] = Option(o[i].key, o[i].value)
  <2>1. n + 1 + i \in 1..l /\ n + 1 + i > n + 1
    BY <1>3, <1>5
  <2> QED BY <1>3, <1>6, <2>1
<1>12. n + 1 \in 1..l /\ u[n + 1].kind = "header" /\ ~IsGiven(u[n + 1])
  <2>1. n + 1 \in 1..l
    BY <1>3, <1>5
  <2> QED BY <1>2, <1>6, <2>1 DEF IsGiven
<1>13. \A p \in 1..n : p \in 1..l /\ p < n + 1 /\ u[p] = t[p]
  BY <1>3, <1>5, <1>6
<1> HIDE DEF l
<1>14. HeadersTo(u, l) = HeadersTo(t, n) \cup {n + 1}
  <2>1. ASSUME NEW p \in HeadersTo(u, l) PROVE p \in HeadersTo(t, n) \cup {n + 1}
    <3>1. p \in 1..l /\ u[p].kind = "header"
      BY DEF HeadersTo
    <3>2. p \in 1..n \/ p = n + 1
      BY <1>10, <1>11, <3>1
    <3> QED BY <1>13, <3>1, <3>2 DEF HeadersTo
  <2>2. ASSUME NEW p \in HeadersTo(t, n) PROVE p \in HeadersTo(u, l)
    BY <1>13 DEF HeadersTo
  <2>3. n + 1 \in HeadersTo(u, l)
    BY <1>12 DEF HeadersTo
  <2> QED BY <2>1, <2>2, <2>3
<1> DEFINE g == Append(h, n + 1)
<1>15. h \in Seq(Int) /\ \A k \in 1..m : h[k] \in HeadersTo(t, n) /\ h[k] \in 1..n
  BY <1>8 DEF Lists, HeadersTo
<1>16. /\ Len(g) = m + 1 /\ g[m + 1] = n + 1 /\ \A k \in 1..m : g[k] = h[k]
  BY <1>5, <1>8, <1>15, AppendProperties
<1>17. Lists(g, HeadersTo(u, l))
  <2>1. \A p \in HeadersTo(t, n) : p < n + 1
    BY <1>5 DEF HeadersTo
  <2>2. n + 1 \in Int
    BY <1>5
  <2> QED BY <1>8, <1>14, <2>1, <2>2, ListsNext
<1> HIDE DEF g
<1>18. ASSUME NEW k \in 1..m PROVE IsSection(u, l, g[k], T[k])
  <2> DEFINE p == h[k]
  <2>1. p \in 1..n /\ IsSection(t, n, p, S[k]) /\ g[k] = p /\ T[k] = S[k]
    BY <1>7, <1>8, <1>15, <1>16
  <2> HIDE DEF p
  <2>2. GivenTo(u, l, p) = GivenTo(t, n, p)
    <3>1. ASSUME NEW q \in GivenTo(u, l, p) PROVE q \in GivenTo(t, n, p)
      <4>1. q \in 1..l /\ q > p /\ IsGiven(u[q]) /\ \A a \in HeadersTo(u, l) : a <= p \/ a > q
        BY DEF GivenTo
      <4>2. n + 1 <= p \/ n + 1 > q
        BY <1>14, <4>1
      <4>3. q \in 1..n
        BY <1>5, <1>9, <2>1, <4>1, <4>2
      <4> QED BY <1>13, <1>14, <4>1, <4>3 DEF GivenTo
    <3>2. ASSUME NEW q \in GivenTo(t, n, p) PROVE q \in GivenTo(u, l, p)
      <4>1. q \in 1..n /\ q > p /\ IsGiven(t[q]) /\ \A a \in HeadersTo(t, n) : a <= p \/ a > q
        BY DEF GivenTo
      <4>2. n + 1 > q
        BY <1>5, <4>1
      <4> QED BY <1>13, <1>14, <4>1, <4>2 DEF GivenTo
    <3> QED BY <3>1, <3>2
  <2>3. u[p] = t[p]
    BY <1>13, <2>1
  <2>4. PICK r : Lists(r, GivenTo(t, n, p)) /\ OptionsAt(t, r, S[k].options)
    BY <2>1 DEF IsSection
  <2>5. \A i \in 1..Len(r) : u[r[i]] = t[r[i]]
    <3>1. \A i \in 1..Len(r) : r[i] \in 1..n
      BY <2>4 DEF Lists, GivenTo
    <3> QED BY <1>13, <3>1
  <2>6. OptionsAt(u, r, S[k].options)
    BY <2>4, <2>5 DEF OptionsAt
  <2>7. u[p] = S[k].header
    BY <2>1, <2>3 DEF IsSection
  <2>8. IsSection(u, l, p, S[k])
    BY <2>2, <2>4, <2>6, <2>7 DEF IsSection
  <2> QED BY <2>1, <2>8
<1>19. IsSection(u, l, n + 1, s)
  <2> DEFINE r == [i \in 1..c |-> n + 1 + i]
  <2>1. r \in [1..c -> Int]
    BY <1>5
  <2>2. r \in Seq(Int) /\ Len(r) = c /\ \A i \in 1..c : r[i] = n + 1 + i
    <3>1. \A i \in 1..c : r[i] = n + 1 + i
      OBVIOUS
    <3> HIDE DEF r
    <3> QED BY <1>3, <2>1, <3>1
  <2> HIDE DEF r
  <2>3. GivenTo(u, l, n + 1) = {q \in 1..l : q > n + 1}
    <3>1. ASSUME NEW q \in 1..l, q > n + 1 PROVE q \in GivenTo(u, l, n + 1)
      <4>1. PICK i \in 1..c : q = n + 1 + i
        BY <1>5, <1>10, <3>1
      <4>2. IsGiven(u[q])
        BY <1>11, <4>1
      <4>3. \A a \in HeadersTo(u, l) : a <= n + 1
        BY <1>5, <1>14 DEF HeadersTo
      <4> QED BY <3>1, <4>2, <4>3 DEF GivenTo
    <3> QED BY <3>1 DEF GivenTo
  <2>4. Lists(r, GivenTo(u, l, n + 1))
    <3>1. \A i \in 1..c : r[i] \in GivenTo(u, l, n + 1)
      BY <1>11, <2>2, <2>3
    <3>2. \A q \in GivenTo(u, l, n + 1) : \E i \in 1..c : r[i] = q
      BY <1>5, <1>10, <2>2, <2>3
    <3>3. \A i, j \in 1..c : i < j => r[i] < r[j]
      BY <1>3, <1>5, <2>2
    <3> QED BY <2>2, <3>1, <3>2, <3>3 DEF Lists
  <2>5. OptionsAt(u, r, o)
    BY <1>11, <2>2 DEF OptionsAt, c
  <2> QED BY <1>6, <2>4, <2>5 DEF IsSection, o
<1>20. \A k \in 1..Len(T) : IsSection(u, l, g[k], T[k])
  <2>1. \A k \in 1..(m + 1) : k \in 1..m \/ k = m + 1
    BY <1>7
  <2> QED BY <1>7, <1>16, <1>18, <1>19, <2>1
<1>21. SectionsTo(u, Len(u), T)
  <2>1. Len(u) = l
    BY <1>6 DEF l
  <2>2. SectionsTo(u, l, T)
    BY <1>7, <1>16, <1>17, <1>20 DEF SectionsTo
  <2> QED BY <2>1, <2>2
<1> QED BY <1>6, <1>7, <1>21 DEF u, T, w, o

\* What the structure has of the sections of a text.
WrittenOf(S) ==
  [k \in 1..Len(S) |-> [header |-> Header(IF k = 1 THEN "net" ELSE S[k].header.name, TRUE),
                        options |-> members(S[k].options)]]

LinesOf(s) == <<s.header>> \o OptionLines(s.options)

LEMMA WrittenSections ==
  ASSUME NEW S \in Seq(Section)
  PROVE  /\ WrittenOf(S) \in Seq(Section) /\ Len(WrittenOf(S)) = Len(S)
         /\ \A k \in 1..Len(S) :
              /\ WrittenOf(S)[k].header = Header(IF k = 1 THEN "net" ELSE S[k].header.name, TRUE)
              /\ WrittenOf(S)[k].options = members(S[k].options)
<1> DEFINE n == Len(S)
           R == WrittenOf(S)
<1>1. n \in Nat /\ \A k \in 1..n : S[k] \in Section
  OBVIOUS
<1>2. R = [k \in 1..n |-> [header |-> Header(IF k = 1 THEN "net" ELSE S[k].header.name, TRUE),
                           options |-> members(S[k].options)]]
  BY Zenon DEF WrittenOf
<1> HIDE DEF n, R
<1>3. ASSUME NEW k \in 1..n
      PROVE  [header |-> Header(IF k = 1 THEN "net" ELSE S[k].header.name, TRUE),
              options |-> members(S[k].options)] \in Section
  <2>1. S[k].header \in Headings /\ S[k].options \in Seq(KeptOption)
    BY <1>1 DEF Section
  <2>2. S[k].header.name \in CfgNames
    BY <2>1, HeadingType, HeadingIs
  <2>3. (IF k = 1 THEN "net" ELSE S[k].header.name) \in CfgNames
    BY <2>2 DEF CfgNames
  <2>4. Header(IF k = 1 THEN "net" ELSE S[k].header.name, TRUE) \in Headings
    <3> DEFINE a == IF k = 1 THEN "net" ELSE S[k].header.name
    <3> HIDE DEF a
    <3>1. a \in CfgNames /\ TRUE \in BOOLEAN
      BY <2>3 DEF a
    <3>2. \A b \in CfgNames, closed \in BOOLEAN : Header(b, closed) \in Headings
      BY DEF Headings
    <3>3. Header(a, TRUE) \in Headings
      <4> DEFINE closed == TRUE
      <4>1. closed \in BOOLEAN
        OBVIOUS
      <4> HIDE DEF closed
      <4>2. Header(a, closed) \in Headings
        BY <3>1, <3>2, <4>1
      <4> QED BY <4>2 DEF closed
    <3> QED BY <3>3 DEF a
  <2>5. members(S[k].options) \in Seq(KeptOption)
    BY <2>1, MembersKeep
  <2> QED BY <2>4, <2>5 DEF Section
<1>4. R \in [1..n -> Section]
  BY <1>2, <1>3
<1>5. R \in Seq(Section) /\ Len(R) = n
  BY <1>1, <1>4
<1>6. \A k \in 1..n :
        /\ R[k].header = Header(IF k = 1 THEN "net" ELSE S[k].header.name, TRUE)
        /\ R[k].options = members(S[k].options)
  BY <1>2
<1> QED BY <1>5, <1>6 DEF R, n

LEMMA CfgOfIs ==
  ASSUME NEW t, read_sections(t) \in Seq(Section), read_sections(t) # << >>
  PROVE  LET R == WrittenOf(read_sections(t))
         IN  CfgOf(Json(t)) = LinesOf(R[1]) \o FlattenSeq([k \in 1..(Len(R) - 1) |-> LinesOf(R[k + 1])])
<1> DEFINE S == read_sections(t)
           R == WrittenOf(S)
           m == Len(S) - 1
           layers == [k \in 1..m |-> [type    |-> S[k + 1].header.name,
                                      options |-> members(S[k + 1].options)]]
           json == Json(t)
<1>1. json = [net |-> members(S[1].options), layers |-> layers]
  BY DEF Json
<1>2. Len(S) \in Nat /\ Len(S) # 0
  BY EmptySeq
<1> HIDE DEF S
<1>3. S \in Seq(Section)
  BY DEF S
<1>4. /\ Len(R) = Len(S)
      /\ \A k \in 1..Len(S) :
           /\ R[k].header = Header(IF k = 1 THEN "net" ELSE S[k].header.name, TRUE)
           /\ R[k].options = members(S[k].options)
  BY <1>3, WrittenSections
<1> HIDE DEF json, R
<1>5. json.net = members(S[1].options) /\ json.layers = layers /\ DOMAIN layers = 1..m
  BY <1>1
<1>6. CfgOf(json) = (<<Header("net", TRUE)>> \o OptionLines(json.net))
        \o FlattenSeq([k \in DOMAIN json.layers |->
             <<Header(json.layers[k].type, TRUE)>> \o OptionLines(json.layers[k].options)])
  BY Zenon DEF CfgOf, OptionLines
<1>7. <<Header("net", TRUE)>> \o OptionLines(json.net) = LinesOf(R[1])
  <2>1. 1 \in 1..Len(S)
    BY <1>2
  <2> QED BY <1>4, <1>5, <2>1 DEF LinesOf
<1>8. ASSUME NEW k \in 1..m
      PROVE  <<Header(layers[k].type, TRUE)>> \o OptionLines(layers[k].options) = LinesOf(R[k + 1])
  <2>1. k + 1 \in 1..Len(S) /\ k + 1 # 1
    BY <1>2
  <2>2. layers[k].type = S[k + 1].header.name /\ layers[k].options = members(S[k + 1].options)
    OBVIOUS
  <2> HIDE DEF layers
  <2> QED BY <1>4, <2>1, <2>2 DEF LinesOf
<1> HIDE DEF layers
<1>9. [k \in DOMAIN json.layers |->
             <<Header(json.layers[k].type, TRUE)>> \o OptionLines(json.layers[k].options)]
        = [k \in 1..m |-> LinesOf(R[k + 1])]
  BY <1>5, <1>8
<1>10. m = Len(R) - 1
  BY <1>4
<1> HIDE DEF m
<1> QED BY <1>6, <1>7, <1>9, <1>10, Zenon DEF json, R, S

\* darknetxx writes the sections, a text longer each time.
LEMMA CfgOfSections ==
  ASSUME NEW R \in Seq(Section), Len(R) # 0
  PROVE  LET u == LinesOf(R[1]) \o FlattenSeq([k \in 1..(Len(R) - 1) |-> LinesOf(R[k + 1])])
         IN  u \in Seq(CfgText) /\ SectionsTo(u, Len(u), R)
<1> DEFINE m == Len(R) - 1
           parts == [k \in 1..m |-> LinesOf(R[k + 1])]
           Begun(k) == [i \in 1..k |-> R[i]]
           Right(u, k) == u \in Seq(CfgText) /\ SectionsTo(u, Len(u), Begun(k))
<1>1. m \in Nat /\ Len(R) = m + 1 /\ \A k \in 1..(m + 1) : R[k] \in Section
  OBVIOUS
<1> HIDE DEF m
<1>2. \A k \in 0..(m + 1) : Begun(k) \in Seq(Section) /\ Len(Begun(k)) = k
  <2> TAKE k \in 0..(m + 1)
  <2>1. \A i \in 1..k : i \in 1..(m + 1)
    BY <1>1
  <2>2. Begun(k) \in [1..k -> Section]
    BY <1>1, <2>1
  <2> HIDE DEF Begun
  <2> QED BY <1>1, <2>2
<1>3. ASSUME NEW k \in 0..m PROVE Begun(k + 1) = Append(Begun(k), R[k + 1])
  <2>1. /\ k \in 0..(m + 1) /\ k + 1 \in 0..(m + 1) /\ k + 1 \in 1..(m + 1)
        /\ \A i \in 1..(k + 1) : i \in 1..k \/ (i = k + 1 /\ ~(i \in 1..k))
    BY <1>1
  <2> DEFINE a == Append(Begun(k), R[k + 1])
             b == Begun(k + 1)
  <2>2. /\ a \in Seq(Section) /\ Len(a) = k + 1 /\ a[k + 1] = R[k + 1]
        /\ \A i \in 1..k : a[i] = Begun(k)[i]
    <3>1. Begun(k) \in Seq(Section) /\ Len(Begun(k)) = k /\ R[k + 1] \in Section
      BY <1>1, <1>2, <2>1
    <3> HIDE DEF Begun
    <3> QED BY <3>1, AppendProperties
  <2>3. \A i \in 1..k : Begun(k)[i] = R[i]
    OBVIOUS
  <2>4. b \in Seq(Section) /\ Len(b) = k + 1
    BY <1>2, <2>1
  <2>5. \A i \in 1..(k + 1) : b[i] = R[i]
    OBVIOUS
  <2> HIDE DEF a, b, Begun
  <2>6. \A i \in 1..(k + 1) : b[i] = a[i]
    BY <2>1, <2>2, <2>3, <2>5
  <2>7. b = a
    BY <2>2, <2>4, <2>6, SeqEqual
  <2> QED BY <2>7 DEF a, b
<1>4. ASSUME NEW u, NEW k \in 0..m, Right(u, k)
      PROVE  Right(u \o LinesOf(R[k + 1]), k + 1)
  <2>1. R[k + 1] \in Section /\ Begun(k) \in Seq(Section) /\ Begun(k + 1) = Append(Begun(k), R[k + 1])
    BY <1>1, <1>2, <1>3
  <2>2. u \in Seq(CfgText) /\ SectionsTo(u, Len(u), Begun(k))
    BY <1>4
  <2> HIDE DEF Begun
  <2> DEFINE s == R[k + 1]
             w == u \o (<<s.header>> \o OptionLines(s.options))
             T == Append(Begun(k), s)
  <2>3. w \in Seq(CfgText) /\ SectionsTo(w, Len(w), T)
    BY <2>1, <2>2, SectionIsAdded
  <2> QED BY <2>1, <2>3 DEF LinesOf
<1>5. \A k \in 0..m : LinesOf(R[k + 1]) \in Seq(CfgText)
  <2> TAKE k \in 0..m
  <2>1. R[k + 1] \in Section
    BY <1>1
  <2>2. R[k + 1].header \in CfgText /\ R[k + 1].options \in Seq(KeptOption)
    BY <2>1, HeadingType DEF Section
  <2>3. OptionLines(R[k + 1].options) \in Seq(CfgText) /\ <<R[k + 1].header>> \in Seq(CfgText)
    BY <2>2, OptionLinesType
  <2> QED BY <2>3, ConcatProperties DEF LinesOf
<1>6. Right(LinesOf(R[1]), 1)
  <2>1. << >> \in Seq(CfgText) /\ Len(<< >>) = 0
    OBVIOUS
  <2>2. Begun(0) = << >>
    <3>1. Begun(0) \in Seq(Section) /\ Len(Begun(0)) = 0
      BY <1>1, <1>2
    <3> HIDE DEF Begun
    <3> QED BY <3>1, EmptySeq
  <2>3. Right(<< >>, 0)
    <3> HIDE DEF Begun
    <3> QED BY <2>1, <2>2, NoSections
  <2>4. 0 \in 0..m /\ 0 + 1 = 1
    BY <1>1
  <2> HIDE DEF Right
  <2>5. Right(<< >> \o LinesOf(R[1]), 1)
    BY <1>4, <2>3, <2>4
  <2>6. << >> \o LinesOf(R[1]) = LinesOf(R[1])
    BY <1>5, <2>4, ConcatEmptySeq
  <2> QED BY <2>5, <2>6
<1> HIDE DEF Right
<1> DEFINE u == LinesOf(R[1]) \o FlattenSeq(parts)
<1>7. Right(u, m + 1)
  <2>1. LinesOf(R[1]) \in Seq(CfgText)
    <3>1. 0 \in 0..m /\ 0 + 1 = 1
      BY <1>1
    <3> QED BY <1>5, <3>1
  <2>2. Len(parts) = m /\ parts \in Seq(Seq(CfgText))
    <3>1. parts \in [1..m -> Seq(CfgText)]
      BY <1>1, <1>5
    <3> HIDE DEF parts
    <3> QED BY <1>1, <3>1
  <2>3. CASE m = 0
    <3>1. FlattenSeq(parts) = << >>
      <4> HIDE DEF parts
      <4>1. parts = << >>
        BY <2>2, <2>3, EmptySeq
      <4> QED BY <2>2, <2>3, <4>1, Zenon DEF FlattenSeq
    <3>2. u = LinesOf(R[1])
      BY <2>1, <3>1, ConcatEmptySeq
    <3>3. m + 1 = 1
      BY <2>3
    <3> QED BY <1>6, <3>2, <3>3
  <2>4. CASE m # 0
    <3>1. PICK d : Flattens(parts, m, d) /\ FlattenSeq(parts) = d[m]
      <4> HIDE DEF parts
      <4> QED BY <1>1, <2>2, <2>4, FlattenSeqIs
    <3>2. \A k \in 1..m : parts[k] = LinesOf(R[k + 1]) /\ parts[k] \in Seq(CfgText)
      BY <1>1, <1>5
    <3> HIDE DEF parts
    <3> DEFINE Good(k) == d[k] \in Seq(CfgText) /\ Right(LinesOf(R[1]) \o d[k], k + 1)
               Failing == {k \in Nat : k \in 1..m /\ ~Good(k)}
    <3>3. Failing = {}
      <4> SUFFICES ASSUME Failing # {} PROVE FALSE
        OBVIOUS
      <4>1. PICK k \in Failing : \A j \in Failing : k <= j
        <5>1. Failing \subseteq Nat
          OBVIOUS
        <5> HIDE DEF Failing
        <5> QED BY <5>1, LeastMember
      <4>2. k \in 1..m /\ k \in 0..m /\ ~Good(k)
        BY <4>1
      <4>3. d[k] = IF k = 1 THEN parts[k] ELSE d[k - 1] \o parts[k]
        BY <3>1, <4>2, FlattensAt
      <4>4. Good(k)
        <5>1. CASE k = 1
          <6>1. d[k] = LinesOf(R[k + 1]) /\ d[k] \in Seq(CfgText)
            BY <3>2, <4>2, <4>3, <5>1
          <6>2. Right(LinesOf(R[1]), k)
            BY <1>6, <5>1
          <6> QED BY <1>4, <4>2, <6>1, <6>2
        <5>2. CASE k # 1
          <6>1. k - 1 \in 1..m /\ k - 1 \in Nat /\ ~(k <= k - 1) /\ (k - 1) + 1 = k
            BY <1>1, <4>2, <5>2
          <6>2. Good(k - 1)
            BY <4>1, <6>1
          <6>3. d[k - 1] \in Seq(CfgText) /\ Right(LinesOf(R[1]) \o d[k - 1], k)
            BY <6>1, <6>2
          <6>4. Right((LinesOf(R[1]) \o d[k - 1]) \o LinesOf(R[k + 1]), k + 1)
            BY <1>4, <4>2, <6>3
          <6>5. parts[k] = LinesOf(R[k + 1]) /\ parts[k] \in Seq(CfgText)
            BY <3>2, <4>2
          <6>6. (LinesOf(R[1]) \o d[k - 1]) \o parts[k] = LinesOf(R[1]) \o (d[k - 1] \o parts[k])
            <7> DEFINE a == LinesOf(R[1])
                       b == d[k - 1]
                       c == parts[k]
            <7>1. a \in Seq(CfgText) /\ b \in Seq(CfgText) /\ c \in Seq(CfgText)
              BY <2>1, <6>3, <6>5
            <7> HIDE DEF a, b, c
            <7>2. (a \o b) \o c = a \o (b \o c)
              BY <7>1, ConcatAssociative
            <7> QED BY <7>2 DEF a, b, c
          <6>7. d[k - 1] \o parts[k] \in Seq(CfgText)
            BY <6>3, <6>5, ConcatProperties
          <6> QED BY <4>3, <5>2, <6>4, <6>5, <6>6, <6>7
        <5> QED BY <5>1, <5>2
      <4> QED BY <4>2, <4>4
    <3>4. m \in Nat /\ m \in 1..m
      BY <1>1, <2>4
    <3>5. Good(m)
      BY <3>3, <3>4
    <3> QED BY <3>1, <3>5
  <2> QED BY <2>3, <2>4
<1>8. Begun(m + 1) = R
  <2>1. Begun(m + 1) \in Seq(Section) /\ Len(Begun(m + 1)) = m + 1
    BY <1>1, <1>2
  <2>2. \A i \in 1..(m + 1) : Begun(m + 1)[i] = R[i]
    OBVIOUS
  <2> HIDE DEF Begun
  <2> QED BY <1>1, <2>1, <2>2, SeqEqual
<1>9. u \in Seq(CfgText) /\ SectionsTo(u, Len(u), R)
  <2> HIDE DEF u, Begun
  <2> QED BY <1>7, <1>8 DEF Right
<1> QED BY <1>9 DEF m

-----------------------------------------------------------------------------
(* The structure of a text *)

LEMMA SameNetwork ==
  ASSUME NEW S \in Seq(Section)
  PROVE  NetworkOf(WrittenOf(S)) = NetworkOf(S)
<1> DEFINE R == WrittenOf(S)
<1>1. /\ Len(R) = Len(S)
      /\ \A k \in 1..Len(S) :
           /\ R[k].header = Header(IF k = 1 THEN "net" ELSE S[k].header.name, TRUE)
           /\ R[k].options = members(S[k].options)
  BY WrittenSections
<1> HIDE DEF R
<1>2. ASSUME NEW k \in 1..Len(S)
      PROVE  /\ FirstsOf(R[k].options) = FirstsOf(S[k].options)
             /\ k # 1 => R[k].header.name = S[k].header.name
  <2>1. S[k] \in Section
    OBVIOUS
  <2>2. S[k].options \in Seq(KeptOption)
    BY <2>1 DEF Section
  <2>3. FirstsOf(R[k].options) = FirstsOf(S[k].options)
    BY <1>1, <2>2, MembersKeep
  <2>4. k # 1 => R[k].header = Header(S[k].header.name, TRUE)
    BY <1>1
  <2>5. Header(S[k].header.name, TRUE).name = S[k].header.name
    BY DEF Header
  <2> QED BY <2>3, <2>4, <2>5
<1>3. [k \in 1..Len(R) |-> [type |-> IF k = 1 THEN "net" ELSE R[k].header.name,
                            options |-> FirstsOf(R[k].options)]]
        = [k \in 1..Len(S) |-> [type |-> IF k = 1 THEN "net" ELSE S[k].header.name,
                                options |-> FirstsOf(S[k].options)]]
  BY <1>1, <1>2
<1> QED BY <1>3, Zenon DEF NetworkOf, R

LEMMA ValidIsKept ==
  ASSUME NEW t \in Seq(CfgText), valid(t)
  PROVE  NetworkRead(CfgOf(Json(t))) = NetworkRead(t)
<1> DEFINE S == read_sections(t)
           R == WrittenOf(S)
           c == CfgOf(Json(t))
<1>1. ~Misplaced(t) /\ S # << >>
  BY DEF valid
<1>2. S \in Seq(Section) /\ SectionsTo(t, Len(t), S)
  BY <1>1, ReadSections
<1>3. Len(t) \in Nat /\ DOMAIN t = 1..Len(t)
  OBVIOUS
<1>4. NetworkRead(t) = NetworkOf(S)
  <2> HIDE DEF S
  <2> QED BY <1>2, <1>3, NetworkReadIs
<1>5. R \in Seq(Section) /\ Len(R) # 0
  <2> HIDE DEF S
  <2>1. R \in Seq(Section) /\ Len(R) = Len(S)
    BY <1>2, WrittenSections
  <2> QED BY <1>1, <1>2, <2>1, EmptySeq
<1>6. c = LinesOf(R[1]) \o FlattenSeq([k \in 1..(Len(R) - 1) |-> LinesOf(R[k + 1])])
  BY <1>1, <1>2, CfgOfIs
<1> HIDE DEF c, R, S
<1>7. c \in Seq(CfgText) /\ SectionsTo(c, Len(c), R)
  BY <1>5, <1>6, CfgOfSections
<1>8. Len(c) \in Nat /\ DOMAIN c = 1..Len(c)
  BY <1>7
<1>9. NetworkRead(c) = NetworkOf(R)
  BY <1>5, <1>7, <1>8, NetworkReadIs
<1>10. NetworkOf(R) = NetworkOf(S)
  BY <1>2, SameNetwork DEF R
<1> QED BY <1>4, <1>9, <1>10 DEF c

\* The sections a text may begin with.
Networks == {Header("net", TRUE), Header("network", TRUE)}

\* A line that darknetxx could not name.
IsUnnamed(t, p) ==
  /\ t[p].kind # "comment"
  /\ IF \A h \in Headers(t) : h >= p
     THEN t[p] \notin {Header("net", TRUE), Header("network", TRUE)}
     ELSE t[p].kind = "header" /\ (~t[p].closed \/ t[p].name = "")

LEMMA LineKinds ==
  ASSUME NEW l \in CfgText
  PROVE  l.kind \in {"comment", "header", "option"}
<1>1. CASE l \in Headings
  BY <1>1, HeadingType
<1>2. CASE \E key \in CfgKeys, v \in CfgValues : l = Option(key, v)
  BY <1>2, OptionFields
<1>3. CASE l = Comment
  BY <1>3, CommentIs
<1> QED BY <1>1, <1>2, <1>3 DEF CfgText

LEMMA MisplacedIsUnnamed ==
  ASSUME NEW t \in Seq(CfgText), Misplaced(t)
  PROVE  \E p \in DOMAIN t : IsUnnamed(t, p)
<1>1. PICK p \in DOMAIN t : t[p].kind = "option" /\ \A q \in 1..p : t[q].kind # "header"
  BY DEF Misplaced
<1>2. DOMAIN t = 1..Len(t) /\ Len(t) \in Nat
  OBVIOUS
<1>3. \A h \in Headers(t) : h >= p
  <2> TAKE h \in Headers(t)
  <2>1. h \in 1..Len(t) /\ t[h].kind = "header"
    BY <1>2 DEF Headers
  <2>2. h \notin 1..p
    BY <1>1, <2>1
  <2> QED BY <1>2, <2>1, <2>2
<1>4. t[p] \notin {Header("net", TRUE), Header("network", TRUE)}
  <2>1. Header("net", TRUE).kind = "header" /\ Header("network", TRUE).kind = "header"
    BY HeaderFields
  <2> QED BY <1>1, <2>1
<1> QED BY <1>1, <1>3, <1>4 DEF IsUnnamed

LEMMA InvalidIsUnnamed ==
  ASSUME NEW t \in Seq(CfgText)
  PROVE  ~valid(t) <=> (Headers(t) = {} \/ \E p \in DOMAIN t : IsUnnamed(t, p))
<1>1. CASE Misplaced(t)
  <2>1. ~valid(t)
    BY <1>1 DEF valid
  <2> QED BY <1>1, <2>1, MisplacedIsUnnamed
<1>2. CASE ~Misplaced(t)
  <2> DEFINE S == read_sections(t)
             n == Len(t)
             m == Len(S)
  <2>1. S \in Seq(Section) /\ SectionsTo(t, n, S)
    BY <1>2, ReadSections
  <2>2. valid(t) <=> /\ S # << >> /\ S[1].header \in Networks
                     /\ \A k \in DOMAIN S \ {1} : S[k].header.closed /\ S[k].header.name # ""
    BY <1>2 DEF valid, Networks
  <2>3. n \in Nat /\ DOMAIN t = 1..n
    OBVIOUS
  <2> HIDE DEF S, n
  <2>4. m \in Nat /\ DOMAIN S = 1..m /\ (S = << >> <=> m = 0)
    BY <2>1, EmptySeq
  <2>5. PICK h : /\ Lists(h, HeadersTo(t, n)) /\ Len(h) = m
                 /\ \A k \in 1..m : IsSection(t, n, h[k], S[k])
    BY <2>1 DEF SectionsTo
  <2> HIDE DEF m
  <2>6. Headers(t) = HeadersTo(t, n)
    BY <2>3 DEF Headers, HeadersTo
  <2>7. \A k \in 1..m : /\ h[k] \in Headers(t) /\ h[k] \in 1..n /\ t[h[k]] = S[k].header
                        /\ t[h[k]].kind = "header"
    BY <2>5, <2>6 DEF Lists, HeadersTo, IsSection
  <2>8. \A p \in Headers(t) : \E k \in 1..m : h[k] = p
    BY <2>5, <2>6 DEF Lists
  <2>9. \A k \in 1..m : k # 1 => 1 \in 1..m /\ h[1] < h[k]
    <3> TAKE k \in 1..m
    <3>1. k # 1 => 1 \in 1..m /\ 1 < k
      BY <2>4
    <3> QED BY <2>5, <3>1 DEF Lists
  <2>10. CASE m = 0
    <3>1. \A p \in Headers(t) : FALSE
      BY <2>8, <2>10
    <3> QED BY <2>2, <2>4, <2>10, <3>1
  <2>11. CASE m # 0
    <3>1. 1 \in 1..m /\ Headers(t) # {}
      BY <2>4, <2>7, <2>11
    <3>2. \A p \in Headers(t) : p >= h[1]
      <4> TAKE p \in Headers(t)
      <4>1. PICK k \in 1..m : h[k] = p
        BY <2>8
      <4>2. h[k] \in 1..n /\ h[1] \in 1..n
        BY <2>7, <3>1
      <4> QED BY <2>3, <2>9, <4>1, <4>2
    <3>3. ASSUME S[1].header \notin Networks PROVE IsUnnamed(t, h[1])
      <4>1. t[h[1]].kind = "header" /\ t[h[1]] \notin {Header("net", TRUE), Header("network", TRUE)}
        BY <2>7, <3>1, <3>3 DEF Networks
      <4> QED BY <3>2, <4>1 DEF IsUnnamed
    <3>4. ASSUME NEW k \in 1..m, k # 1, ~(S[k].header.closed /\ S[k].header.name # "")
          PROVE  IsUnnamed(t, h[k])
      <4>1. h[1] \in Headers(t) /\ ~(h[1] >= h[k])
        <5>1. h[1] < h[k] /\ h[1] \in 1..n /\ h[k] \in 1..n
          BY <2>7, <2>9, <3>1, <3>4
        <5> QED BY <2>3, <2>7, <3>1, <5>1
      <4>2. t[h[k]].kind = "header" /\ t[h[k]] = S[k].header
        BY <2>7
      <4> QED BY <3>4, <4>1, <4>2 DEF IsUnnamed
    <3>5. ASSUME NEW p \in 1..n, IsUnnamed(t, p)
          PROVE  \/ S[1].header \notin Networks
                 \/ \E k \in 1..m : k # 1 /\ ~(S[k].header.closed /\ S[k].header.name # "")
      <4>1. t[p].kind \in {"header", "option"}
        <5>1. t[p] \in CfgText
          BY <2>3
        <5> QED BY <3>5, <5>1, LineKinds DEF IsUnnamed
      <4>2. CASE \A a \in Headers(t) : a >= p
        <5>1. t[p] \notin Networks
          BY <3>5, <4>2 DEF IsUnnamed, Networks
        <5>2. t[p].kind = "header"
          <6> SUFFICES ASSUME t[p].kind = "option" PROVE FALSE
            BY <4>1
          <6>1. ASSUME NEW q \in 1..p, t[q].kind = "header" PROVE FALSE
            <7>1. q \in 1..n /\ q <= p
              BY <2>3
            <7>2. q \in Headers(t)
              BY <2>3, <6>1, <7>1 DEF Headers
            <7>3. q = p
              BY <2>3, <4>2, <7>1, <7>2
            <7> QED BY <6>1, <7>3
          <6> QED BY <1>2, <2>3, <6>1 DEF Misplaced
        <5>3. p \in Headers(t)
          BY <2>3, <5>2 DEF Headers
        <5>4. p = h[1]
          BY <2>3, <2>7, <3>1, <3>2, <4>2, <5>3
        <5> QED BY <2>7, <3>1, <5>1, <5>4
      <4>3. CASE ~ \A a \in Headers(t) : a >= p
        <5>1. t[p].kind = "header" /\ (~t[p].closed \/ t[p].name = "")
          BY <3>5, <4>3 DEF IsUnnamed
        <5>2. p \in Headers(t)
          BY <2>3, <5>1 DEF Headers
        <5>3. PICK k \in 1..m : h[k] = p
          BY <2>8, <5>2
        <5>4. k # 1
          BY <3>2, <4>3, <5>3
        <5> QED BY <2>7, <5>1, <5>3, <5>4
      <4> QED BY <4>2, <4>3
    <3>6. valid(t) <=> /\ S[1].header \in Networks
                       /\ \A k \in 1..m : k # 1 => S[k].header.closed /\ S[k].header.name # ""
      BY <2>2, <2>4, <2>11
    <3>7. \A k \in 1..m : h[k] \in DOMAIN t
      BY <2>3, <2>7
    <3>8. ~valid(t) => \E p \in DOMAIN t : IsUnnamed(t, p)
      BY <3>1, <3>3, <3>4, <3>6, <3>7
    <3>9. (\E p \in DOMAIN t : IsUnnamed(t, p)) => ~valid(t)
      BY <2>3, <3>5, <3>6
    <3> QED BY <3>1, <3>8, <3>9
  <2> QED BY <2>10, <2>11
<1> QED BY <1>1, <1>2

\* The lines of a text are written one by one.
CfgSpec == NoLines /\ [][NextLine]_lines

\* Whatever lines a text has and however many, its JSON is of the very network
\* darknet reads from it, and it is refused just when it has no section or one
\* that darknetxx could not name (Dxxwjz3CfgJson, read back by darknetxx).
THEOREM NetworkIsAlwaysKept == CfgSpec => []NetworkKept
<1>1. NoLines => lines \in Seq(CfgText)
  BY EmptySeq DEF NoLines
<1>2. lines \in Seq(CfgText) /\ [NextLine]_lines => (lines \in Seq(CfgText))'
  <2> SUFFICES ASSUME lines \in Seq(CfgText), NextLine PROVE lines' \in Seq(CfgText)
    OBVIOUS
  <2>1. PICK l \in CfgLines : lines' = Append(lines, l)
    BY DEF NextLine
  <2>2. l \in CfgText
    BY LinesAreText
  <2> QED BY <2>1, <2>2, AppendProperties
<1>3. lines \in Seq(CfgText) => NetworkKept
  <2> SUFFICES ASSUME lines \in Seq(CfgText) PROVE NetworkKept
    OBVIOUS
  <2>1. valid(lines) => NetworkRead(CfgOf(Json(lines))) = NetworkRead(lines)
    BY ValidIsKept
  <2>2. ~valid(lines) <=> (Headers(lines) = {} \/ \E p \in DOMAIN lines : IsUnnamed(lines, p))
    BY InvalidIsUnnamed
  <2> QED BY <2>1, <2>2 DEF NetworkKept, IsUnnamed
<1> QED BY <1>1, <1>2, <1>3, PTL DEF CfgSpec
-----------------------------------------------------------------------------
-----------------------------------------------------------------------------
(* The parts of the network *)

\* The layers the parts are made of.
LayerSet ==
  {conv(f, z, t) : f \in Int, z \in Int, t \in Int} \cup {route(from) : from \in Seq(Int)}
    \cup {maxpool(z) : z \in Int} \cup {yolo(mask, c) : mask \in SUBSET Int, c \in Int}
    \cup {shortcut, upsample}

LEMMA LayerTypes ==
  /\ \A f, z, t \in Int : conv(f, z, t) \in LayerSet
  /\ \A from \in Seq(Int) : route(from) \in LayerSet
  /\ \A z \in Int : maxpool(z) \in LayerSet
  /\ \A mask \in SUBSET Int, c \in Int : yolo(mask, c) \in LayerSet
  /\ shortcut \in LayerSet /\ upsample \in LayerSet
BY DEF LayerSet

\* The sequence c stands in w behind the place q.
PartAt(w, q, c) == \A i \in 1..Len(c) : w[q + i] = c[i]

LEMMA PartsAre ==
  ASSUME NEW S, NEW a \in Seq(S), NEW b \in Seq(S), NEW n \in Nat, NEW m \in Nat,
         Len(a) = n, Len(b) = m
  PROVE  /\ a \o b \in Seq(S) /\ Len(a \o b) = n + m
         /\ \A i \in 1..n : (a \o b)[i] = a[i]
         /\ \A i \in 1..m : (a \o b)[n + i] = b[i]
<1> DEFINE c == a \o b
<1>1. c \in Seq(S) /\ Len(c) = n + m
      /\ \A i \in 1..(n + m) : c[i] = IF i <= n THEN a[i] ELSE b[i - n]
  <2>1. /\ a \o b \in Seq(S) /\ Len(a \o b) = Len(a) + Len(b)
        /\ \A i \in 1..(Len(a) + Len(b)) : (a \o b)[i] = IF i <= Len(a) THEN a[i] ELSE b[i - Len(a)]
    BY ConcatProperties
  <2> QED BY <2>1
<1> HIDE DEF c
<1>2. \A i \in 1..n : c[i] = a[i]
  BY <1>1
<1>3. ASSUME NEW i \in 1..m PROVE c[n + i] = b[i]
  <2>1. n + i \in 1..(n + m) /\ ~(n + i <= n) /\ (n + i) - n = i
    OBVIOUS
  <2> QED BY <1>1, <2>1
<1> QED BY <1>1, <1>2, <1>3 DEF c

\* A sequence of n layers.
Layered(c, n) == c \in Seq(LayerSet) /\ Len(c) = n

LEMMA Joined ==
  ASSUME NEW a, NEW b, NEW n \in Nat, NEW m \in Nat, Layered(a, n), Layered(b, m)
  PROVE  Layered(a \o b, n + m)
<1>1. /\ a \in Seq(LayerSet) /\ b \in Seq(LayerSet) /\ Len(a) = n /\ Len(b) = m
  BY DEF Layered
<1>2. a \o b \in Seq(LayerSet) /\ Len(a \o b) = n + m
  BY <1>1, PartsAre
<1> QED BY <1>2 DEF Layered

LEMMA PartsAt ==
  ASSUME NEW a, NEW b, NEW n \in Nat, NEW m \in Nat, Layered(a, n), Layered(b, m),
         NEW w, NEW q \in Nat, PartAt(w, q, a \o b)
  PROVE  PartAt(w, q, a) /\ PartAt(w, q + n, b)
<1> DEFINE c == a \o b
<1>1. /\ a \in Seq(LayerSet) /\ b \in Seq(LayerSet) /\ Len(a) = n /\ Len(b) = m
  BY DEF Layered
<1>2. /\ Len(c) = n + m
      /\ \A i \in 1..n : c[i] = a[i]
      /\ \A i \in 1..m : c[n + i] = b[i]
  BY <1>1, PartsAre
<1>3. \A i \in 1..Len(c) : w[q + i] = c[i]
  BY DEF PartAt
<1> HIDE DEF c
<1>4. \A i \in 1..n : i \in 1..(n + m)
  OBVIOUS
<1>5. PartAt(w, q, a)
  BY <1>1, <1>2, <1>3, <1>4 DEF PartAt
<1>6. ASSUME NEW i \in 1..m PROVE w[(q + n) + i] = b[i]
  <2>1. n + i \in 1..(n + m) /\ q + (n + i) = (q + n) + i
    OBVIOUS
  <2>2. w[q + (n + i)] = c[n + i] /\ c[n + i] = b[i]
    BY <1>2, <1>3, <2>1
  <2> QED BY <2>1, <2>2
<1>7. PartAt(w, q + n, b)
  BY <1>1, <1>6 DEF PartAt
<1> QED BY <1>5, <1>7

\* A part of given layers is given by its places.
LEMMA OneAt ==
  ASSUME NEW w, NEW q \in Nat,
         NEW a \in LayerSet
  PROVE  /\ Layered(<<a>>, 1)
         /\ PartAt(w, q, <<a>>) =>
              w[q + 1] = a
<1> DEFINE t == <<a>>
<1>1. t \in Seq(LayerSet) /\ Len(t) = 1
  OBVIOUS
<1>2. t[1] = a
  OBVIOUS
<1> HIDE DEF t
<1>3. 1 \in 1..1
  OBVIOUS
<1>4. PartAt(w, q, t) => w[q + 1] = a
  BY <1>1, <1>2, <1>3 DEF PartAt
<1>5. Layered(t, 1)
  BY <1>1 DEF Layered
<1> QED BY <1>4, <1>5 DEF t

LEMMA ThreeAt ==
  ASSUME NEW w, NEW q \in Nat,
         NEW a \in LayerSet, NEW b \in LayerSet, NEW c \in LayerSet
  PROVE  /\ Layered(<<a, b, c>>, 3)
         /\ PartAt(w, q, <<a, b, c>>) =>
              w[q + 1] = a /\ w[q + 2] = b /\ w[q + 3] = c
<1> DEFINE t == <<a, b, c>>
<1>1. t \in Seq(LayerSet) /\ Len(t) = 3
  OBVIOUS
<1>2. t[1] = a /\ t[2] = b /\ t[3] = c
  OBVIOUS
<1> HIDE DEF t
<1>3. 1 \in 1..3 /\ 2 \in 1..3 /\ 3 \in 1..3
  OBVIOUS
<1>4. PartAt(w, q, t) => w[q + 1] = a /\ w[q + 2] = b /\ w[q + 3] = c
  BY <1>1, <1>2, <1>3 DEF PartAt
<1>5. Layered(t, 3)
  BY <1>1 DEF Layered
<1> QED BY <1>4, <1>5 DEF t

LEMMA FourAt ==
  ASSUME NEW w, NEW q \in Nat,
         NEW a \in LayerSet, NEW b \in LayerSet, NEW c \in LayerSet, NEW d \in LayerSet
  PROVE  /\ Layered(<<a, b, c, d>>, 4)
         /\ PartAt(w, q, <<a, b, c, d>>) =>
              w[q + 1] = a /\ w[q + 2] = b /\ w[q + 3] = c /\ w[q + 4] = d
<1> DEFINE t == <<a, b, c, d>>
<1>1. t \in Seq(LayerSet) /\ Len(t) = 4
  OBVIOUS
<1>2. t[1] = a /\ t[2] = b /\ t[3] = c /\ t[4] = d
  OBVIOUS
<1> HIDE DEF t
<1>3. 1 \in 1..4 /\ 2 \in 1..4 /\ 3 \in 1..4 /\ 4 \in 1..4
  OBVIOUS
<1>4. PartAt(w, q, t) => w[q + 1] = a /\ w[q + 2] = b /\ w[q + 3] = c /\ w[q + 4] = d
  BY <1>1, <1>2, <1>3 DEF PartAt
<1>5. Layered(t, 4)
  BY <1>1 DEF Layered
<1> QED BY <1>4, <1>5 DEF t

LEMMA FiveAt ==
  ASSUME NEW w, NEW q \in Nat,
         NEW a \in LayerSet, NEW b \in LayerSet, NEW c \in LayerSet, NEW d \in LayerSet, NEW e \in LayerSet
  PROVE  /\ Layered(<<a, b, c, d, e>>, 5)
         /\ PartAt(w, q, <<a, b, c, d, e>>) =>
              w[q + 1] = a /\ w[q + 2] = b /\ w[q + 3] = c /\ w[q + 4] = d /\ w[q + 5] = e
<1> DEFINE t == <<a, b, c, d, e>>
<1>1. t \in Seq(LayerSet) /\ Len(t) = 5
  OBVIOUS
<1>2. t[1] = a /\ t[2] = b /\ t[3] = c /\ t[4] = d /\ t[5] = e
  OBVIOUS
<1> HIDE DEF t
<1>3. 1 \in 1..5 /\ 2 \in 1..5 /\ 3 \in 1..5 /\ 4 \in 1..5 /\ 5 \in 1..5
  OBVIOUS
<1>4. PartAt(w, q, t) => w[q + 1] = a /\ w[q + 2] = b /\ w[q + 3] = c /\ w[q + 4] = d /\ w[q + 5] = e
  BY <1>1, <1>2, <1>3 DEF PartAt
<1>5. Layered(t, 5)
  BY <1>1 DEF Layered
<1> QED BY <1>4, <1>5 DEF t

\* Parts of three elements each, one behind the other.
AreThrees(t, k, a, b, c) ==
  /\ Len(t) = 3 * k
  /\ \A j \in 1..k : t[3 * j - 2] = a /\ t[3 * j - 1] = b /\ t[3 * j] = c

LEMMA OneThree ==
  ASSUME NEW S, NEW a \in S, NEW b \in S, NEW c \in S, NEW t, t = <<a, b, c>>
  PROVE  AreThrees(t, 1, a, b, c)
<1>1. Len(t) = 3 * 1 /\ t[1] = a /\ t[2] = b /\ t[3] = c
  OBVIOUS
<1>2. \A j \in 1..1 : 3 * j - 2 = 1 /\ 3 * j - 1 = 2 /\ 3 * j = 3
  OBVIOUS
<1> QED BY <1>1, <1>2 DEF AreThrees

LEMMA ThreeMore ==
  ASSUME NEW S, NEW a \in S, NEW b \in S, NEW c \in S, NEW k \in Nat,
         NEW t \in Seq(S), AreThrees(t, k, a, b, c), NEW three, three = <<a, b, c>>
  PROVE  t \o three \in Seq(S) /\ AreThrees(t \o three, k + 1, a, b, c)
<1> DEFINE r == 3 * k
           u == t \o three
<1>1. /\ three \in Seq(S) /\ Len(three) = 3
      /\ three[1] = a /\ three[2] = b /\ three[3] = c
  OBVIOUS
<1>2. r \in Nat /\ Len(t) = r
  BY DEF AreThrees
<1> HIDE DEF r
<1>3. /\ u \in Seq(S) /\ Len(u) = r + 3
      /\ \A i \in 1..r : u[i] = t[i]
      /\ \A i \in 1..3 : u[r + i] = three[i]
  BY <1>1, <1>2, PartsAre
<1> HIDE DEF u
<1>4. ASSUME NEW j \in 1..(k + 1)
      PROVE  u[3 * j - 2] = a /\ u[3 * j - 1] = b /\ u[3 * j] = c
  <2>1. CASE j = k + 1
    <3>1. 3 * j - 2 = r + 1 /\ 3 * j - 1 = r + 2 /\ 3 * j = r + 3
      BY <2>1 DEF r
    <3>2. u[r + 1] = a /\ u[r + 2] = b /\ u[r + 3] = c
      BY <1>1, <1>3
    <3> QED BY <3>1, <3>2
  <2>2. CASE j # k + 1
    <3>1. j \in 1..k
      BY <2>2
    <3>2. 3 * j - 2 \in 1..r /\ 3 * j - 1 \in 1..r /\ 3 * j \in 1..r
      BY <3>1 DEF r
    <3>3. t[3 * j - 2] = a /\ t[3 * j - 1] = b /\ t[3 * j] = c
      BY <3>1 DEF AreThrees
    <3> QED BY <1>3, <3>2, <3>3
  <2> QED BY <2>1, <2>2
<1>5. Len(u) = 3 * (k + 1)
  BY <1>3 DEF r
<1>6. u \in Seq(S) /\ AreThrees(u, k + 1, a, b, c)
  BY <1>3, <1>4, <1>5 DEF AreThrees
<1> QED BY <1>6 DEF u

LEMMA ThreesAre ==
  ASSUME NEW S, NEW a \in S, NEW b \in S, NEW c \in S, NEW n \in Nat, n # 0
  PROVE  /\ FlattenSeq([j \in 1..n |-> <<a, b, c>>]) \in Seq(S)
         /\ AreThrees(FlattenSeq([j \in 1..n |-> <<a, b, c>>]), n, a, b, c)
<1> DEFINE three == <<a, b, c>>
           parts == [j \in 1..n |-> three]
           Good(t, k) == t \in Seq(S) /\ AreThrees(t, k, a, b, c)
<1>1. three \in Seq(S) /\ Good(three, 1)
  <2>1. three \in Seq(S)
    OBVIOUS
  <2>2. AreThrees(three, 1, a, b, c)
    BY OneThree
  <2> QED BY <2>1, <2>2
<1>2. \A t, k : k \in Nat /\ Good(t, k) => Good(t \o three, k + 1)
  BY ThreeMore
<1> HIDE DEF three
<1>3. Len(parts) = n
  <2>1. parts \in [1..n -> Seq(S)]
    BY <1>1
  <2> HIDE DEF parts
  <2> QED BY <2>1
<1>4. \A k \in 1..n : parts[k] = three
  OBVIOUS
<1> HIDE DEF parts, Good
<1>5. PICK d : Flattens(parts, n, d) /\ FlattenSeq(parts) = d[n]
  BY <1>3, FlattenSeqIs
<1> DEFINE Failing == {k \in Nat : k \in 1..n /\ ~Good(d[k], k)}
<1>6. Failing = {}
  <2> SUFFICES ASSUME Failing # {} PROVE FALSE
    OBVIOUS
  <2>1. PICK k \in Failing : \A j \in Failing : k <= j
    <3>1. Failing \subseteq Nat
      OBVIOUS
    <3> HIDE DEF Failing
    <3> QED BY <3>1, LeastMember
  <2>2. k \in 1..n /\ k \in Nat /\ ~Good(d[k], k)
    BY <2>1
  <2>3. d[k] = IF k = 1 THEN three ELSE d[k - 1] \o three
    BY <1>4, <1>5, <2>2, FlattensAt
  <2>4. k # 1 => k - 1 \in 1..n /\ k - 1 \in Nat /\ ~(k <= k - 1) /\ (k - 1) + 1 = k
    BY <2>2
  <2>5. k # 1 => Good(d[k - 1], k - 1)
    BY <2>1, <2>4
  <2> HIDE DEF Failing
  <2>6. CASE k = 1
    BY <1>1, <2>2, <2>3, <2>6
  <2>7. CASE k # 1
    <3>1. Good(d[k - 1] \o three, (k - 1) + 1)
      BY <1>2, <2>4, <2>5, <2>7
    <3> QED BY <2>2, <2>3, <2>4, <2>7, <3>1
  <2> QED BY <2>6, <2>7
<1>7. Good(d[n], n)
  <2>1. n \in Nat /\ n \in 1..n
    OBVIOUS
  <2> QED BY <1>6, <2>1
<1>8. Good(FlattenSeq(parts), n)
  BY <1>5, <1>7
<1> QED BY <1>8 DEF Good, three, parts
LEMMA NegativesType ==
  /\ \A i \in Int : <<i>> \in Seq(Int)
  /\ \A i, j \in Int : <<i, j>> \in Seq(Int)
  /\ <<-1, -3, -5, -6>> \in Seq(Int)
  /\ -2 \in Int /\ -4 \in Int
<1>1. \A i \in Int : <<i>> \in Seq(Int)
  OBVIOUS
<1>2. \A i, j \in Int : <<i, j>> \in Seq(Int)
  OBVIOUS
<1>3. <<-1, -3, -5, -6>> \in Seq(Int)
  OBVIOUS
<1> QED BY <1>1, <1>2, <1>3

\* A stage of b blocks behind the place q.
StageAt(w, q, f, h, m, b) ==
  /\ w[q + 1] = conv(f, 3, 2) /\ w[q + 2] = conv(h, 1, 1)
  /\ w[q + 3] = route(<<-2>>) /\ w[q + 4] = conv(h, 1, 1)
  /\ \A j \in 1..b : /\ w[q + (4 + (3 * j - 2))] = conv(m, 1, 1)
                     /\ w[q + (4 + (3 * j - 1))] = conv(h, 3, 1)
                     /\ w[q + (4 + 3 * j)] = shortcut
  /\ w[q + (3 * b + 5)] = conv(h, 1, 1)
  /\ w[q + (3 * b + 6)] = route(<<-1, -(b * 3 + 4)>>)
  /\ w[q + (3 * b + 7)] = conv(f, 1, 1)

LEMMA StageIs ==
  ASSUME NEW f \in Int, NEW h \in Int, NEW m \in Int, NEW b \in Nat, b # 0
  PROVE  /\ Layered(csp_stage(f, h, m, b), 3 * b + 7)
         /\ \A w : \A q \in Nat :
              PartAt(w, q, csp_stage(f, h, m, b)) => StageAt(w, q, f, h, m, b)
<1> DEFINE c1 == conv(f, 3, 2)
           c2 == conv(h, 1, 1)
           c3 == route(<<-2>>)
           m1 == conv(m, 1, 1)
           m2 == conv(h, 3, 1)
           e2 == route(<<-1, -(b * 3 + 4)>>)
           e3 == conv(f, 1, 1)
           begin == <<c1, c2, c3, c2>>
           blocks == FlattenSeq([j \in 1..b |-> <<m1, m2, shortcut>>])
           end == <<c2, e2, e3>>
<1>1. csp_stage(f, h, m, b) = (begin \o blocks) \o end
  BY Zenon DEF csp_stage
<1>2. /\ c1 \in LayerSet /\ c2 \in LayerSet /\ c3 \in LayerSet /\ m1 \in LayerSet
      /\ m2 \in LayerSet /\ e2 \in LayerSet /\ e3 \in LayerSet /\ shortcut \in LayerSet
  <2>1. 1 \in Int /\ 2 \in Int /\ 3 \in Int /\ -1 \in Int /\ -2 \in Int /\ -(b * 3 + 4) \in Int
    OBVIOUS
  <2>2. <<-2>> \in Seq(Int) /\ <<-1, -(b * 3 + 4)>> \in Seq(Int)
    BY <2>1, NegativesType
  <2> QED BY <2>1, <2>2, LayerTypes
<1> HIDE DEF c1, c2, c3, m1, m2, e2, e3
<1>3. /\ Layered(begin, 4) /\ Layered(end, 3)
      /\ \A w : \A q \in Nat : PartAt(w, q, begin) =>
           w[q + 1] = c1 /\ w[q + 2] = c2 /\ w[q + 3] = c3 /\ w[q + 4] = c2
      /\ \A w : \A q \in Nat : PartAt(w, q, end) =>
           w[q + 1] = c2 /\ w[q + 2] = e2 /\ w[q + 3] = e3
  <2>1. 0 \in Nat
    OBVIOUS
  <2>2. Layered(begin, 4)
    BY <1>2, <2>1, FourAt
  <2>3. Layered(end, 3)
    BY <1>2, <2>1, ThreeAt
  <2>4. ASSUME NEW w, NEW q \in Nat, PartAt(w, q, begin)
        PROVE  w[q + 1] = c1 /\ w[q + 2] = c2 /\ w[q + 3] = c3 /\ w[q + 4] = c2
    BY <1>2, <2>4, FourAt
  <2>5. ASSUME NEW w, NEW q \in Nat, PartAt(w, q, end)
        PROVE  w[q + 1] = c2 /\ w[q + 2] = e2 /\ w[q + 3] = e3
    BY <1>2, <2>5, ThreeAt
  <2> QED BY <2>2, <2>3, <2>4, <2>5
<1>4. blocks \in Seq(LayerSet) /\ AreThrees(blocks, b, m1, m2, shortcut)
  BY <1>2, ThreesAre
<1> HIDE DEF begin, blocks, end
<1>5. Layered(blocks, 3 * b)
  BY <1>4 DEF Layered, AreThrees
<1>6. 4 \in Nat /\ 3 \in Nat /\ 3 * b \in Nat /\ 4 + 3 * b \in Nat
  OBVIOUS
<1>7. Layered(begin \o blocks, 4 + 3 * b)
  BY <1>3, <1>5, <1>6, Joined
<1>8. Layered((begin \o blocks) \o end, (4 + 3 * b) + 3)
  BY <1>3, <1>6, <1>7, Joined
<1>9. (4 + 3 * b) + 3 = 3 * b + 7
  OBVIOUS
<1>10. ASSUME NEW w, NEW q \in Nat, PartAt(w, q, (begin \o blocks) \o end)
       PROVE  StageAt(w, q, f, h, m, b)
  <2>1. PartAt(w, q, begin \o blocks) /\ PartAt(w, q + (4 + 3 * b), end)
    BY <1>3, <1>6, <1>7, <1>10, PartsAt
  <2>2. PartAt(w, q, begin) /\ PartAt(w, q + 4, blocks)
    BY <1>3, <1>5, <1>6, <2>1, PartsAt
  <2>3. w[q + 1] = c1 /\ w[q + 2] = c2 /\ w[q + 3] = c3 /\ w[q + 4] = c2
    BY <1>3, <2>2
  <2>4. /\ w[q + (3 * b + 5)] = c2 /\ w[q + (3 * b + 6)] = e2 /\ w[q + (3 * b + 7)] = e3
    <3>1. q + (4 + 3 * b) \in Nat
      OBVIOUS
    <3>2. /\ w[(q + (4 + 3 * b)) + 1] = c2 /\ w[(q + (4 + 3 * b)) + 2] = e2
          /\ w[(q + (4 + 3 * b)) + 3] = e3
      BY <1>3, <2>1, <3>1
    <3>3. /\ (q + (4 + 3 * b)) + 1 = q + (3 * b + 5) /\ (q + (4 + 3 * b)) + 2 = q + (3 * b + 6)
          /\ (q + (4 + 3 * b)) + 3 = q + (3 * b + 7)
      OBVIOUS
    <3> QED BY <3>2, <3>3
  <2>5. ASSUME NEW j \in 1..b
        PROVE  /\ w[q + (4 + (3 * j - 2))] = m1 /\ w[q + (4 + (3 * j - 1))] = m2
               /\ w[q + (4 + 3 * j)] = shortcut
    <3>1. Len(blocks) = 3 * b
      BY <1>5 DEF Layered
    <3>2. blocks[3 * j - 2] = m1 /\ blocks[3 * j - 1] = m2 /\ blocks[3 * j] = shortcut
      BY <1>4 DEF AreThrees
    <3>3. 3 * j - 2 \in 1..(3 * b) /\ 3 * j - 1 \in 1..(3 * b) /\ 3 * j \in 1..(3 * b)
      OBVIOUS
    <3>4. \A i \in 1..(3 * b) : w[(q + 4) + i] = blocks[i]
      BY <2>2, <3>1 DEF PartAt
    <3>5. /\ (q + 4) + (3 * j - 2) = q + (4 + (3 * j - 2))
          /\ (q + 4) + (3 * j - 1) = q + (4 + (3 * j - 1)) /\ (q + 4) + 3 * j = q + (4 + 3 * j)
      OBVIOUS
    <3>6. /\ w[(q + 4) + (3 * j - 2)] = m1 /\ w[(q + 4) + (3 * j - 1)] = m2
          /\ w[(q + 4) + 3 * j] = shortcut
      BY <3>2, <3>3, <3>4
    <3> QED BY <3>5, <3>6
  <2> QED BY <2>3, <2>4, <2>5 DEF StageAt, c1, c2, c3, m1, m2, e2, e3
<1>11. Layered((begin \o blocks) \o end, 3 * b + 7)
  BY <1>8, <1>9
<1> QED BY <1>1, <1>10, <1>11

LEMMA LayerFields ==
  /\ \A f, z, t : /\ conv(f, z, t).type = "convolutional" /\ conv(f, z, t).from = <<-1>>
                  /\ conv(f, z, t).filters = f /\ conv(f, z, t).stride = t
  /\ \A from : route(from).type = "route" /\ route(from).from = from
  /\ \A z : maxpool(z).type = "maxpool" /\ maxpool(z).from = <<-1>>
  /\ \A mask, c : /\ yolo(mask, c).type = "yolo" /\ yolo(mask, c).from = <<-1>>
                  /\ yolo(mask, c).mask = mask
  /\ shortcut.type = "shortcut" /\ shortcut.from = <<-1, -3>>
  /\ upsample.type = "upsample" /\ upsample.from = <<-1>>
BY DEF conv, route, maxpool, yolo, shortcut, upsample

\* A convolution that leaves the resolution.
IsConv(l) == l.type = "convolutional" /\ l.from = <<-1>> /\ l.stride = 1

ThreeConvsAt(w, q) == IsConv(w[q + 1]) /\ IsConv(w[q + 2]) /\ IsConv(w[q + 3])

SppAt(w, q) ==
  /\ w[q + 1] = maxpool(5) /\ w[q + 2] = route(<<-2>>) /\ w[q + 3] = maxpool(9)
  /\ w[q + 4] = route(<<-4>>) /\ w[q + 5] = maxpool(13) /\ w[q + 6] = route(<<-1, -3, -5, -6>>)

MergeAt(w, q, layer) ==
  /\ IsConv(w[q + 1]) /\ w[q + 2] = upsample /\ w[q + 3] = route(<<layer>>)
  /\ IsConv(w[q + 4]) /\ w[q + 5] = route(<<-1, -3>>)

ConvSetAt(w, q) ==
  /\ IsConv(w[q + 1]) /\ IsConv(w[q + 2]) /\ IsConv(w[q + 3])
  /\ IsConv(w[q + 4]) /\ IsConv(w[q + 5])

HeadAt(w, q, mask, count) ==
  /\ IsConv(w[q + 1]) /\ IsConv(w[q + 2]) /\ w[q + 2].filters = yolo_filters(count)
  /\ w[q + 3] = yolo(mask, count)

\* The way back down from a detector.
DownAt(w, q, back) ==
  /\ w[q + 1] = route(<<-4>>)
  /\ w[q + 2].type = "convolutional" /\ w[q + 2].from = <<-1>> /\ w[q + 2].stride = 2
  /\ w[q + 3] = route(<<-1, back>>)

LEMMA ConvIs ==
  ASSUME NEW f \in Int, NEW z \in Int
  PROVE  conv(f, z, 1) \in LayerSet /\ IsConv(conv(f, z, 1))
<1>1. 1 \in Int
  OBVIOUS
<1>2. conv(f, z, 1) \in LayerSet
  BY <1>1, LayerTypes
<1>3. IsConv(conv(f, z, 1))
  BY <1>1, LayerFields DEF IsConv
<1> QED BY <1>2, <1>3

LEMMA ThreeConvsAre ==
  ASSUME NEW a \in Int, NEW b \in Int, NEW c \in Int
  PROVE  LET t == <<conv(a, 1, 1), conv(b, 3, 1), conv(c, 1, 1)>>
         IN  Layered(t, 3) /\ \A w : \A q \in Nat : PartAt(w, q, t) => ThreeConvsAt(w, q)
<1> DEFINE c1 == conv(a, 1, 1)
           c2 == conv(b, 3, 1)
           c3 == conv(c, 1, 1)
<1>1. /\ c1 \in LayerSet /\ IsConv(c1) /\ c2 \in LayerSet /\ IsConv(c2)
      /\ c3 \in LayerSet /\ IsConv(c3)
  <2>1. 1 \in Int /\ 3 \in Int
    OBVIOUS
  <2> QED BY <2>1, ConvIs
<1> HIDE DEF c1, c2, c3
<1>2. 0 \in Nat
  OBVIOUS
<1>3. Layered(<<c1, c2, c3>>, 3)
  BY <1>1, <1>2, ThreeAt
<1>4. ASSUME NEW w, NEW q \in Nat, PartAt(w, q, <<c1, c2, c3>>) PROVE ThreeConvsAt(w, q)
  <2>1. w[q + 1] = c1 /\ w[q + 2] = c2 /\ w[q + 3] = c3
    BY <1>1, <1>4, ThreeAt
  <2> QED BY <1>1, <2>1 DEF ThreeConvsAt
<1> QED BY <1>3, <1>4 DEF c1, c2, c3

LEMMA SppIs ==
  Layered(spp, 6) /\ \A w : \A q \in Nat : PartAt(w, q, spp) => SppAt(w, q)
<1> DEFINE m5 == maxpool(5)
           m9 == maxpool(9)
           m13 == maxpool(13)
           r2 == route(<<-2>>)
           r4 == route(<<-4>>)
           all == route(<<-1, -3, -5, -6>>)
<1>1. /\ m5 \in LayerSet /\ m9 \in LayerSet /\ m13 \in LayerSet
      /\ r2 \in LayerSet /\ r4 \in LayerSet /\ all \in LayerSet
  <2>1. 5 \in Int /\ 9 \in Int /\ 13 \in Int
    OBVIOUS
  <2> QED BY <2>1, NegativesType, LayerTypes
<1> HIDE DEF m5, m9, m13, r2, r4, all
<1>2. spp = <<m5, r2, m9, r4, m13, all>>
  BY Zenon DEF spp, m5, m9, m13, r2, r4, all
<1> DEFINE t == <<m5, r2, m9, r4, m13, all>>
<1>3. t \in Seq(LayerSet) /\ Len(t) = 6
  BY <1>1
<1>4. t[1] = m5 /\ t[2] = r2 /\ t[3] = m9 /\ t[4] = r4 /\ t[5] = m13 /\ t[6] = all
  OBVIOUS
<1> HIDE DEF t
<1>5. 1 \in 1..6 /\ 2 \in 1..6 /\ 3 \in 1..6 /\ 4 \in 1..6 /\ 5 \in 1..6 /\ 6 \in 1..6
  OBVIOUS
<1>6. ASSUME NEW w, NEW q \in Nat, PartAt(w, q, t) PROVE SppAt(w, q)
  <2>1. /\ w[q + 1] = m5 /\ w[q + 2] = r2 /\ w[q + 3] = m9
        /\ w[q + 4] = r4 /\ w[q + 5] = m13 /\ w[q + 6] = all
    BY <1>3, <1>4, <1>5, <1>6 DEF PartAt
  <2> QED BY <2>1, Zenon DEF SppAt, m5, m9, m13, r2, r4, all
<1>7. Layered(t, 6)
  BY <1>3 DEF Layered
<1> QED BY <1>2, <1>6, <1>7 DEF t

LEMMA MergeIs ==
  ASSUME NEW f \in Int, NEW layer \in Int
  PROVE  /\ Layered(upsample_merge(f, layer), 5)
         /\ \A w : \A q \in Nat : PartAt(w, q, upsample_merge(f, layer)) => MergeAt(w, q, layer)
<1> DEFINE c1 == conv(f, 1, 1)
           r1 == route(<<layer>>)
           r2 == route(<<-1, -3>>)
<1>1. /\ c1 \in LayerSet /\ IsConv(c1) /\ upsample \in LayerSet
      /\ r1 \in LayerSet /\ r2 \in LayerSet
  <2>1. 1 \in Int /\ -1 \in Int /\ -3 \in Int
    OBVIOUS
  <2>2. <<layer>> \in Seq(Int) /\ <<-1, -3>> \in Seq(Int)
    BY <2>1, NegativesType
  <2> QED BY <2>1, <2>2, ConvIs, LayerTypes
<1> HIDE DEF c1, r1, r2
<1>2. upsample_merge(f, layer) = <<c1, upsample, r1, c1, r2>>
  BY Zenon DEF upsample_merge, c1, r1, r2
<1>3. 0 \in Nat
  OBVIOUS
<1>4. Layered(<<c1, upsample, r1, c1, r2>>, 5)
  BY <1>1, <1>3, FiveAt
<1>5. ASSUME NEW w, NEW q \in Nat, PartAt(w, q, <<c1, upsample, r1, c1, r2>>)
      PROVE  MergeAt(w, q, layer)
  <2>1. /\ w[q + 1] = c1 /\ w[q + 2] = upsample /\ w[q + 3] = r1
        /\ w[q + 4] = c1 /\ w[q + 5] = r2
    BY <1>1, <1>5, FiveAt
  <2> QED BY <1>1, <2>1 DEF MergeAt, r1, r2
<1> QED BY <1>2, <1>4, <1>5

LEMMA ConvSetIs ==
  ASSUME NEW f \in Int
  PROVE  /\ Layered(conv_set(f), 5)
         /\ \A w : \A q \in Nat : PartAt(w, q, conv_set(f)) => ConvSetAt(w, q)
<1> DEFINE c1 == conv(f, 1, 1)
           c2 == conv(f * 2, 3, 1)
<1>1. c1 \in LayerSet /\ IsConv(c1) /\ c2 \in LayerSet /\ IsConv(c2)
  <2>1. 1 \in Int /\ 3 \in Int /\ f * 2 \in Int
    OBVIOUS
  <2> QED BY <2>1, ConvIs
<1> HIDE DEF c1, c2
<1>2. conv_set(f) = <<c1, c2, c1, c2, c1>>
  BY Zenon DEF conv_set, c1, c2
<1>3. 0 \in Nat
  OBVIOUS
<1>4. Layered(<<c1, c2, c1, c2, c1>>, 5)
  BY <1>1, <1>3, FiveAt
<1>5. ASSUME NEW w, NEW q \in Nat, PartAt(w, q, <<c1, c2, c1, c2, c1>>) PROVE ConvSetAt(w, q)
  <2>1. /\ w[q + 1] = c1 /\ w[q + 2] = c2 /\ w[q + 3] = c1 /\ w[q + 4] = c2 /\ w[q + 5] = c1
    BY <1>1, <1>5, FiveAt
  <2> QED BY <1>1, <2>1 DEF ConvSetAt
<1> QED BY <1>2, <1>4, <1>5

LEMMA HeadIs ==
  ASSUME NEW f \in Int, NEW mask \in SUBSET Int, NEW count \in Nat
  PROVE  /\ Layered(head(f, mask, count), 3)
         /\ \A w : \A q \in Nat :
              PartAt(w, q, head(f, mask, count)) => HeadAt(w, q, mask, count)
<1> DEFINE c1 == conv(f * 2, 3, 1)
           c2 == conv(yolo_filters(count), 1, 1)
           y == yolo(mask, count)
<1>1. /\ c1 \in LayerSet /\ IsConv(c1) /\ c2 \in LayerSet /\ IsConv(c2)
      /\ c2.filters = yolo_filters(count) /\ y \in LayerSet
  <2>1. 1 \in Int /\ 3 \in Int /\ f * 2 \in Int /\ yolo_filters(count) \in Int /\ count \in Int
    BY DEF yolo_filters
  <2> QED BY <2>1, ConvIs, LayerTypes, LayerFields
<1> HIDE DEF c1, c2, y
<1>2. head(f, mask, count) = <<c1, c2, y>>
  BY Zenon DEF head, c1, c2, y
<1>3. 0 \in Nat
  OBVIOUS
<1>4. Layered(<<c1, c2, y>>, 3)
  BY <1>1, <1>3, ThreeAt
<1>5. ASSUME NEW w, NEW q \in Nat, PartAt(w, q, <<c1, c2, y>>)
      PROVE  HeadAt(w, q, mask, count)
  <2>1. w[q + 1] = c1 /\ w[q + 2] = c2 /\ w[q + 3] = y
    BY <1>1, <1>5, ThreeAt
  <2> QED BY <1>1, <2>1 DEF HeadAt, y
<1> QED BY <1>2, <1>4, <1>5

LEMMA DownIs ==
  ASSUME NEW f \in Int, NEW back \in Int
  PROVE  LET t == <<route(<<-4>>), conv(f, 3, 2), route(<<-1, back>>)>>
         IN  Layered(t, 3) /\ \A w : \A q \in Nat : PartAt(w, q, t) => DownAt(w, q, back)
<1> DEFINE r1 == route(<<-4>>)
           c1 == conv(f, 3, 2)
           r2 == route(<<-1, back>>)
<1>1. /\ r1 \in LayerSet /\ r2 \in LayerSet /\ c1 \in LayerSet
      /\ c1.type = "convolutional" /\ c1.from = <<-1>> /\ c1.stride = 2
  <2>1. -1 \in Int /\ -4 \in Int /\ 2 \in Int /\ 3 \in Int
    OBVIOUS
  <2>2. <<-4>> \in Seq(Int) /\ <<-1, back>> \in Seq(Int)
    BY <2>1, NegativesType
  <2>3. r1 \in LayerSet /\ r2 \in LayerSet
    BY <2>2, LayerTypes
  <2>4. c1 \in LayerSet
    BY <2>1, LayerTypes
  <2>5. c1.type = "convolutional" /\ c1.from = <<-1>> /\ c1.stride = 2
    BY <2>1, LayerFields
  <2> QED BY <2>3, <2>4, <2>5
<1> HIDE DEF r1, c1, r2
<1>2. 0 \in Nat
  OBVIOUS
<1>3. Layered(<<r1, c1, r2>>, 3)
  BY <1>1, <1>2, ThreeAt
<1>4. ASSUME NEW w, NEW q \in Nat, PartAt(w, q, <<r1, c1, r2>>) PROVE DownAt(w, q, back)
  <2>1. w[q + 1] = r1 /\ w[q + 2] = c1 /\ w[q + 3] = r2
    BY <1>1, <1>4, ThreeAt
  <2> QED BY <1>1, <2>1 DEF DownAt, r1, r2
<1> QED BY <1>3, <1>4 DEF r1, c1, r2

\* The first 105 layers, and the two the neck comes back to.
BackboneAt(w) ==
  /\ IsConv(w[1]) /\ StageAt(w, 1, 64, 64, 32, 1) /\ StageAt(w, 11, 128, 64, 64, 2)
  /\ StageAt(w, 24, 256, 128, 128, 8) /\ StageAt(w, 55, 512, 256, 256, 8)
  /\ StageAt(w, 86, 1024, 512, 512, 4)

LEMMA StageOf ==
  ASSUME NEW f \in Int, NEW h \in Int, NEW m \in Int, NEW b \in Nat, b # 0,
         NEW c, c = csp_stage(f, h, m, b), NEW n \in Nat, n = 3 * b + 7
  PROVE  /\ Layered(c, n)
         /\ \A w : \A q \in Nat : PartAt(w, q, c) => StageAt(w, q, f, h, m, b)
BY StageIs

LEMMA BackboneIs ==
  /\ Layered(backbone, 105) /\ merges = <<85, 54>>
  /\ \A w : PartAt(w, 0, backbone) => BackboneAt(w)
<1> DEFINE c0 == conv(32, 3, 1)
           s1 == csp_stage(64, 64, 32, 1)
           s2 == csp_stage(128, 64, 64, 2)
           s3 == csp_stage(256, 128, 128, 8)
           s4 == csp_stage(512, 256, 256, 8)
           s5 == csp_stage(1024, 512, 512, 4)
           p0 == <<c0>>
           p1 == p0 \o s1
           p2 == p1 \o s2
           p3 == p2 \o s3
           p4 == p3 \o s4
           p5 == p4 \o s5
<1>1. UpToStride8 = p3 /\ UpToStride16 = p4 /\ backbone = p5
  BY DEF UpToStride8, UpToStride16, backbone
<1>2. c0 \in LayerSet /\ IsConv(c0)
  BY ConvIs
<1>3. Layered(s1, 10) /\ \A w : \A q \in Nat : PartAt(w, q, s1) => StageAt(w, q, 64, 64, 32, 1)
  BY StageOf
<1>4. Layered(s2, 13) /\ \A w : \A q \in Nat : PartAt(w, q, s2) => StageAt(w, q, 128, 64, 64, 2)
  BY StageOf
<1>5. Layered(s3, 31) /\ \A w : \A q \in Nat : PartAt(w, q, s3) => StageAt(w, q, 256, 128, 128, 8)
  BY StageOf
<1>6. Layered(s4, 31) /\ \A w : \A q \in Nat : PartAt(w, q, s4) => StageAt(w, q, 512, 256, 256, 8)
  BY StageOf
<1>7. Layered(s5, 19) /\ \A w : \A q \in Nat : PartAt(w, q, s5) => StageAt(w, q, 1024, 512, 512, 4)
  BY StageOf
<1> HIDE DEF c0, s1, s2, s3, s4, s5
<1>8. Layered(p0, 1) /\ \A w : PartAt(w, 0, p0) => w[1] = c0
  BY <1>2, OneAt
<1> HIDE DEF p0
<1>9. Layered(p1, 11)
  BY <1>3, <1>8, Joined
<1>10. Layered(p2, 24)
  <2> HIDE DEF p1
  <2> QED BY <1>4, <1>9, Joined
<1>11. Layered(p3, 55)
  <2> HIDE DEF p2
  <2> QED BY <1>5, <1>10, Joined
<1>12. Layered(p4, 86)
  <2> HIDE DEF p3
  <2> QED BY <1>6, <1>11, Joined
<1>13. Layered(p5, 105)
  <2> HIDE DEF p4
  <2> QED BY <1>7, <1>12, Joined
<1>14. merges = <<85, 54>>
  <2> HIDE DEF p3, p4, p5
  <2>1. Len(UpToStride16) = 86 /\ Len(UpToStride8) = 55
    BY <1>1, <1>11, <1>12 DEF Layered
  <2>2. 86 - 1 = 85 /\ 55 - 1 = 54
    OBVIOUS
  <2> QED BY <2>1, <2>2 DEF merges
<1>15. ASSUME NEW w, PartAt(w, 0, p5) PROVE BackboneAt(w)
  <2>1. PartAt(w, 0, p4) /\ PartAt(w, 86, s5)
    <3> HIDE DEF p4
    <3>1. PartAt(w, 0, p4) /\ PartAt(w, 0 + 86, s5)
      BY <1>7, <1>12, <1>15, PartsAt
    <3> QED BY <3>1
  <2>2. PartAt(w, 0, p3) /\ PartAt(w, 55, s4)
    <3> HIDE DEF p3
    <3>1. PartAt(w, 0, p3) /\ PartAt(w, 0 + 55, s4)
      BY <1>6, <1>11, <2>1, PartsAt
    <3> QED BY <3>1
  <2>3. PartAt(w, 0, p2) /\ PartAt(w, 24, s3)
    <3> HIDE DEF p2
    <3>1. PartAt(w, 0, p2) /\ PartAt(w, 0 + 24, s3)
      BY <1>5, <1>10, <2>2, PartsAt
    <3> QED BY <3>1
  <2>4. PartAt(w, 0, p1) /\ PartAt(w, 11, s2)
    <3> HIDE DEF p1
    <3>1. PartAt(w, 0, p1) /\ PartAt(w, 0 + 11, s2)
      BY <1>4, <1>9, <2>3, PartsAt
    <3> QED BY <3>1
  <2>5. PartAt(w, 0, p0) /\ PartAt(w, 1, s1)
    <3>1. PartAt(w, 0, p0) /\ PartAt(w, 0 + 1, s1)
      BY <1>3, <1>8, <2>4, PartsAt
    <3> QED BY <3>1
  <2>6. IsConv(w[1])
    BY <1>2, <1>8, <2>5
  <2> HIDE DEF p1, p2, p3, p4
  <2>7. /\ StageAt(w, 1, 64, 64, 32, 1) /\ StageAt(w, 11, 128, 64, 64, 2)
        /\ StageAt(w, 24, 256, 128, 128, 8)
    BY <1>3, <1>4, <1>5, <2>3, <2>4, <2>5
  <2>8. StageAt(w, 55, 512, 256, 256, 8) /\ StageAt(w, 86, 1024, 512, 512, 4)
    BY <1>6, <1>7, <2>1, <2>2
  <2> QED BY <2>6, <2>7, <2>8 DEF BackboneAt
<1> HIDE DEF p5
<1> QED BY <1>1, <1>13, <1>14, <1>15

\* The neck, behind the backbone.
NeckAt(w) ==
  /\ ThreeConvsAt(w, 105)
  /\ SppAt(w, 108)
  /\ ThreeConvsAt(w, 114)
  /\ MergeAt(w, 117, 85)
  /\ ConvSetAt(w, 122)
  /\ MergeAt(w, 127, 54)
  /\ ConvSetAt(w, 132)

LEMMA NeckIs ==
  /\ Layered(neck, 32)
  /\ \A w : PartAt(w, 105, neck) => NeckAt(w)
<1> DEFINE s0 == <<conv(512, 1, 1), conv(1024, 3, 1), conv(512, 1, 1)>>
           s1 == spp
           s2 == <<conv(512, 1, 1), conv(1024, 3, 1), conv(512, 1, 1)>>
           s3 == upsample_merge(256, 85)
           s4 == conv_set(256)
           s5 == upsample_merge(128, 54)
           s6 == conv_set(128)
           p1 == s0 \o s1
           p2 == p1 \o s2
           p3 == p2 \o s3
           p4 == p3 \o s4
           p5 == p4 \o s5
           p6 == p5 \o s6
<1>1. neck = p6
  <2>1. merges[1] = 85 /\ merges[2] = 54
    BY BackboneIs
  <2> QED BY <2>1 DEF neck
<1>2. Layered(s0, 3) /\ \A w : \A q \in Nat : PartAt(w, q, s0) => ThreeConvsAt(w, q)
  BY ThreeConvsAre
<1>3. Layered(s1, 6) /\ \A w : \A q \in Nat : PartAt(w, q, s1) => SppAt(w, q)
  BY SppIs
<1>4. Layered(s2, 3) /\ \A w : \A q \in Nat : PartAt(w, q, s2) => ThreeConvsAt(w, q)
  BY ThreeConvsAre
<1>5. Layered(s3, 5) /\ \A w : \A q \in Nat : PartAt(w, q, s3) => MergeAt(w, q, 85)
  BY MergeIs
<1>6. Layered(s4, 5) /\ \A w : \A q \in Nat : PartAt(w, q, s4) => ConvSetAt(w, q)
  BY ConvSetIs
<1>7. Layered(s5, 5) /\ \A w : \A q \in Nat : PartAt(w, q, s5) => MergeAt(w, q, 54)
  BY MergeIs
<1>8. Layered(s6, 5) /\ \A w : \A q \in Nat : PartAt(w, q, s6) => ConvSetAt(w, q)
  BY ConvSetIs
<1> HIDE DEF s0, s1, s2, s3, s4, s5, s6
<1>9. Layered(p1, 9)
  <2>1. Layered(p1, 3 + 6)
    BY <1>2, <1>3, Joined
  <2> HIDE DEF p1
  <2> QED BY <2>1
<1>10. Layered(p2, 12)
  <2>1. Layered(p2, 9 + 3)
    <3> HIDE DEF p1
    <3> QED BY <1>4, <1>9, Joined
  <2> HIDE DEF p2
  <2> QED BY <2>1
<1>11. Layered(p3, 17)
  <2>1. Layered(p3, 12 + 5)
    <3> HIDE DEF p2
    <3> QED BY <1>5, <1>10, Joined
  <2> HIDE DEF p3
  <2> QED BY <2>1
<1>12. Layered(p4, 22)
  <2>1. Layered(p4, 17 + 5)
    <3> HIDE DEF p3
    <3> QED BY <1>6, <1>11, Joined
  <2> HIDE DEF p4
  <2> QED BY <2>1
<1>13. Layered(p5, 27)
  <2>1. Layered(p5, 22 + 5)
    <3> HIDE DEF p4
    <3> QED BY <1>7, <1>12, Joined
  <2> HIDE DEF p5
  <2> QED BY <2>1
<1>14. Layered(p6, 32)
  <2>1. Layered(p6, 27 + 5)
    <3> HIDE DEF p5
    <3> QED BY <1>8, <1>13, Joined
  <2> HIDE DEF p6
  <2> QED BY <2>1
<1>15. ASSUME NEW w, PartAt(w, 105, p6) PROVE NeckAt(w)
  <2>1. PartAt(w, 105, p5) /\ PartAt(w, 132, s6)
    <3> HIDE DEF p5
    <3>1. PartAt(w, 105, p5) /\ PartAt(w, 105 + 27, s6)
      BY <1>8, <1>13, <1>15, PartsAt
    <3> QED BY <3>1
  <2>2. PartAt(w, 105, p4) /\ PartAt(w, 127, s5)
    <3> HIDE DEF p4
    <3>1. PartAt(w, 105, p4) /\ PartAt(w, 105 + 22, s5)
      BY <1>7, <1>12, <2>1, PartsAt
    <3> QED BY <3>1
  <2>3. PartAt(w, 105, p3) /\ PartAt(w, 122, s4)
    <3> HIDE DEF p3
    <3>1. PartAt(w, 105, p3) /\ PartAt(w, 105 + 17, s4)
      BY <1>6, <1>11, <2>2, PartsAt
    <3> QED BY <3>1
  <2>4. PartAt(w, 105, p2) /\ PartAt(w, 117, s3)
    <3> HIDE DEF p2
    <3>1. PartAt(w, 105, p2) /\ PartAt(w, 105 + 12, s3)
      BY <1>5, <1>10, <2>3, PartsAt
    <3> QED BY <3>1
  <2>5. PartAt(w, 105, p1) /\ PartAt(w, 114, s2)
    <3> HIDE DEF p1
    <3>1. PartAt(w, 105, p1) /\ PartAt(w, 105 + 9, s2)
      BY <1>4, <1>9, <2>4, PartsAt
    <3> QED BY <3>1
  <2>6. PartAt(w, 105, s0) /\ PartAt(w, 108, s1)
    <3>1. PartAt(w, 105, s0) /\ PartAt(w, 105 + 3, s1)
      BY <1>3, <1>2, <2>5, PartsAt
    <3> QED BY <3>1
  <2> HIDE DEF p1, p2, p3, p4, p5, p6
  <2>7. ThreeConvsAt(w, 105)
    BY <1>2, <2>6
  <2>8. SppAt(w, 108)
    BY <1>3, <2>6
  <2>9. ThreeConvsAt(w, 114)
    BY <1>4, <2>5
  <2>10. MergeAt(w, 117, 85)
    BY <1>5, <2>4
  <2>11. ConvSetAt(w, 122)
    BY <1>6, <2>3
  <2>12. MergeAt(w, 127, 54)
    BY <1>7, <2>2
  <2>13. ConvSetAt(w, 132)
    BY <1>8, <2>1
  <2> QED BY <2>7, <2>8, <2>9, <2>10, <2>11, <2>12, <2>13 DEF NeckAt
<1> HIDE DEF p6
<1> QED BY <1>1, <1>14, <1>15

\* The detectors, behind the neck.
HeadsAt(w, count) ==
  /\ HeadAt(w, 137, {0, 1, 2}, count)
  /\ DownAt(w, 140, -16)
  /\ ConvSetAt(w, 143)
  /\ HeadAt(w, 148, {3, 4, 5}, count)
  /\ DownAt(w, 151, -37)
  /\ ConvSetAt(w, 154)
  /\ HeadAt(w, 159, {6, 7, 8}, count)

LEMMA HeadsAre ==
  ASSUME NEW count \in Nat
  PROVE  /\ Layered(heads(count), 25)
         /\ \A w : PartAt(w, 137, heads(count)) => HeadsAt(w, count)
<1> DEFINE s0 == head(128, {0, 1, 2}, count)
           s1 == <<route(<<-4>>), conv(256, 3, 2), route(<<-1, -16>>)>>
           s2 == conv_set(256)
           s3 == head(256, {3, 4, 5}, count)
           s4 == <<route(<<-4>>), conv(512, 3, 2), route(<<-1, -37>>)>>
           s5 == conv_set(512)
           s6 == head(512, {6, 7, 8}, count)
           p1 == s0 \o s1
           p2 == p1 \o s2
           p3 == p2 \o s3
           p4 == p3 \o s4
           p5 == p4 \o s5
           p6 == p5 \o s6
<1>1. heads(count) = p6
  BY DEF heads
<1>2. Layered(s0, 3) /\ \A w : \A q \in Nat : PartAt(w, q, s0) => HeadAt(w, q, {0, 1, 2}, count)
  BY HeadIs
<1>3. Layered(s1, 3) /\ \A w : \A q \in Nat : PartAt(w, q, s1) => DownAt(w, q, -16)
  BY DownIs
<1>4. Layered(s2, 5) /\ \A w : \A q \in Nat : PartAt(w, q, s2) => ConvSetAt(w, q)
  BY ConvSetIs
<1>5. Layered(s3, 3) /\ \A w : \A q \in Nat : PartAt(w, q, s3) => HeadAt(w, q, {3, 4, 5}, count)
  BY HeadIs
<1>6. Layered(s4, 3) /\ \A w : \A q \in Nat : PartAt(w, q, s4) => DownAt(w, q, -37)
  BY DownIs
<1>7. Layered(s5, 5) /\ \A w : \A q \in Nat : PartAt(w, q, s5) => ConvSetAt(w, q)
  BY ConvSetIs
<1>8. Layered(s6, 3) /\ \A w : \A q \in Nat : PartAt(w, q, s6) => HeadAt(w, q, {6, 7, 8}, count)
  BY HeadIs
<1> HIDE DEF s0, s1, s2, s3, s4, s5, s6
<1>9. Layered(p1, 6)
  <2>1. Layered(p1, 3 + 3)
    BY <1>2, <1>3, Joined
  <2> HIDE DEF p1
  <2> QED BY <2>1
<1>10. Layered(p2, 11)
  <2>1. Layered(p2, 6 + 5)
    <3> HIDE DEF p1
    <3> QED BY <1>4, <1>9, Joined
  <2> HIDE DEF p2
  <2> QED BY <2>1
<1>11. Layered(p3, 14)
  <2>1. Layered(p3, 11 + 3)
    <3> HIDE DEF p2
    <3> QED BY <1>5, <1>10, Joined
  <2> HIDE DEF p3
  <2> QED BY <2>1
<1>12. Layered(p4, 17)
  <2>1. Layered(p4, 14 + 3)
    <3> HIDE DEF p3
    <3> QED BY <1>6, <1>11, Joined
  <2> HIDE DEF p4
  <2> QED BY <2>1
<1>13. Layered(p5, 22)
  <2>1. Layered(p5, 17 + 5)
    <3> HIDE DEF p4
    <3> QED BY <1>7, <1>12, Joined
  <2> HIDE DEF p5
  <2> QED BY <2>1
<1>14. Layered(p6, 25)
  <2>1. Layered(p6, 22 + 3)
    <3> HIDE DEF p5
    <3> QED BY <1>8, <1>13, Joined
  <2> HIDE DEF p6
  <2> QED BY <2>1
<1>15. ASSUME NEW w, PartAt(w, 137, p6) PROVE HeadsAt(w, count)
  <2>1. PartAt(w, 137, p5) /\ PartAt(w, 159, s6)
    <3> HIDE DEF p5
    <3>1. PartAt(w, 137, p5) /\ PartAt(w, 137 + 22, s6)
      BY <1>8, <1>13, <1>15, PartsAt
    <3> QED BY <3>1
  <2>2. PartAt(w, 137, p4) /\ PartAt(w, 154, s5)
    <3> HIDE DEF p4
    <3>1. PartAt(w, 137, p4) /\ PartAt(w, 137 + 17, s5)
      BY <1>7, <1>12, <2>1, PartsAt
    <3> QED BY <3>1
  <2>3. PartAt(w, 137, p3) /\ PartAt(w, 151, s4)
    <3> HIDE DEF p3
    <3>1. PartAt(w, 137, p3) /\ PartAt(w, 137 + 14, s4)
      BY <1>6, <1>11, <2>2, PartsAt
    <3> QED BY <3>1
  <2>4. PartAt(w, 137, p2) /\ PartAt(w, 148, s3)
    <3> HIDE DEF p2
    <3>1. PartAt(w, 137, p2) /\ PartAt(w, 137 + 11, s3)
      BY <1>5, <1>10, <2>3, PartsAt
    <3> QED BY <3>1
  <2>5. PartAt(w, 137, p1) /\ PartAt(w, 143, s2)
    <3> HIDE DEF p1
    <3>1. PartAt(w, 137, p1) /\ PartAt(w, 137 + 6, s2)
      BY <1>4, <1>9, <2>4, PartsAt
    <3> QED BY <3>1
  <2>6. PartAt(w, 137, s0) /\ PartAt(w, 140, s1)
    <3>1. PartAt(w, 137, s0) /\ PartAt(w, 137 + 3, s1)
      BY <1>3, <1>2, <2>5, PartsAt
    <3> QED BY <3>1
  <2> HIDE DEF p1, p2, p3, p4, p5, p6
  <2>7. HeadAt(w, 137, {0, 1, 2}, count)
    BY <1>2, <2>6
  <2>8. DownAt(w, 140, -16)
    BY <1>3, <2>6
  <2>9. ConvSetAt(w, 143)
    BY <1>4, <2>5
  <2>10. HeadAt(w, 148, {3, 4, 5}, count)
    BY <1>5, <2>4
  <2>11. DownAt(w, 151, -37)
    BY <1>6, <2>3
  <2>12. ConvSetAt(w, 154)
    BY <1>7, <2>2
  <2>13. HeadAt(w, 159, {6, 7, 8}, count)
    BY <1>8, <2>1
  <2> QED BY <2>7, <2>8, <2>9, <2>10, <2>11, <2>12, <2>13 DEF HeadsAt
<1> HIDE DEF p6
<1> QED BY <1>1, <1>14, <1>15

\* The network, layer by layer.
NetworkAt(w, count) == BackboneAt(w) /\ NeckAt(w) /\ HeadsAt(w, count)

LEMMA NetworkIs ==
  ASSUME NEW count \in Nat
  PROVE  Layered(Network(count), 162) /\ NetworkAt(Network(count), count)
<1> DEFINE body == backbone \o neck
           w == Network(count)
<1>1. w = body \o heads(count)
  BY DEF Network
<1>2. Layered(backbone, 105) /\ Layered(neck, 32) /\ Layered(heads(count), 25)
  BY BackboneIs, NeckIs, HeadsAre
<1>3. Layered(body, 137)
  <2>1. Layered(body, 105 + 32)
    BY <1>2, Joined
  <2> HIDE DEF body
  <2> QED BY <2>1
<1> HIDE DEF w
<1>4. Layered(w, 162)
  <2> HIDE DEF body
  <2>1. Layered(w, 137 + 25)
    BY <1>1, <1>2, <1>3, Joined
  <2> QED BY <2>1
<1>5. PartAt(w, 0, w)
  BY DEF PartAt
<1>6. PartAt(w, 0, body) /\ PartAt(w, 137, heads(count))
  <2> HIDE DEF body
  <2>1. PartAt(w, 0, body) /\ PartAt(w, 0 + 137, heads(count))
    BY <1>1, <1>2, <1>3, <1>5, PartsAt
  <2> QED BY <2>1
<1>7. PartAt(w, 0, backbone) /\ PartAt(w, 105, neck)
  <2>1. PartAt(w, 0, backbone) /\ PartAt(w, 0 + 105, neck)
    BY <1>2, <1>6, PartsAt
  <2> QED BY <2>1
<1> HIDE DEF body
<1>8. BackboneAt(w) /\ NeckAt(w) /\ HeadsAt(w, count)
  BY <1>6, <1>7, BackboneIs, NeckIs, HeadsAre
<1> QED BY <1>4, <1>8 DEF NetworkAt, w

-----------------------------------------------------------------------------
(* The resolution of every layer *)

\* The side darknet has behind the layer at the place n.
Side(n) ==
  IF n <= 1 THEN 832 ELSE IF n <= 11 THEN 416 ELSE IF n <= 24 THEN 208
  ELSE IF n <= 55 THEN 104 ELSE IF n <= 86 THEN 52 ELSE IF n <= 118 THEN 26
  ELSE IF n <= 128 THEN 52 ELSE IF n <= 141 THEN 104 ELSE IF n <= 152 THEN 52 ELSE 26

\* The channels inside the stage of the layer.
Hidden(n) ==
  IF n <= 24 THEN 64 ELSE IF n <= 55 THEN 128 ELSE IF n <= 86 THEN 256 ELSE 512

\* Where the detectors stand.
Detectors == {140, 151, 162}

\* The place of a source of the layer l at the place n.
SourceOf(l, n, i) == (IF l.from[i] < 0 THEN (n - 1) + l.from[i] ELSE l.from[i]) + 1

\* The side behind the layer l, before which it is m.
After(l, m) ==
  IF l.type = "convolutional" THEN m \div l.stride
  ELSE IF l.type = "upsample" THEN 2 * m ELSE m

\* The layer at p has so many channels, whatever the classes.
Carries(w, p, channels) ==
  \/ w[p].type = "convolutional" /\ w[p].filters = channels
  \/ w[p].type = "shortcut" /\ Hidden(p) = channels

\* The sources of the layer at n are before it and of one resolution; its own
\* follows from theirs, and a detector gets the channels it needs.
LayerFits(w, n, count) ==
  /\ 1 \in DOMAIN w[n].from
  /\ \A i \in DOMAIN w[n].from :
       /\ SourceOf(w[n], n, i) \in 1..(n - 1)
       /\ Side(SourceOf(w[n], n, i)) = Side(SourceOf(w[n], n, 1))
       /\ w[n].type = "shortcut" => Carries(w, SourceOf(w[n], n, i), Hidden(n))
  /\ Side(n) = After(w[n], Side(SourceOf(w[n], n, 1)))
  /\ w[n].type = "yolo" =>
       /\ w[n - 1].type = "convolutional" /\ w[n - 1].filters = yolo_filters(count)
       /\ SourceOf(w[n], n, 1) = n - 1
  /\ w[n].type = "yolo" <=> n \in Detectors

LEMMA TupleDomains ==
  /\ \A a : DOMAIN <<a>> = {1} /\ <<a>>[1] = a
  /\ \A a, b : DOMAIN <<a, b>> = {1, 2} /\ <<a, b>>[1] = a /\ <<a, b>>[2] = b
  /\ \A a, b, c, d : /\ DOMAIN <<a, b, c, d>> = {1, 2, 3, 4}
                     /\ <<a, b, c, d>>[1] = a /\ <<a, b, c, d>>[2] = b
                     /\ <<a, b, c, d>>[3] = c /\ <<a, b, c, d>>[4] = d
<1>1. \A a : DOMAIN <<a>> = {1} /\ <<a>>[1] = a
  OBVIOUS
<1>2. \A a, b : DOMAIN <<a, b>> = {1, 2} /\ <<a, b>>[1] = a /\ <<a, b>>[2] = b
  OBVIOUS
<1>3. \A a, b, c, d : /\ DOMAIN <<a, b, c, d>> = {1, 2, 3, 4}
                      /\ <<a, b, c, d>>[1] = a /\ <<a, b, c, d>>[2] = b
                      /\ <<a, b, c, d>>[3] = c /\ <<a, b, c, d>>[4] = d
  OBVIOUS
<1> QED BY <1>1, <1>2, <1>3

\* A layer of one source.
LEMMA OneSourceFits ==
  ASSUME NEW w, NEW count, NEW n \in 2..162, NEW d \in Int, NEW p \in 1..(n - 1),
         w[n].from = <<d>>, p = (IF d < 0 THEN n + d ELSE d + 1),
         Side(n) = After(w[n], Side(p)),
         w[n].type \notin {"shortcut", "yolo"}, n \notin Detectors
  PROVE  LayerFits(w, n, count)
<1>1. DOMAIN w[n].from = {1} /\ w[n].from[1] = d
  BY TupleDomains
<1>2. SourceOf(w[n], n, 1) = p
  BY <1>1 DEF SourceOf
<1> QED BY <1>1, <1>2 DEF LayerFits

LEMMA ConvFits ==
  ASSUME NEW w, NEW count, NEW n \in 2..162, IsConv(w[n]), Side(n) = Side(n - 1),
         n \notin Detectors
  PROVE  LayerFits(w, n, count)
<1>1. -1 \in Int /\ n - 1 \in 1..(n - 1) /\ n - 1 = (IF -1 < 0 THEN n + (-1) ELSE (-1) + 1)
  OBVIOUS
<1>2. Side(n - 1) \div 1 = Side(n - 1)
  BY DEF Side
<1>3. Side(n) = After(w[n], Side(n - 1)) /\ w[n].from = <<-1>> /\ w[n].type \notin {"shortcut", "yolo"}
  BY <1>2 DEF IsConv, After
<1> QED BY <1>1, <1>3, OneSourceFits

LEMMA DownFits ==
  ASSUME NEW w, NEW count, NEW n \in 2..162, w[n].type = "convolutional", w[n].from = <<-1>>,
         w[n].stride = 2, Side(n) = Side(n - 1) \div 2, n \notin Detectors
  PROVE  LayerFits(w, n, count)
<1>1. -1 \in Int /\ n - 1 \in 1..(n - 1) /\ n - 1 = (IF -1 < 0 THEN n + (-1) ELSE (-1) + 1)
  OBVIOUS
<1>2. Side(n) = After(w[n], Side(n - 1)) /\ w[n].type \notin {"shortcut", "yolo"}
  BY DEF After
<1> QED BY <1>1, <1>2, OneSourceFits

LEMMA UpFits ==
  ASSUME NEW w, NEW count, NEW n \in 2..162, w[n] = upsample, Side(n) = 2 * Side(n - 1),
         n \notin Detectors
  PROVE  LayerFits(w, n, count)
<1>1. -1 \in Int /\ n - 1 \in 1..(n - 1) /\ n - 1 = (IF -1 < 0 THEN n + (-1) ELSE (-1) + 1)
  OBVIOUS
<1>2. w[n].type = "upsample" /\ w[n].from = <<-1>>
  BY LayerFields
<1>3. Side(n) = After(w[n], Side(n - 1)) /\ w[n].type \notin {"shortcut", "yolo"}
  BY <1>2 DEF After
<1> QED BY <1>1, <1>2, <1>3, OneSourceFits

LEMMA PoolFits ==
  ASSUME NEW w, NEW count, NEW n \in 2..162, NEW z \in Int, w[n] = maxpool(z),
         Side(n) = Side(n - 1), n \notin Detectors
  PROVE  LayerFits(w, n, count)
<1>1. -1 \in Int /\ n - 1 \in 1..(n - 1) /\ n - 1 = (IF -1 < 0 THEN n + (-1) ELSE (-1) + 1)
  OBVIOUS
<1>2. w[n].type = "maxpool" /\ w[n].from = <<-1>>
  BY LayerFields
<1>3. Side(n) = After(w[n], Side(n - 1)) /\ w[n].type \notin {"shortcut", "yolo"}
  BY <1>2 DEF After
<1> QED BY <1>1, <1>2, <1>3, OneSourceFits

LEMMA RouteFits ==
  ASSUME NEW w, NEW count, NEW n \in 2..162, NEW d \in Int, NEW p \in 1..(n - 1),
         w[n] = route(<<d>>), p = (IF d < 0 THEN n + d ELSE d + 1),
         Side(n) = Side(p), n \notin Detectors
  PROVE  LayerFits(w, n, count)
<1>1. w[n].type = "route" /\ w[n].from = <<d>>
  BY LayerFields
<1>2. Side(n) = After(w[n], Side(p)) /\ w[n].type \notin {"shortcut", "yolo"}
  BY <1>1 DEF After
<1> QED BY <1>1, <1>2, OneSourceFits

\* A route that joins the layer before and one further back.
LEMMA JoinFits ==
  ASSUME NEW w, NEW count, NEW n \in 2..162, NEW d \in Int, d < 0, n + d \in 1..(n - 1),
         w[n] = route(<<-1, d>>), Side(n) = Side(n - 1), Side(n + d) = Side(n - 1),
         n \notin Detectors
  PROVE  LayerFits(w, n, count)
<1>1. w[n].type = "route" /\ w[n].from = <<-1, d>>
  BY LayerFields
<1>2. DOMAIN w[n].from = {1, 2} /\ w[n].from[1] = -1 /\ w[n].from[2] = d
  BY <1>1, TupleDomains
<1>3. SourceOf(w[n], n, 1) = n - 1 /\ SourceOf(w[n], n, 2) = n + d
  BY <1>2 DEF SourceOf
<1>4. n - 1 \in 1..(n - 1)
  OBVIOUS
<1>5. Side(n) = After(w[n], Side(n - 1)) /\ w[n].type \notin {"shortcut", "yolo"}
  BY <1>1 DEF After
<1> QED BY <1>2, <1>3, <1>4, <1>5 DEF LayerFits

LEMMA ShortcutFits ==
  ASSUME NEW w, NEW count, NEW n \in 2..162, n - 3 \in 1..(n - 1), w[n] = shortcut,
         Side(n) = Side(n - 1), Side(n - 3) = Side(n - 1),
         Carries(w, n - 1, Hidden(n)), Carries(w, n - 3, Hidden(n)), n \notin Detectors
  PROVE  LayerFits(w, n, count)
<1>1. w[n].type = "shortcut" /\ w[n].from = <<-1, -3>>
  BY LayerFields
<1>2. DOMAIN w[n].from = {1, 2} /\ w[n].from[1] = -1 /\ w[n].from[2] = -3
  BY <1>1, TupleDomains
<1>3. SourceOf(w[n], n, 1) = n - 1 /\ SourceOf(w[n], n, 2) = n - 3
  BY <1>2 DEF SourceOf
<1>4. n - 1 \in 1..(n - 1)
  OBVIOUS
<1>5. Side(n) = After(w[n], Side(n - 1)) /\ w[n].type # "yolo"
  BY <1>1 DEF After
<1> QED BY <1>2, <1>3, <1>4, <1>5 DEF LayerFits

LEMMA YoloFits ==
  ASSUME NEW w, NEW count \in Nat, NEW n \in 2..162, NEW mask \in SUBSET Int,
         w[n] = yolo(mask, count), IsConv(w[n - 1]), w[n - 1].filters = yolo_filters(count),
         Side(n) = Side(n - 1), n \in Detectors
  PROVE  LayerFits(w, n, count)
<1>1. w[n].type = "yolo" /\ w[n].from = <<-1>>
  BY LayerFields
<1>2. DOMAIN w[n].from = {1} /\ w[n].from[1] = -1
  BY <1>1, TupleDomains
<1>3. SourceOf(w[n], n, 1) = n - 1
  BY <1>2 DEF SourceOf
<1>4. n - 1 \in 1..(n - 1)
  OBVIOUS
<1>5. Side(n) = After(w[n], Side(n - 1)) /\ w[n - 1].type = "convolutional"
  BY <1>1 DEF After, IsConv
<1> QED BY <1>1, <1>2, <1>3, <1>4, <1>5 DEF LayerFits

\* The layers of a stage fit when the layer before it has twice the resolution.
StagePlaced(w, q, f, h, m, b, s) ==
  /\ q \in 1..105 /\ f \in Int /\ h \in Int /\ m \in Int /\ b \in Nat
  /\ q + (3 * b + 7) <= 105 /\ StageAt(w, q, f, h, m, b)
  /\ s \in Nat /\ Side(q) = 2 * s
  /\ \A n \in (q + 1)..(q + (3 * b + 7)) : Side(n) = s /\ Hidden(n) = h

LEMMA StageFits ==
  ASSUME NEW w, NEW count, NEW q, NEW f, NEW h, NEW m, NEW b, NEW s,
         StagePlaced(w, q, f, h, m, b, s)
  PROVE  \A n \in (q + 1)..(q + (3 * b + 7)) : LayerFits(w, n, count)
<1>0. /\ q \in 1..105 /\ f \in Int /\ h \in Int /\ m \in Int /\ b \in Nat
      /\ q + (3 * b + 7) <= 105 /\ StageAt(w, q, f, h, m, b)
      /\ s \in Nat /\ Side(q) = 2 * s
      /\ \A n \in (q + 1)..(q + (3 * b + 7)) : Side(n) = s /\ Hidden(n) = h
  BY DEF StagePlaced
<1> USE <1>0
<1> DEFINE last == q + (3 * b + 7)
           Here == (q + 1)..last
<1>1. \A n \in Here : n \in 2..162 /\ n \notin Detectors
  BY DEF Detectors
<1>2. \A n \in Here : n - 1 \in Here \/ n = q + 1
  OBVIOUS
<1>3. \A f1, z \in Int : IsConv(conv(f1, z, 1))
  BY ConvIs
<1>4. 1 \in Int /\ 2 \in Int /\ 3 \in Int /\ -2 \in Int
  OBVIOUS
\* The convolutions which do not begin the stage.
<1>5. ASSUME NEW n \in Here, n # q + 1, NEW f1 \in Int, NEW z \in Int, w[n] = conv(f1, z, 1)
      PROVE  LayerFits(w, n, count)
  <2>1. IsConv(w[n]) /\ Side(n) = Side(n - 1)
    BY <1>2, <1>3, <1>5
  <2> HIDE DEF Here
  <2> QED BY <1>1, <2>1, ConvFits
<1>6. LayerFits(w, q + 1, count)
  <2> DEFINE n == q + 1
  <2>1. n \in Here /\ n - 1 = q
    OBVIOUS
  <2>2. w[n].type = "convolutional" /\ w[n].from = <<-1>> /\ w[n].stride = 2
    BY LayerFields DEF StageAt
  <2>3. (2 * s) \div 2 = s
    OBVIOUS
  <2>4. Side(n) = Side(n - 1) \div 2
    BY <2>1, <2>3
  <2> HIDE DEF n, Here
  <2>5. LayerFits(w, n, count)
    BY <1>1, <2>1, <2>2, <2>4, DownFits
  <2> QED BY <2>5 DEF n
<1>7. LayerFits(w, q + 2, count) /\ LayerFits(w, q + 4, count)
  <2>1. q + 2 \in Here /\ q + 4 \in Here /\ q + 2 # q + 1 /\ q + 4 # q + 1
    OBVIOUS
  <2>2. w[q + 2] = conv(h, 1, 1) /\ w[q + 4] = conv(h, 1, 1)
    BY DEF StageAt
  <2> HIDE DEF Here
  <2> QED BY <1>4, <1>5, <2>1, <2>2
<1>8. LayerFits(w, q + 3, count)
  <2> DEFINE n == q + 3
             p == q + 1
  <2>1. /\ n \in Here /\ p \in Here /\ p \in 1..(n - 1)
        /\ p = (IF -2 < 0 THEN n + (-2) ELSE (-2) + 1)
    OBVIOUS
  <2>2. w[n] = route(<<-2>>)
    BY DEF StageAt
  <2>3. Side(n) = Side(p)
    BY <2>1
  <2> HIDE DEF n, p, Here
  <2>4. LayerFits(w, n, count)
    BY <1>1, <1>4, <2>1, <2>2, <2>3, RouteFits
  <2> QED BY <2>4 DEF n
<1>9. LayerFits(w, q + (3 * b + 5), count) /\ LayerFits(w, q + (3 * b + 7), count)
  <2>1. /\ q + (3 * b + 5) \in Here /\ q + (3 * b + 5) # q + 1
        /\ q + (3 * b + 7) \in Here /\ q + (3 * b + 7) # q + 1
    OBVIOUS
  <2>2. w[q + (3 * b + 5)] = conv(h, 1, 1) /\ w[q + (3 * b + 7)] = conv(f, 1, 1)
    BY DEF StageAt
  <2> HIDE DEF Here
  <2> QED BY <1>4, <1>5, <2>1, <2>2
<1>10. LayerFits(w, q + (3 * b + 6), count)
  <2> DEFINE n == q + (3 * b + 6)
             d == -(b * 3 + 4)
  <2>1. /\ n \in Here /\ n - 1 \in Here /\ n + d = q + 2 /\ q + 2 \in Here
        /\ q + 2 \in 1..(n - 1) /\ d \in Int /\ d < 0
    OBVIOUS
  <2>2. w[n] = route(<<-1, d>>)
    BY DEF StageAt
  <2>3. Side(n) = Side(n - 1) /\ Side(n + d) = Side(n - 1)
    BY <2>1
  <2> HIDE DEF n, d, Here
  <2>4. LayerFits(w, n, count)
    BY <1>1, <2>1, <2>2, <2>3, JoinFits
  <2> QED BY <2>4 DEF n
<1>11. ASSUME NEW j \in 1..b
       PROVE  /\ LayerFits(w, q + (4 + (3 * j - 2)), count)
              /\ LayerFits(w, q + (4 + (3 * j - 1)), count)
              /\ LayerFits(w, q + (4 + 3 * j), count)
  <2>1. /\ w[q + (4 + (3 * j - 2))] = conv(m, 1, 1)
        /\ w[q + (4 + (3 * j - 1))] = conv(h, 3, 1)
        /\ w[q + (4 + 3 * j)] = shortcut
    BY DEF StageAt
  <2>2. /\ q + (4 + (3 * j - 2)) \in Here /\ q + (4 + (3 * j - 2)) # q + 1
        /\ q + (4 + (3 * j - 1)) \in Here /\ q + (4 + (3 * j - 1)) # q + 1
    OBVIOUS
  <2>3. LayerFits(w, q + (4 + (3 * j - 2)), count) /\ LayerFits(w, q + (4 + (3 * j - 1)), count)
    <3> HIDE DEF Here
    <3> QED BY <1>4, <1>5, <2>1, <2>2
  <2> DEFINE n == q + (4 + 3 * j)
  <2>4. /\ n \in Here /\ n - 1 \in Here /\ n - 3 \in Here /\ n - 3 \in 1..(n - 1)
        /\ n - 1 = q + (4 + (3 * j - 1)) /\ n - 3 = q + (4 + 3 * (j - 1))
    OBVIOUS
  <2>5. Side(n) = Side(n - 1) /\ Side(n - 3) = Side(n - 1) /\ Hidden(n) = h /\ Hidden(n - 3) = h
    BY <2>4
  <2>6. Carries(w, n - 1, Hidden(n))
    <3>1. w[n - 1] = conv(h, 3, 1)
      BY <2>1, <2>4
    <3> QED BY <2>5, <3>1, LayerFields DEF Carries
  <2>7. Carries(w, n - 3, Hidden(n))
    <3>1. CASE j = 1
      <4>1. n - 3 = q + 4
        BY <3>1
      <4>2. w[n - 3] = conv(h, 1, 1)
        BY <4>1 DEF StageAt
      <4> QED BY <2>5, <4>2, LayerFields DEF Carries
    <3>2. CASE j # 1
      <4>1. j - 1 \in 1..b
        BY <3>2
      <4>2. w[n - 3] = shortcut
        BY <2>4, <4>1 DEF StageAt
      <4> QED BY <2>5, <4>2, LayerFields DEF Carries
    <3> QED BY <3>1, <3>2
  <2>8. LayerFits(w, n, count)
    <3> HIDE DEF n, Here
    <3> QED BY <1>1, <2>1, <2>4, <2>5, <2>6, <2>7, ShortcutFits DEF n
  <2> QED BY <2>3, <2>8 DEF n
<1>12. ASSUME NEW n \in Here PROVE LayerFits(w, n, count)
  <2> DEFINE i == n - q
             j == (i - 2) \div 3
  <2>1. i \in 1..(3 * b + 7) /\ n = q + i
    OBVIOUS
  <2>2. \/ i \in {1, 2, 3, 4} \/ i \in {3 * b + 5, 3 * b + 6, 3 * b + 7}
        \/ j \in 1..b /\ i \in {4 + (3 * j - 2), 4 + (3 * j - 1), 4 + 3 * j}
    BY <2>1
  <2> HIDE DEF i, j, Here
  <2>3. CASE i \in {1, 2, 3, 4}
    BY <1>6, <1>7, <1>8, <2>1, <2>3
  <2>4. CASE i \in {3 * b + 5, 3 * b + 6, 3 * b + 7}
    BY <1>9, <1>10, <2>1, <2>4
  <2>5. CASE j \in 1..b /\ i \in {4 + (3 * j - 2), 4 + (3 * j - 1), 4 + 3 * j}
    BY <1>11, <2>1, <2>5
  <2> QED BY <2>2, <2>3, <2>4, <2>5
<1> QED BY <1>12

\* The layers behind the backbone.
LEMMA ThreeConvsFit ==
  ASSUME NEW w, NEW count, NEW q \in 1..157, ThreeConvsAt(w, q),
         \A n \in (q + 1)..(q + 3) : Side(n) = Side(q) /\ n \notin Detectors
  PROVE  \A n \in (q + 1)..(q + 3) : LayerFits(w, n, count)
<1> TAKE n \in (q + 1)..(q + 3)
<1>1. n \in 2..162 /\ n \notin Detectors
  OBVIOUS
<1>2. IsConv(w[n])
  <2>1. n = q + 1 \/ n = q + 2 \/ n = q + 3
    OBVIOUS
  <2> QED BY <2>1 DEF ThreeConvsAt
<1>3. Side(n) = Side(n - 1)
  <2>1. n - 1 = q \/ n - 1 \in (q + 1)..(q + 3)
    OBVIOUS
  <2> QED BY <2>1
<1> QED BY <1>1, <1>2, <1>3, ConvFits

LEMMA ConvSetFits ==
  ASSUME NEW w, NEW count, NEW q \in 1..157, ConvSetAt(w, q),
         \A n \in (q + 1)..(q + 5) : Side(n) = Side(q) /\ n \notin Detectors
  PROVE  \A n \in (q + 1)..(q + 5) : LayerFits(w, n, count)
<1> TAKE n \in (q + 1)..(q + 5)
<1>1. n \in 2..162 /\ n \notin Detectors
  OBVIOUS
<1>2. IsConv(w[n])
  <2>1. n = q + 1 \/ n = q + 2 \/ n = q + 3 \/ n = q + 4 \/ n = q + 5
    OBVIOUS
  <2> QED BY <2>1 DEF ConvSetAt
<1>3. Side(n) = Side(n - 1)
  <2>1. n - 1 = q \/ n - 1 \in (q + 1)..(q + 5)
    OBVIOUS
  <2> QED BY <2>1
<1> QED BY <1>1, <1>2, <1>3, ConvFits

LEMMA SppFits ==
  ASSUME NEW w, NEW count, SppAt(w, 108)
  PROVE  \A n \in 109..114 : LayerFits(w, n, count)
<1>1. \A n \in 108..114 : Side(n) = 26 /\ n \notin Detectors
  BY DEF Side, Detectors
<1>2. /\ w[109] = maxpool(5) /\ w[110] = route(<<-2>>) /\ w[111] = maxpool(9)
      /\ w[112] = route(<<-4>>) /\ w[113] = maxpool(13)
      /\ w[114] = route(<<-1, -3, -5, -6>>)
  BY DEF SppAt
<1>3. ASSUME NEW n \in {109, 111, 113} PROVE LayerFits(w, n, count)
  <2>1. n \in 2..162 /\ Side(n) = Side(n - 1) /\ n \notin Detectors
    BY <1>1
  <2>2. PICK z \in Int : w[n] = maxpool(z)
    <3>1. 5 \in Int /\ 9 \in Int /\ 13 \in Int
      OBVIOUS
    <3> QED BY <1>2, <3>1
  <2> QED BY <2>1, <2>2, PoolFits
<1>4. ASSUME NEW n \in 110..112, NEW d \in {-2, -4}, n + d = 108, w[n] = route(<<d>>)
      PROVE  LayerFits(w, n, count)
  <2>1. /\ n \in 2..162 /\ d \in Int /\ 108 \in 1..(n - 1)
        /\ 108 = (IF d < 0 THEN n + d ELSE d + 1)
    BY <1>4
  <2>2. Side(n) = Side(108) /\ n \notin Detectors
    BY <1>1
  <2> QED BY <1>4, <2>1, <2>2, RouteFits
<1>5. LayerFits(w, 110, count) /\ LayerFits(w, 112, count)
  BY <1>2, <1>4
<1>6. LayerFits(w, 114, count)
  <2> DEFINE l == w[114]
  <2>1. l.type = "route" /\ l.from = <<-1, -3, -5, -6>>
    BY <1>2, LayerFields
  <2>2. /\ DOMAIN l.from = {1, 2, 3, 4} /\ l.from[1] = -1 /\ l.from[2] = -3
        /\ l.from[3] = -5 /\ l.from[4] = -6
    BY <2>1, TupleDomains
  <2>3. /\ SourceOf(l, 114, 1) = 113 /\ SourceOf(l, 114, 2) = 111
        /\ SourceOf(l, 114, 3) = 109 /\ SourceOf(l, 114, 4) = 108
    BY <2>2 DEF SourceOf
  <2>4. /\ 113 \in 1..(114 - 1) /\ 111 \in 1..(114 - 1) /\ 109 \in 1..(114 - 1)
        /\ 108 \in 1..(114 - 1)
    OBVIOUS
  <2>5. /\ Side(113) = 26 /\ Side(111) = 26 /\ Side(109) = 26 /\ Side(108) = 26
        /\ Side(114) = 26 /\ 114 \notin Detectors
    BY <1>1
  <2>6. Side(114) = After(l, Side(113)) /\ l.type \notin {"shortcut", "yolo"}
    BY <2>1, <2>5 DEF After
  <2> QED BY <2>2, <2>3, <2>4, <2>5, <2>6 DEF LayerFits
<1>7. \A n \in 109..114 : n \in {109, 111, 113} \/ n = 110 \/ n = 112 \/ n = 114
  OBVIOUS
<1> QED BY <1>3, <1>5, <1>6, <1>7

MergePlaced(w, q, layer, s) ==
  /\ q \in 1..157 /\ layer \in 0..(q - 1) /\ MergeAt(w, q, layer)
  /\ s \in Nat /\ Side(q) = s /\ Side(q + 1) = s /\ Side(layer + 1) = 2 * s
  /\ \A n \in (q + 2)..(q + 5) : Side(n) = 2 * s
  /\ \A n \in (q + 1)..(q + 5) : n \notin Detectors

LEMMA MergeFits ==
  ASSUME NEW w, NEW count, NEW q, NEW layer, NEW s, MergePlaced(w, q, layer, s)
  PROVE  \A n \in (q + 1)..(q + 5) : LayerFits(w, n, count)
<1>0. /\ q \in 1..157 /\ layer \in 0..(q - 1) /\ MergeAt(w, q, layer)
      /\ s \in Nat /\ Side(q) = s /\ Side(q + 1) = s /\ Side(layer + 1) = 2 * s
      /\ \A n \in (q + 2)..(q + 5) : Side(n) = 2 * s
      /\ \A n \in (q + 1)..(q + 5) : n \notin Detectors
  BY DEF MergePlaced
<1> USE <1>0
<1>1. ASSUME NEW n \in {q + 1, q + 4} PROVE LayerFits(w, n, count)
  <2>1. n \in 2..162 /\ n \notin Detectors
    OBVIOUS
  <2>2. IsConv(w[n])
    BY DEF MergeAt
  <2>3. (q + 1) - 1 = q /\ (q + 4) - 1 = q + 3 /\ q + 3 \in (q + 2)..(q + 5) /\ q + 4 \in (q + 2)..(q + 5)
    OBVIOUS
  <2>4. Side(n) = Side(n - 1)
    BY <2>3
  <2> QED BY <2>1, <2>2, <2>4, ConvFits
<1>2. LayerFits(w, q + 2, count)
  <2> DEFINE n == q + 2
  <2>1. n \in 2..162 /\ n \notin Detectors /\ n - 1 = q + 1 /\ n \in (q + 2)..(q + 5)
    OBVIOUS
  <2>2. w[n] = upsample
    BY DEF MergeAt
  <2>3. Side(n) = 2 * Side(n - 1)
    BY <2>1
  <2> HIDE DEF n
  <2>4. LayerFits(w, n, count)
    BY <2>1, <2>2, <2>3, UpFits
  <2> QED BY <2>4 DEF n
<1>3. LayerFits(w, q + 3, count)
  <2> DEFINE n == q + 3
             p == layer + 1
  <2>1. /\ n \in 2..162 /\ n \notin Detectors /\ p \in 1..(n - 1) /\ n \in (q + 2)..(q + 5)
        /\ layer \in Int /\ p = (IF layer < 0 THEN n + layer ELSE layer + 1)
    OBVIOUS
  <2>2. w[n] = route(<<layer>>)
    BY DEF MergeAt
  <2>3. Side(n) = Side(p)
    BY <2>1
  <2> HIDE DEF n, p
  <2>4. LayerFits(w, n, count)
    BY <2>1, <2>2, <2>3, RouteFits
  <2> QED BY <2>4 DEF n
<1>4. LayerFits(w, q + 5, count)
  <2> DEFINE n == q + 5
             d == -3
  <2>1. /\ n \in 2..162 /\ n \notin Detectors /\ d \in Int /\ d < 0 /\ n + d \in 1..(n - 1)
        /\ n \in (q + 2)..(q + 5) /\ n - 1 \in (q + 2)..(q + 5) /\ n + d \in (q + 2)..(q + 5)
    OBVIOUS
  <2>2. w[n] = route(<<-1, d>>)
    BY DEF MergeAt
  <2>3. Side(n) = Side(n - 1) /\ Side(n + d) = Side(n - 1)
    BY <2>1
  <2> HIDE DEF n, d
  <2>4. LayerFits(w, n, count)
    BY <2>1, <2>2, <2>3, JoinFits
  <2> QED BY <2>4 DEF n
<1>5. \A n \in (q + 1)..(q + 5) : n \in {q + 1, q + 4} \/ n = q + 2 \/ n = q + 3 \/ n = q + 5
  OBVIOUS
<1> QED BY <1>1, <1>2, <1>3, <1>4, <1>5

LEMMA HeadFits ==
  ASSUME NEW w, NEW count \in Nat, NEW q \in 1..159, NEW mask \in SUBSET Int,
         HeadAt(w, q, mask, count), q + 3 \in Detectors,
         q + 1 \notin Detectors, q + 2 \notin Detectors,
         \A n \in (q + 1)..(q + 3) : Side(n) = Side(q)
  PROVE  \A n \in (q + 1)..(q + 3) : LayerFits(w, n, count)
<1>1. ASSUME NEW n \in {q + 1, q + 2} PROVE LayerFits(w, n, count)
  <2>1. n \in 2..162 /\ n \notin Detectors /\ n \in (q + 1)..(q + 3)
    OBVIOUS
  <2>2. IsConv(w[n])
    BY DEF HeadAt
  <2>3. n - 1 = q \/ n - 1 \in (q + 1)..(q + 3)
    OBVIOUS
  <2>4. Side(n) = Side(n - 1)
    BY <2>1, <2>3
  <2> QED BY <2>1, <2>2, <2>4, ConvFits
<1>2. LayerFits(w, q + 3, count)
  <2> DEFINE n == q + 3
  <2>1. /\ n \in 2..162 /\ n \in Detectors /\ n \in (q + 1)..(q + 3)
        /\ n - 1 = q + 2 /\ q + 2 \in (q + 1)..(q + 3)
    OBVIOUS
  <2>2. /\ w[n] = yolo(mask, count) /\ IsConv(w[n - 1])
        /\ w[n - 1].filters = yolo_filters(count)
    BY <2>1 DEF HeadAt
  <2>3. Side(n) = Side(n - 1)
    BY <2>1
  <2> HIDE DEF n
  <2>4. LayerFits(w, n, count)
    BY <2>1, <2>2, <2>3, YoloFits
  <2> QED BY <2>4 DEF n
<1>3. \A n \in (q + 1)..(q + 3) : n \in {q + 1, q + 2} \/ n = q + 3
  OBVIOUS
<1> QED BY <1>1, <1>2, <1>3

LEMMA DownsFit ==
  ASSUME NEW w, NEW count, NEW q \in 4..157, NEW back \in Int, back < 0,
         (q + 3) + back \in 1..q, DownAt(w, q, back),
         NEW s \in Nat, Side(q + 1) = 2 * s, Side(q - 3) = 2 * s, Side(q + 2) = s,
         Side(q + 3) = s, Side((q + 3) + back) = s,
         \A n \in (q + 1)..(q + 3) : n \notin Detectors
  PROVE  \A n \in (q + 1)..(q + 3) : LayerFits(w, n, count)
<1>1. LayerFits(w, q + 1, count)
  <2> DEFINE n == q + 1
             p == q - 3
             d == -4
  <2>1. /\ n \in 2..162 /\ n \notin Detectors /\ p \in 1..(n - 1)
        /\ d \in Int /\ p = (IF d < 0 THEN n + d ELSE d + 1)
    OBVIOUS
  <2>2. w[n] = route(<<d>>) /\ Side(n) = Side(p)
    BY DEF DownAt
  <2> HIDE DEF n, p, d
  <2>3. LayerFits(w, n, count)
    BY <2>1, <2>2, RouteFits
  <2> QED BY <2>3 DEF n
<1>2. LayerFits(w, q + 2, count)
  <2> DEFINE n == q + 2
  <2>1. n \in 2..162 /\ n \notin Detectors /\ n - 1 = q + 1 /\ (2 * s) \div 2 = s
    OBVIOUS
  <2>2. /\ w[n].type = "convolutional" /\ w[n].from = <<-1>> /\ w[n].stride = 2
        /\ Side(n) = Side(n - 1) \div 2
    BY <2>1 DEF DownAt
  <2> HIDE DEF n
  <2>3. LayerFits(w, n, count)
    BY <2>1, <2>2, DownFits
  <2> QED BY <2>3 DEF n
<1>3. LayerFits(w, q + 3, count)
  <2> DEFINE n == q + 3
  <2>1. /\ n \in 2..162 /\ n \notin Detectors /\ n - 1 = q + 2 /\ n + back \in 1..(n - 1)
    OBVIOUS
  <2>2. /\ w[n] = route(<<-1, back>>) /\ Side(n) = Side(n - 1)
        /\ Side(n + back) = Side(n - 1)
    BY <2>1 DEF DownAt
  <2> HIDE DEF n
  <2>3. LayerFits(w, n, count)
    BY <2>1, <2>2, JoinFits
  <2> QED BY <2>3 DEF n
<1>4. \A n \in (q + 1)..(q + 3) : n = q + 1 \/ n = q + 2 \/ n = q + 3
  OBVIOUS
<1> QED BY <1>1, <1>2, <1>3, <1>4

LEMMA LayersFit ==
  ASSUME NEW count \in Nat, NEW w, NetworkAt(w, count)
  PROVE  \A n \in 2..162 : LayerFits(w, n, count)
<1>1. \A n \in 2..11 : LayerFits(w, n, count)
  <2> DEFINE q == 1
             b == 1
             s == 416
             f == 64
             h == 64
             m == 32
  <2>1. /\ q \in 1..105 /\ f \in Int /\ h \in Int /\ m \in Int /\ b \in Nat
        /\ q + (3 * b + 7) <= 105 /\ s \in Nat /\ q + 1 = 2 /\ q + (3 * b + 7) = 11
    OBVIOUS
  <2>2. StageAt(w, q, f, h, m, b)
    BY DEF NetworkAt, BackboneAt
  <2>3. Side(q) = 2 * s
    BY DEF Side
  <2>4. \A n \in (q + 1)..(q + (3 * b + 7)) : Side(n) = s /\ Hidden(n) = h
    BY <2>1 DEF Side, Hidden
  <2> HIDE DEF q, b, s, f, h, m
  <2>5. \A n \in (q + 1)..(q + (3 * b + 7)) : LayerFits(w, n, count)
    <3>1. StagePlaced(w, q, f, h, m, b, s)
      BY <2>1, <2>2, <2>3, <2>4 DEF StagePlaced
    <3> QED BY <3>1, StageFits
  <2> QED BY <2>1, <2>5
<1>2. \A n \in 12..24 : LayerFits(w, n, count)
  <2> DEFINE q == 11
             b == 2
             s == 208
             f == 128
             h == 64
             m == 64
  <2>1. /\ q \in 1..105 /\ f \in Int /\ h \in Int /\ m \in Int /\ b \in Nat
        /\ q + (3 * b + 7) <= 105 /\ s \in Nat /\ q + 1 = 12 /\ q + (3 * b + 7) = 24
    OBVIOUS
  <2>2. StageAt(w, q, f, h, m, b)
    BY DEF NetworkAt, BackboneAt
  <2>3. Side(q) = 2 * s
    BY DEF Side
  <2>4. \A n \in (q + 1)..(q + (3 * b + 7)) : Side(n) = s /\ Hidden(n) = h
    BY <2>1 DEF Side, Hidden
  <2> HIDE DEF q, b, s, f, h, m
  <2>5. \A n \in (q + 1)..(q + (3 * b + 7)) : LayerFits(w, n, count)
    <3>1. StagePlaced(w, q, f, h, m, b, s)
      BY <2>1, <2>2, <2>3, <2>4 DEF StagePlaced
    <3> QED BY <3>1, StageFits
  <2> QED BY <2>1, <2>5
<1>3. \A n \in 25..55 : LayerFits(w, n, count)
  <2> DEFINE q == 24
             b == 8
             s == 104
             f == 256
             h == 128
             m == 128
  <2>1. /\ q \in 1..105 /\ f \in Int /\ h \in Int /\ m \in Int /\ b \in Nat
        /\ q + (3 * b + 7) <= 105 /\ s \in Nat /\ q + 1 = 25 /\ q + (3 * b + 7) = 55
    OBVIOUS
  <2>2. StageAt(w, q, f, h, m, b)
    BY DEF NetworkAt, BackboneAt
  <2>3. Side(q) = 2 * s
    BY DEF Side
  <2>4. \A n \in (q + 1)..(q + (3 * b + 7)) : Side(n) = s /\ Hidden(n) = h
    BY <2>1 DEF Side, Hidden
  <2> HIDE DEF q, b, s, f, h, m
  <2>5. \A n \in (q + 1)..(q + (3 * b + 7)) : LayerFits(w, n, count)
    <3>1. StagePlaced(w, q, f, h, m, b, s)
      BY <2>1, <2>2, <2>3, <2>4 DEF StagePlaced
    <3> QED BY <3>1, StageFits
  <2> QED BY <2>1, <2>5
<1>4. \A n \in 56..86 : LayerFits(w, n, count)
  <2> DEFINE q == 55
             b == 8
             s == 52
             f == 512
             h == 256
             m == 256
  <2>1. /\ q \in 1..105 /\ f \in Int /\ h \in Int /\ m \in Int /\ b \in Nat
        /\ q + (3 * b + 7) <= 105 /\ s \in Nat /\ q + 1 = 56 /\ q + (3 * b + 7) = 86
    OBVIOUS
  <2>2. StageAt(w, q, f, h, m, b)
    BY DEF NetworkAt, BackboneAt
  <2>3. Side(q) = 2 * s
    BY DEF Side
  <2>4. \A n \in (q + 1)..(q + (3 * b + 7)) : Side(n) = s /\ Hidden(n) = h
    BY <2>1 DEF Side, Hidden
  <2> HIDE DEF q, b, s, f, h, m
  <2>5. \A n \in (q + 1)..(q + (3 * b + 7)) : LayerFits(w, n, count)
    <3>1. StagePlaced(w, q, f, h, m, b, s)
      BY <2>1, <2>2, <2>3, <2>4 DEF StagePlaced
    <3> QED BY <3>1, StageFits
  <2> QED BY <2>1, <2>5
<1>5. \A n \in 87..105 : LayerFits(w, n, count)
  <2> DEFINE q == 86
             b == 4
             s == 26
             f == 1024
             h == 512
             m == 512
  <2>1. /\ q \in 1..105 /\ f \in Int /\ h \in Int /\ m \in Int /\ b \in Nat
        /\ q + (3 * b + 7) <= 105 /\ s \in Nat /\ q + 1 = 87 /\ q + (3 * b + 7) = 105
    OBVIOUS
  <2>2. StageAt(w, q, f, h, m, b)
    BY DEF NetworkAt, BackboneAt
  <2>3. Side(q) = 2 * s
    BY DEF Side
  <2>4. \A n \in (q + 1)..(q + (3 * b + 7)) : Side(n) = s /\ Hidden(n) = h
    BY <2>1 DEF Side, Hidden
  <2> HIDE DEF q, b, s, f, h, m
  <2>5. \A n \in (q + 1)..(q + (3 * b + 7)) : LayerFits(w, n, count)
    <3>1. StagePlaced(w, q, f, h, m, b, s)
      BY <2>1, <2>2, <2>3, <2>4 DEF StagePlaced
    <3> QED BY <3>1, StageFits
  <2> QED BY <2>1, <2>5
<1>6. \A n \in 106..108 : LayerFits(w, n, count)
  <2> DEFINE q == 105
  <2>1. q + 1 = 106 /\ q + 3 = 108 /\ q \in 1..157
    OBVIOUS
  <2>2. ThreeConvsAt(w, q)
    BY DEF NetworkAt, NeckAt, HeadsAt
  <2>3. \A n \in (q + 1)..(q + 3) : Side(n) = Side(q) /\ n \notin Detectors
    BY <2>1 DEF Side, Detectors
  <2> HIDE DEF q
  <2>4. \A n \in (q + 1)..(q + 3) : LayerFits(w, n, count)
    BY <2>1, <2>2, <2>3, ThreeConvsFit
  <2> QED BY <2>1, <2>4
<1>7. \A n \in 109..114 : LayerFits(w, n, count)
  BY SppFits DEF NetworkAt, NeckAt
<1>8. \A n \in 115..117 : LayerFits(w, n, count)
  <2> DEFINE q == 114
  <2>1. q + 1 = 115 /\ q + 3 = 117 /\ q \in 1..157
    OBVIOUS
  <2>2. ThreeConvsAt(w, q)
    BY DEF NetworkAt, NeckAt, HeadsAt
  <2>3. \A n \in (q + 1)..(q + 3) : Side(n) = Side(q) /\ n \notin Detectors
    BY <2>1 DEF Side, Detectors
  <2> HIDE DEF q
  <2>4. \A n \in (q + 1)..(q + 3) : LayerFits(w, n, count)
    BY <2>1, <2>2, <2>3, ThreeConvsFit
  <2> QED BY <2>1, <2>4
<1>9. \A n \in 118..122 : LayerFits(w, n, count)
  <2> DEFINE q == 117
             layer == 85
             s == 26
  <2>1. /\ q + 1 = 118 /\ q + 5 = 122
        /\ q \in 1..157 /\ layer \in 0..(q - 1) /\ s \in Nat
    OBVIOUS
  <2>2. MergeAt(w, q, layer)
    BY DEF NetworkAt, NeckAt
  <2>3. /\ Side(q) = s /\ Side(q + 1) = s /\ Side(layer + 1) = 2 * s
        /\ \A n \in (q + 2)..(q + 5) : Side(n) = 2 * s
        /\ \A n \in (q + 1)..(q + 5) : n \notin Detectors
    BY <2>1 DEF Side, Detectors
  <2> HIDE DEF q, layer, s
  <2>4. \A n \in (q + 1)..(q + 5) : LayerFits(w, n, count)
    <3>1. MergePlaced(w, q, layer, s)
      BY <2>1, <2>2, <2>3 DEF MergePlaced
    <3> QED BY <3>1, MergeFits
  <2> QED BY <2>1, <2>4
<1>10. \A n \in 123..127 : LayerFits(w, n, count)
  <2> DEFINE q == 122
  <2>1. q + 1 = 123 /\ q + 5 = 127 /\ q \in 1..157
    OBVIOUS
  <2>2. ConvSetAt(w, q)
    BY DEF NetworkAt, NeckAt, HeadsAt
  <2>3. \A n \in (q + 1)..(q + 5) : Side(n) = Side(q) /\ n \notin Detectors
    BY <2>1 DEF Side, Detectors
  <2> HIDE DEF q
  <2>4. \A n \in (q + 1)..(q + 5) : LayerFits(w, n, count)
    BY <2>1, <2>2, <2>3, ConvSetFits
  <2> QED BY <2>1, <2>4
<1>11. \A n \in 128..132 : LayerFits(w, n, count)
  <2> DEFINE q == 127
             layer == 54
             s == 52
  <2>1. /\ q + 1 = 128 /\ q + 5 = 132
        /\ q \in 1..157 /\ layer \in 0..(q - 1) /\ s \in Nat
    OBVIOUS
  <2>2. MergeAt(w, q, layer)
    BY DEF NetworkAt, NeckAt
  <2>3. /\ Side(q) = s /\ Side(q + 1) = s /\ Side(layer + 1) = 2 * s
        /\ \A n \in (q + 2)..(q + 5) : Side(n) = 2 * s
        /\ \A n \in (q + 1)..(q + 5) : n \notin Detectors
    BY <2>1 DEF Side, Detectors
  <2> HIDE DEF q, layer, s
  <2>4. \A n \in (q + 1)..(q + 5) : LayerFits(w, n, count)
    <3>1. MergePlaced(w, q, layer, s)
      BY <2>1, <2>2, <2>3 DEF MergePlaced
    <3> QED BY <3>1, MergeFits
  <2> QED BY <2>1, <2>4
<1>12. \A n \in 133..137 : LayerFits(w, n, count)
  <2> DEFINE q == 132
  <2>1. q + 1 = 133 /\ q + 5 = 137 /\ q \in 1..157
    OBVIOUS
  <2>2. ConvSetAt(w, q)
    BY DEF NetworkAt, NeckAt, HeadsAt
  <2>3. \A n \in (q + 1)..(q + 5) : Side(n) = Side(q) /\ n \notin Detectors
    BY <2>1 DEF Side, Detectors
  <2> HIDE DEF q
  <2>4. \A n \in (q + 1)..(q + 5) : LayerFits(w, n, count)
    BY <2>1, <2>2, <2>3, ConvSetFits
  <2> QED BY <2>1, <2>4
<1>13. \A n \in 138..140 : LayerFits(w, n, count)
  <2> DEFINE q == 137
  <2>1. q + 1 = 138 /\ q + 3 = 140 /\ q \in 1..159 /\ {0, 1, 2} \in SUBSET Int
    OBVIOUS
  <2>2. HeadAt(w, q, {0, 1, 2}, count)
    BY DEF NetworkAt, NeckAt, HeadsAt
  <2>3. /\ q + 3 \in Detectors /\ q + 1 \notin Detectors /\ q + 2 \notin Detectors
        /\ \A n \in (q + 1)..(q + 3) : Side(n) = Side(q)
    BY <2>1 DEF Side, Detectors
  <2> HIDE DEF q
  <2>4. \A n \in (q + 1)..(q + 3) : LayerFits(w, n, count)
    BY <2>1, <2>2, <2>3, HeadFits
  <2> QED BY <2>1, <2>4
<1>14. \A n \in 141..143 : LayerFits(w, n, count)
  <2> DEFINE q == 140
  <2>1. q + 1 = 141 /\ q + 3 = 143
        /\ q \in 4..157 /\ -16 \in Int /\ -16 < 0 /\ (q + 3) + (-16) \in 1..q /\ 52 \in Nat
    OBVIOUS
  <2>2. DownAt(w, q, -16)
    BY DEF NetworkAt, NeckAt, HeadsAt
  <2>3. /\ Side(q + 1) = 2 * 52 /\ Side(q - 3) = 2 * 52 /\ Side(q + 2) = 52
        /\ Side(q + 3) = 52 /\ Side((q + 3) + (-16)) = 52
        /\ \A n \in (q + 1)..(q + 3) : n \notin Detectors
    BY <2>1 DEF Side, Detectors
  <2> HIDE DEF q
  <2>4. \A n \in (q + 1)..(q + 3) : LayerFits(w, n, count)
    BY <2>1, <2>2, <2>3, DownsFit
  <2> QED BY <2>1, <2>4
<1>15. \A n \in 144..148 : LayerFits(w, n, count)
  <2> DEFINE q == 143
  <2>1. q + 1 = 144 /\ q + 5 = 148 /\ q \in 1..157
    OBVIOUS
  <2>2. ConvSetAt(w, q)
    BY DEF NetworkAt, NeckAt, HeadsAt
  <2>3. \A n \in (q + 1)..(q + 5) : Side(n) = Side(q) /\ n \notin Detectors
    BY <2>1 DEF Side, Detectors
  <2> HIDE DEF q
  <2>4. \A n \in (q + 1)..(q + 5) : LayerFits(w, n, count)
    BY <2>1, <2>2, <2>3, ConvSetFits
  <2> QED BY <2>1, <2>4
<1>16. \A n \in 149..151 : LayerFits(w, n, count)
  <2> DEFINE q == 148
  <2>1. q + 1 = 149 /\ q + 3 = 151 /\ q \in 1..159 /\ {3, 4, 5} \in SUBSET Int
    OBVIOUS
  <2>2. HeadAt(w, q, {3, 4, 5}, count)
    BY DEF NetworkAt, NeckAt, HeadsAt
  <2>3. /\ q + 3 \in Detectors /\ q + 1 \notin Detectors /\ q + 2 \notin Detectors
        /\ \A n \in (q + 1)..(q + 3) : Side(n) = Side(q)
    BY <2>1 DEF Side, Detectors
  <2> HIDE DEF q
  <2>4. \A n \in (q + 1)..(q + 3) : LayerFits(w, n, count)
    BY <2>1, <2>2, <2>3, HeadFits
  <2> QED BY <2>1, <2>4
<1>17. \A n \in 152..154 : LayerFits(w, n, count)
  <2> DEFINE q == 151
  <2>1. q + 1 = 152 /\ q + 3 = 154
        /\ q \in 4..157 /\ -37 \in Int /\ -37 < 0 /\ (q + 3) + (-37) \in 1..q /\ 26 \in Nat
    OBVIOUS
  <2>2. DownAt(w, q, -37)
    BY DEF NetworkAt, NeckAt, HeadsAt
  <2>3. /\ Side(q + 1) = 2 * 26 /\ Side(q - 3) = 2 * 26 /\ Side(q + 2) = 26
        /\ Side(q + 3) = 26 /\ Side((q + 3) + (-37)) = 26
        /\ \A n \in (q + 1)..(q + 3) : n \notin Detectors
    BY <2>1 DEF Side, Detectors
  <2> HIDE DEF q
  <2>4. \A n \in (q + 1)..(q + 3) : LayerFits(w, n, count)
    BY <2>1, <2>2, <2>3, DownsFit
  <2> QED BY <2>1, <2>4
<1>18. \A n \in 155..159 : LayerFits(w, n, count)
  <2> DEFINE q == 154
  <2>1. q + 1 = 155 /\ q + 5 = 159 /\ q \in 1..157
    OBVIOUS
  <2>2. ConvSetAt(w, q)
    BY DEF NetworkAt, NeckAt, HeadsAt
  <2>3. \A n \in (q + 1)..(q + 5) : Side(n) = Side(q) /\ n \notin Detectors
    BY <2>1 DEF Side, Detectors
  <2> HIDE DEF q
  <2>4. \A n \in (q + 1)..(q + 5) : LayerFits(w, n, count)
    BY <2>1, <2>2, <2>3, ConvSetFits
  <2> QED BY <2>1, <2>4
<1>19. \A n \in 160..162 : LayerFits(w, n, count)
  <2> DEFINE q == 159
  <2>1. q + 1 = 160 /\ q + 3 = 162 /\ q \in 1..159 /\ {6, 7, 8} \in SUBSET Int
    OBVIOUS
  <2>2. HeadAt(w, q, {6, 7, 8}, count)
    BY DEF NetworkAt, NeckAt, HeadsAt
  <2>3. /\ q + 3 \in Detectors /\ q + 1 \notin Detectors /\ q + 2 \notin Detectors
        /\ \A n \in (q + 1)..(q + 3) : Side(n) = Side(q)
    BY <2>1 DEF Side, Detectors
  <2> HIDE DEF q
  <2>4. \A n \in (q + 1)..(q + 3) : LayerFits(w, n, count)
    BY <2>1, <2>2, <2>3, HeadFits
  <2> QED BY <2>1, <2>4
<1> QED
  <2>1. \A n \in 2..162 :
          \/ n \in 2..11
          \/ n \in 12..24
          \/ n \in 25..55
          \/ n \in 56..86
          \/ n \in 87..105
          \/ n \in 106..108
          \/ n \in 109..114
          \/ n \in 115..117
          \/ n \in 118..122
          \/ n \in 123..127
          \/ n \in 128..132
          \/ n \in 133..137
          \/ n \in 138..140
          \/ n \in 141..143
          \/ n \in 144..148
          \/ n \in 149..151
          \/ n \in 152..154
          \/ n \in 155..159
          \/ n \in 160..162
    OBVIOUS
  <2> QED BY <2>1, <1>1, <1>2, <1>3, <1>4, <1>5, <1>6, <1>7, <1>8, <1>9, <1>10, <1>11, <1>12, <1>13, <1>14, <1>15, <1>16, <1>17, <1>18, <1>19

-----------------------------------------------------------------------------
(* What becomes of every layer *)

Fed(w, n) ==
  \/ w[n].type = "yolo"
  \/ \E p \in 2..162 : \E i \in DOMAIN w[p].from : SourceOf(w[p], p, i) = n

TakesBefore(l) == 1 \in DOMAIN l.from /\ l.from[1] = -1

LEMMA BeforeIsFed ==
  ASSUME NEW w, NEW n \in 1..161, NEW p, p = n + 1, TakesBefore(w[p])
  PROVE  Fed(w, n)
<1>1. p \in 2..162
  OBVIOUS
<1>2. 1 \in DOMAIN w[p].from /\ SourceOf(w[p], p, 1) = n
  BY DEF TakesBefore, SourceOf
<1> QED BY <1>1, <1>2 DEF Fed

\* A layer further back is a second source.
LEMMA SecondIsFed ==
  ASSUME NEW w, NEW p \in 2..162, NEW d \in Int, d < 0, NEW n, n = p + d,
         w[p] = route(<<-1, d>>)
  PROVE  Fed(w, n)
<1>1. w[p].from = <<-1, d>>
  BY LayerFields
<1>2. 2 \in DOMAIN w[p].from /\ w[p].from[2] = d
  BY <1>1, TupleDomains
<1>3. SourceOf(w[p], p, 2) = n
  BY <1>2 DEF SourceOf
<1> QED BY <1>2, <1>3 DEF Fed

LEMMA AllTakeBefore ==
  /\ \A l : IsConv(l) => TakesBefore(l)
  /\ \A l : l.from = <<-1>> => TakesBefore(l)
  /\ \A f, z, t : TakesBefore(conv(f, z, t))
  /\ \A z : TakesBefore(maxpool(z))
  /\ \A mask, c : TakesBefore(yolo(mask, c))
  /\ \A d : TakesBefore(route(<<-1, d>>))
  /\ TakesBefore(shortcut) /\ TakesBefore(upsample)
<1>1. \A l : l.from = <<-1>> => TakesBefore(l)
  BY TupleDomains DEF TakesBefore
<1>2. \A l, d : l.from = <<-1, d>> => TakesBefore(l)
  BY TupleDomains DEF TakesBefore
<1>3. \A d : route(<<-1, d>>).from = <<-1, d>>
  BY LayerFields
<1>4. \A l : IsConv(l) => TakesBefore(l)
  BY <1>1 DEF IsConv
<1>5. /\ \A f, z, t : conv(f, z, t).from = <<-1>>
      /\ \A z : maxpool(z).from = <<-1>>
      /\ \A mask, c : yolo(mask, c).from = <<-1>>
      /\ shortcut.from = <<-1, -3>> /\ upsample.from = <<-1>>
  BY LayerFields
<1> HIDE DEF TakesBefore
<1> QED BY <1>1, <1>2, <1>3, <1>4, <1>5

\* The half of a stage that skips its blocks comes back at its end.
LEMMA StageFeeds ==
  ASSUME NEW w, NEW q, NEW f, NEW h, NEW m, NEW b,
         q \in 1..105, b \in Nat, q + (3 * b + 7) <= 105, StageAt(w, q, f, h, m, b)
  PROVE  \A n \in q..(q + (3 * b + 6)) : Fed(w, n)
<1>1. ASSUME NEW n \in q..(q + (3 * b + 6)), n # q + 2 PROVE Fed(w, n)
  <2> DEFINE i == (n + 1) - q
             j == (i - 2) \div 3
             p == n + 1
  <2>1. i \in 1..(3 * b + 7) /\ i # 3 /\ p = q + i /\ n \in 1..161
    BY <1>1
  <2>2. \/ i \in {1, 2, 4} \/ i \in {3 * b + 5, 3 * b + 6, 3 * b + 7}
        \/ j \in 1..b /\ i \in {4 + (3 * j - 2), 4 + (3 * j - 1), 4 + 3 * j}
    BY <2>1
  <2>3. p = n + 1
    OBVIOUS
  <2> HIDE DEF i, j, p
  <2>4. TakesBefore(w[q + i])
    <3>1. CASE i \in {1, 2, 4}
      BY <3>1, AllTakeBefore DEF StageAt
    <3>2. CASE i \in {3 * b + 5, 3 * b + 6, 3 * b + 7}
      BY <3>2, AllTakeBefore DEF StageAt
    <3>3. CASE j \in 1..b /\ i \in {4 + (3 * j - 2), 4 + (3 * j - 1), 4 + 3 * j}
      BY <3>3, AllTakeBefore DEF StageAt
    <3> QED BY <2>2, <3>1, <3>2, <3>3
  <2> QED BY <2>1, <2>3, <2>4, BeforeIsFed
<1>2. Fed(w, q + 2)
  <2> DEFINE p == q + (3 * b + 6)
             d == -(b * 3 + 4)
             n == q + 2
  <2>1. p \in 2..162 /\ d \in Int /\ d < 0 /\ n = p + d
    OBVIOUS
  <2>2. w[p] = route(<<-1, d>>)
    BY DEF StageAt
  <2> HIDE DEF p, d, n
  <2>3. Fed(w, n)
    BY <2>1, <2>2, SecondIsFed
  <2> QED BY <2>3 DEF n
<1> QED BY <1>1, <1>2

LEMMA ConvsFeed ==
  ASSUME NEW w, NEW q, NEW k \in Nat, q \in 1..157, k <= 5,
         \A i \in 1..k : IsConv(w[q + i])
  PROVE  \A n \in q..(q + k - 1) : Fed(w, n)
<1> TAKE n \in q..(q + k - 1)
<1> DEFINE i == (n + 1) - q
           p == n + 1
<1>1. i \in 1..k /\ p = q + i /\ n \in 1..161 /\ p = n + 1
  OBVIOUS
<1> HIDE DEF i, p
<1>2. TakesBefore(w[p])
  BY <1>1, AllTakeBefore
<1> QED BY <1>1, <1>2, BeforeIsFed

LEMMA SppFeeds ==
  ASSUME NEW w, SppAt(w, 108)
  PROVE  \A n \in 108..113 : Fed(w, n)
<1>1. /\ w[108 + 1] = maxpool(5) /\ w[108 + 3] = maxpool(9) /\ w[108 + 5] = maxpool(13)
      /\ w[114] = route(<<-1, -3, -5, -6>>)
  BY DEF SppAt
<1>2. ASSUME NEW n \in {108, 110, 112} PROVE Fed(w, n)
  <2>1. n \in 1..161 /\ n + 1 \in {108 + 1, 108 + 3, 108 + 5}
    OBVIOUS
  <2>2. TakesBefore(w[n + 1])
    BY <1>1, <2>1, AllTakeBefore
  <2> QED BY <2>1, <2>2, BeforeIsFed
<1>3. w[114].from = <<-1, -3, -5, -6>>
  BY <1>1, LayerFields
<1>4. /\ DOMAIN w[114].from = {1, 2, 3, 4} /\ w[114].from[1] = -1 /\ w[114].from[2] = -3
      /\ w[114].from[3] = -5 /\ w[114].from[4] = -6
  BY <1>3, TupleDomains
<1>5. /\ SourceOf(w[114], 114, 1) = 113 /\ SourceOf(w[114], 114, 2) = 111
      /\ SourceOf(w[114], 114, 3) = 109
  BY <1>4 DEF SourceOf
<1>6. 114 \in 2..162
  OBVIOUS
<1>7. Fed(w, 113) /\ Fed(w, 111) /\ Fed(w, 109)
  BY <1>4, <1>5, <1>6 DEF Fed
<1>8. \A n \in 108..113 : n \in {108, 110, 112} \/ n = 109 \/ n = 111 \/ n = 113
  OBVIOUS
<1> QED BY <1>2, <1>7, <1>8

LEMMA MergeFeeds ==
  ASSUME NEW w, NEW q, NEW layer, q \in 1..157, MergeAt(w, q, layer)
  PROVE  \A n \in q..(q + 4) : Fed(w, n)
<1>1. ASSUME NEW n \in {q, q + 1, q + 3, q + 4} PROVE Fed(w, n)
  <2>1. n \in 1..161 /\ n + 1 \in {q + 1, q + 2, q + 4, q + 5}
    OBVIOUS
  <2>2. TakesBefore(w[n + 1])
    <3>1. /\ TakesBefore(w[q + 1]) /\ TakesBefore(w[q + 2]) /\ TakesBefore(w[q + 4])
          /\ TakesBefore(w[q + 5])
      BY AllTakeBefore DEF MergeAt
    <3> QED BY <2>1, <3>1
  <2> QED BY <2>1, <2>2, BeforeIsFed
<1>2. Fed(w, q + 2)
  <2> DEFINE p == q + 5
             d == -3
             n == q + 2
  <2>1. p \in 2..162 /\ d \in Int /\ d < 0 /\ n = p + d
    OBVIOUS
  <2>2. w[p] = route(<<-1, d>>)
    BY DEF MergeAt
  <2> HIDE DEF p, d, n
  <2>3. Fed(w, n)
    BY <2>1, <2>2, SecondIsFed
  <2> QED BY <2>3 DEF n
<1>3. \A n \in q..(q + 4) : n \in {q, q + 1, q + 3, q + 4} \/ n = q + 2
  OBVIOUS
<1> QED BY <1>1, <1>2, <1>3

LEMMA HeadFeeds ==
  ASSUME NEW w, NEW q, NEW mask, NEW count, q \in 1..159, HeadAt(w, q, mask, count)
  PROVE  \A n \in q..(q + 3) : Fed(w, n)
<1>1. ASSUME NEW n \in {q, q + 1, q + 2} PROVE Fed(w, n)
  <2>1. n \in 1..161 /\ n + 1 \in {q + 1, q + 2, q + 3}
    OBVIOUS
  <2>2. TakesBefore(w[n + 1])
    <3>1. TakesBefore(w[q + 1]) /\ TakesBefore(w[q + 2]) /\ TakesBefore(w[q + 3])
      BY AllTakeBefore DEF HeadAt
    <3> QED BY <2>1, <3>1
  <2> QED BY <2>1, <2>2, BeforeIsFed
<1>2. Fed(w, q + 3)
  BY LayerFields DEF HeadAt, Fed
<1>3. \A n \in q..(q + 3) : n \in {q, q + 1, q + 2} \/ n = q + 3
  OBVIOUS
<1> QED BY <1>1, <1>2, <1>3

LEMMA DownFeeds ==
  ASSUME NEW w, NEW q, NEW back, q \in 1..157, DownAt(w, q, back)
  PROVE  \A n \in (q + 1)..(q + 2) : Fed(w, n)
<1> TAKE n \in (q + 1)..(q + 2)
<1>1. n \in 1..161 /\ (n + 1 = q + 2 \/ n + 1 = q + 3)
  OBVIOUS
<1>2. TakesBefore(w[n + 1])
  <2>1. TakesBefore(w[q + 2]) /\ TakesBefore(w[q + 3])
    BY AllTakeBefore DEF DownAt
  <2> QED BY <1>1, <2>1
<1> QED BY <1>1, <1>2, BeforeIsFed

LEMMA LayersFeed ==
  ASSUME NEW count \in Nat, NEW w, NetworkAt(w, count)
  PROVE  \A n \in 1..162 : Fed(w, n)
<1>1. \A n \in 1..10 : Fed(w, n)
  <2> DEFINE q == 1
             b == 1
             f == 64
             h == 64
             m == 32
  <2>1. q \in 1..105 /\ b \in Nat /\ q + (3 * b + 7) <= 105
    OBVIOUS
  <2>2. q = 1 /\ q + (3 * b + 6) = 10
    OBVIOUS
  <2>3. StageAt(w, q, f, h, m, b)
    BY DEF NetworkAt, BackboneAt
  <2> HIDE DEF q, b, f, h, m
  <2>4. \A n \in q..(q + (3 * b + 6)) : Fed(w, n)
    BY <2>1, <2>3, StageFeeds
  <2> QED BY <2>2, <2>4
<1>2. \A n \in 11..23 : Fed(w, n)
  <2> DEFINE q == 11
             b == 2
             f == 128
             h == 64
             m == 64
  <2>1. q \in 1..105 /\ b \in Nat /\ q + (3 * b + 7) <= 105
    OBVIOUS
  <2>2. q = 11 /\ q + (3 * b + 6) = 23
    OBVIOUS
  <2>3. StageAt(w, q, f, h, m, b)
    BY DEF NetworkAt, BackboneAt
  <2> HIDE DEF q, b, f, h, m
  <2>4. \A n \in q..(q + (3 * b + 6)) : Fed(w, n)
    BY <2>1, <2>3, StageFeeds
  <2> QED BY <2>2, <2>4
<1>3. \A n \in 24..54 : Fed(w, n)
  <2> DEFINE q == 24
             b == 8
             f == 256
             h == 128
             m == 128
  <2>1. q \in 1..105 /\ b \in Nat /\ q + (3 * b + 7) <= 105
    OBVIOUS
  <2>2. q = 24 /\ q + (3 * b + 6) = 54
    OBVIOUS
  <2>3. StageAt(w, q, f, h, m, b)
    BY DEF NetworkAt, BackboneAt
  <2> HIDE DEF q, b, f, h, m
  <2>4. \A n \in q..(q + (3 * b + 6)) : Fed(w, n)
    BY <2>1, <2>3, StageFeeds
  <2> QED BY <2>2, <2>4
<1>4. \A n \in 55..85 : Fed(w, n)
  <2> DEFINE q == 55
             b == 8
             f == 512
             h == 256
             m == 256
  <2>1. q \in 1..105 /\ b \in Nat /\ q + (3 * b + 7) <= 105
    OBVIOUS
  <2>2. q = 55 /\ q + (3 * b + 6) = 85
    OBVIOUS
  <2>3. StageAt(w, q, f, h, m, b)
    BY DEF NetworkAt, BackboneAt
  <2> HIDE DEF q, b, f, h, m
  <2>4. \A n \in q..(q + (3 * b + 6)) : Fed(w, n)
    BY <2>1, <2>3, StageFeeds
  <2> QED BY <2>2, <2>4
<1>5. \A n \in 86..104 : Fed(w, n)
  <2> DEFINE q == 86
             b == 4
             f == 1024
             h == 512
             m == 512
  <2>1. q \in 1..105 /\ b \in Nat /\ q + (3 * b + 7) <= 105
    OBVIOUS
  <2>2. q = 86 /\ q + (3 * b + 6) = 104
    OBVIOUS
  <2>3. StageAt(w, q, f, h, m, b)
    BY DEF NetworkAt, BackboneAt
  <2> HIDE DEF q, b, f, h, m
  <2>4. \A n \in q..(q + (3 * b + 6)) : Fed(w, n)
    BY <2>1, <2>3, StageFeeds
  <2> QED BY <2>2, <2>4
<1>6. \A n \in 105..107 : Fed(w, n)
  <2> DEFINE q == 105
             k == 3
  <2>1. q \in 1..157 /\ k \in Nat /\ k <= 5
    OBVIOUS
  <2>2. q = 105 /\ q + k - 1 = 107
    OBVIOUS
  <2>3. ThreeConvsAt(w, q)
    BY DEF NetworkAt, NeckAt, HeadsAt
  <2>4. \A i \in 1..k : i = 1 \/ i = 2 \/ i = 3
    OBVIOUS
  <2> HIDE DEF q, k
  <2>5. \A i \in 1..k : IsConv(w[q + i])
    BY <2>3, <2>4 DEF ThreeConvsAt
  <2>6. \A n \in q..(q + k - 1) : Fed(w, n)
    BY <2>1, <2>5, ConvsFeed
  <2> QED BY <2>2, <2>6
<1>7. \A n \in 108..113 : Fed(w, n)
  BY SppFeeds DEF NetworkAt, NeckAt
<1>8. \A n \in 114..116 : Fed(w, n)
  <2> DEFINE q == 114
             k == 3
  <2>1. q \in 1..157 /\ k \in Nat /\ k <= 5
    OBVIOUS
  <2>2. q = 114 /\ q + k - 1 = 116
    OBVIOUS
  <2>3. ThreeConvsAt(w, q)
    BY DEF NetworkAt, NeckAt, HeadsAt
  <2>4. \A i \in 1..k : i = 1 \/ i = 2 \/ i = 3
    OBVIOUS
  <2> HIDE DEF q, k
  <2>5. \A i \in 1..k : IsConv(w[q + i])
    BY <2>3, <2>4 DEF ThreeConvsAt
  <2>6. \A n \in q..(q + k - 1) : Fed(w, n)
    BY <2>1, <2>5, ConvsFeed
  <2> QED BY <2>2, <2>6
<1>9. \A n \in 117..121 : Fed(w, n)
  <2> DEFINE q == 117
  <2>1. q \in 1..157 /\ q = 117 /\ q + 4 = 121
    OBVIOUS
  <2>2. MergeAt(w, q, 85)
    BY DEF NetworkAt, NeckAt, HeadsAt
  <2> HIDE DEF q
  <2>3. \A n \in q..(q + 4) : Fed(w, n)
    BY <2>1, <2>2, MergeFeeds
  <2> QED BY <2>1, <2>3
<1>10. \A n \in 122..126 : Fed(w, n)
  <2> DEFINE q == 122
             k == 5
  <2>1. q \in 1..157 /\ k \in Nat /\ k <= 5
    OBVIOUS
  <2>2. q = 122 /\ q + k - 1 = 126
    OBVIOUS
  <2>3. ConvSetAt(w, q)
    BY DEF NetworkAt, NeckAt, HeadsAt
  <2>4. \A i \in 1..k : i = 1 \/ i = 2 \/ i = 3 \/ i = 4 \/ i = 5
    OBVIOUS
  <2> HIDE DEF q, k
  <2>5. \A i \in 1..k : IsConv(w[q + i])
    BY <2>3, <2>4 DEF ConvSetAt
  <2>6. \A n \in q..(q + k - 1) : Fed(w, n)
    BY <2>1, <2>5, ConvsFeed
  <2> QED BY <2>2, <2>6
<1>11. \A n \in 127..131 : Fed(w, n)
  <2> DEFINE q == 127
  <2>1. q \in 1..157 /\ q = 127 /\ q + 4 = 131
    OBVIOUS
  <2>2. MergeAt(w, q, 54)
    BY DEF NetworkAt, NeckAt, HeadsAt
  <2> HIDE DEF q
  <2>3. \A n \in q..(q + 4) : Fed(w, n)
    BY <2>1, <2>2, MergeFeeds
  <2> QED BY <2>1, <2>3
<1>12. \A n \in 132..136 : Fed(w, n)
  <2> DEFINE q == 132
             k == 5
  <2>1. q \in 1..157 /\ k \in Nat /\ k <= 5
    OBVIOUS
  <2>2. q = 132 /\ q + k - 1 = 136
    OBVIOUS
  <2>3. ConvSetAt(w, q)
    BY DEF NetworkAt, NeckAt, HeadsAt
  <2>4. \A i \in 1..k : i = 1 \/ i = 2 \/ i = 3 \/ i = 4 \/ i = 5
    OBVIOUS
  <2> HIDE DEF q, k
  <2>5. \A i \in 1..k : IsConv(w[q + i])
    BY <2>3, <2>4 DEF ConvSetAt
  <2>6. \A n \in q..(q + k - 1) : Fed(w, n)
    BY <2>1, <2>5, ConvsFeed
  <2> QED BY <2>2, <2>6
<1>13. \A n \in 137..140 : Fed(w, n)
  <2> DEFINE q == 137
  <2>1. q \in 1..159 /\ q = 137 /\ q + 3 = 140
    OBVIOUS
  <2>2. HeadAt(w, q, {0, 1, 2}, count)
    BY DEF NetworkAt, NeckAt, HeadsAt
  <2> HIDE DEF q
  <2>3. \A n \in q..(q + 3) : Fed(w, n)
    BY <2>1, <2>2, HeadFeeds
  <2> QED BY <2>1, <2>3
<1>14. \A n \in 141..142 : Fed(w, n)
  <2> DEFINE q == 140
  <2>1. q \in 1..157 /\ q + 1 = 141 /\ q + 2 = 142
    OBVIOUS
  <2>2. DownAt(w, q, -16)
    BY DEF NetworkAt, NeckAt, HeadsAt
  <2> HIDE DEF q
  <2>3. \A n \in (q + 1)..(q + 2) : Fed(w, n)
    BY <2>1, <2>2, DownFeeds
  <2> QED BY <2>1, <2>3
<1>15. \A n \in 143..147 : Fed(w, n)
  <2> DEFINE q == 143
             k == 5
  <2>1. q \in 1..157 /\ k \in Nat /\ k <= 5
    OBVIOUS
  <2>2. q = 143 /\ q + k - 1 = 147
    OBVIOUS
  <2>3. ConvSetAt(w, q)
    BY DEF NetworkAt, NeckAt, HeadsAt
  <2>4. \A i \in 1..k : i = 1 \/ i = 2 \/ i = 3 \/ i = 4 \/ i = 5
    OBVIOUS
  <2> HIDE DEF q, k
  <2>5. \A i \in 1..k : IsConv(w[q + i])
    BY <2>3, <2>4 DEF ConvSetAt
  <2>6. \A n \in q..(q + k - 1) : Fed(w, n)
    BY <2>1, <2>5, ConvsFeed
  <2> QED BY <2>2, <2>6
<1>16. \A n \in 148..151 : Fed(w, n)
  <2> DEFINE q == 148
  <2>1. q \in 1..159 /\ q = 148 /\ q + 3 = 151
    OBVIOUS
  <2>2. HeadAt(w, q, {3, 4, 5}, count)
    BY DEF NetworkAt, NeckAt, HeadsAt
  <2> HIDE DEF q
  <2>3. \A n \in q..(q + 3) : Fed(w, n)
    BY <2>1, <2>2, HeadFeeds
  <2> QED BY <2>1, <2>3
<1>17. \A n \in 152..153 : Fed(w, n)
  <2> DEFINE q == 151
  <2>1. q \in 1..157 /\ q + 1 = 152 /\ q + 2 = 153
    OBVIOUS
  <2>2. DownAt(w, q, -37)
    BY DEF NetworkAt, NeckAt, HeadsAt
  <2> HIDE DEF q
  <2>3. \A n \in (q + 1)..(q + 2) : Fed(w, n)
    BY <2>1, <2>2, DownFeeds
  <2> QED BY <2>1, <2>3
<1>18. \A n \in 154..158 : Fed(w, n)
  <2> DEFINE q == 154
             k == 5
  <2>1. q \in 1..157 /\ k \in Nat /\ k <= 5
    OBVIOUS
  <2>2. q = 154 /\ q + k - 1 = 158
    OBVIOUS
  <2>3. ConvSetAt(w, q)
    BY DEF NetworkAt, NeckAt, HeadsAt
  <2>4. \A i \in 1..k : i = 1 \/ i = 2 \/ i = 3 \/ i = 4 \/ i = 5
    OBVIOUS
  <2> HIDE DEF q, k
  <2>5. \A i \in 1..k : IsConv(w[q + i])
    BY <2>3, <2>4 DEF ConvSetAt
  <2>6. \A n \in q..(q + k - 1) : Fed(w, n)
    BY <2>1, <2>5, ConvsFeed
  <2> QED BY <2>2, <2>6
<1>19. \A n \in 159..162 : Fed(w, n)
  <2> DEFINE q == 159
  <2>1. q \in 1..159 /\ q = 159 /\ q + 3 = 162
    OBVIOUS
  <2>2. HeadAt(w, q, {6, 7, 8}, count)
    BY DEF NetworkAt, NeckAt, HeadsAt
  <2> HIDE DEF q
  <2>3. \A n \in q..(q + 3) : Fed(w, n)
    BY <2>1, <2>2, HeadFeeds
  <2> QED BY <2>1, <2>3
<1> QED
  <2>1. \A n \in 1..162 :
          \/ n \in 1..10
          \/ n \in 11..23
          \/ n \in 24..54
          \/ n \in 55..85
          \/ n \in 86..104
          \/ n \in 105..107
          \/ n \in 108..113
          \/ n \in 114..116
          \/ n \in 117..121
          \/ n \in 122..126
          \/ n \in 127..131
          \/ n \in 132..136
          \/ n \in 137..140
          \/ n \in 141..142
          \/ n \in 143..147
          \/ n \in 148..151
          \/ n \in 152..153
          \/ n \in 154..158
          \/ n \in 159..162
    OBVIOUS
  <2> QED BY <2>1, <1>1, <1>2, <1>3, <1>4, <1>5, <1>6, <1>7, <1>8, <1>9, <1>10, <1>11, <1>12, <1>13, <1>14, <1>15, <1>16, <1>17, <1>18, <1>19

-----------------------------------------------------------------------------
(* The network as it is written *)

\* The shape darknet gives the layer l at the place n.
ShapeFits(s, l, n, count) ==
  /\ s = [side |-> Side(n), channels |-> s.channels]
  /\ l.type = "convolutional" => s.channels = l.filters
  /\ l.type = "shortcut" => s.channels = Hidden(n)
  /\ l.type = "yolo" => s.channels = yolo_filters(count)

NetInv ==
  /\ classes \in Nat
  /\ Len(net) \in 0..162 /\ Len(shapes) = Len(net)
  /\ net \in Seq(LayerSet) /\ (\E S : shapes \in Seq(S))
  /\ \A n \in 1..Len(net) : /\ net[n] = Network(classes)[n]
                            /\ ShapeFits(shapes[n], net[n], n, classes)

LEMMA FirstFits ==
  ASSUME NEW count \in Nat, NEW l, l = Network(count)[1]
  PROVE  IsConv(l)
BY NetworkIs DEF NetworkAt, BackboneAt

\* A shape follows from those before.
LEMMA NextShapeFits ==
  ASSUME NEW count \in Nat, NEW w, w = Network(count), NEW n \in 1..162, Len(shapes) = n - 1,
         \A p \in 1..(n - 1) : ShapeFits(shapes[p], w[p], p, count)
  PROVE  ShapeFits(Shape(w[n]), w[n], n, count)
<1> DEFINE l == w[n]
           k == Len(shapes)
           in == IF k = 0 THEN Input ELSE shapes[Sources(l, k)[1] + 1]
           many == [i \in DOMAIN l.from |-> shapes[Sources(l, k)[i] + 1].channels]
<1>1. Shape(l) =
        CASE l.type = "convolutional" ->
               [side |-> in.side \div l.stride, channels |-> l.filters]
          [] l.type = "route" -> [in EXCEPT !.channels = Total(many)]
          [] l.type = "upsample" -> [in EXCEPT !.side = 2 * @]
          [] OTHER -> in
  BY DEF Shape
<1>2. CASE n = 1
  <2>1. IsConv(l)
    BY <1>2, FirstFits
  <2>2. in = Input /\ Input.side = 832
    BY <1>2 DEF Input
  <2> HIDE DEF in, many, l
  <2>3. Shape(l) = [side |-> in.side \div l.stride, channels |-> l.filters]
    BY <1>1, <2>1 DEF IsConv
  <2>4. 832 \div 1 = 832 /\ Side(n) = 832
    BY <1>2 DEF Side
  <2>5. Shape(l) = [side |-> Side(n), channels |-> l.filters]
    BY <2>1, <2>2, <2>3, <2>4 DEF IsConv
  <2>6. ShapeFits(Shape(l), l, n, count)
    BY <2>1, <2>5 DEF ShapeFits, IsConv
  <2> QED BY <2>6 DEF l
<1>3. CASE n # 1
  <2> DEFINE p == SourceOf(l, n, 1)
  <2>1. LayerFits(w, n, count)
    <3>1. n \in 2..162
      BY <1>3
    <3> QED BY <3>1, NetworkIs, LayersFit
  <2>2. 1 \in DOMAIN l.from /\ p \in 1..(n - 1) /\ Side(n) = After(l, Side(p))
    BY <2>1 DEF LayerFits
  <2>3. Sources(l, k)[1] + 1 = p
    BY <2>2 DEF Sources, SourceOf
  <2>4. in = shapes[p]
    BY <1>3, <2>3
  <2>5. ShapeFits(in, w[p], p, count)
    BY <2>2, <2>4
  <2>6. l.type = "shortcut" => Carries(w, p, Hidden(n))
    BY <2>1, <2>2 DEF LayerFits
  <2>7. l.type = "yolo" =>
          w[p].type = "convolutional" /\ w[p].filters = yolo_filters(count)
    BY <2>1 DEF LayerFits
  <2> DEFINE c == in.channels
  <2>8. /\ in = [side |-> Side(p), channels |-> c]
        /\ w[p].type = "convolutional" => c = w[p].filters
        /\ w[p].type = "shortcut" => c = Hidden(p)
    BY <2>5 DEF ShapeFits
  <2> HIDE DEF p, in, many, l, c
  <2>9. l.type = "shortcut" => c = Hidden(n)
    BY <2>6, <2>8 DEF Carries
  <2>10. l.type = "yolo" => c = yolo_filters(count)
    BY <2>7, <2>8
  <2>11. CASE l.type = "convolutional"
    <3>1. Shape(l) = [side |-> in.side \div l.stride, channels |-> l.filters]
      BY <1>1, <2>11
    <3>2. Side(n) = in.side \div l.stride
      BY <2>2, <2>8, <2>11 DEF After
    <3>3. ShapeFits(Shape(l), l, n, count)
      BY <2>11, <3>1, <3>2 DEF ShapeFits
    <3> QED BY <3>3 DEF l
  <2>12. CASE l.type = "route"
    <3>1. Shape(l) = [in EXCEPT !.channels = Total(many)]
      BY <1>1, <2>12
    <3>2. Shape(l) = [side |-> Side(p), channels |-> Total(many)]
      BY <2>8, <3>1
    <3>3. Side(n) = Side(p)
      BY <2>2, <2>12 DEF After
    <3>4. ShapeFits(Shape(l), l, n, count)
      BY <2>12, <3>2, <3>3 DEF ShapeFits
    <3> QED BY <3>4 DEF l
  <2>13. CASE l.type = "upsample"
    <3>1. Shape(l) = [in EXCEPT !.side = 2 * @]
      BY <1>1, <2>13
    <3>2. Shape(l) = [side |-> 2 * Side(p), channels |-> c]
      BY <2>8, <3>1
    <3>3. Side(n) = 2 * Side(p)
      BY <2>2, <2>13 DEF After
    <3>4. ShapeFits(Shape(l), l, n, count)
      BY <2>13, <3>2, <3>3 DEF ShapeFits
    <3> QED BY <3>4 DEF l
  <2>14. CASE l.type \notin {"convolutional", "route", "upsample"}
    <3>1. Shape(l) = in
      BY <1>1, <2>14
    <3>2. Side(n) = Side(p)
      BY <2>2, <2>14 DEF After
    <3>3. ShapeFits(Shape(l), l, n, count)
      BY <2>8, <2>9, <2>10, <2>14, <3>1, <3>2 DEF ShapeFits
    <3> QED BY <3>3 DEF l
  <2> QED BY <2>11, <2>12, <2>13, <2>14
<1> QED BY <1>2, <1>3

LEMMA NetworkStarts == StartNetwork => NetInv
<1> SUFFICES ASSUME StartNetwork PROVE NetInv
  OBVIOUS
<1>1. classes \in Nat /\ net = << >> /\ shapes = << >>
  BY CountsAssumption DEF StartNetwork
<1>2. << >> \in Seq(LayerSet) /\ Len(<< >>) = 0 /\ 0 \in 0..162
  OBVIOUS
<1>3. \A n \in 1..0 : FALSE
  OBVIOUS
<1> QED BY <1>1, <1>2, <1>3 DEF NetInv

LEMMA LayerOf ==
  ASSUME NEW w, Layered(w, 162), NEW n \in 1..162
  PROVE  w[n] \in LayerSet
<1>1. w \in Seq(LayerSet) /\ n \in 1..Len(w)
  BY DEF Layered
<1> QED BY <1>1, ElementOfSeq

LEMMA SectionWritten == NetInv /\ section => NetInv'
<1> SUFFICES ASSUME NetInv, section PROVE NetInv'
  OBVIOUS
<1> DEFINE w == Network(classes)
           k == Len(net)
           layer == w[k + 1]
           s == Shape(layer)
<1>1. classes \in Nat /\ Layered(w, 162)
  BY NetworkIs DEF NetInv
<1>2. k \in 0..161 /\ Len(shapes) = k /\ net \in Seq(LayerSet)
  <2>1. Len(w) = 162
    BY <1>1 DEF Layered
  <2>2. k < Len(w) /\ k \in 0..162 /\ Len(shapes) = k /\ net \in Seq(LayerSet)
    BY DEF section, NetInv
  <2> HIDE DEF w, k
  <2> QED BY <2>1, <2>2
<1>3. net' = Append(net, layer) /\ shapes' = Append(shapes, s) /\ classes' = classes
  BY DEF section
<1>4. layer \in LayerSet
  <2>1. k + 1 \in 1..162
    <3> HIDE DEF k
    <3> QED BY <1>2
  <2> HIDE DEF w, k
  <2> QED BY <1>1, <2>1, LayerOf
<1>5. \A p \in 1..k : net[p] = w[p] /\ ShapeFits(shapes[p], w[p], p, classes)
  BY DEF NetInv
<1>6. ShapeFits(s, layer, k + 1, classes)
  <2> DEFINE n == k + 1
  <2>1. n \in 1..162 /\ Len(shapes) = n - 1 /\ n - 1 = k
    <3> HIDE DEF k
    <3> QED BY <1>2
  <2>2. \A p \in 1..(n - 1) : ShapeFits(shapes[p], w[p], p, classes)
    BY <1>5, <2>1
  <2> HIDE DEF n
  <2>3. ShapeFits(Shape(w[n]), w[n], n, classes)
    BY <1>1, <2>1, <2>2, NextShapeFits
  <2> QED BY <2>3 DEF n
<1>7. PICK S : shapes \in Seq(S)
  BY DEF NetInv
<1> HIDE DEF w, k, layer, s
<1>8. /\ net' \in Seq(LayerSet) /\ Len(net') = k + 1 /\ net'[k + 1] = layer
      /\ \A p \in 1..k : net'[p] = net[p]
  BY <1>2, <1>3, <1>4, AppendProperties DEF k
<1>9. /\ shapes' \in Seq(S \cup {s}) /\ Len(shapes') = k + 1 /\ shapes'[k + 1] = s
      /\ \A p \in 1..k : shapes'[p] = shapes[p]
  <2>1. shapes \in Seq(S \cup {s}) /\ s \in S \cup {s}
    BY <1>7
  <2> QED BY <1>2, <1>3, <2>1, AppendProperties
<1>10. Network(classes') = w
  BY <1>3 DEF w
<1>11. ASSUME NEW n \in 1..(k + 1)
       PROVE  net'[n] = w[n] /\ ShapeFits(shapes'[n], net'[n], n, classes')
  <2>1. CASE n = k + 1
    BY <1>3, <1>6, <1>8, <1>9, <2>1 DEF layer
  <2>2. CASE n # k + 1
    <3>1. n \in 1..k
      BY <1>2, <2>2
    <3> QED BY <1>3, <1>5, <1>8, <1>9, <3>1
  <2> QED BY <2>1, <2>2
<1>12. k + 1 \in 0..162
  BY <1>2
<1> QED BY <1>1, <1>3, <1>8, <1>9, <1>10, <1>11, <1>12 DEF NetInv

LEMMA FromType ==
  ASSUME NEW l \in LayerSet, NEW i \in DOMAIN l.from
  PROVE  l.from[i] \in Int
<1>1. l.from \in Seq(Int)
  <2>1. -1 \in Int /\ -3 \in Int
    OBVIOUS
  <2>2. <<-1>> \in Seq(Int) /\ <<-1, -3>> \in Seq(Int)
    BY <2>1, NegativesType
  <2>3. CASE l \in {conv(f, z, t) : f \in Int, z \in Int, t \in Int}
    <3>1. PICK f \in Int, z \in Int, t \in Int : l = conv(f, z, t)
      BY <2>3
    <3>2. l.from = <<-1>>
      BY <3>1, LayerFields
    <3> QED BY <2>2, <3>2
  <2>4. CASE l \in {route(from) : from \in Seq(Int)}
    BY <2>4, LayerFields
  <2>5. CASE l \in {maxpool(z) : z \in Int}
    <3>1. PICK z \in Int : l = maxpool(z)
      BY <2>5
    <3>2. l.from = <<-1>>
      BY <3>1, LayerFields
    <3> QED BY <2>2, <3>2
  <2>6. CASE l \in {yolo(mask, c) : mask \in SUBSET Int, c \in Int}
    <3>1. PICK mask \in SUBSET Int, c \in Int : l = yolo(mask, c)
      BY <2>6
    <3>2. l.from = <<-1>>
      BY <3>1, LayerFields
    <3> QED BY <2>2, <3>2
  <2>7. CASE l \in {shortcut, upsample}
    BY <2>2, <2>7, LayerFields
  <2> QED BY <2>3, <2>4, <2>5, <2>6, <2>7 DEF LayerSet
<1> QED BY <1>1, LenProperties, ElementOfSeq

\* What darknet finds as the sources of a written layer.
LEMMA SourcesAre ==
  ASSUME NetInv, NEW n \in 1..Len(net)
  PROVE  /\ net[n] = Network(classes)[n]
         /\ DOMAIN From(n) = DOMAIN net[n].from
         /\ \A i \in DOMAIN net[n].from :
              From(n)[i] + 1 = SourceOf(net[n], n, i) /\ From(n)[i] \in Int
<1>1. net[n] = Network(classes)[n] /\ net[n] \in LayerSet /\ n \in Int
  <2>1. net \in Seq(LayerSet)
    BY DEF NetInv
  <2>2. net[n] \in LayerSet
    BY <2>1, ElementOfSeq
  <2> QED BY <2>2 DEF NetInv
<1>2. From(n) = [i \in DOMAIN net[n].from |->
                   IF net[n].from[i] < 0 THEN (n - 1) + net[n].from[i] ELSE net[n].from[i]]
  BY DEF From, Sources
<1>3. \A i \in DOMAIN net[n].from : net[n].from[i] \in Int
  BY <1>1, FromType
<1> DEFINE from == net[n].from
<1>4. \A i \in DOMAIN from : SourceOf(net[n], n, i)
                               = (IF from[i] < 0 THEN (n - 1) + from[i] ELSE from[i]) + 1
  BY DEF SourceOf
<1> HIDE DEF from
<1>5. DOMAIN From(n) = DOMAIN from
  BY <1>2 DEF from
<1>6. \A i \in DOMAIN from :
        From(n)[i] = IF from[i] < 0 THEN (n - 1) + from[i] ELSE from[i]
  BY <1>2 DEF from
<1>7. \A i \in DOMAIN from : from[i] \in Int
  BY <1>3 DEF from
<1>8. \A i \in DOMAIN from : From(n)[i] + 1 = SourceOf(net[n], n, i) /\ From(n)[i] \in Int
  BY <1>1, <1>4, <1>6, <1>7
<1> QED BY <1>1, <1>5, <1>8 DEF from

LEMMA LayersAre == NetInv => Layers = 1..Len(net)
BY LenProperties DEF NetInv, Layers

\* What the routes and shortcuts join.
LEMMA ShapesAreAgreed == NetInv => ShapesAgree
<1> SUFFICES ASSUME NetInv PROVE ShapesAgree
  OBVIOUS
<1> DEFINE w == Network(classes)
<1>1. /\ classes \in Nat /\ Len(net) \in 0..162
      /\ \A n \in 1..Len(net) : ShapeFits(shapes[n], w[n], n, classes)
  BY DEF NetInv
<1>2. ASSUME NEW n \in Layers \ {1}, NEW i \in DOMAIN From(n)
      PROVE  /\ From(n)[i] \in 0..(n - 2)
             /\ shapes[From(n)[1] + 1].side = shapes[From(n)[i] + 1].side
             /\ net[n].type = "shortcut" =>
                  shapes[From(n)[1] + 1].channels = shapes[From(n)[i] + 1].channels
  <2>1. n \in 2..162 /\ n \in 1..Len(net)
    <3>1. n \in 1..Len(net) /\ n # 1
      BY LayersAre
    <3> DEFINE last == Len(net)
    <3>2. last \in 0..162
      BY DEF NetInv
    <3> HIDE DEF last, w
    <3>3. n \in 1..last /\ n # 1
      BY <3>1 DEF last
    <3>4. n \in 2..162
      BY <3>2, <3>3
    <3> QED BY <3>1, <3>4
  <2>2. LayerFits(w, n, classes)
    BY <1>1, <2>1, NetworkIs, LayersFit
  <2>3. /\ net[n] = w[n] /\ i \in DOMAIN w[n].from
        /\ From(n)[i] + 1 = SourceOf(w[n], n, i) /\ From(n)[i] \in Int
    BY <1>2, <2>1, SourcesAre
  <2>4. 1 \in DOMAIN w[n].from
    BY <2>2 DEF LayerFits
  <2>5. From(n)[1] + 1 = SourceOf(w[n], n, 1)
    BY <2>1, <2>3, <2>4, SourcesAre
  <2> DEFINE p == SourceOf(w[n], n, i)
             q == SourceOf(w[n], n, 1)
  <2>6. /\ p \in 1..(n - 1) /\ q \in 1..(n - 1) /\ Side(p) = Side(q)
        /\ w[n].type = "shortcut" =>
             Carries(w, p, Hidden(n)) /\ Carries(w, q, Hidden(n))
    BY <2>2, <2>3, <2>4 DEF LayerFits
  <2> HIDE DEF p, q, w
  <2>7. \A o \in {p, q} :
          /\ o \in 1..Len(net) /\ shapes[o].side = Side(o)
          /\ w[o].type = "convolutional" => shapes[o].channels = w[o].filters
          /\ w[o].type = "shortcut" => shapes[o].channels = Hidden(o)
    <3> SUFFICES ASSUME NEW o \in {p, q}
                 PROVE  /\ o \in 1..Len(net) /\ shapes[o].side = Side(o)
                        /\ w[o].type = "convolutional" => shapes[o].channels = w[o].filters
                        /\ w[o].type = "shortcut" => shapes[o].channels = Hidden(o)
      OBVIOUS
    <3>1. o \in 1..Len(net)
      BY <1>1, <2>1, <2>6
    <3>2. ShapeFits(shapes[o], w[o], o, classes)
      BY <1>1, <3>1
    <3> QED BY <3>1, <3>2 DEF ShapeFits
  <2>8. shapes[q].side = shapes[p].side
    BY <2>6, <2>7
  <2>9. w[n].type = "shortcut" => shapes[q].channels = shapes[p].channels
    BY <2>6, <2>7 DEF Carries
  <2>10. From(n)[i] \in 0..(n - 2)
    <3>1. From(n)[i] + 1 \in 1..(n - 1) /\ From(n)[i] \in Int
      BY <2>3, <2>6 DEF p
    <3> QED BY <2>1, <3>1
  <2>11. From(n)[i] + 1 = p /\ From(n)[1] + 1 = q
    BY <2>3, <2>5 DEF p, q
  <2> QED BY <2>3, <2>8, <2>9, <2>10, <2>11
<1> QED BY <1>2 DEF ShapesAgree

LEMMA EveryLayerIsFed == NetInv => EveryLayerFeeds
<1> SUFFICES ASSUME NetInv, Written,
                    NEW k \in 0..(Len(net) - 1), net[k + 1].type # "yolo"
             PROVE  \E n \in Layers : \E i \in DOMAIN From(n) : n > 1 /\ From(n)[i] = k
  BY DEF EveryLayerFeeds
<1> DEFINE w == Network(classes)
           m == k + 1
<1>1. classes \in Nat /\ Len(net) = 162
  BY NetworkIs DEF NetInv, Written, Layered
<1>2. m \in 1..162 /\ net[m] = w[m]
  <2>1. m \in 1..Len(net) /\ Len(net) = 162
    BY <1>1
  <2> HIDE DEF m
  <2> QED BY <2>1 DEF NetInv
<1>3. Fed(w, m)
  BY <1>1, <1>2, NetworkIs, LayersFeed
<1>4. PICK n \in 2..162 : \E i \in DOMAIN w[n].from : SourceOf(w[n], n, i) = m
  BY <1>2, <1>3 DEF Fed
<1>5. PICK i \in DOMAIN w[n].from : SourceOf(w[n], n, i) = m
  BY <1>4
<1>6. n \in 1..Len(net) /\ n > 1
  BY <1>1, <1>4
<1>7. n \in Layers /\ i \in DOMAIN From(n) /\ From(n)[i] + 1 = m /\ From(n)[i] \in Int
  BY <1>5, <1>6, SourcesAre, LayersAre
<1>8. From(n)[i] = k
  BY <1>7
<1> QED BY <1>6, <1>7, <1>8

\* The detectors are the layers 140, 151 and 162.
LEMMA DetectorsAre ==
  ASSUME NetInv, Written
  PROVE  FlattenSeq([n \in Layers |-> IF net[n].type = "yolo" THEN <<n>> ELSE << >>])
           = <<140, 151, 162>>
<1> DEFINE w == Network(classes)
           found == FlattenSeq([n \in Layers |->
                      IF net[n].type = "yolo" THEN <<n>> ELSE << >>])
<1>1. classes \in Nat /\ Len(net) = 162 /\ Layers = 1..162 /\ DOMAIN net = 1..162
  BY NetworkIs, LayersAre DEF NetInv, Written, Layered, Layers
<1>2. ASSUME NEW n \in 1..162 PROVE net[n].type = "yolo" <=> n \in Detectors
  <2>1. net[n] = w[n]
    BY <1>1 DEF NetInv
  <2>2. CASE n = 1
    <3>1. IsConv(w[n])
      BY <1>1, <2>2, FirstFits
    <3> QED BY <2>1, <2>2, <3>1 DEF IsConv, Detectors
  <2>3. CASE n # 1
    <3>1. n \in 2..162
      BY <2>3
    <3>2. LayerFits(w, n, classes)
      BY <1>1, <3>1, NetworkIs, LayersFit
    <3> QED BY <2>1, <3>2 DEF LayerFits
  <2> QED BY <2>2, <2>3
<1>3. found = InOrder(net, Detectors)
  <2>1. [n \in Layers |-> IF net[n].type = "yolo" THEN <<n>> ELSE << >>]
          = [n \in DOMAIN net |-> IF n \in Detectors THEN <<n>> ELSE << >>]
    BY <1>1, <1>2
  <2> QED BY <2>1, Zenon DEF InOrder
<1>4. {p \in 1..162 : p \in Detectors} = Detectors
  BY DEF Detectors
<1>5. Lists(InOrder(net, Detectors), Detectors)
  <2>1. 162 \in Nat
    OBVIOUS
  <2> HIDE DEF found
  <2>2. Lists(InOrder(net, Detectors), {p \in 1..162 : p \in Detectors})
    BY <1>1, <2>1, InOrderLists
  <2> QED BY <1>4, <2>2
<1>6. Lists(<<140, 151, 162>>, Detectors)
  <2> DEFINE t == <<140, 151, 162>>
  <2>1. t \in Seq(Int) /\ Len(t) = 3 /\ t[1] = 140 /\ t[2] = 151 /\ t[3] = 162
    OBVIOUS
  <2>2. \A i \in 1..3 : i = 1 \/ i = 2 \/ i = 3
    OBVIOUS
  <2>3. 1 \in 1..3 /\ 2 \in 1..3 /\ 3 \in 1..3
    OBVIOUS
  <2> HIDE DEF t
  <2>4. \A p \in Detectors : \E i \in 1..Len(t) : t[i] = p
    BY <2>1, <2>3 DEF Detectors
  <2>5. \A i \in 1..Len(t) : t[i] \in Detectors
    BY <2>1, <2>2 DEF Detectors
  <2>6. \A i, j \in 1..Len(t) : i < j => t[i] < t[j]
    BY <2>1, <2>2
  <2>7. Lists(t, Detectors)
    BY <2>1, <2>4, <2>5, <2>6 DEF Lists
  <2> QED BY <2>7 DEF t
<1> HIDE DEF found
<1>7. found = <<140, 151, 162>>
  BY <1>3, <1>5, <1>6, ListsOnce
<1> QED BY <1>7 DEF found

LEMMA DetectorsAreFit == NetInv => DetectorsFit
<1> SUFFICES ASSUME NetInv, Written PROVE DetectorsFit
  BY DEF DetectorsFit
<1> DEFINE w == Network(classes)
           found == FlattenSeq([n \in Layers |->
                      IF net[n].type = "yolo" THEN <<n>> ELSE << >>])
<1>1. classes \in Nat /\ Len(net) = 162 /\ NetworkAt(w, classes)
  BY NetworkIs DEF NetInv, Written, Layered
<1>2. found = <<140, 151, 162>>
  BY DetectorsAre
<1>3. ASSUME NEW n \in 1..162, NEW mask, w[n] = yolo(mask, classes)
      PROVE  /\ net[n].mask = mask /\ shapes[n].side = Side(n)
             /\ shapes[n].channels = yolo_filters(classes)
  <2>1. net[n] = w[n] /\ ShapeFits(shapes[n], w[n], n, classes)
    BY <1>1 DEF NetInv
  <2>2. w[n].type = "yolo" /\ w[n].mask = mask
    BY <1>3, LayerFields
  <2> QED BY <2>1, <2>2 DEF ShapeFits
<1>4. /\ w[140] = yolo({0, 1, 2}, classes) /\ w[151] = yolo({3, 4, 5}, classes)
      /\ w[162] = yolo({6, 7, 8}, classes)
  <2>1. /\ HeadAt(w, 137, {0, 1, 2}, classes) /\ HeadAt(w, 148, {3, 4, 5}, classes)
        /\ HeadAt(w, 159, {6, 7, 8}, classes)
    BY <1>1 DEF NetworkAt, HeadsAt
  <2>2. 137 + 3 = 140 /\ 148 + 3 = 151 /\ 159 + 3 = 162
    OBVIOUS
  <2> QED BY <2>1, <2>2 DEF HeadAt
<1> HIDE DEF w
<1>5. 140 \in 1..162 /\ 151 \in 1..162 /\ 162 \in 1..162
  OBVIOUS
<1>6. /\ net[140].mask = {0, 1, 2} /\ net[151].mask = {3, 4, 5} /\ net[162].mask = {6, 7, 8}
      /\ shapes[140].side = Side(140) /\ shapes[151].side = Side(151)
      /\ shapes[162].side = Side(162)
      /\ shapes[140].channels = yolo_filters(classes)
      /\ shapes[151].channels = yolo_filters(classes)
      /\ shapes[162].channels = yolo_filters(classes)
  BY <1>3, <1>4, <1>5
<1>7. /\ Side(140) = 104 /\ Side(151) = 52 /\ Side(162) = 26
      /\ 832 \div 8 = 104 /\ 832 \div 16 = 52 /\ 832 \div 32 = 26
  BY DEF Side
<1>8. yolo_filters(classes) = 3 * (4 + 1 + classes)
  BY <1>1 DEF yolo_filters
<1>9. /\ {0, 1, 2} = {3 * 1 - 3, 3 * 1 - 2, 3 * 1 - 1}
      /\ {3, 4, 5} = {3 * 2 - 3, 3 * 2 - 2, 3 * 2 - 1}
      /\ {6, 7, 8} = {3 * 3 - 3, 3 * 3 - 2, 3 * 3 - 1}
  OBVIOUS
<1>10. /\ Len(<<140, 151, 162>>) = 3 /\ <<140, 151, 162>>[1] = 140
       /\ <<140, 151, 162>>[2] = 151 /\ <<140, 151, 162>>[3] = 162
       /\ <<8, 16, 32>>[1] = 8 /\ <<8, 16, 32>>[2] = 16 /\ <<8, 16, 32>>[3] = 32
  OBVIOUS
<1> HIDE DEF found
<1>11. Len(found) = 3 /\ found[1] = 140 /\ found[2] = 151 /\ found[3] = 162
  BY <1>2, <1>10
<1>12. ASSUME NEW d \in 1..3
       PROVE  /\ shapes[found[d]].side = 832 \div <<8, 16, 32>>[d]
              /\ net[found[d]].mask = {3 * d - 3, 3 * d - 2, 3 * d - 1}
              /\ shapes[found[d]].channels = 3 * (4 + 1 + classes)
  <2>1. CASE d = 1
    BY <1>6, <1>7, <1>8, <1>9, <1>10, <1>11, <2>1
  <2>2. CASE d = 2
    BY <1>6, <1>7, <1>8, <1>9, <1>10, <1>11, <2>2
  <2>3. CASE d = 3
    BY <1>6, <1>7, <1>8, <1>9, <1>10, <1>11, <2>3
  <2> QED BY <2>1, <2>2, <2>3
<1> QED BY <1>11, <1>12 DEF DetectorsFit, found

\* In the cfg of a project of any number of classes every number of a layer is
\* that of the layer meant, nothing is computed in vain and the detectors fit.
THEOREM NetworkIsAlwaysWhole == ScheduleSpec => []NetworkIsWhole
<1>1. StartNetwork => NetInv
  BY NetworkStarts
<1>2. NetInv /\ [section]_<<classes, images, net, shapes>> => NetInv'
  <2>1. NetInv /\ UNCHANGED <<classes, images, net, shapes>> => NetInv'
    BY DEF NetInv
  <2> QED BY <2>1, SectionWritten
<1>3. NetInv => NetworkIsWhole
  BY ShapesAreAgreed, EveryLayerIsFed, DetectorsAreFit DEF NetworkIsWhole
<1> QED BY <1>1, <1>2, <1>3, PTL DEF ScheduleSpec

\* The cfg of a project of any number of classes and images is one darknet can
\* train with (Yolov4CfgWriter::write).
THEOREM CfgIsAlwaysSound == ScheduleSpec => []CfgIsSound
<1>1. NetworkIsWhole /\ ScheduleHolds => CfgIsSound
  BY DEF CfgIsSound
<1> QED BY <1>1, NetworkIsAlwaysWhole, ScheduleAlwaysHolds, PTL
=============================================================================
