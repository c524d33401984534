---------------------- MODULE LibraryDescriptors_proofs ----------------------
(***************************************************************************)
(* What the descriptors, label files and text files of an export say of    *)
(* the images beside them, for the layouts behind perform_export.          *)
(*                                                                         *)
(* They are collected by loops that pass over some elements, so this       *)
(* begins with what Selected gives, by induction over the sequence.        *)
(***************************************************************************)
EXTENDS ExportersLibrary_proofs, WellFoundedInduction, SequenceTheorems

-----------------------------------------------------------------------------
(* Induction, and what FlattenSeq gives *)

\* A set of natural numbers has a least member: the induction of the lemmas below.
LEMMA LeastMember ==
  ASSUME NEW T, T \subseteq Nat, T # {}
  PROVE  \E x \in T : \A y \in T : x <= y
<1> DEFINE Below == {p \in Nat \X Nat : p[1] < p[2]}
<1>1. OpToRel(<, Nat) = Below
  BY Zenon DEF OpToRel
<1>2. IsWellFoundedOn(Below, Nat)
  BY <1>1, NatLessThanWellFounded, Zenon
<1> HIDE DEF Below
<1>3. \E x \in T : \A y \in T : <<y, x>> \notin Below
  BY <1>2, WFMin
<1>4. ASSUME NEW x \in Nat, NEW y \in Nat, <<y, x>> \notin Below PROVE x <= y
  <2>1. <<y, x>> \in Nat \X Nat /\ <<y, x>>[1] = y /\ <<y, x>>[2] = x
    OBVIOUS
  <2>2. ~(y < x)
    BY <1>4, <2>1 DEF Below
  <2> QED BY <2>2
<1> QED BY <1>3, <1>4

\* The sequences that the recursion of FlattenSeq makes of the first n.
Flattens(seqs, n, c) ==
  c = [i \in 1..n |-> IF i = 1 THEN seqs[i] ELSE c[i - 1] \o seqs[i]]

LEMMA FlattensAt ==
  ASSUME NEW seqs, NEW n, NEW c, Flattens(seqs, n, c), NEW i \in 1..n
  PROVE  c[i] = IF i = 1 THEN seqs[i] ELSE c[i - 1] \o seqs[i]
BY DEF Flattens

LEMMA FlattenExists ==
  ASSUME NEW seqs, NEW n \in Nat
  PROVE  \E c : Flattens(seqs, n, c)
<1> DEFINE Missing == {m \in Nat : ~ \E c : Flattens(seqs, m, c)}
<1> SUFFICES ASSUME Missing # {} PROVE FALSE
  OBVIOUS
<1>1. PICK m \in Missing : \A k \in Missing : m <= k
  BY LeastMember
<1>2. m \in Nat /\ ~ \E c : Flattens(seqs, m, c)
  BY <1>1
<1>3. m # 0
  <2> DEFINE c == [i \in 1..0 |-> 0]
  <2>1. c = [i \in 1..0 |-> IF i = 1 THEN seqs[i] ELSE c[i - 1] \o seqs[i]]
    OBVIOUS
  <2> HIDE DEF c
  <2> QED BY <1>2, <2>1 DEF Flattens
<1>4. m - 1 \in Nat \ Missing
  BY <1>1, <1>2, <1>3
<1>5. PICK c : Flattens(seqs, m - 1, c)
  BY <1>4
<1> DEFINE d == [i \in 1..m |-> IF i = m THEN (IF i = 1 THEN seqs[i] ELSE c[i - 1] \o seqs[i])
                                         ELSE c[i]]
<1>6. ASSUME NEW i \in 1..m PROVE d[i] = IF i = 1 THEN seqs[i] ELSE d[i - 1] \o seqs[i]
  <2>1. i # m => i \in 1..(m - 1)
    BY <1>2
  <2>2. i # m => c[i] = IF i = 1 THEN seqs[i] ELSE c[i - 1] \o seqs[i]
    BY <1>5, <2>1 DEF Flattens
  <2>3. i # 1 => i - 1 \in 1..m /\ i - 1 # m
    BY <1>2
  <2>4. i # 1 => d[i - 1] = c[i - 1]
    BY <2>3
  <2> QED BY <2>2, <2>4
<1>7. d = [i \in 1..m |-> d[i]]
  OBVIOUS
<1> HIDE DEF d
<1>8. Flattens(seqs, m, d)
  BY <1>6, <1>7, Zenon DEF Flattens
<1> QED BY <1>2, <1>8

\* FlattenSeq is the last of them.
LEMMA FlattenSeqIs ==
  ASSUME NEW seqs, Len(seqs) \in Nat, Len(seqs) # 0
  PROVE  \E c : Flattens(seqs, Len(seqs), c) /\ FlattenSeq(seqs) = c[Len(seqs)]
BY FlattenExists, Zenon DEF FlattenSeq, Flattens

\* Over the sequences that begin alike, the recursion runs alike.
LEMMA FlattensAgree ==
  ASSUME NEW ss, NEW tt, NEW n \in Nat, NEW m \in Nat, n <= m,
         \A i \in 1..n : ss[i] = tt[i],
         NEW c, NEW d, Flattens(ss, n, c), Flattens(tt, m, d)
  PROVE  \A i \in 1..n : c[i] = d[i]
<1> DEFINE Bad == {i \in 1..n : c[i] # d[i]}
<1> SUFFICES ASSUME Bad # {} PROVE FALSE
  OBVIOUS
<1>1. Bad \subseteq Nat
  OBVIOUS
<1>2. PICK i \in Bad : \A k \in Bad : i <= k
  <2> HIDE DEF Bad
  <2> QED BY <1>1, LeastMember
<1>3. i \in 1..n /\ i \in 1..m /\ c[i] # d[i]
  BY <1>2
<1>4. /\ c[i] = IF i = 1 THEN ss[i] ELSE c[i - 1] \o ss[i]
      /\ d[i] = IF i = 1 THEN tt[i] ELSE d[i - 1] \o tt[i]
  BY <1>3 DEF Flattens
<1>5. i # 1 => i - 1 \in 1..n /\ ~(i <= i - 1)
  BY <1>3
<1>6. i # 1 => c[i - 1] = d[i - 1]
  BY <1>2, <1>5
<1> QED BY <1>3, <1>4, <1>6

\* A sequence that is not empty is one with an element appended.
LEMMA LastAppended ==
  ASSUME NEW S, NEW s \in Seq(S), NEW n \in Nat, Len(s) = n + 1
  PROVE  \E t \in Seq(S) : \E e \in S : s = Append(t, e) /\ Len(t) = n
<1> DEFINE t == [i \in 1..n |-> s[i]]
<1>1. t \in Seq(S) /\ Len(t) = n /\ s[n + 1] \in S
  OBVIOUS
<1>2. s = Append(t, s[n + 1])
  OBVIOUS
<1> QED BY <1>1, <1>2

LEMMA NoPositions ==
  ASSUME NEW S, NEW s \in Seq(S), DOMAIN s = {}
  PROVE  s = << >>
<1>1. Len(s) \in Nat /\ DOMAIN s = 1..Len(s)
  BY LenProperties
<1>2. \A n \in Nat : n # 0 => 1 \in 1..n
  OBVIOUS
<1>3. Len(s) = 0
  BY <1>1, <1>2
<1> QED BY <1>3, EmptySeq

-----------------------------------------------------------------------------
(* Selected *)

Parts(s, P) == [j \in DOMAIN s |-> IF j \in P THEN <<s[j]>> ELSE << >>]

LEMMA PartsType ==
  ASSUME NEW S, NEW s \in Seq(S), NEW P
  PROVE  /\ Parts(s, P) \in Seq(Seq(S)) /\ Len(Parts(s, P)) = Len(s)
         /\ Selected(s, P) = FlattenSeq(Parts(s, P))
<1>1. Selected(s, P) = FlattenSeq(Parts(s, P))
  BY Zenon DEF Selected, Parts
<1>2. \A j \in 1..Len(s) : (IF j \in P THEN <<s[j]>> ELSE << >>) \in Seq(S)
  OBVIOUS
<1>3. Len(s) \in Nat /\ DOMAIN s = 1..Len(s)
  OBVIOUS
<1> DEFINE p == Parts(s, P)
<1>4. p \in [1..Len(s) -> Seq(S)]
  BY <1>2, <1>3 DEF Parts
<1>5. p \in Seq(Seq(S)) /\ Len(p) = Len(s)
  <2> HIDE DEF p
  <2> QED BY <1>3, <1>4
<1> QED BY <1>1, <1>5

\* Only the positions the sequence has matter.
LEMMA SelectedSame ==
  ASSUME NEW s, NEW P, NEW Q, \A j \in DOMAIN s : j \in P <=> j \in Q
  PROVE  Selected(s, P) = Selected(s, Q)
<1>1. [j \in DOMAIN s |-> IF j \in P THEN <<s[j]>> ELSE << >>]
        = [j \in DOMAIN s |-> IF j \in Q THEN <<s[j]>> ELSE << >>]
  OBVIOUS
<1> QED BY <1>1, Zenon DEF Selected

LEMMA SelectedEmpty ==
  ASSUME NEW P
  PROVE  Selected(<< >>, P) = << >>
<1>1. Parts(<< >>, P) = << >> /\ Len(<< >>) = 0
  BY DEF Parts
<1>2. Selected(<< >>, P) = FlattenSeq(<< >>)
  BY <1>1 DEF Selected, Parts
<1> QED BY <1>1, <1>2, Zenon DEF FlattenSeq

\* One more element of the sequence to flatten is one more to concatenate.
LEMMA FlattenNext ==
  ASSUME NEW ss, NEW tt, NEW n \in Nat, NEW m \in Nat, m = n + 1,
         Len(ss) = n, Len(tt) = m, \A i \in 1..n : ss[i] = tt[i]
  PROVE  FlattenSeq(tt) = IF n = 0 THEN tt[m] ELSE FlattenSeq(ss) \o tt[m]
<1>1. PICK d : Flattens(tt, m, d) /\ FlattenSeq(tt) = d[m]
  <2>1. Len(tt) \in Nat /\ Len(tt) # 0
    OBVIOUS
  <2> QED BY <2>1, FlattenSeqIs
<1>2. d[m] = IF m = 1 THEN tt[m] ELSE d[m - 1] \o tt[m]
  <2>1. m \in 1..m
    OBVIOUS
  <2> QED BY <1>1, <2>1, FlattensAt
<1>3. CASE n = 0
  <2>1. m = 1
    BY <1>3
  <2> QED BY <1>1, <1>2, <1>3, <2>1
<1>4. CASE n # 0
  <2>1. PICK c : Flattens(ss, n, c) /\ FlattenSeq(ss) = c[n]
    <3>1. Len(ss) \in Nat /\ Len(ss) # 0
      BY <1>4
    <3> QED BY <3>1, FlattenSeqIs
  <2>2. n <= m /\ n \in 1..n /\ m # 1 /\ m - 1 = n
    BY <1>4
  <2>3. \A i \in 1..n : c[i] = d[i]
    BY <1>1, <2>1, <2>2, FlattensAgree
  <2>4. c[n] = d[n]
    BY <2>2, <2>3
  <2> QED BY <1>1, <1>2, <1>4, <2>1, <2>2, <2>4
<1> QED BY <1>3, <1>4

\* What is appended is selected by its position.
LEMMA SelectedNext ==
  ASSUME NEW S, NEW s \in Seq(S), NEW e \in S, NEW P
  PROVE  Selected(Append(s, e), P)
           = IF s = << >> THEN (IF 1 \in P THEN <<e>> ELSE << >>)
             ELSE Selected(s, P) \o (IF Len(s) + 1 \in P THEN <<e>> ELSE << >>)
<1>1. PICK n \in Nat, m \in Nat, all \in Seq(S) :
        /\ n = Len(s) /\ m = n + 1 /\ all = Append(s, e)
  <2>1. Len(s) \in Nat /\ Len(s) + 1 \in Nat /\ Append(s, e) \in Seq(S)
    OBVIOUS
  <2> QED BY <2>1, Zenon
<1>2. /\ Len(all) = m /\ DOMAIN s = 1..n
      /\ DOMAIN all = 1..m /\ all[m] = e /\ \A i \in 1..n : all[i] = s[i]
  BY <1>1
<1>3. PICK ss, tt : ss = Parts(s, P) /\ tt = Parts(all, P)
  OBVIOUS
<1>4. /\ Len(tt) = m /\ Selected(all, P) = FlattenSeq(tt)
      /\ Len(ss) = n /\ Selected(s, P) = FlattenSeq(ss)
  BY <1>1, <1>2, <1>3, PartsType
<1>5. /\ tt[m] = IF m \in P THEN <<e>> ELSE << >>
      /\ \A i \in 1..n : ss[i] = tt[i]
  BY <1>1, <1>2, <1>3 DEF Parts
<1>6. FlattenSeq(tt) = IF n = 0 THEN tt[m] ELSE FlattenSeq(ss) \o tt[m]
  BY <1>1, <1>4, <1>5, FlattenNext
<1>7. n = 0 <=> s = << >>
  BY <1>1, EmptySeq
<1>8. CASE n = 0
  <2>1. m = 1 /\ s = << >>
    BY <1>1, <1>7, <1>8
  <2> QED BY <1>1, <1>4, <1>5, <1>6, <1>8, <2>1
<1>9. CASE n # 0
  <2>1. s # << >> /\ m = Len(s) + 1
    BY <1>1, <1>7, <1>9
  <2>2. Selected(all, P) = Selected(s, P) \o (IF m \in P THEN <<e>> ELSE << >>)
    BY <1>4, <1>5, <1>6, <1>9
  <2> QED BY <1>1, <2>1, <2>2
<1> QED BY <1>8, <1>9

\* What is selected are the elements at the positions and no others.
LEMMA SelectedMembers ==
  ASSUME NEW S, NEW P
  PROVE  \A s \in Seq(S) :
           /\ Selected(s, P) \in Seq(S)
           /\ \A j \in DOMAIN Selected(s, P) : \E k \in DOMAIN s \cap P :
                Selected(s, P)[j] = s[k]
           /\ \A k \in DOMAIN s \cap P : \E j \in DOMAIN Selected(s, P) :
                Selected(s, P)[j] = s[k]
<1> DEFINE Right(s, q) ==
             /\ q \in Seq(S)
             /\ \A j \in DOMAIN q : \E k \in DOMAIN s \cap P : q[j] = s[k]
             /\ \A k \in DOMAIN s \cap P : \E j \in DOMAIN q : q[j] = s[k]
           Bad == {n \in Nat : \E s \in Seq(S) : Len(s) = n /\ ~Right(s, Selected(s, P))}
<1> SUFFICES ASSUME Bad # {} PROVE FALSE
  <2>1. \A s \in Seq(S) : Len(s) \in Nat
    OBVIOUS
  <2>2. \A s \in Seq(S) : Right(s, Selected(s, P))
    <3> HIDE DEF Right
    <3> QED BY <2>1
  <2> QED BY <2>2
<1>1. PICK n \in Bad : \A k \in Bad : n <= k
  <2>1. Bad \subseteq Nat
    OBVIOUS
  <2> HIDE DEF Bad
  <2> QED BY <2>1, LeastMember
<1>2. PICK s \in Seq(S) : Len(s) = n /\ ~Right(s, Selected(s, P))
  BY <1>1
<1>3. Right(<< >>, << >>)
  OBVIOUS
<1>4. n \in Nat /\ n # 0
  <2>1. n = 0 => s = << >>
    BY <1>2, EmptySeq
  <2> HIDE DEF Right
  <2> QED BY <1>1, <1>2, <1>3, <2>1, SelectedEmpty
<1>5. PICK t \in Seq(S), e \in S : s = Append(t, e) /\ Len(t) = n - 1
  <2>1. n - 1 \in Nat /\ Len(s) = (n - 1) + 1
    BY <1>2, <1>4
  <2> HIDE DEF Bad, Right
  <2> QED BY <2>1, LastAppended
<1>6. Right(t, Selected(t, P))
  <2>1. n - 1 \in Nat /\ ~(n <= n - 1)
    BY <1>4
  <2>2. n - 1 \notin Bad
    <3> HIDE DEF Bad
    <3> QED BY <1>1, <2>1
  <2> HIDE DEF Right
  <2> QED BY <1>5, <2>1, <2>2
<1> DEFINE new == IF n \in P THEN <<e>> ELSE << >>
<1>7. Selected(s, P) = IF t = << >> THEN new ELSE Selected(t, P) \o new
  <2>1. Len(t) + 1 = n /\ (t = << >> => n = 1)
    BY <1>4, <1>5
  <2> HIDE DEF Bad, Right
  <2> QED BY <1>5, <2>1, SelectedNext
<1>8. Selected(s, P) = Selected(t, P) \o new
  <2>1. t = << >> => Selected(t, P) = << >>
    BY SelectedEmpty
  <2>2. new \in Seq(S)
    OBVIOUS
  <2>3. << >> \o new = new
    BY <2>2, ConcatEmptySeq
  <2> HIDE DEF new, Bad, Right
  <2> QED BY <1>7, <2>1, <2>3
<1> DEFINE q == Selected(t, P)
<1>9. Right(t, q)
  BY <1>6
<1> HIDE DEF q
<1>10. Right(s, q \o new)
  <2>1. /\ q \in Seq(S) /\ new \in Seq(S) /\ n \in Nat /\ DOMAIN t = 1..(n - 1)
        /\ DOMAIN s = 1..n /\ s[n] = e /\ \A k \in 1..(n - 1) : s[k] = t[k]
    BY <1>4, <1>5, <1>9
  <2>2. ASSUME NEW j \in DOMAIN (q \o new)
        PROVE  \E k \in DOMAIN s \cap P : (q \o new)[j] = s[k]
    <3>1. CASE j \in DOMAIN q
      <4>1. (q \o new)[j] = q[j]
        BY <2>1, <3>1
      <4>2. PICK k \in DOMAIN t \cap P : q[j] = t[k]
        BY <1>9, <3>1
      <4>3. k \in DOMAIN s /\ s[k] = t[k]
        BY <2>1, <4>2
      <4> QED BY <4>1, <4>2, <4>3
    <3>2. CASE j \notin DOMAIN q
      <4>1. n \in P /\ (q \o new)[j] = e
        BY <2>1, <3>2
      <4> QED BY <1>4, <2>1, <4>1
    <3> QED BY <3>1, <3>2
  <2>3. ASSUME NEW k \in DOMAIN s \cap P
        PROVE  \E j \in DOMAIN (q \o new) : (q \o new)[j] = s[k]
    <3>1. CASE k = n
      <4>1. new = <<e>>
        BY <3>1
      <4>2. Len(q) + 1 \in DOMAIN (q \o new) /\ (q \o new)[Len(q) + 1] = e
        BY <2>1, <4>1
      <4> QED BY <2>1, <3>1, <4>2
    <3>2. CASE k # n
      <4>1. k \in DOMAIN t /\ s[k] = t[k]
        BY <2>1, <3>2
      <4>2. PICK j \in DOMAIN q : q[j] = t[k]
        BY <1>9, <4>1
      <4>3. j \in DOMAIN (q \o new) /\ (q \o new)[j] = q[j]
        BY <2>1
      <4> QED BY <4>1, <4>2, <4>3
    <3> QED BY <3>1, <3>2
  <2>4. q \o new \in Seq(S)
    BY <2>1, ConcatProperties
  <2> QED BY <2>2, <2>3, <2>4
<1>11. Right(s, Selected(s, P))
  <2> HIDE DEF Right, new
  <2> QED BY <1>8, <1>10 DEF q
<1> QED BY <1>2, <1>11

-----------------------------------------------------------------------------
(* The elements of a sequence that are in a set *)

Kept(s, E) == Selected(s, {k \in DOMAIN s : s[k] \in E})

LEMMA KeptNext ==
  ASSUME NEW S, NEW s \in Seq(S), NEW e \in S, NEW E
  PROVE  Kept(Append(s, e), E) = Kept(s, E) \o (IF e \in E THEN <<e>> ELSE << >>)
<1> DEFINE P == {k \in DOMAIN s : s[k] \in E}
           Q == {k \in DOMAIN Append(s, e) : Append(s, e)[k] \in E}
<1>1. /\ Len(s) \in Nat /\ DOMAIN s = 1..Len(s) /\ DOMAIN Append(s, e) = 1..(Len(s) + 1)
      /\ Append(s, e)[Len(s) + 1] = e /\ \A k \in 1..Len(s) : Append(s, e)[k] = s[k]
  OBVIOUS
<1>2. \A k \in DOMAIN s : k \in P <=> k \in Q
  BY <1>1
<1>3. Len(s) + 1 \in Q <=> e \in E
  BY <1>1
<1> HIDE DEF P, Q
<1>4. Selected(s, P) = Selected(s, Q) /\ Selected(s, P) \in Seq(S)
  BY <1>2, SelectedSame, SelectedMembers
<1>5. Selected(Append(s, e), Q)
        = IF s = << >> THEN (IF 1 \in Q THEN <<e>> ELSE << >>)
          ELSE Selected(s, Q) \o (IF Len(s) + 1 \in Q THEN <<e>> ELSE << >>)
  BY SelectedNext
<1> DEFINE new == IF e \in E THEN <<e>> ELSE << >>
<1>6. CASE s = << >>
  <2>1. Len(s) + 1 = 1 /\ Selected(s, P) = << >>
    BY <1>6, SelectedEmpty
  <2>2. Selected(Append(s, e), Q) = new
    BY <1>3, <1>5, <1>6, <2>1
  <2>3. new \in Seq(S)
    OBVIOUS
  <2>4. << >> \o new = new
    <3> HIDE DEF new
    <3> QED BY <2>3, ConcatEmptySeq
  <2> HIDE DEF new
  <2>5. Selected(Append(s, e), Q) = Selected(s, P) \o new
    BY <2>1, <2>2, <2>4
  <2> QED BY <1>4, <2>5, Zenon DEF Kept, P, Q, new
<1>7. CASE s # << >>
  <2>1. Selected(Append(s, e), Q) = Selected(s, P) \o new
    BY <1>3, <1>4, <1>5, <1>7
  <2> QED BY <1>4, <2>1, Zenon DEF Kept, P, Q, new
<1> QED BY <1>6, <1>7

LEMMA KeptNextIn ==
  ASSUME NEW S, NEW s \in Seq(S), NEW e \in S, NEW E, e \in E
  PROVE  Kept(Append(s, e), E) = Kept(s, E) \o <<e>>
<1>1. Kept(Append(s, e), E) = Kept(s, E) \o (IF e \in E THEN <<e>> ELSE << >>)
  BY KeptNext, Zenon
<1> QED BY <1>1

LEMMA KeptNextOut ==
  ASSUME NEW S, NEW s \in Seq(S), NEW e \in S, NEW E, e \notin E
  PROVE  Kept(Append(s, e), E) = Kept(s, E)
<1>1. Kept(Append(s, e), E) = Kept(s, E) \o (IF e \in E THEN <<e>> ELSE << >>)
  BY KeptNext, Zenon
<1>2. Kept(s, E) \in Seq(S)
  BY SelectedMembers DEF Kept
<1> QED BY <1>1, <1>2, ConcatEmptySeq

LEMMA KeptEmpty ==
  ASSUME NEW E
  PROVE  Kept(<< >>, E) = << >>
BY SelectedEmpty DEF Kept

KeptApart(s, t, E) == Kept(s \o t, E) = Kept(s, E) \o Kept(t, E)

LEMMA KeptApartNext ==
  ASSUME NEW S, NEW s \in Seq(S), NEW u \in Seq(S), NEW e \in S, NEW E,
         KeptApart(s, u, E)
  PROVE  KeptApart(s, Append(u, e), E)
<1> USE DEF KeptApart
<1>1. PICK w \in Seq(S), one \in Seq(S) : w = s \o u /\ one = <<e>>
  <2>1. s \o u \in Seq(S) /\ <<e>> \in Seq(S)
    OBVIOUS
  <2> QED BY <2>1, Zenon
<1>2. s \o Append(u, e) = Append(w, e)
  BY <1>1
<1>3. PICK x \in Seq(S), y \in Seq(S) : x = Kept(s, E) /\ y = Kept(u, E)
  BY SelectedMembers, Zenon DEF Kept
<1>4. CASE e \in E
  <2>1. Kept(Append(w, e), E) = Kept(w, E) \o one
    BY <1>1, <1>4, KeptNextIn
  <2>2. Kept(Append(u, e), E) = Kept(u, E) \o one
    BY <1>1, <1>4, KeptNextIn
  <2>3. (x \o y) \o one = x \o (y \o one)
    BY ConcatAssociative
  <2> QED BY <1>1, <1>2, <1>3, <2>1, <2>2, <2>3
<1>5. CASE e \notin E
  <2>1. Kept(Append(w, e), E) = Kept(w, E)
    BY <1>5, KeptNextOut
  <2>2. Kept(Append(u, e), E) = Kept(u, E)
    BY <1>5, KeptNextOut
  <2> QED BY <1>1, <1>2, <2>1, <2>2
<1> QED BY <1>4, <1>5

\* The elements of a concatenation are kept part by part.
LEMMA KeptConcat ==
  ASSUME NEW S, NEW s \in Seq(S), NEW E
  PROVE  \A t \in Seq(S) : Kept(s \o t, E) = Kept(s, E) \o Kept(t, E)
<1> DEFINE Right(t) == KeptApart(s, t, E)
           Bad == {n \in Nat : \E t \in Seq(S) : Len(t) = n /\ ~Right(t)}
<1> HIDE DEF Right
<1> SUFFICES ASSUME Bad # {} PROVE FALSE
  <2>1. \A t \in Seq(S) : Len(t) \in Nat
    OBVIOUS
  <2>2. \A t \in Seq(S) : Right(t)
    BY <2>1
  <2> QED BY <2>2 DEF Right, KeptApart
<1>1. PICK n \in Bad : \A k \in Bad : n <= k
  <2>1. Bad \subseteq Nat
    OBVIOUS
  <2> HIDE DEF Bad
  <2> QED BY <2>1, LeastMember
<1>2. PICK t \in Seq(S) : Len(t) = n /\ ~Right(t)
  BY <1>1
<1>3. Kept(s, E) \in Seq(S)
  BY SelectedMembers DEF Kept
<1>4. Right(<< >>)
  <2>1. s \o << >> = s /\ Kept(s, E) \o << >> = Kept(s, E)
    BY <1>3, ConcatEmptySeq
  <2> QED BY <2>1, KeptEmpty DEF Right, KeptApart
<1>5. n \in Nat /\ n # 0
  <2>1. n = 0 => t = << >>
    BY <1>2, EmptySeq
  <2> QED BY <1>1, <1>2, <1>4, <2>1
<1>6. PICK u \in Seq(S), e \in S : t = Append(u, e) /\ Len(u) = n - 1
  <2>1. n - 1 \in Nat /\ Len(t) = (n - 1) + 1
    BY <1>2, <1>5
  <2> HIDE DEF Bad
  <2> QED BY <2>1, LastAppended
<1>7. Right(u)
  <2>1. n - 1 \in Nat /\ ~(n <= n - 1)
    BY <1>5
  <2>2. n - 1 \notin Bad
    <3> HIDE DEF Bad
    <3> QED BY <1>1, <2>1
  <2> QED BY <1>6, <2>1, <2>2
<1>8. Right(Append(u, e))
  BY <1>6, <1>7, KeptApartNext DEF Right
<1> QED BY <1>2, <1>6, <1>8

\* A sequence with no element in the set, and one with all of them in it.
LEMMA KeptNone ==
  ASSUME NEW S, NEW s \in Seq(S), NEW E, \A k \in DOMAIN s : s[k] \notin E
  PROVE  Kept(s, E) = << >>
<1>1. PICK q \in Seq(S) : q = Kept(s, E)
  BY SelectedMembers DEF Kept
<1>2. DOMAIN q = {}
  BY <1>1, SelectedMembers DEF Kept
<1> QED BY <1>1, <1>2, NoPositions

LEMMA KeptAll ==
  ASSUME NEW S, NEW E
  PROVE  \A s \in Seq(S) : (\A k \in DOMAIN s : s[k] \in E) => Kept(s, E) = s
<1> DEFINE All(s) == \A k \in DOMAIN s : s[k] \in E
           Right(s) == All(s) => Kept(s, E) = s
           Bad == {n \in Nat : \E s \in Seq(S) : Len(s) = n /\ ~Right(s)}
<1> HIDE DEF Right
<1> SUFFICES ASSUME Bad # {} PROVE FALSE
  <2>1. \A s \in Seq(S) : Len(s) \in Nat
    OBVIOUS
  <2>2. \A s \in Seq(S) : Right(s)
    BY <2>1
  <2> QED BY <2>2 DEF Right
<1>1. PICK n \in Bad : \A k \in Bad : n <= k
  <2>1. Bad \subseteq Nat
    OBVIOUS
  <2> HIDE DEF Bad
  <2> QED BY <2>1, LeastMember
<1>2. PICK s \in Seq(S) : Len(s) = n /\ ~Right(s)
  BY <1>1
<1>3. Right(<< >>)
  BY KeptEmpty DEF Right
<1>4. n \in Nat /\ n # 0
  <2>1. n = 0 => s = << >>
    BY <1>2, EmptySeq
  <2> QED BY <1>1, <1>2, <1>3, <2>1
<1>5. PICK t \in Seq(S), e \in S : s = Append(t, e) /\ Len(t) = n - 1
  <2>1. n - 1 \in Nat /\ Len(s) = (n - 1) + 1
    BY <1>2, <1>4
  <2> HIDE DEF Bad
  <2> QED BY <2>1, LastAppended
<1>6. Right(t)
  <2>1. n - 1 \in Nat /\ ~(n <= n - 1)
    BY <1>4
  <2>2. n - 1 \notin Bad
    <3> HIDE DEF Bad
    <3> QED BY <1>1, <2>1
  <2> QED BY <1>5, <2>1, <2>2
<1>7. ASSUME All(s) PROVE Kept(s, E) = s
  <2>1. e \in E /\ All(t)
    <3>1. /\ n \in 1..n /\ DOMAIN s = 1..n /\ s[n] = e /\ DOMAIN t = 1..(n - 1)
          /\ \A k \in 1..(n - 1) : s[k] = t[k] /\ k \in 1..n
      BY <1>4, <1>5
    <3> QED BY <1>7, <3>1
  <2>2. Kept(s, E) = Kept(t, E) \o <<e>>
    BY <1>5, <2>1, KeptNextIn
  <2>3. Kept(t, E) = t
    BY <1>6, <2>1 DEF Right
  <2>4. t \o <<e>> = Append(t, e)
    OBVIOUS
  <2> QED BY <1>5, <2>2, <2>3, <2>4
<1> QED BY <1>2, <1>7 DEF Right

-----------------------------------------------------------------------------
(* The indexes of the classes *)

\* The indexes of the classes of a set run from 0, each of one class.
LEMMA IndexesRun ==
  ASSUME NEW S, S \subseteq Nat, IsFiniteSet(S)
  PROVE  /\ {ClassIndex(S, c) : c \in S} = 0..(Cardinality(S) - 1)
         /\ \A c, d \in S : ClassIndex(S, c) = ClassIndex(S, d) => c = d
<1> DEFINE n == Cardinality(S)
           Below(c) == {e \in S : e < c}
           f == [c \in S |-> Cardinality(Below(c))]
<1>1. n \in Nat
  BY FS_CardinalityType
<1>2. ASSUME NEW c \in S
      PROVE  IsFiniteSet(Below(c)) /\ Cardinality(Below(c)) \in 0..(n - 1)
  <2>1. Below(c) \subseteq S \ {c}
    OBVIOUS
  <2>2. IsFiniteSet(S \ {c}) /\ Cardinality(S \ {c}) = n - 1
    BY FS_RemoveElement
  <2>3. IsFiniteSet(Below(c)) /\ Cardinality(Below(c)) <= n - 1
    <3> HIDE DEF Below, n
    <3> QED BY <2>1, <2>2, FS_Subset
  <2>4. Cardinality(Below(c)) \in Nat
    <3> HIDE DEF Below
    <3> QED BY <2>3, FS_CardinalityType
  <2> HIDE DEF Below, n
  <2> QED BY <1>1, <2>3, <2>4
<1>3. ASSUME NEW c \in S, NEW d \in S, c < d
      PROVE  Cardinality(Below(c)) # Cardinality(Below(d))
  <2>a. c \in Nat /\ d \in Nat /\ \A e \in S : e \in Nat
    OBVIOUS
  <2>1. Below(c) \subseteq Below(d) /\ c \in Below(d) /\ c \notin Below(c)
    <3>1. \A e \in S : e < c => e < d
      BY <1>3, <2>a
    <3>2. ~(c < c)
      BY <2>a
    <3> QED BY <1>3, <3>1, <3>2, Zenon
  <2>2. IsFiniteSet(Below(d))
    BY <1>2
  <2> HIDE DEF Below
  <2> QED BY <2>1, <2>2, FS_Subset
<1>4. ASSUME NEW c \in S, NEW d \in S, Cardinality(Below(c)) = Cardinality(Below(d))
      PROVE  c = d
  <2>1. c < d \/ d < c \/ c = d
    OBVIOUS
  <2> HIDE DEF Below
  <2> QED BY <1>3, <1>4, <2>1
<1>5. f \in Injection(S, 0..(n - 1))
  <2>1. f \in [S -> 0..(n - 1)]
    BY <1>2
  <2>2. \A a, b \in S : f[a] = f[b] => a = b
    BY <1>4
  <2> HIDE DEF f, n
  <2> QED BY <2>1, <2>2 DEF Injection, IsInjective
<1>6. f \in Surjection(S, 0..(n - 1))
  <2>1. \A m \in Nat : IsFiniteSet(0..(m - 1)) /\ Cardinality(0..(m - 1)) = m
    <3> TAKE m \in Nat
    <3>1. 0 \in Int /\ m - 1 \in Int
      OBVIOUS
    <3>2. /\ IsFiniteSet(0..(m - 1))
          /\ Cardinality(0..(m - 1)) = IF 0 > m - 1 THEN 0 ELSE (m - 1) - 0 + 1
      BY <3>1, FS_Interval
    <3> QED BY <3>2
  <2> HIDE DEF f, n
  <2>2. IsFiniteSet(0..(n - 1)) /\ Cardinality(0..(n - 1)) = n
    BY <1>1, <2>1
  <2> QED BY <1>5, <2>2, FS_Injection DEF n
<1>7. \A k \in 0..(n - 1) : \E c \in S : f[c] = k
  <2> HIDE DEF f, n
  <2> QED BY <1>6 DEF Surjection
<1>8. \A c \in S : ClassIndex(S, c) = f[c]
  BY DEF ClassIndex
<1>9. \A c \in S : f[c] \in 0..(n - 1)
  BY <1>2
<1>10. {ClassIndex(S, c) : c \in S} = 0..(n - 1)
  <2> HIDE DEF f, n
  <2> QED BY <1>7, <1>8, <1>9
<1> QED BY <1>4, <1>8, <1>10

\* The classes of a database are finitely many numbers.
LEMMA ClassesFinite ==
  ASSUME NEW records \in Seq(Record)
  PROVE  /\ Annotations(records) \subseteq Nat /\ IsFiniteSet(Annotations(records))
         /\ \A i \in DOMAIN records : \A j \in DOMAIN records[i].rects :
              records[i].rects[j].class \in Annotations(records)
<1>1. ASSUME NEW i \in DOMAIN records, NEW j \in DOMAIN records[i].rects
      PROVE  records[i].rects[j].class \in Classes
  <2>1. records[i].rects \in Seq(Rectangle)
    <3>1. records[i] \in Record
      OBVIOUS
    <3> QED BY <3>1 DEF Record
  <2>2. records[i].rects[j] \in Rectangle
    BY <2>1
  <2> QED BY <2>2 DEF Rectangle
<1>2. Annotations(records) \subseteq Classes
  BY <1>1 DEF Annotations
<1>3. \A i \in DOMAIN records : \A j \in DOMAIN records[i].rects :
        records[i].rects[j].class \in Annotations(records)
  BY DEF Annotations
<1> QED BY <1>2, <1>3, ClassAssumption, FS_Subset

\* The layouts count as the library does.
LEMMA SameIndexes ==
  /\ \A S : Coco!Cardinality(S) = Cardinality(S)
  /\ \A S : Project!Cardinality(S) = Cardinality(S)
  /\ \A S, c : Coco!ClassIndex(S, c) = ClassIndex(S, c)
  /\ \A S, c : Project!ClassIndex(S, c) = ClassIndex(S, c)
<1>1. \A S : Coco!Cardinality(S) = Cardinality(S)
  BY DEF Coco!Cardinality, Cardinality
<1>2. \A S : Project!Cardinality(S) = Cardinality(S)
  BY DEF Project!Cardinality, Cardinality
<1> QED BY <1>1, <1>2 DEF Coco!ClassIndex, Project!ClassIndex, ClassIndex

-----------------------------------------------------------------------------
(* What the copying exporters have in common *)

\* A step of the library is one of an export of the layout, or none.
LEMMA LayoutSteps ==
  ASSUME [Next]_vars
  PROVE  /\ UNCHANGED layout
         /\ \/ UNCHANGED vars
            \/ \E r \in Runs : /\ layout = "COCO"
                               /\ Coco!Begin(r) \/ Coco!Step(r) \/ Coco!Crash(r)
            \/ \E r \in Runs : /\ layout = "CreateML"
                               /\ CreateML!Begin(r) \/ CreateML!Step(r) \/ CreateML!Crash(r)
            \/ \E r \in Runs : /\ layout = "Project"
                               /\ Project!Begin(r) \/ Project!Step(r) \/ Project!Crash(r)
            \/ \E r \in Runs : /\ layout = "Ultralytics"
                               /\ \/ Ultralytics!Begin(r) \/ Ultralytics!Step(r)
                                  \/ Ultralytics!Crash(r)
            \/ \E r \in Runs : /\ layout = "PlainTxt"
                               /\ PlainTxt!Begin(r) \/ PlainTxt!Step(r) \/ PlainTxt!Crash(r)
            \/ layout \notin {"COCO", "CreateML", "Project", "Ultralytics", "PlainTxt"}
BY DEF Next, perform_export, export_db, NoExporter, Finished, vars, walk

\* The copy n is the complete one of the record i of the run r, which had it to
\* export.
IsCopy(r, n, i) ==
  /\ n \in DOMAIN images /\ images[n].whole
  /\ i \in DOMAIN db[r] /\ db[r][i].img = images[n].of /\ Exportable(db[r][i])

\* The records and the copies of a run that has begun stay.
LEMMA CopiesStay ==
  ASSUME LibInv, UNCHANGED layout, layout \in CopyLayouts, NEW r \in Runs, Moves(r),
         NEW s \in Runs, pc[s] # "idle"
  PROVE  /\ db'[s] = db[s]
         /\ \A n, i : IsCopy(s, n, i) => IsCopy(s, n, i)'
<1>1. db'[s] = db[s]
  <2>1. UNCHANGED db \/ pc[r] = "idle"
    BY DEF Moves, Begins, Walks, Chooses, ChoosesOutside, Copies, Enters
  <2> QED BY <2>1, MovesKeepWalk DEF LibInv
<1>2. ASSUME NEW n, NEW i, IsCopy(s, n, i) PROVE IsCopy(s, n, i)'
  <2>1. n \in DOMAIN images' /\ images'[n] = images[n]
    BY <1>2, MovesKeepImages DEF IsCopy
  <2> QED BY <1>1, <1>2, <2>1 DEF IsCopy, Exportable
<1> QED BY <1>1, <1>2

\* What a run is about to enter is the copy of the record it is at.
LEMMA CurrentIsCopy ==
  ASSUME LibInv, layout \in CopyLayouts, NEW r \in Runs, pc[r] \in EntryLabels
  PROVE  IsCopy(r, dest[r], at[r]) /\ Current(r) = db[r][at[r]] /\ pc[r] # "idle"
<1>1. Claims /\ AtImage
  BY LibParts
<1>2. /\ dest[r] \in DOMAIN images /\ images[dest[r]].whole
      /\ images[dest[r]] = Copied(Current(r).img, TRUE)
  BY <1>1, ClaimOf
<1>3. HasRecord(r) /\ Exportable(Current(r))
  BY <1>1 DEF AtImage, NamedLabels
<1>4. images[dest[r]].of = Current(r).img
  BY <1>2 DEF Copied
<1>5. pc[r] # "idle"
  BY DEF EntryLabels
<1> QED BY <1>2, <1>3, <1>4, <1>5 DEF IsCopy, HasRecord, Current

\* Runs that have nothing to do with a step stay as they are.
LEMMA OthersStay ==
  ASSUME LibInv, UNCHANGED layout, NEW r \in Runs, Moves(r), NEW s \in Runs, pc[s] = "done"
  PROVE  s # r /\ pc'[s] = "done" /\ db'[s] = db[s]
<1>1. s # r
  BY MoversWork DEF Ended
<1> QED BY <1>1, MovesKeepWalk DEF LibInv

-----------------------------------------------------------------------------
(* The descriptor of Create ML *)

\* The element k of those the run r has collected is of a record it has copied.
MLElement(r, e) ==
  \E i \in DOMAIN db[r] : /\ IsCopy(r, e.imagefilename, i)
                          /\ e.annotation = CreateML!Labels(db[r][i].rects)

MLInv ==
  /\ LibInv
  /\ layout = "CreateML" =>
       /\ \A r \in Runs : \A k \in DOMAIN imagesJson[r] : MLElement(r, imagesJson[r][k])
       /\ CreateML!IsWritten =>
            /\ document.by \in Runs /\ pc[document.by] = "done"
            /\ document.entries = imagesJson[document.by]

\* What a step of Create ML does to the elements and to the document.
LEMMA MLSteps ==
  ASSUME LibInv, layout = "CreateML", NEW r \in Runs,
         CreateML!Begin(r) \/ CreateML!Step(r) \/ CreateML!Crash(r)
  PROVE  /\ \/ UNCHANGED imagesJson
            \/ pc[r] = "idle" /\ imagesJson' = [imagesJson EXCEPT ![r] = << >>]
            \/ /\ pc[r] = "entry"
               /\ imagesJson' = [imagesJson EXCEPT ![r] = Append(@,
                    [imagefilename |-> dest[r],
                     annotation    |-> CreateML!Labels(Current(r).rects)])]
         /\ \/ UNCHANGED document
            \/ document'.state # "written"
            \/ /\ document' = [state |-> "written", by |-> r, entries |-> imagesJson[r]]
               /\ pc' = [pc EXCEPT ![r] = "done"] /\ UNCHANGED imagesJson
<1>1. CASE CreateML!Begin(r)
  BY <1>1 DEF CreateML!Begin, CreateML!cleared, CreateML!Enter, CreateML!Start
<1>2. CASE CreateML!ExpressImage(r)
  BY <1>2 DEF CreateML!ExpressImage, CreateML!Current, Current
<1>3. CASE CreateML!OpenAnnotationsJson(r)
  BY <1>3 DEF CreateML!OpenAnnotationsJson, CreateML!EmptyDocument
<1>4. CASE CreateML!WriteAnnotationsJson(r)
  BY <1>4 DEF CreateML!WriteAnnotationsJson, CreateML!MixedDocument, CreateML!Goto
<1>5. CASE CreateML!SkipRecord(r) \/ CreateML!ChooseName(r) \/ CreateML!CopyImage(r)
           \/ CreateML!EndOfRecords(r) \/ CreateML!Crash(r)
  BY <1>5 DEF CreateML!SkipRecord, CreateML!ChooseName, CreateML!CopyImage,
              CreateML!EndOfRecords, CreateML!Crash
<1> QED BY <1>1, <1>2, <1>3, <1>4, <1>5 DEF CreateML!Step

LEMMA MLMove ==
  ASSUME MLInv, layout = "CreateML", UNCHANGED layout, NEW r \in Runs,
         CreateML!Begin(r) \/ CreateML!Step(r) \/ CreateML!Crash(r), LibInv'
  PROVE  MLInv'
<1>1. /\ LibInv /\ LibType /\ DescriptorApart /\ layout \in CopyLayouts
      /\ WalkOK /\ CollectedOK /\ Unentered
  BY DEF MLInv, LibInv, LibType, CopyLayouts
<1>2. Moves(r)
  BY <1>1, CreateMLMoves
<1>3. /\ \A s \in Runs \ {r} : pc'[s] = pc[s] /\ db'[s] = db[s]
      /\ pc'[r] # "idle"
  BY <1>1, <1>2, MovesKeepWalk
<1> DEFINE Element == [imagefilename: Filename, annotation: LabelSets]
<1>4. imagesJson \in [Runs -> Seq(Element)] /\ imagesJson' \in [Runs -> Seq(Element)]
  BY <1>1 DEF CollectedOK, MLInv, LibInv, LibType
<1> HIDE DEF Element
<1>5. ASSUME NEW s \in Runs, pc[s] # "idle", NEW e, MLElement(s, e)
      PROVE  MLElement(s, e)'
  <2>1. PICK i \in DOMAIN db[s] : /\ IsCopy(s, e.imagefilename, i)
                                  /\ e.annotation = CreateML!Labels(db[s][i].rects)
    BY <1>5 DEF MLElement
  <2>2. db'[s] = db[s] /\ IsCopy(s, e.imagefilename, i)'
    BY <1>1, <1>2, <1>5, <2>1, CopiesStay
  <2>3. CreateML!Labels(db'[s][i].rects) = CreateML!Labels(db[s][i].rects)
    BY <2>2
  <2> QED BY <2>1, <2>2, <2>3 DEF MLElement
<1>6. \A s \in Runs : pc[s] = "idle" => imagesJson[s] = << >>
  <2> SUFFICES ASSUME NEW s \in Runs, pc[s] = "idle" PROVE imagesJson[s] = << >>
    OBVIOUS
  <2>1. [k \in DOMAIN imagesJson[s] |-> imagesJson[s][k].imagefilename] = << >>
    BY <1>1 DEF Unentered, Entries, CreateML!Entries
  <2>2. DOMAIN imagesJson[s] = {}
    BY <2>1
  <2>3. imagesJson[s] \in Seq(Element)
    BY <1>4
  <2> QED BY <2>2, <2>3, NoPositions
<1>7. ASSUME NEW s \in Runs, NEW k \in DOMAIN imagesJson'[s]
      PROVE  \E e : e = imagesJson'[s][k] /\ MLElement(s, e)'
  <2>1. CASE imagesJson'[s] = imagesJson[s]
    <3>1. pc[s] # "idle"
      BY <1>6, <1>7, <2>1
    <3>2. MLElement(s, imagesJson[s][k])
      BY <1>7, <2>1 DEF MLInv
    <3>3. PICK e : e = imagesJson[s][k]
      OBVIOUS
    <3>4. MLElement(s, e)'
      BY <1>5, <3>1, <3>2, <3>3
    <3> QED BY <2>1, <3>3, <3>4
  <2>2. CASE s = r /\ imagesJson'[r] = << >>
    BY <1>7, <2>2
  <2>3. CASE /\ s = r /\ pc[r] = "entry"
             /\ imagesJson' = [imagesJson EXCEPT ![r] = Append(@,
                    [imagefilename |-> dest[r],
                     annotation    |-> CreateML!Labels(Current(r).rects)])]
    <3> DEFINE new == [imagefilename |-> dest[r],
                       annotation    |-> CreateML!Labels(Current(r).rects)]
    <3>1. pc[r] \in EntryLabels
      BY <2>3 DEF EntryLabels
    <3>2. IsCopy(r, dest[r], at[r]) /\ Current(r) = db[r][at[r]] /\ pc[r] # "idle"
      BY <1>1, <3>1, CurrentIsCopy
    <3>3. MLElement(r, new)
      BY <3>2 DEF MLElement, IsCopy
    <3> HIDE DEF new
    <3>4. imagesJson'[r] = Append(imagesJson[r], new)
      BY <1>4, <2>3 DEF new
    <3>5. PICK e : e = imagesJson'[s][k]
      OBVIOUS
    <3>6. e = new \/ (k \in DOMAIN imagesJson[r] /\ e = imagesJson[r][k])
      BY <1>4, <1>7, <2>3, <3>4, <3>5
    <3>7. MLElement(r, e)
      BY <3>3, <3>6 DEF MLInv
    <3>8. MLElement(r, e)'
      BY <1>5, <3>2, <3>7
    <3> QED BY <2>3, <3>5, <3>8
  <2> QED BY <1>1, <1>4, <2>1, <2>2, <2>3, MLSteps
<1>8. ASSUME CreateML!IsWritten'
      PROVE  /\ document'.by \in Runs /\ pc'[document'.by] = "done"
             /\ document'.entries = imagesJson'[document'.by]
  <2>1. CASE UNCHANGED document
    <3>1. /\ document.by \in Runs /\ pc[document.by] = "done"
          /\ document.entries = imagesJson[document.by]
      BY <1>8, <2>1 DEF MLInv, CreateML!IsWritten
    <3>2. document.by # r /\ pc'[document.by] = "done"
      BY <1>1, <1>2, <3>1, OthersStay
    <3>3. imagesJson'[document.by] = imagesJson[document.by]
      BY <1>1, <1>4, <3>1, <3>2, MLSteps
    <3> QED BY <2>1, <3>1, <3>2, <3>3
  <2>2. CASE /\ document' = [state |-> "written", by |-> r, entries |-> imagesJson[r]]
             /\ pc' = [pc EXCEPT ![r] = "done"] /\ UNCHANGED imagesJson
    BY <1>1, <2>2 DEF WalkOK
  <2> QED BY <1>1, <1>8, <2>1, <2>2, MLSteps DEF CreateML!IsWritten
<1>9. \A s \in Runs : \A k \in DOMAIN imagesJson'[s] : MLElement(s, imagesJson[s][k])'
  <2> SUFFICES ASSUME NEW s \in Runs, NEW k \in DOMAIN imagesJson'[s]
               PROVE  MLElement(s, imagesJson[s][k])'
    OBVIOUS
  <2>1. PICK e : e = imagesJson'[s][k] /\ MLElement(s, e)'
    BY <1>7
  <2> QED BY <2>1 DEF MLElement, IsCopy
<1> QED BY <1>8, <1>9 DEF MLInv

LEMMA MLInvariant == Spec => []MLInv
<1>1. Init => MLInv
  <2> SUFFICES ASSUME Init PROVE MLInv
    OBVIOUS
  <2>1. layout = "CreateML" => document.state = "none" /\ imagesJson = [r \in Runs |-> << >>]
    BY DEF Init, CreateML!Init, CreateML!NoDocument, CreateML!Runs, Runs
  <2> QED BY <2>1, LibInit DEF MLInv, CreateML!IsWritten
<1>2. LibInv' /\ MLInv /\ [Next]_vars => MLInv'
  <2> SUFFICES ASSUME LibInv', MLInv, [Next]_vars PROVE MLInv'
    OBVIOUS
  <2>1. CASE layout = "CreateML" /\ UNCHANGED vars
    <3>1. UNCHANGED <<layout, pc, db, images, imagesJson, document>>
      BY <2>1 DEF vars, walk, copying
    <3> QED BY <2>1, <3>1 DEF MLInv, MLElement, IsCopy, Exportable, CreateML!IsWritten
  <2> QED BY <2>1, LayoutSteps, MLMove DEF MLInv
<1> QED BY <1>1, <1>2, LibraryInvariant, PTL DEF Spec

\* The entries of one run are of files of their own.
LEMMA OneFileOnce ==
  ASSUME LibInv, layout \in CopyLayouts, NEW r \in Runs,
         NEW j \in DOMAIN Entries(r), NEW k \in DOMAIN Entries(r),
         Entries(r)[j] = Entries(r)[k]
  PROVE  j = k
<1>1. kept[r] = Entries(r)
  BY DEF kept
<1> QED BY <1>1, LibParts DEF EntriesApart

LEMMA MLReads ==
  ASSUME MLInv, layout = "CreateML"
  PROVE  CreateML!DescriptorReadsTrue
<1> SUFFICES ASSUME CreateML!IsWritten PROVE CreateML!DescriptorReadsTrue
  BY DEF CreateML!DescriptorReadsTrue
<1>1. PICK r \in Runs : document.by = r /\ document.entries = imagesJson[r]
  BY DEF MLInv
<1>2. ASSUME NEW k \in DOMAIN imagesJson[r]
      PROVE  \E i \in DOMAIN db[r] :
               /\ CreateML!CopyOf(r, imagesJson[r][k].imagefilename, i)
               /\ imagesJson[r][k].annotation = CreateML!Labels(db[r][i].rects)
  <2>1. PICK i \in DOMAIN db[r] :
               /\ IsCopy(r, imagesJson[r][k].imagefilename, i)
               /\ imagesJson[r][k].annotation = CreateML!Labels(db[r][i].rects)
    BY <1>2 DEF MLInv, MLElement
  <2> QED BY <2>1 DEF IsCopy, Exportable, CreateML!CopyOf, CreateML!Exportable
<1>3. ASSUME NEW k \in DOMAIN imagesJson[r], NEW l \in DOMAIN imagesJson[r],
             imagesJson[r][l].imagefilename = imagesJson[r][k].imagefilename
      PROVE  l = k
  <2>1. Entries(r) = [j \in DOMAIN imagesJson[r] |-> imagesJson[r][j].imagefilename]
    BY DEF Entries, CreateML!Entries
  <2> QED BY <1>3, <2>1, OneFileOnce DEF MLInv, CopyLayouts
<1> QED BY <1>1, <1>2, <1>3 DEF CreateML!DescriptorReadsTrue

-----------------------------------------------------------------------------
(* The project of the darknetxx *)

PrElement(r, e) == IsCopy(r, e.relPath, e.record)

PrInv ==
  /\ LibInv
  /\ layout = "Project" =>
       /\ \A r \in Runs : \A k \in DOMAIN express_images[r] :
            PrElement(r, express_images[r][k])
       /\ Project!IsWritten => \E s \in Runs : pc[s] = "done" /\ project = Project!Document(s)

\* What a step of the project exporter does to the kept copies and to the file.
LEMMA PrSteps ==
  ASSUME LibInv, layout = "Project", NEW r \in Runs,
         Project!Begin(r) \/ Project!Step(r) \/ Project!Crash(r)
  PROVE  /\ \/ UNCHANGED express_images
            \/ /\ pc[r] = "entry"
               /\ express_images' = [express_images EXCEPT ![r] =
                    Append(@, [relPath |-> dest[r], record |-> at[r]])]
         /\ \/ UNCHANGED project
            \/ project'.state # "written"
            \/ /\ project' = Project!Document(r)
               /\ pc' = [pc EXCEPT ![r] = "done"] /\ UNCHANGED <<db, express_images>>
<1>1. CASE Project!AddImage(r)
  BY <1>1 DEF Project!AddImage
<1>2. CASE Project!OpenFile(r)
  BY <1>2 DEF Project!OpenFile, Project!OpenProject
<1>3. CASE Project!WriteFile(r)
  <2>1. PICK written \in BOOLEAN :
          /\ project' = IF project # Project!OpenProject(r) THEN Project!MixedProject
                        ELSE IF written THEN Project!Document(r) ELSE Project!CutProject
          /\ Project!Goto(r, IF written THEN "done" ELSE "failed")
    BY <1>3 DEF Project!WriteFile
  <2>2. Project!MixedProject.state # "written" /\ Project!CutProject.state # "written"
    BY DEF Project!MixedProject, Project!CutProject
  <2>3. UNCHANGED <<db, express_images>>
    BY <1>3 DEF Project!WriteFile
  <2>4. CASE project # Project!OpenProject(r)
    BY <2>1, <2>2, <2>3, <2>4
  <2>5. CASE project = Project!OpenProject(r) /\ written
    BY <2>1, <2>3, <2>5 DEF Project!Goto
  <2>6. CASE project = Project!OpenProject(r) /\ ~written
    BY <2>1, <2>2, <2>3, <2>6
  <2> QED BY <2>4, <2>5, <2>6
<1>4. CASE Project!Begin(r) \/ Project!SkipRecord(r) \/ Project!ChooseName(r)
           \/ Project!CopyImage(r) \/ Project!EndOfRecords(r) \/ Project!Crash(r)
  BY <1>4 DEF Project!Begin, Project!SkipRecord, Project!ChooseName, Project!CopyImage,
              Project!EndOfRecords, Project!Crash
<1> QED BY <1>1, <1>2, <1>3, <1>4 DEF Project!Step

\* The file of a run is made of what the run has kept and of its database.
LEMMA PrDocumentStays ==
  ASSUME NEW s, db'[s] = db[s], express_images'[s] = express_images[s]
  PROVE  Project!Document(s)' = Project!Document(s)
BY DEF Project!Document, Project!Network, Project!annotations, Project!Annotated,
       Project!aList

LEMMA PrMove ==
  ASSUME PrInv, layout = "Project", UNCHANGED layout, NEW r \in Runs,
         Project!Begin(r) \/ Project!Step(r) \/ Project!Crash(r), LibInv'
  PROVE  PrInv'
<1>1. /\ LibInv /\ LibType /\ DescriptorApart /\ layout \in CopyLayouts
      /\ WalkOK /\ CollectedOK /\ Unentered
  BY DEF PrInv, LibInv, LibType, CopyLayouts
<1>2. Moves(r)
  BY <1>1, ProjectMoves
<1>3. /\ \A s \in Runs \ {r} : pc'[s] = pc[s] /\ db'[s] = db[s]
      /\ pc'[r] # "idle"
  BY <1>1, <1>2, MovesKeepWalk
<1> DEFINE Element == [relPath: Filename, record: Nat]
<1>4. express_images \in [Runs -> Seq(Element)] /\ express_images' \in [Runs -> Seq(Element)]
  BY <1>1 DEF CollectedOK, PrInv, LibInv, LibType
<1> HIDE DEF Element
<1>5. ASSUME NEW s \in Runs, pc[s] # "idle", NEW e, PrElement(s, e)
      PROVE  PrElement(s, e)'
  BY <1>1, <1>2, <1>5, CopiesStay DEF PrElement
<1>6. \A s \in Runs : pc[s] = "idle" => express_images[s] = << >>
  <2> SUFFICES ASSUME NEW s \in Runs, pc[s] = "idle" PROVE express_images[s] = << >>
    OBVIOUS
  <2>1. [k \in DOMAIN express_images[s] |-> express_images[s][k].relPath] = << >>
    BY <1>1 DEF Unentered, Entries, Project!Entries
  <2>2. DOMAIN express_images[s] = {}
    BY <2>1
  <2>3. express_images[s] \in Seq(Element)
    BY <1>4
  <2> QED BY <2>2, <2>3, NoPositions
<1>7. ASSUME NEW s \in Runs, NEW k \in DOMAIN express_images'[s]
      PROVE  \E e : e = express_images'[s][k] /\ PrElement(s, e)'
  <2>1. CASE express_images'[s] = express_images[s]
    <3>1. pc[s] # "idle"
      BY <1>6, <1>7, <2>1
    <3>2. PrElement(s, express_images[s][k])
      BY <1>7, <2>1 DEF PrInv
    <3>3. PICK e : e = express_images[s][k]
      OBVIOUS
    <3>4. PrElement(s, e)'
      BY <1>5, <3>1, <3>2, <3>3
    <3> QED BY <2>1, <3>3, <3>4
  <2>2. CASE /\ s = r /\ pc[r] = "entry"
             /\ express_images' = [express_images EXCEPT ![r] =
                  Append(@, [relPath |-> dest[r], record |-> at[r]])]
    <3> DEFINE new == [relPath |-> dest[r], record |-> at[r]]
    <3>1. pc[r] \in EntryLabels
      BY <2>2 DEF EntryLabels
    <3>2. IsCopy(r, dest[r], at[r]) /\ pc[r] # "idle"
      BY <1>1, <3>1, CurrentIsCopy
    <3>3. PrElement(r, new)
      BY <3>2 DEF PrElement
    <3> HIDE DEF new
    <3>4. express_images'[r] = Append(express_images[r], new)
      BY <1>4, <2>2 DEF new
    <3>5. PICK e : e = express_images'[s][k]
      OBVIOUS
    <3>6. e = new \/ (k \in DOMAIN express_images[r] /\ e = express_images[r][k])
      BY <1>4, <1>7, <2>2, <3>4, <3>5
    <3>7. PrElement(r, e)
      BY <3>3, <3>6 DEF PrInv
    <3>8. PrElement(r, e)'
      BY <1>5, <3>2, <3>7
    <3> QED BY <2>2, <3>5, <3>8
  <2> QED BY <1>1, <1>4, <2>1, <2>2, PrSteps
<1>8. ASSUME Project!IsWritten'
      PROVE  \E s \in Runs : pc'[s] = "done" /\ project' = Project!Document(s)'
  <2>1. CASE UNCHANGED project
    <3>1. PICK s \in Runs : pc[s] = "done" /\ project = Project!Document(s)
      BY <1>8, <2>1 DEF PrInv, Project!IsWritten
    <3>2. s # r /\ pc'[s] = "done" /\ db'[s] = db[s]
      BY <1>1, <1>2, <3>1, OthersStay
    <3>3. express_images'[s] = express_images[s]
      BY <1>1, <1>4, <3>1, <3>2, PrSteps
    <3> QED BY <2>1, <3>1, <3>2, <3>3, PrDocumentStays
  <2>2. CASE /\ project' = Project!Document(r)
             /\ pc' = [pc EXCEPT ![r] = "done"] /\ UNCHANGED <<db, express_images>>
    <3>1. pc'[r] = "done"
      BY <1>1, <2>2 DEF WalkOK
    <3>2. Project!Document(r)' = Project!Document(r)
      BY <2>2, PrDocumentStays
    <3> QED BY <2>2, <3>1, <3>2
  <2> QED BY <1>1, <1>8, <2>1, <2>2, PrSteps DEF Project!IsWritten
<1>9. \A s \in Runs : \A k \in DOMAIN express_images'[s] : PrElement(s, express_images[s][k])'
  <2> SUFFICES ASSUME NEW s \in Runs, NEW k \in DOMAIN express_images'[s]
               PROVE  PrElement(s, express_images[s][k])'
    OBVIOUS
  <2>1. PICK e : e = express_images'[s][k] /\ PrElement(s, e)'
    BY <1>7
  <2> QED BY <2>1 DEF PrElement, IsCopy
<1> QED BY <1>8, <1>9 DEF PrInv

LEMMA PrInvariant == Spec => []PrInv
<1>1. Init => PrInv
  <2> SUFFICES ASSUME Init PROVE PrInv
    OBVIOUS
  <2>1. layout = "Project" => project.state = "none" /\ express_images = [r \in Runs |-> << >>]
    BY DEF Init, Project!Init, Project!NoProject, Project!Runs, Runs
  <2> QED BY <2>1, LibInit DEF PrInv, Project!IsWritten
<1>2. LibInv' /\ PrInv /\ [Next]_vars => PrInv'
  <2> SUFFICES ASSUME LibInv', PrInv, [Next]_vars PROVE PrInv'
    OBVIOUS
  <2>1. CASE layout = "Project" /\ UNCHANGED vars
    <3>1. UNCHANGED <<layout, pc, db, images, express_images, project>>
      BY <2>1 DEF vars, walk, copying, darknetxx
    <3>2. \A s : Project!Document(s)' = Project!Document(s)
      BY <3>1, PrDocumentStays
    <3>3. ASSUME Project!IsWritten'
          PROVE  \E s \in Runs : pc'[s] = "done" /\ project' = Project!Document(s)'
      BY <2>1, <3>1, <3>2, <3>3 DEF PrInv, Project!IsWritten
    <3>4. \A s \in Runs : \A k \in DOMAIN express_images'[s] :
            PrElement(s, express_images[s][k])'
      BY <2>1, <3>1 DEF PrInv, PrElement, IsCopy, Exportable
    <3> QED BY <3>3, <3>4 DEF PrInv
  <2> QED BY <2>1, LayoutSteps, PrMove DEF PrInv
<1> QED BY <1>1, <1>2, LibraryInvariant, PTL DEF Spec

LEMMA PrReads ==
  ASSUME PrInv, layout = "Project"
  PROVE  Project!ProjectReadsTrue
<1> SUFFICES ASSUME Project!IsWritten PROVE Project!ProjectReadsTrue
  BY DEF Project!ProjectReadsTrue
<1>1. PICK r \in Runs : project = Project!Document(r)
  BY DEF PrInv
<1> DEFINE all == Annotations(db[r])
           elements == Project!annotations(r)
<1>2. /\ project.by = r /\ project.annotations = elements
      /\ project.network.cfg = [classes |-> Cardinality(all), images |-> Len(express_images[r])]
      /\ project.network.classes = [c \in all |-> ClassIndex(all, c)]
  <2>1. Project!aList(r) = all
    BY DEF Project!aList, Project!Annotations, Annotations
  <2>2. Project!Network(r) =
          [cfg     |-> [classes |-> Cardinality(all), images |-> Len(express_images[r])],
           classes |-> [c \in all |-> ClassIndex(all, c)]]
    BY <2>1, SameIndexes DEF Project!Network
  <2> HIDE DEF all, elements
  <2>3. project = [state |-> "written", by |-> r, network |-> Project!Network(r),
                   annotations |-> elements]
    BY <1>1 DEF Project!Document, elements
  <2> QED BY <2>2, <2>3
<1>3. PICK kept_images : kept_images = express_images[r]
  OBVIOUS
<1>4. /\ db[r] \in Seq(Record)
      /\ kept_images \in Seq([relPath: Filename, record: Nat])
      /\ layout \in CopyLayouts /\ LibInv
  BY <1>3 DEF PrInv, LibInv, LibType, WalkOK, CollectedOK, CopyLayouts
<1>5. /\ elements = [k \in DOMAIN kept_images |-> elements[k]]
      /\ \A k \in DOMAIN kept_images :
           /\ elements[k].rel_path = kept_images[k].relPath
           /\ elements[k].names = [j \in DOMAIN db[r][kept_images[k].record].rects |->
                                     db[r][kept_images[k].record].rects[j].class]
  BY <1>3 DEF Project!annotations, Project!Annotated
<1> HIDE DEF elements
<1>6. Len(elements) = Len(kept_images)
  BY <1>4, <1>5
<1>7. /\ all \subseteq Nat /\ IsFiniteSet(all)
      /\ \A i \in DOMAIN db[r] : \A j \in DOMAIN db[r][i].rects :
           db[r][i].rects[j].class \in all
  BY <1>4, ClassesFinite
<1> HIDE DEF all
<1>8. {ClassIndex(all, c) : c \in all} = 0..(Cardinality(all) - 1)
  BY <1>7, IndexesRun
<1>9. ASSUME NEW k \in DOMAIN kept_images, NEW l \in DOMAIN kept_images,
             elements[l].rel_path = elements[k].rel_path
      PROVE  l = k
  <2>1. Entries(r) = [j \in DOMAIN kept_images |-> kept_images[j].relPath]
    BY <1>3 DEF Entries, Project!Entries
  <2>2. kept_images[l].relPath = kept_images[k].relPath
    BY <1>5, <1>9
  <2>3. /\ l \in DOMAIN Entries(r) /\ k \in DOMAIN Entries(r)
        /\ Entries(r)[l] = Entries(r)[k]
    BY <2>1, <2>2
  <2> QED BY <1>4, <2>3, OneFileOnce
<1>10. ASSUME NEW k \in DOMAIN kept_images
       PROVE  \E i \in DOMAIN db[r] :
                /\ Project!CopyOf(r, elements[k].rel_path, i)
                /\ DOMAIN elements[k].names = DOMAIN db[r][i].rects
                /\ \A j \in DOMAIN elements[k].names :
                     /\ elements[k].names[j] = db[r][i].rects[j].class
                     /\ elements[k].names[j] \in all
  <2>1. IsCopy(r, kept_images[k].relPath, kept_images[k].record)
    BY <1>3, <1>10 DEF PrInv, PrElement
  <2>2. kept_images[k].record \in DOMAIN db[r]
    BY <2>1 DEF IsCopy
  <2>3. Project!CopyOf(r, elements[k].rel_path, kept_images[k].record)
    BY <1>5, <2>1 DEF IsCopy, Exportable, Project!CopyOf, Project!Exportable
  <2>4. PICK rects : rects = db[r][kept_images[k].record].rects
    OBVIOUS
  <2>5. elements[k].names = [j \in DOMAIN rects |-> rects[j].class]
    BY <1>5, <2>4
  <2>6. \A j \in DOMAIN rects : rects[j].class \in all
    BY <1>7, <2>2, <2>4
  <2> QED BY <2>2, <2>3, <2>4, <2>5, <2>6
<1>11. {project.network.classes[c] : c \in DOMAIN project.network.classes}
         = 0..(project.network.cfg.classes - 1)
  BY <1>2, <1>8
<1>12. /\ DOMAIN project.network.classes = all /\ DOMAIN project.annotations = DOMAIN kept_images
       /\ project.network.cfg.images = Len(project.annotations)
  BY <1>2, <1>3, <1>5, <1>6
<1>13. \A k, l \in DOMAIN project.annotations :
          project.annotations[l].rel_path = project.annotations[k].rel_path => l = k
  BY <1>2, <1>9, <1>12
<1>14. \A k \in DOMAIN project.annotations :
         \E i \in DOMAIN db[project.by] :
           /\ Project!CopyOf(project.by, project.annotations[k].rel_path, i)
           /\ DOMAIN project.annotations[k].names = DOMAIN db[project.by][i].rects
           /\ \A j \in DOMAIN project.annotations[k].names :
                /\ project.annotations[k].names[j] = db[project.by][i].rects[j].class
                /\ project.annotations[k].names[j] \in DOMAIN project.network.classes
  BY <1>2, <1>10, <1>12
<1> QED BY <1>11, <1>12, <1>13, <1>14, Zenon DEF Project!ProjectReadsTrue

-----------------------------------------------------------------------------
(* The descriptor of COCO *)

CocoPicture == [id: Nat, file_name: Filename]
CocoAnnotation == [id: Nat, image_id: Nat, category_id: Nat]

OfImage(id) == {a \in CocoAnnotation : a.image_id = id}

\* The annotations own are those of the visible rectangles of rects, of the classes all.
Numbered(own, rects, all) ==
  /\ own \in Seq(CocoAnnotation) /\ DOMAIN own = DOMAIN Visible(rects)
  /\ \A j \in DOMAIN own : own[j].category_id = ClassIndex(all, Visible(rects)[j].class) + 1

\* The annotations of n images, of the classes all, from the first one on.
NumbersTo(notes, n, all) ==
  \A k \in DOMAIN notes :
    /\ notes[k].id = k /\ notes[k].image_id \in 1..n
    /\ \E c \in all : notes[k].category_id = ClassIndex(all, c) + 1

\* Those of the image q, after m others.
NumbersFrom(b, m, q, all) ==
  \A j \in DOMAIN b :
    /\ b[j].id = m + j /\ b[j].image_id = q
    /\ \E c \in all : b[j].category_id = ClassIndex(all, c) + 1

\* q is the image after n of them, with m annotations.
AfterThose(a, n, m, q) == m = Len(a) /\ q = n + 1

NewNumbers(shown, m, q) ==
  [j \in DOMAIN shown |-> [id |-> m + j, image_id |-> q, category_id |-> shown[j] + 1]]

\* c is a with the annotations b of the image q after it, and has those of the n
\* images before as a has.
GoneOn(c, a, b, n, m, q, all) ==
  /\ c \in Seq(CocoAnnotation) /\ c = a \o b /\ Len(c) = m + Len(b)
  /\ NumbersTo(c, q, all)
  /\ \A k \in 1..n : Kept(c, OfImage(k)) = Kept(a, OfImage(k))
  /\ Kept(c, OfImage(q)) = b

\* The annotations of one more image leave those of the others as they are.
LEMMA NumbersGoOn ==
  ASSUME NEW a \in Seq(CocoAnnotation), NEW b \in Seq(CocoAnnotation), NEW n \in Nat,
         NEW m, NEW q, AfterThose(a, n, m, q), NEW all,
         NumbersTo(a, n, all), NumbersFrom(b, m, q, all)
  PROVE  GoneOn(a \o b, a, b, n, m, q, all)
<1> USE DEF AfterThose
<1> DEFINE c == a \o b
<1>1. /\ c \in Seq(CocoAnnotation) /\ Len(c) = Len(a) + Len(b)
      /\ Len(a) \in Nat /\ Len(b) \in Nat
      /\ \A k \in 1..(Len(a) + Len(b)) : c[k] = IF k <= Len(a) THEN a[k] ELSE b[k - Len(a)]
  BY ConcatProperties
<1>2. ASSUME NEW k \in DOMAIN c
      PROVE  /\ c[k].id = k /\ c[k].image_id \in 1..q
             /\ \E d \in all : c[k].category_id = ClassIndex(all, d) + 1
  <2>1. k \in 1..(Len(a) + Len(b))
    BY <1>1, <1>2
  <2>2. CASE k <= Len(a)
    <3>1. k \in DOMAIN a /\ c[k] = a[k]
      BY <1>1, <2>1, <2>2
    <3>2. \A x \in 1..n : x \in 1..q
      OBVIOUS
    <3> HIDE DEF c
    <3> QED BY <3>1, <3>2 DEF NumbersTo
  <2>3. CASE ~(k <= Len(a))
    <3>1. PICK j \in DOMAIN b : j = k - Len(a)
      BY <1>1, <2>1, <2>3
    <3>2. c[k] = b[j] /\ Len(a) + j = k /\ q \in 1..q
      BY <1>1, <2>1, <2>3, <3>1
    <3> HIDE DEF c
    <3> QED BY <3>1, <3>2 DEF NumbersFrom
  <2> QED BY <2>2, <2>3
<1>3. \A id : Kept(c, OfImage(id)) = Kept(a, OfImage(id)) \o Kept(b, OfImage(id))
  BY KeptConcat
<1>4. \A id : Kept(a, OfImage(id)) \in Seq(CocoAnnotation)
  BY SelectedMembers DEF Kept
<1>5. ASSUME NEW k \in 1..n PROVE Kept(c, OfImage(k)) = Kept(a, OfImage(k))
  <2>1. \A j \in DOMAIN b : b[j] \notin OfImage(k)
    BY DEF OfImage, NumbersFrom
  <2>2. Kept(b, OfImage(k)) = << >>
    BY <2>1, KeptNone
  <2> QED BY <1>3, <1>4, <2>2, ConcatEmptySeq
<1>6. Kept(c, OfImage(q)) = b
  <2>1. \A j \in DOMAIN a : a[j] \notin OfImage(q)
    BY DEF OfImage, NumbersTo
  <2>2. \A j \in DOMAIN b : b[j] \in OfImage(q)
    BY DEF OfImage, NumbersFrom
  <2>3. Kept(a, OfImage(q)) = << >> /\ Kept(b, OfImage(q)) = b
    BY <2>1, <2>2, KeptNone, KeptAll
  <2> QED BY <1>3, <2>3, ConcatEmptySeq
<1> HIDE DEF c
<1>7. c = a \o b
  BY DEF c
<1>8. NumbersTo(c, q, all)
  BY <1>2 DEF NumbersTo
<1> QED BY <1>1, <1>5, <1>6, <1>7, <1>8 DEF GoneOn

\* The annotations that express_image_annotations makes of a record.
LEMMA NumbersOf ==
  ASSUME NEW records \in Seq(Record), NEW i \in DOMAIN records, NEW q \in Nat, NEW m \in Nat,
         NEW all, all = Annotations(records), NEW rects, rects = records[i].rects,
         NEW shown, shown = Indexes(all, rects)
  PROVE  \E b \in Seq(CocoAnnotation) :
           /\ b = NewNumbers(shown, m, q) /\ Len(b) = Len(shown)
           /\ Numbered(b, rects, all) /\ NumbersFrom(b, m, q, all)
<1>2. /\ all \subseteq Nat /\ IsFiniteSet(all)
      /\ \A j \in DOMAIN rects : rects[j].class \in all
  BY ClassesFinite
<1>3. rects \in Seq(Rectangle)
  <2>1. records[i] \in Record
    OBVIOUS
  <2> QED BY <2>1 DEF Record
<1>4. PICK v \in Seq(Rectangle) : v = Visible(rects)
  BY <1>3, SelectedMembers DEF Visible
<1>5. \A j \in DOMAIN v : v[j].class \in all
  <2>1. \A j \in DOMAIN v : \E k \in DOMAIN rects : v[j] = rects[k]
    <3>1. PICK P : v = Selected(rects, P)
      BY <1>4 DEF Visible
    <3> QED BY <1>3, <3>1, SelectedMembers
  <2> QED BY <1>2, <2>1
<1>6. \A c \in all : ClassIndex(all, c) \in Nat
  <2>1. Cardinality(all) \in Nat /\ {ClassIndex(all, c) : c \in all} = 0..(Cardinality(all) - 1)
    BY <1>2, IndexesRun, FS_CardinalityType
  <2> QED BY <2>1
<1>7. shown = [j \in DOMAIN v |-> ClassIndex(all, v[j].class)]
  BY <1>4 DEF Indexes
<1> DEFINE b == NewNumbers(shown, m, q)
<1>8. /\ DOMAIN b = DOMAIN v /\ DOMAIN shown = DOMAIN v
      /\ \A j \in DOMAIN v :
           b[j] = [id |-> m + j, image_id |-> q,
                   category_id |-> ClassIndex(all, v[j].class) + 1]
      /\ b = [j \in DOMAIN v |-> b[j]]
  BY <1>7 DEF NewNumbers
<1> HIDE DEF b
<1>10. DOMAIN v = 1..Len(v) /\ Len(v) \in Nat
  BY <1>4
<1>11. \A j \in 1..Len(v) : b[j] \in CocoAnnotation
  BY <1>5, <1>6, <1>8, <1>10 DEF CocoAnnotation
<1>12. b \in Seq(CocoAnnotation)
  BY <1>8, <1>10, <1>11
<1>13. Len(b) = Len(v) /\ Len(shown) = Len(v)
  BY <1>7, <1>8, <1>10
<1>14. Numbered(b, rects, all)
  BY <1>4, <1>8, <1>12 DEF Numbered
<1>15. NumbersFrom(b, m, q, all)
  BY <1>5, <1>8 DEF NumbersFrom
<1>16. Len(b) = Len(shown)
  BY <1>13
<1> QED BY <1>12, <1>14, <1>15, <1>16, Zenon DEF b

\* The element k of "images", with the annotations own that refer to it.
CocoImage(r, e, k, own) ==
  /\ e.id = k
  /\ \E i \in DOMAIN db[r] : /\ IsCopy(r, e.file_name, i)
                             /\ Numbered(own, db[r][i].rects, Annotations(db[r]))

\* What a run has numbered so far: the n pictures and the notes on them.
CocoRun(r, n, pics, notes) ==
  /\ Len(pics) = n /\ notes \in Seq(CocoAnnotation)
  /\ NumbersTo(notes, n, Annotations(db[r]))
  /\ \A k \in DOMAIN pics : CocoImage(r, pics[k], k, Kept(notes, OfImage(k)))

CocoDocument(r) ==
  [state |-> "written", by |-> r, images |-> imagesJson[r], annotations |-> annotationsJson[r],
   categories |-> [c \in Annotations(db[r]) |-> ClassIndex(Annotations(db[r]), c) + 1]]

CocoInv ==
  /\ LibInv
  /\ layout = "COCO" =>
       /\ annotationId = [r \in Runs |-> annotationId[r]]
       /\ annotationsJson = [r \in Runs |-> annotationsJson[r]]
       /\ \A r \in Runs : /\ annotationId[r] = Len(annotationsJson[r])
                          /\ CocoRun(r, imageId[r], imagesJson[r], annotationsJson[r])
       /\ Coco!IsWritten => \E s \in Runs : pc[s] = "done" /\ instances = CocoDocument(s)

\* What a step of COCO does to what is collected and to the descriptor.
CocoExpresses(r) ==
  \E shown : /\ shown = Indexes(Annotations(db[r]), Current(r).rects)
             /\ imageId' = [imageId EXCEPT ![r] = @ + 1]
             /\ annotationId' = [annotationId EXCEPT ![r] = @ + Len(shown)]
             /\ imagesJson' = [imagesJson EXCEPT ![r] = Append(@,
                  [id |-> imageId[r] + 1, file_name |-> dest[r]])]
             /\ annotationsJson' = [annotationsJson EXCEPT ![r] =
                  @ \o NewNumbers(shown, annotationId[r], imageId[r] + 1)]

CocoClears(r) ==
  /\ annotationId' = [annotationId EXCEPT ![r] = 0]
  /\ imagesJson' = [imagesJson EXCEPT ![r] = << >>]
  /\ annotationsJson' = [annotationsJson EXCEPT ![r] = << >>]
  /\ UNCHANGED imageId

LEMMA CocoCounts ==
  \A S, rects : Coco!Indexes(S, rects) = Indexes(S, rects)
<1>1. \A rects : Coco!Visible(rects) = Visible(rects)
  BY DEF Coco!Visible, Visible, Coco!Selected, Selected, Coco!FlattenSeq, FlattenSeq
<1> QED BY <1>1, SameIndexes DEF Coco!Indexes, Indexes

LEMMA CocoSteps ==
  ASSUME LibInv, layout = "COCO", NEW r \in Runs,
         Coco!Begin(r) \/ Coco!Step(r) \/ Coco!Crash(r)
  PROVE  /\ \/ UNCHANGED <<imageId, annotationId, imagesJson, annotationsJson>>
            \/ pc[r] = "idle" /\ CocoClears(r)
            \/ pc[r] = "entry" /\ CocoExpresses(r) /\ UNCHANGED db
         /\ \/ UNCHANGED instances
            \/ instances'.state # "written"
            \/ /\ instances' = CocoDocument(r) /\ pc' = [pc EXCEPT ![r] = "done"]
               /\ UNCHANGED <<db, imagesJson, annotationsJson>>
<1>1. CASE Coco!Begin(r)
  <2>1. PICK o \in Coco!ObjectsOf(r) :
          /\ annotationId' = [annotationId EXCEPT ![r] =
                                Coco!cleared(Coco!Members(o)).annotationId]
          /\ imagesJson' = [imagesJson EXCEPT ![r] =
                              Coco!cleared(Coco!Members(o)).imagesJson]
          /\ annotationsJson' = [annotationsJson EXCEPT ![r] =
                                   Coco!cleared(Coco!Members(o)).annotationsJson]
    BY <1>1 DEF Coco!Begin
  <2>2. /\ Coco!cleared(Coco!Members(o)).annotationId = 0
        /\ Coco!cleared(Coco!Members(o)).imagesJson = << >>
        /\ Coco!cleared(Coco!Members(o)).annotationsJson = << >>
    BY DEF Coco!cleared, Coco!Members
  <2>3. pc[r] = "idle" /\ UNCHANGED <<imageId, instances>>
    BY <1>1 DEF Coco!Begin, Coco!Enter, Coco!Start
  <2> QED BY <2>1, <2>2, <2>3 DEF CocoClears
<1>2. CASE Coco!ExpressImage(r)
  <2>1. PICK shown : shown = Indexes(Annotations(db[r]), Current(r).rects)
    OBVIOUS
  <2>2. Coco!Indexes(Coco!aList(r), Coco!Current(r).rects) = shown
    BY <2>1, CocoCounts DEF Coco!aList, Coco!Annotations, Annotations, Coco!Current, Current
  <2>3. pc[r] = "entry" /\ UNCHANGED <<db, instances>>
    BY <1>2 DEF Coco!ExpressImage
  <2>4. /\ imageId' = [imageId EXCEPT ![r] = imageId[r] + 1]
        /\ annotationId' = [annotationId EXCEPT ![r] = @ + Len(shown)]
        /\ imagesJson' = [imagesJson EXCEPT ![r] = Append(@,
             [id |-> imageId[r] + 1, file_name |-> dest[r]])]
        /\ annotationsJson' = [annotationsJson EXCEPT ![r] =
             @ \o NewNumbers(shown, annotationId[r], imageId[r] + 1)]
    BY <1>2, <2>2 DEF Coco!ExpressImage, NewNumbers
  <2> QED BY <2>1, <2>3, <2>4 DEF CocoExpresses
<1>3. CASE Coco!OpenInstancesJson(r)
  BY <1>3 DEF Coco!OpenInstancesJson, Coco!EmptyDocument, Coco!collected
<1>4. CASE Coco!WriteInstancesJson(r)
  <2>1. Coco!express_categories(Coco!aList(r))
          = [c \in Annotations(db[r]) |-> ClassIndex(Annotations(db[r]), c) + 1]
    BY SameIndexes DEF Coco!express_categories, Coco!aList, Coco!Annotations, Annotations
  <2>2. Coco!MixedDocument.state # "written"
    BY DEF Coco!MixedDocument
  <2>3. instances' = CocoDocument(r) \/ instances' = Coco!MixedDocument
    BY <1>4, <2>1 DEF Coco!WriteInstancesJson, CocoDocument
  <2>4. /\ pc' = [pc EXCEPT ![r] = "done"]
        /\ UNCHANGED <<db, imageId, annotationId, imagesJson, annotationsJson>>
    BY <1>4 DEF Coco!WriteInstancesJson, Coco!Goto, Coco!collected
  <2> QED BY <2>2, <2>3, <2>4
<1>5. CASE Coco!SkipRecord(r) \/ Coco!ChooseName(r) \/ Coco!CopyImage(r)
           \/ Coco!EndOfRecords(r) \/ Coco!Crash(r)
  BY <1>5 DEF Coco!SkipRecord, Coco!ChooseName, Coco!CopyImage, Coco!EndOfRecords,
              Coco!Crash, Coco!collected
<1> QED BY <1>1, <1>2, <1>3, <1>4, <1>5 DEF Coco!Step

\* What a run has numbered stays true while it and the others go on.
LEMMA CocoStays ==
  ASSUME LibInv, layout = "COCO", UNCHANGED layout, NEW r \in Runs, Moves(r),
         NEW s \in Runs, pc[s] # "idle",
         NEW n, NEW pics, NEW notes, CocoRun(s, n, pics, notes)
  PROVE  CocoRun(s, n, pics, notes)'
<1>1. /\ db'[s] = db[s]
      /\ \A f, i : IsCopy(s, f, i) => IsCopy(s, f, i)'
  BY CopiesStay DEF CopyLayouts
<1>2. Annotations(db[s])' = Annotations(db[s])
  BY <1>1 DEF Annotations
<1>3. ASSUME NEW e, NEW k, NEW own, CocoImage(s, e, k, own)
      PROVE  CocoImage(s, e, k, own)'
  <2>1. PICK i \in DOMAIN db[s] : /\ IsCopy(s, e.file_name, i)
                                  /\ Numbered(own, db[s][i].rects, Annotations(db[s]))
    BY <1>3 DEF CocoImage
  <2>2. IsCopy(s, e.file_name, i)'
    BY <1>1, <2>1
  <2>3. Numbered(own, db[s][i].rects, Annotations(db[s]))'
          = Numbered(own, db[s][i].rects, Annotations(db[s]))
    BY <1>1, <1>2 DEF Numbered
  <2> QED BY <1>1, <1>3, <2>1, <2>2, <2>3 DEF CocoImage
<1>4. NumbersTo(notes, n, Annotations(db[s]))' = NumbersTo(notes, n, Annotations(db[s]))
  BY <1>2 DEF NumbersTo
<1> QED BY <1>3, <1>4 DEF CocoRun

LEMMA CocoEmpty ==
  ASSUME NEW s
  PROVE  CocoRun(s, 0, << >>, << >>) /\ CocoRun(s, 0, << >>, << >>)'
BY DEF CocoRun, NumbersTo

\* The image that express_image adds, with its annotations.
LEMMA CocoAdds ==
  ASSUME LibInv, layout = "COCO", NEW r \in Runs, pc[r] = "entry",
         NEW n \in Nat, NEW pics \in Seq(CocoPicture), NEW notes,
         CocoRun(r, n, pics, notes),
         NEW shown, shown = Indexes(Annotations(db[r]), Current(r).rects),
         NEW q, NEW m, AfterThose(notes, n, m, q),
         NEW new, new = [id |-> q, file_name |-> dest[r]]
  PROVE  \E b \in Seq(CocoAnnotation) :
           /\ b = NewNumbers(shown, m, q) /\ Len(notes \o b) = m + Len(shown)
           /\ CocoRun(r, q, Append(pics, new), notes \o b)
<1>1. PICK records, i, all, rects :
        /\ records = db[r] /\ i = at[r] /\ all = Annotations(records)
        /\ rects = records[i].rects
  OBVIOUS
<1>2. IsCopy(r, dest[r], i) /\ i \in DOMAIN records /\ shown = Indexes(all, rects)
  <2>1. IsCopy(r, dest[r], at[r]) /\ Current(r) = db[r][at[r]]
    BY CurrentIsCopy DEF CopyLayouts, EntryLabels
  <2> QED BY <1>1, <2>1 DEF IsCopy
<1>3. records \in Seq(Record) /\ dest[r] \in Filename
  <2>1. WalkOK /\ AtImage
    BY LibParts DEF CopyLayouts
  <2>2. pc[r] \in NamedLabels
    BY DEF NamedLabels, EntryLabels
  <2> QED BY <1>1, <2>1, <2>2 DEF AtImage, WalkOK
<1>4. notes \in Seq(CocoAnnotation) /\ NumbersTo(notes, n, all) /\ Len(pics) = n
  BY <1>1 DEF CocoRun
<1>5. m \in Nat /\ q \in Nat
  BY <1>4 DEF AfterThose
<1>6. PICK b \in Seq(CocoAnnotation) :
        /\ b = NewNumbers(shown, m, q) /\ Len(b) = Len(shown)
        /\ Numbered(b, rects, all) /\ NumbersFrom(b, m, q, all)
  <2>1. all = Annotations(records) /\ rects = records[i].rects
    BY <1>1
  <2> QED BY <1>2, <1>3, <1>5, <2>1, NumbersOf, Zenon
<1>7. PICK c : c = notes \o b /\ GoneOn(c, notes, b, n, m, q, all)
  <2>1. /\ notes \in Seq(CocoAnnotation) /\ NumbersTo(notes, n, all)
        /\ NumbersFrom(b, m, q, all) /\ b \in Seq(CocoAnnotation)
    BY <1>4, <1>6
  <2> QED BY <2>1, NumbersGoOn
<1>8. new \in CocoPicture /\ new.id = q /\ new.file_name = dest[r]
  BY <1>3, <1>5 DEF CocoPicture
<1>9. PICK js : js = Append(pics, new)
  OBVIOUS
<1>10. /\ Len(js) = q /\ DOMAIN js = 1..q /\ js[q] = new
       /\ \A k \in 1..n : js[k] = pics[k]
  BY <1>4, <1>8, <1>9 DEF AfterThose
<1>11. ASSUME NEW k \in DOMAIN js PROVE CocoImage(r, js[k], k, Kept(c, OfImage(k)))
  <2>1. CASE k \in 1..n
    <3>1. CocoImage(r, pics[k], k, Kept(notes, OfImage(k)))
      BY <1>4, <2>1 DEF CocoRun
    <3> QED BY <1>7, <1>10, <2>1, <3>1 DEF GoneOn
  <2>2. CASE k = q
    <3>1. CocoImage(r, new, q, b)
      BY <1>1, <1>2, <1>6, <1>8 DEF CocoImage
    <3> QED BY <1>7, <1>10, <2>2, <3>1 DEF GoneOn
  <2>3. k \in 1..q
    BY <1>10, <1>11
  <2>4. k \in 1..n \/ k = q
    BY <2>3 DEF AfterThose
  <2> QED BY <2>1, <2>2, <2>4
<1>12. CocoRun(r, q, js, c)
  BY <1>1, <1>7, <1>10, <1>11 DEF CocoRun, GoneOn
<1> QED BY <1>6, <1>7, <1>9, <1>12 DEF GoneOn

LEMMA CocoDocumentStays ==
  ASSUME NEW s, db'[s] = db[s], imagesJson'[s] = imagesJson[s],
         annotationsJson'[s] = annotationsJson[s]
  PROVE  CocoDocument(s)' = CocoDocument(s)
BY DEF CocoDocument, Annotations

LEMMA CocoMove ==
  ASSUME CocoInv, layout = "COCO", UNCHANGED layout, NEW r \in Runs,
         Coco!Begin(r) \/ Coco!Step(r) \/ Coco!Crash(r), LibInv'
  PROVE  CocoInv'
<1>1. /\ LibInv /\ LibType /\ DescriptorApart /\ layout \in CopyLayouts
      /\ WalkOK /\ CollectedOK /\ Unentered
      /\ annotationId = [s \in Runs |-> annotationId[s]]
      /\ annotationsJson = [s \in Runs |-> annotationsJson[s]]
  BY DEF CocoInv, LibInv, LibType, CopyLayouts
<1>2. Moves(r)
  BY <1>1, CocoMoves
<1>3. pc'[r] # "idle" /\ WalkOK' /\ CollectedOK'
  BY <1>1, <1>2, MovesKeepWalk DEF CocoInv, LibInv, LibType
<1>4. /\ imagesJson \in [Runs -> Seq(CocoPicture)] /\ imageId \in [Runs -> Nat]
      /\ imagesJson' \in [Runs -> Seq(CocoPicture)] /\ imageId' \in [Runs -> Nat]
  BY <1>1, <1>3 DEF CollectedOK, CocoPicture
<1>5. annotationId' = [s \in Runs |-> annotationId'[s]]
      /\ annotationsJson' = [s \in Runs |-> annotationsJson'[s]]
  BY <1>1, CocoSteps DEF CocoClears, CocoExpresses
<1>6. \A s \in Runs : pc[s] = "idle" =>
        imageId[s] = 0 /\ imagesJson[s] = << >> /\ annotationsJson[s] = << >>
  <2> SUFFICES ASSUME NEW s \in Runs, pc[s] = "idle"
               PROVE  imageId[s] = 0 /\ imagesJson[s] = << >> /\ annotationsJson[s] = << >>
    OBVIOUS
  <2>1. [k \in DOMAIN imagesJson[s] |-> imagesJson[s][k].file_name] = << >>
    BY <1>1 DEF Unentered, Entries, Coco!Entries
  <2>2. DOMAIN imagesJson[s] = {}
    BY <2>1
  <2>3. imagesJson[s] = << >>
    BY <1>4, <2>2, NoPositions
  <2>4. imageId[s] = 0
    BY <2>3 DEF CocoInv, CocoRun
  <2>5. /\ annotationsJson[s] \in Seq(CocoAnnotation)
        /\ \A k \in DOMAIN annotationsJson[s] : annotationsJson[s][k].image_id \in 1..0
    BY <2>4 DEF CocoInv, CocoRun, NumbersTo
  <2>6. DOMAIN annotationsJson[s] = {}
    BY <2>5
  <2> QED BY <2>3, <2>4, <2>5, <2>6, NoPositions
<1>7. ASSUME NEW s \in Runs
      PROVE  \E n, pics, notes : /\ n = imageId'[s] /\ pics = imagesJson'[s] /\ notes = annotationsJson'[s]
                            /\ annotationId'[s] = Len(notes) /\ CocoRun(s, n, pics, notes)'
  <2>1. PICK n, pics, notes : /\ n = imageId[s] /\ pics = imagesJson[s] /\ notes = annotationsJson[s]
                         /\ n \in Nat /\ pics \in Seq(CocoPicture)
    BY <1>4
  <2>2. CocoRun(s, n, pics, notes) /\ annotationId[s] = Len(notes)
    BY <2>1 DEF CocoInv
  <2>3. pc[s] = "idle" => n = 0 /\ pics = << >> /\ notes = << >>
    BY <1>6, <2>1
  <2>4. CocoRun(s, n, pics, notes)'
    <3>1. CASE pc[s] = "idle"
      BY <2>3, <3>1, CocoEmpty
    <3>2. CASE pc[s] # "idle"
      BY <1>1, <1>2, <2>2, <3>2, CocoStays
    <3> QED BY <3>1, <3>2
  <2>5. CASE /\ imageId'[s] = imageId[s] /\ imagesJson'[s] = imagesJson[s]
             /\ annotationsJson'[s] = annotationsJson[s] /\ annotationId'[s] = annotationId[s]
    BY <2>1, <2>2, <2>4, <2>5
  <2>6. CASE s = r /\ pc[r] = "idle" /\ CocoClears(r)
    <3>1. /\ imageId'[s] = 0 /\ imagesJson'[s] = << >> /\ annotationsJson'[s] = << >>
          /\ annotationId'[s] = 0
      BY <1>1, <1>4, <2>1, <2>3, <2>6 DEF CocoClears
    <3>2. CocoRun(s, 0, << >>, << >>)'
      BY CocoEmpty
    <3>3. Len(<< >>) = 0
      OBVIOUS
    <3> QED BY <3>1, <3>2, <3>3
  <2>7. CASE s = r /\ pc[r] = "entry" /\ CocoExpresses(r) /\ UNCHANGED db
    <3>1. PICK shown :
            /\ shown = Indexes(Annotations(db[r]), Current(r).rects)
            /\ imageId' = [imageId EXCEPT ![r] = @ + 1]
            /\ annotationId' = [annotationId EXCEPT ![r] = @ + Len(shown)]
            /\ imagesJson' = [imagesJson EXCEPT ![r] = Append(@,
                 [id |-> imageId[r] + 1, file_name |-> dest[r]])]
            /\ annotationsJson' = [annotationsJson EXCEPT ![r] =
                 @ \o NewNumbers(shown, annotationId[r], imageId[r] + 1)]
      BY <2>7 DEF CocoExpresses
    <3>2. PICK q, m, new : /\ q = n + 1 /\ m = Len(notes)
                           /\ new = [id |-> q, file_name |-> dest[r]]
      OBVIOUS
    <3>3. PICK b \in Seq(CocoAnnotation) :
            /\ b = NewNumbers(shown, m, q) /\ Len(notes \o b) = m + Len(shown)
            /\ CocoRun(r, q, Append(pics, new), notes \o b)
      <4>1. n \in Nat /\ pics \in Seq(CocoPicture) /\ CocoRun(r, n, pics, notes)
        BY <2>1, <2>2, <2>7
      <4>2. /\ LibInv /\ layout = "COCO" /\ pc[r] = "entry"
            /\ shown = Indexes(Annotations(db[r]), Current(r).rects)
        BY <1>1, <2>7, <3>1
      <4>3. AfterThose(notes, n, m, q) /\ new = [id |-> q, file_name |-> dest[r]]
        BY <3>2 DEF AfterThose
      <4> QED BY <4>1, <4>2, <4>3, CocoAdds
    <3>4. PICK js, bs : js = Append(pics, new) /\ bs = notes \o b
      OBVIOUS
    <3>5. imageId'[s] = q /\ imagesJson'[s] = js
      BY <1>4, <2>1, <2>7, <3>1, <3>2, <3>4
    <3>6. annotationsJson'[s] = bs
      BY <1>1, <2>1, <2>2, <2>7, <3>1, <3>2, <3>3, <3>4
    <3>7. annotationId'[s] = Len(bs)
      BY <1>1, <2>2, <2>7, <3>1, <3>2, <3>3, <3>4
    <3>8. CocoRun(r, q, js, bs)'
      BY <1>1, <1>2, <2>7, <3>3, <3>4, CocoStays
    <3> QED BY <2>7, <3>5, <3>6, <3>7, <3>8
  <2>8. \/ UNCHANGED <<imageId, annotationId, imagesJson, annotationsJson>>
        \/ pc[r] = "idle" /\ CocoClears(r)
        \/ pc[r] = "entry" /\ CocoExpresses(r) /\ UNCHANGED db
    BY <1>1, CocoSteps
  <2>9. s # r => /\ imageId'[s] = imageId[s] /\ imagesJson'[s] = imagesJson[s]
                 /\ annotationsJson'[s] = annotationsJson[s]
                 /\ annotationId'[s] = annotationId[s]
    BY <1>1, <1>4, <2>8 DEF CocoClears, CocoExpresses
  <2> QED BY <2>5, <2>6, <2>7, <2>8, <2>9
<1>8. ASSUME Coco!IsWritten'
      PROVE  \E s \in Runs : pc'[s] = "done" /\ instances' = CocoDocument(s)'
  <2>1. CASE UNCHANGED instances
    <3>1. PICK s \in Runs : pc[s] = "done" /\ instances = CocoDocument(s)
      BY <1>8, <2>1 DEF CocoInv, Coco!IsWritten
    <3>2. s # r /\ pc'[s] = "done" /\ db'[s] = db[s]
      BY <1>1, <1>2, <3>1, OthersStay
    <3>3. imagesJson'[s] = imagesJson[s] /\ annotationsJson'[s] = annotationsJson[s]
      BY <1>1, <1>4, <3>1, <3>2, CocoSteps DEF CocoClears, CocoExpresses
    <3> QED BY <2>1, <3>1, <3>2, <3>3, CocoDocumentStays
  <2>2. CASE /\ instances' = CocoDocument(r) /\ pc' = [pc EXCEPT ![r] = "done"]
             /\ UNCHANGED <<db, imagesJson, annotationsJson>>
    <3>1. pc'[r] = "done"
      BY <1>1, <2>2 DEF WalkOK
    <3>2. CocoDocument(r)' = CocoDocument(r)
      BY <2>2, CocoDocumentStays
    <3> QED BY <2>2, <3>1, <3>2
  <2> QED BY <1>1, <1>8, <2>1, <2>2, CocoSteps DEF Coco!IsWritten
<1>9. \A s \in Runs : /\ annotationId'[s] = Len(annotationsJson'[s])
                      /\ CocoRun(s, imageId[s], imagesJson[s], annotationsJson[s])'
  <2> SUFFICES ASSUME NEW s \in Runs
               PROVE  /\ annotationId'[s] = Len(annotationsJson'[s])
                      /\ CocoRun(s, imageId[s], imagesJson[s], annotationsJson[s])'
    OBVIOUS
  <2>1. PICK n, pics, notes :
          /\ n = imageId'[s] /\ pics = imagesJson'[s] /\ notes = annotationsJson'[s]
          /\ annotationId'[s] = Len(notes) /\ CocoRun(s, n, pics, notes)'
    BY <1>7
  <2> QED BY <2>1 DEF CocoRun, CocoImage, IsCopy, NumbersTo
<1> QED BY <1>5, <1>8, <1>9 DEF CocoInv

LEMMA CocoInvariant == Spec => []CocoInv
<1>1. Init => CocoInv
  <2> SUFFICES ASSUME Init PROVE CocoInv
    OBVIOUS
  <2>1. layout = "COCO" =>
          /\ instances.state = "none" /\ imageId = [r \in Runs |-> 0]
          /\ annotationId = [r \in Runs |-> 0]
          /\ imagesJson = [r \in Runs |-> << >>] /\ annotationsJson = [r \in Runs |-> << >>]
    BY DEF Init, Coco!Init, Coco!NoDocument, Coco!Runs, Runs
  <2>2. LibInv
    BY LibInit
  <2>3. layout = "COCO" => ~Coco!IsWritten
    BY <2>1 DEF Coco!IsWritten
  <2>4. Len(<< >>) = 0
    OBVIOUS
  <2>5. layout = "COCO" =>
          \A r \in Runs : /\ annotationId[r] = Len(annotationsJson[r])
                          /\ CocoRun(r, imageId[r], imagesJson[r], annotationsJson[r])
    BY <2>1, <2>4, CocoEmpty
  <2> QED BY <2>1, <2>2, <2>3, <2>5 DEF CocoInv
<1>2. LibInv' /\ CocoInv /\ [Next]_vars => CocoInv'
  <2> SUFFICES ASSUME LibInv', CocoInv, [Next]_vars PROVE CocoInv'
    OBVIOUS
  <2>1. CASE layout = "COCO" /\ UNCHANGED vars
    <3>1. UNCHANGED <<layout, pc, db, images, imageId, annotationId, imagesJson,
                      annotationsJson, instances>>
      BY <2>1 DEF vars, walk, copying, coco
    <3>2. \A s : CocoDocument(s)' = CocoDocument(s)
      BY <3>1, CocoDocumentStays
    <3>3. ASSUME Coco!IsWritten'
          PROVE  \E s \in Runs : pc'[s] = "done" /\ instances' = CocoDocument(s)'
      BY <2>1, <3>1, <3>2, <3>3 DEF CocoInv, Coco!IsWritten
    <3>4. \A s \in Runs : /\ annotationId'[s] = Len(annotationsJson'[s])
                          /\ CocoRun(s, imageId[s], imagesJson[s], annotationsJson[s])'
      <4> SUFFICES ASSUME NEW s \in Runs
                   PROVE  /\ annotationId'[s] = Len(annotationsJson'[s])
                          /\ CocoRun(s, imageId[s], imagesJson[s], annotationsJson[s])'
        OBVIOUS
      <4>1. PICK n, pics, notes :
              /\ n = imageId[s] /\ pics = imagesJson[s] /\ notes = annotationsJson[s]
              /\ annotationId[s] = Len(notes) /\ CocoRun(s, n, pics, notes)
        BY <2>1 DEF CocoInv
      <4>2. \A e, k, own : CocoImage(s, e, k, own)' = CocoImage(s, e, k, own)
        BY <3>1 DEF CocoImage, IsCopy, Exportable, Annotations
      <4>3. NumbersTo(notes, n, Annotations(db[s]))' = NumbersTo(notes, n, Annotations(db[s]))
        BY <3>1 DEF NumbersTo, Annotations
      <4>4. CocoRun(s, n, pics, notes)'
        BY <4>1, <4>2, <4>3 DEF CocoRun
      <4> QED BY <3>1, <4>1, <4>4 DEF CocoRun, CocoImage, IsCopy, NumbersTo
    <3> QED BY <2>1, <3>1, <3>3, <3>4 DEF CocoInv
  <2> QED BY <2>1, LayoutSteps, CocoMove DEF CocoInv
<1> QED BY <1>1, <1>2, LibraryInvariant, PTL DEF Spec

\* The names of the categories of the annotations of an image are read back.
NamesOf(own, all) ==
  [j \in DOMAIN own |-> CHOOSE c \in all : ClassIndex(all, c) + 1 = own[j].category_id]

LEMMA CocoCategories ==
  ASSUME NEW all, all \subseteq Nat, IsFiniteSet(all),
         NEW rects \in Seq(Rectangle), \A j \in DOMAIN rects : rects[j].class \in all,
         NEW own, Numbered(own, rects, all)
  PROVE  NamesOf(own, all) = Labels(rects)
<1>1. PICK v, P : v \in Seq(Rectangle) /\ v = Visible(rects) /\ v = Selected(rects, P)
  BY SelectedMembers DEF Visible
<1>2. \A j \in DOMAIN v : v[j].class \in all
  <2>1. \A j \in DOMAIN v : \E k \in DOMAIN rects : v[j] = rects[k]
    BY <1>1, SelectedMembers
  <2> QED BY <2>1
<1>3. ASSUME NEW j \in DOMAIN v
      PROVE  (CHOOSE c \in all : ClassIndex(all, c) + 1 = own[j].category_id) = v[j].class
  <2>1. own[j].category_id = ClassIndex(all, v[j].class) + 1
    BY <1>1 DEF Numbered
  <2>2. \A c \in all : ClassIndex(all, c) \in Nat
    <3>1. /\ Cardinality(all) \in Nat
          /\ {ClassIndex(all, c) : c \in all} = 0..(Cardinality(all) - 1)
      BY IndexesRun, FS_CardinalityType
    <3> QED BY <3>1
  <2>3. \A c, d \in all : ClassIndex(all, c) = ClassIndex(all, d) => c = d
    BY IndexesRun
  <2>4. \A c \in all : ClassIndex(all, c) + 1 = own[j].category_id => c = v[j].class
    <3>1. PICK w, y : w \in all /\ w = v[j].class /\ y = own[j].category_id
      BY <1>2
    <3>2. y = ClassIndex(all, w) + 1
      BY <2>1, <3>1
    <3>3. ASSUME NEW c \in all, ClassIndex(all, c) + 1 = y PROVE c = w
      <4>1. ClassIndex(all, c) = ClassIndex(all, w)
        BY <2>2, <3>1, <3>2, <3>3
      <4> QED BY <2>3, <3>1, <4>1
    <3> QED BY <3>1, <3>3
  <2>5. \E c \in all : ClassIndex(all, c) + 1 = own[j].category_id
    BY <1>2, <2>1
  <2> QED BY <2>4, <2>5
<1>4. DOMAIN own = DOMAIN v
  BY <1>1 DEF Numbered
<1>5. Labels(rects) = [j \in DOMAIN v |-> v[j].class]
  BY <1>1 DEF Labels
<1> QED BY <1>3, <1>4, <1>5 DEF NamesOf

LEMMA CocoReads ==
  ASSUME CocoInv, layout = "COCO"
  PROVE  Coco!IdentifiersRun /\ Coco!DescriptorReadsTrue
<1> SUFFICES ASSUME Coco!IsWritten PROVE Coco!IdentifiersRun /\ Coco!DescriptorReadsTrue
  BY DEF Coco!IdentifiersRun, Coco!DescriptorReadsTrue
<1>1. PICK r \in Runs : instances = CocoDocument(r)
  BY DEF CocoInv
<1>2. PICK records, all, n, pics, notes :
        /\ records = db[r] /\ all = Annotations(records) /\ n = imageId[r]
        /\ pics = imagesJson[r] /\ notes = annotationsJson[r]
  OBVIOUS
<1>3. /\ instances.by = r /\ instances.images = pics /\ instances.annotations = notes
      /\ instances.categories = [c \in all |-> ClassIndex(all, c) + 1]
  BY <1>1, <1>2 DEF CocoDocument
<1>4. /\ LibInv /\ layout \in CopyLayouts /\ CocoRun(r, n, pics, notes)
      /\ records \in Seq(Record) /\ n \in Nat /\ pics \in Seq(CocoPicture)
  BY <1>2 DEF CocoInv, LibInv, LibType, WalkOK, CollectedOK, CopyLayouts, CocoPicture
<1>5. /\ Len(pics) = n /\ DOMAIN pics = 1..n /\ notes \in Seq(CocoAnnotation)
      /\ NumbersTo(notes, n, all)
      /\ \A k \in DOMAIN pics : CocoImage(r, pics[k], k, Kept(notes, OfImage(k)))
  BY <1>2, <1>4 DEF CocoRun
<1>6. /\ all \subseteq Nat /\ IsFiniteSet(all) /\ Cardinality(all) \in Nat
      /\ \A i \in DOMAIN records : \A j \in DOMAIN records[i].rects :
           records[i].rects[j].class \in all
  BY <1>2, <1>4, ClassesFinite, FS_CardinalityType
<1>7. Coco!IdentifiersRun
  <2>1. \A k \in DOMAIN pics : pics[k].id = k
    BY <1>5 DEF CocoImage
  <2>2. ASSUME NEW k \in DOMAIN notes
        PROVE  /\ notes[k].id = k /\ notes[k].image_id \in DOMAIN pics
               /\ \E c \in all : instances.categories[c] = notes[k].category_id
    BY <1>3, <1>5 DEF NumbersTo
  <2>3. {instances.categories[c] : c \in all} = 1..Cardinality(all)
    <3>1. {ClassIndex(all, c) : c \in all} = 0..(Cardinality(all) - 1)
      BY <1>6, IndexesRun
    <3>2. ASSUME NEW x PROVE x \in {ClassIndex(all, c) + 1 : c \in all} <=> x \in 1..Cardinality(all)
      <4>1. ASSUME NEW c \in all PROVE ClassIndex(all, c) + 1 \in 1..Cardinality(all)
        <5>1. ClassIndex(all, c) \in 0..(Cardinality(all) - 1)
          BY <3>1
        <5> QED BY <1>6, <5>1
      <4>2. ASSUME x \in 1..Cardinality(all) PROVE \E c \in all : x = ClassIndex(all, c) + 1
        <5>1. x - 1 \in 0..(Cardinality(all) - 1) /\ x = (x - 1) + 1
          BY <1>6, <4>2
        <5>2. PICK c \in all : ClassIndex(all, c) = x - 1
          BY <3>1, <5>1
        <5> QED BY <5>1, <5>2
      <4> QED BY <4>1, <4>2
    <3> QED BY <1>3, <3>2
  <2>4. DOMAIN instances.categories = all /\ Coco!Cardinality(all) = Cardinality(all)
    BY <1>3, SameIndexes
  <2> QED BY <1>3, <2>1, <2>2, <2>3, <2>4 DEF Coco!IdentifiersRun
<1>8. ASSUME NEW k \in DOMAIN pics
      PROVE  \E i \in DOMAIN records :
               /\ Coco!CopyOf(r, pics[k].file_name, i)
               /\ Coco!CategoriesOf(pics[k].id) = Coco!Labels(records[i].rects)
  <2>1. PICK own : own = Kept(notes, OfImage(k))
    OBVIOUS
  <2>2. PICK i, rects :
          /\ i \in DOMAIN records /\ rects = records[i].rects
          /\ IsCopy(r, pics[k].file_name, i) /\ Numbered(own, rects, all)
    BY <1>2, <1>5, <1>8, <2>1 DEF CocoImage
  <2>3. pics[k].id = k
    BY <1>5, <1>8 DEF CocoImage
  <2>4. Coco!Selected(notes, {j \in DOMAIN notes : notes[j].image_id = k}) = own
    <3>1. \A j \in DOMAIN notes : notes[j] \in OfImage(k) <=> notes[j].image_id = k
      BY <1>5 DEF OfImage
    <3>2. {j \in DOMAIN notes : notes[j].image_id = k} = {j \in DOMAIN notes : notes[j] \in OfImage(k)}
      BY <3>1
    <3>3. PICK P : P = {j \in DOMAIN notes : notes[j].image_id = k}
      OBVIOUS
    <3>4. own = Selected(notes, P)
      BY <2>1, <3>2, <3>3 DEF Kept
    <3>5. Coco!Selected(notes, P) = Selected(notes, P)
      BY DEF Coco!Selected, Selected, Coco!FlattenSeq, FlattenSeq
    <3> QED BY <3>3, <3>4, <3>5
  <2> DEFINE Names(o) == [j \in DOMAIN o |-> CHOOSE c \in DOMAIN instances.categories :
                                               instances.categories[c] = o[j].category_id]
  <2>5. Coco!CategoriesOf(k) = Names(own)
    <3> DEFINE Those == {j \in DOMAIN instances.annotations : instances.annotations[j].image_id = k}
    <3>1. Coco!CategoriesOf(k) = Names(Coco!Selected(instances.annotations, Those))
      BY Zenon DEF Coco!CategoriesOf
    <3>2. Those = {j \in DOMAIN notes : notes[j].image_id = k}
      BY <1>3
    <3> HIDE DEF Those, Names
    <3>3. Coco!Selected(instances.annotations, Those) = own
      BY <1>3, <2>4, <3>2
    <3> QED BY <3>1, <3>3
  <2>6. Names(own) = NamesOf(own, all)
    <3>1. /\ DOMAIN instances.categories = all
          /\ \A c \in all : instances.categories[c] = ClassIndex(all, c) + 1
      BY <1>3
    <3>2. \A x : (CHOOSE c \in DOMAIN instances.categories : instances.categories[c] = x)
               = (CHOOSE c \in all : ClassIndex(all, c) + 1 = x)
      BY <3>1
    <3> QED BY <3>2 DEF NamesOf
  <2> HIDE DEF Names
  <2>7. rects \in Seq(Rectangle) /\ \A j \in DOMAIN rects : rects[j].class \in all
    <3>1. records[i] \in Record
      BY <1>4, <2>2
    <3> QED BY <1>6, <2>2, <3>1 DEF Record
  <2>8. NamesOf(own, all) = Labels(rects)
    BY <1>6, <2>2, <2>7, CocoCategories
  <2>9. Coco!Labels(rects) = Labels(rects)
    BY DEF Coco!Labels, Labels, Coco!Visible, Visible, Coco!Selected, Selected,
           Coco!FlattenSeq, FlattenSeq
  <2>10. Coco!CopyOf(r, pics[k].file_name, i)
    BY <2>2 DEF IsCopy, Exportable, Coco!CopyOf, Coco!Exportable
  <2>11. Coco!CategoriesOf(pics[k].id) = Coco!Labels(rects)
    BY <2>3, <2>5, <2>6, <2>8, <2>9
  <2> QED BY <2>2, <2>10, <2>11
<1>9. ASSUME NEW k \in DOMAIN pics, NEW l \in DOMAIN pics,
             pics[l].file_name = pics[k].file_name
      PROVE  l = k
  <2>1. Entries(r) = [j \in DOMAIN pics |-> pics[j].file_name]
    BY <1>2 DEF Entries, Coco!Entries, CocoInv
  <2>2. /\ l \in DOMAIN Entries(r) /\ k \in DOMAIN Entries(r)
        /\ Entries(r)[l] = Entries(r)[k]
    BY <1>9, <2>1
  <2> QED BY <1>4, <2>2, OneFileOnce
<1>10. Coco!DescriptorReadsTrue
  BY <1>2, <1>3, <1>8, <1>9 DEF Coco!DescriptorReadsTrue
<1> QED BY <1>7, <1>10

-----------------------------------------------------------------------------
(* The documents of the three *)

\* What a COCO, a Create ML or a darknetxx document says of its images is what the
\* user has drawn on them: the document the last export has written in whole names
\* complete copies, each once, and gives each of them the rectangles of the record
\* it was copied for; the numbers of COCO run without gaps and refer to elements
\* that are there.  It holds although exporters are used again, exports stop at any
\* step and others interleave with them.
THEOREM DescriptorsReadTrue == Spec => []DescriptorReadsTrue
<1>1. MLInv /\ PrInv /\ CocoInv => DescriptorReadsTrue
  BY MLReads, PrReads, CocoReads DEF DescriptorReadsTrue
<1> QED BY <1>1, MLInvariant, PrInvariant, CocoInvariant, PTL

-----------------------------------------------------------------------------
(* The label files of Ultralytics *)

\* The label file of the stem s is what a run has drawn, in whole or until it was
\* killed, of a record that an image of the stem is the complete copy of.
Drawn(s) ==
  \E n : \E r \in Runs : \E i \in DOMAIN db[r] :
    /\ pc[r] # "idle" /\ Ultralytics!StemOf(n) = s /\ IsCopy(r, n, i)
    /\ \/ labels[s] = Ultralytics!Drawing(r, i)
       \/ /\ pc[r] = "crashed"
          /\ \E k \in 0..Len(Ultralytics!Drawing(r, i)) :
               labels[s] = SubSeq(Ultralytics!Drawing(r, i), 1, k)

\* Where a run is behind its data.yaml.
NamedPlaces == {"record", "copy", "label", "done"}

\* The names in data.yaml are those of the last run that has opened it.
YamlOK ==
  ~Concurrent => \A r \in Runs :
    /\ pc[r] = "names" => dataYaml.by = r
    /\ pc[r] \in NamedPlaces =>
         dataYaml = [by |-> r, whole |-> TRUE] \/ dataYaml.by > r

UlInv ==
  /\ LibInv /\ InTurn
  /\ layout = "Ultralytics" => YamlOK /\ \A s \in DOMAIN labels : Drawn(s)

\* What the steps of Ultralytics do to data.yaml and to the label files.
UlOpens(r) ==
  /\ pc[r] = "yaml" /\ pc'[r] = "names"
  /\ dataYaml' = [by |-> r, whole |-> FALSE]
  /\ UNCHANGED labels

UlNames(r) ==
  /\ pc[r] = "names" /\ pc'[r] = "record"
  /\ \E whole \in BOOLEAN : /\ whole \/ dataYaml.by # r
                            /\ dataYaml' = [by |-> r, whole |-> whole]
  /\ UNCHANGED labels

UlDraws(r) ==
  /\ pc[r] = "label" /\ UNCHANGED <<db, images, dataYaml>>
  /\ \/ /\ pc'[r] = "record"
        /\ labels' = Put(labels, Ultralytics!StemOf(dest[r]), Ultralytics!Drawing(r, at[r]))
     \/ /\ pc'[r] = "crashed"
        /\ \E k \in 0..Len(Ultralytics!Drawing(r, at[r])) :
             labels' = Put(labels, Ultralytics!StemOf(dest[r]),
                           SubSeq(Ultralytics!Drawing(r, at[r]), 1, k))

UlPasses(r) ==
  /\ pc'[r] \in NamedPlaces => pc[r] \in NamedPlaces
  /\ pc'[r] # "names"
  /\ UNCHANGED <<dataYaml, labels>>

LEMMA UlSteps ==
  ASSUME LibInv, layout = "Ultralytics", NEW r \in Runs,
         Ultralytics!Begin(r) \/ Ultralytics!Step(r) \/ Ultralytics!Crash(r)
  PROVE  UlOpens(r) \/ UlNames(r) \/ UlDraws(r) \/ UlPasses(r)
<1> USE DEF NamedPlaces, Ultralytics!Goto, Ultralytics!NextRecord
<1>1. pc = [s \in Runs |-> pc[s]]
  BY DEF LibInv, LibType, WalkOK
<1>2. CASE Ultralytics!Begin(r)
  BY <1>1, <1>2 DEF Ultralytics!Begin, Ultralytics!Enter, Ultralytics!Start, UlPasses
<1>3. CASE Ultralytics!OpenDataYaml(r)
  BY <1>1, <1>3 DEF Ultralytics!OpenDataYaml, UlOpens, UlPasses
<1>4. CASE Ultralytics!ExpressDataYaml(r)
  BY <1>1, <1>4 DEF Ultralytics!ExpressDataYaml, UlNames, UlPasses
<1>5. CASE Ultralytics!SkipRecord(r)
  BY <1>1, <1>5 DEF Ultralytics!SkipRecord, Ultralytics!Skip, UlPasses
<1>6. CASE Ultralytics!ChooseName(r)
  BY <1>1, <1>6 DEF Ultralytics!ChooseName, Ultralytics!Choose, UlPasses
<1>7. CASE Ultralytics!CopyImage(r)
  BY <1>1, <1>7 DEF Ultralytics!CopyImage, Ultralytics!Copy, UlPasses
<1>8. CASE Ultralytics!ExpressImageAnnotations(r)
  BY <1>1, <1>8
     DEF Ultralytics!ExpressImageAnnotations, UlDraws, UlPasses, Ultralytics!Put, Put
<1>9. CASE Ultralytics!EndOfRecords(r)
  BY <1>1, <1>9 DEF Ultralytics!EndOfRecords, Ultralytics!LastRecord, Ultralytics!EndWalk,
                    UlPasses
<1>10. CASE Ultralytics!Crash(r)
  BY <1>1, <1>10 DEF Ultralytics!Crash, Ultralytics!Die, Ultralytics!Kill,
                     Ultralytics!Put, Put, UlDraws, UlPasses
<1> QED BY <1>2, <1>3, <1>4, <1>5, <1>6, <1>7, <1>8, <1>9, <1>10 DEF Ultralytics!Step

\* A label file that a step leaves as it is stays that of its copy.
LEMMA DrawnStays ==
  ASSUME LibInv, layout = "Ultralytics", UNCHANGED layout, NEW r \in Runs, Moves(r),
         NEW s, Drawn(s), labels'[s] = labels[s]
  PROVE  Drawn(s)'
<1>1. layout \in CopyLayouts /\ LibType
  BY DEF CopyLayouts, LibInv
<1>2. PICK n : \E q \in Runs : \E i \in DOMAIN db[q] :
        /\ pc[q] # "idle" /\ Ultralytics!StemOf(n) = s /\ IsCopy(q, n, i)
        /\ \/ labels[s] = Ultralytics!Drawing(q, i)
           \/ /\ pc[q] = "crashed"
              /\ \E k \in 0..Len(Ultralytics!Drawing(q, i)) :
                   labels[s] = SubSeq(Ultralytics!Drawing(q, i), 1, k)
  BY DEF Drawn
<1>3. PICK q \in Runs : \E i \in DOMAIN db[q] :
        /\ pc[q] # "idle" /\ Ultralytics!StemOf(n) = s /\ IsCopy(q, n, i)
        /\ \/ labels[s] = Ultralytics!Drawing(q, i)
           \/ /\ pc[q] = "crashed"
              /\ \E k \in 0..Len(Ultralytics!Drawing(q, i)) :
                   labels[s] = SubSeq(Ultralytics!Drawing(q, i), 1, k)
  BY <1>2
<1>4. PICK i \in DOMAIN db[q] :
        /\ pc[q] # "idle" /\ Ultralytics!StemOf(n) = s /\ IsCopy(q, n, i)
        /\ \/ labels[s] = Ultralytics!Drawing(q, i)
           \/ /\ pc[q] = "crashed"
              /\ \E k \in 0..Len(Ultralytics!Drawing(q, i)) :
                   labels[s] = SubSeq(Ultralytics!Drawing(q, i), 1, k)
  BY <1>3
<1>5. db'[q] = db[q] /\ IsCopy(q, n, i)'
  BY <1>1, <1>4, CopiesStay
<1>6. Ultralytics!Drawing(q, i)' = Ultralytics!Drawing(q, i)
  BY <1>5 DEF Ultralytics!Drawing, Ultralytics!aList
<1>7. pc'[q] # "idle" /\ (pc[q] = "crashed" => pc'[q] = "crashed")
  BY <1>1, <1>4, MoversWork, MovesKeepWalk DEF Ended
<1> QED BY <1>4, <1>5, <1>6, <1>7 DEF Drawn

\* The label file a run has just written is of the copy it has just made.
LEMMA DrawsDrawn ==
  ASSUME LibInv, layout = "Ultralytics", UNCHANGED layout, NEW r \in Runs, Moves(r),
         UlDraws(r), NEW s, s = Ultralytics!StemOf(dest[r])
  PROVE  Drawn(s)'
<1>1. layout \in CopyLayouts /\ pc[r] \in EntryLabels
  BY DEF CopyLayouts, UlDraws, EntryLabels
<1>2. IsCopy(r, dest[r], at[r]) /\ pc[r] # "idle"
  BY <1>1, CurrentIsCopy
<1>3. PICK n, i : n = dest[r] /\ i = at[r]
  OBVIOUS
<1>4. db'[r] = db[r] /\ IsCopy(r, n, i)' /\ i \in DOMAIN db'[r]
  BY <1>1, <1>2, <1>3, CopiesStay DEF IsCopy
<1>5. Ultralytics!Drawing(r, i)' = Ultralytics!Drawing(r, i)
  BY <1>4 DEF Ultralytics!Drawing, Ultralytics!aList
<1>6. pc'[r] # "idle"
  BY DEF UlDraws
<1>7. \/ labels'[s] = Ultralytics!Drawing(r, i)
      \/ /\ pc'[r] = "crashed"
         /\ \E k \in 0..Len(Ultralytics!Drawing(r, i)) :
              labels'[s] = SubSeq(Ultralytics!Drawing(r, i), 1, k)
  BY <1>3 DEF UlDraws, Put
<1> QED BY <1>3, <1>4, <1>5, <1>6, <1>7 DEF Drawn

\* data.yaml stays that of the last run that has opened it.
LEMMA YamlStep ==
  ASSUME UlInv, layout = "Ultralytics", NEW r \in Runs, Moves(r), UNCHANGED layout,
         UlOpens(r) \/ UlNames(r) \/ UlDraws(r) \/ UlPasses(r)
  PROVE  YamlOK'
<1>1. /\ YamlOK /\ InTurn /\ LibType
  BY DEF UlInv, LibInv
<1> SUFFICES ASSUME ~Concurrent PROVE YamlOK'
  BY DEF YamlOK
<1>2. \A s \in Runs \ {r} : pc'[s] = pc[s]
  BY <1>1, MovesKeepWalk
<1>3. ASSUME pc[r] # "idle", NEW s \in Runs \ {r}, pc[s] # "idle"
      PROVE  s < r /\ Ended(s)
  <2>1. Working(r)
    BY <1>3, MoversWork DEF Working
  <2>2. Ended(s)
    BY <1>1, <1>3, <2>1, OneWorks DEF Working
  <2>3. ~(r \in 1..(s - 1))
    BY <1>1, <1>3, <2>1 DEF InTurn, Working
  <2> QED BY <2>2, <2>3, RunsAssumption DEF Runs
<1>4. ASSUME UlPasses(r) \/ UlDraws(r) PROVE YamlOK'
  BY <1>1, <1>2, <1>4 DEF YamlOK, UlPasses, UlDraws, NamedPlaces
<1>5. ASSUME UlOpens(r) \/ UlNames(r) PROVE YamlOK'
  <2>1. pc[r] # "idle" /\ dataYaml'.by = r
    BY <1>5 DEF UlOpens, UlNames
  <2>2. \A s \in Runs \ {r} : pc[s] # "names" /\ (pc[s] \in NamedPlaces => dataYaml'.by > s)
    BY <1>3, <2>1, RunsAssumption DEF Ended, NamedPlaces, Runs
  <2>3. pc'[r] \in NamedPlaces => dataYaml' = [by |-> r, whole |-> TRUE]
    BY <1>1, <1>5 DEF UlOpens, UlNames, NamedPlaces, YamlOK
  <2> QED BY <1>2, <2>1, <2>2, <2>3 DEF YamlOK
<1> QED BY <1>4, <1>5

LEMMA UlMove ==
  ASSUME UlInv, layout = "Ultralytics", UNCHANGED layout, NEW r \in Runs,
         Ultralytics!Begin(r) \/ Ultralytics!Step(r) \/ Ultralytics!Crash(r),
         LibInv', InTurn'
  PROVE  UlInv'
<1>1. LibInv /\ LibType /\ Moves(r)
  BY UltralyticsMoves DEF UlInv, LibInv
<1>2. UlOpens(r) \/ UlNames(r) \/ UlDraws(r) \/ UlPasses(r)
  BY <1>1, UlSteps
<1>3. ASSUME NEW s \in DOMAIN labels' PROVE Drawn(s)'
  <2>1. CASE s \in DOMAIN labels /\ labels'[s] = labels[s]
    BY <1>1, <2>1, DrawnStays DEF UlInv
  <2>2. CASE UlDraws(r) /\ s = Ultralytics!StemOf(dest[r])
    BY <1>1, <2>2, DrawsDrawn
  <2>3. CASE UlDraws(r) /\ s # Ultralytics!StemOf(dest[r])
    <3>1. s \in DOMAIN labels /\ labels'[s] = labels[s]
      BY <1>3, <2>3 DEF UlDraws, Put
    <3> QED BY <2>1, <3>1
  <2> QED BY <1>2, <1>3, <2>1, <2>2, <2>3 DEF UlOpens, UlNames, UlPasses
<1> QED BY <1>1, <1>2, <1>3, YamlStep DEF UlInv

LEMMA UlReads ==
  ASSUME UlInv, layout = "Ultralytics"
  PROVE  Ultralytics!LabelsReadTrue
<1>1. ASSUME NEW s \in DOMAIN labels
      PROVE  \E r \in Runs : \E i \in DOMAIN db[r] : Ultralytics!Labelled(s, r, i)
  <2>1. Drawn(s)
    BY DEF UlInv
  <2>2. \A n, r, i : IsCopy(r, n, i) => n \in DOMAIN images /\ Ultralytics!CopyOf(r, n, i)
    BY DEF IsCopy, Exportable, Ultralytics!CopyOf, Ultralytics!Exportable
  <2> QED BY <2>1, <2>2 DEF Drawn, Ultralytics!Labelled
<1>2. ~Concurrent => \A r \in Runs : pc[r] \in {"record", "copy", "label", "done"} =>
        dataYaml = [by |-> r, whole |-> TRUE] \/ dataYaml.by > r
  BY DEF UlInv, YamlOK, NamedPlaces
<1> QED BY <1>1, <1>2 DEF Ultralytics!LabelsReadTrue, Ultralytics!Runs, Runs

\* The label files of Ultralytics hold what the user has drawn, whatever exports of
\* the directory have failed, been killed or interleave, found other classes or met
\* images that share a stem: the label file of a stem is the visible rectangles of
\* one record, which an image of the stem is a complete copy of, by the indexes of
\* the export that wrote it, and only a kill leaves it short.  Of exports in turn
\* the one that has come to its images has its own names in data.yaml, all of them,
\* until a later one opens it.
THEOREM LabelsAreReadTrue == Spec => []LabelsReadTrue
<1>1. Init => UlInv
  <2> SUFFICES ASSUME Init PROVE UlInv
    OBVIOUS
  <2>1. /\ pc = [r \in Runs |-> "idle"] /\ labels = << >>
    BY DEF Init, Ultralytics!Init, Ultralytics!CopyInit, Ultralytics!WalkInit,
           Ultralytics!Runs, Runs
  <2>2. DOMAIN labels = {} /\ InTurn /\ YamlOK
    BY <2>1 DEF InTurn, YamlOK, NamedPlaces
  <2> QED BY <2>2, LibInit DEF UlInv
<1>2. UlInv /\ [Next]_vars => UlInv'
  <2> SUFFICES ASSUME UlInv, [Next]_vars PROVE UlInv'
    OBVIOUS
  <2>1. LibInv' /\ InTurn'
    BY LibStep, InTurnStep DEF UlInv
  <2>2. CASE layout = "Ultralytics" /\ UNCHANGED vars
    <3>1. UNCHANGED <<layout, pc, db, images, dataYaml, labels>>
      BY <2>2 DEF vars, walk, copying, ultralytics
    <3>2. YamlOK'
      BY <2>2, <3>1 DEF UlInv, YamlOK
    <3>3. \A r, i : Ultralytics!Drawing(r, i)' = Ultralytics!Drawing(r, i)
      BY <3>1 DEF Ultralytics!Drawing, Ultralytics!aList
    <3>4. \A s \in DOMAIN labels' : Drawn(s)'
      BY <2>2, <3>1, <3>3 DEF UlInv, Drawn, IsCopy, Exportable
    <3> QED BY <2>1, <3>2, <3>4 DEF UlInv
  <2> QED BY <2>1, <2>2, LayoutSteps, UlMove DEF UlInv
<1>3. UlInv => LabelsReadTrue
  BY UlReads DEF LabelsReadTrue
<1> QED BY <1>1, <1>2, <1>3, PTL DEF Spec

-----------------------------------------------------------------------------
(* The files of plain text *)

TxtLine == [record: Nat, count: Nat, rects: Seq(Nat)]

NamesIn(rects) == {rects[j].class : j \in DOMAIN rects}

\* The line e gives the rectangles of the name c in its record.
TrueLine(records, c, e) ==
  /\ e.count = Len(e.rects)
  /\ {e.rects[j] : j \in DOMAIN e.rects}
       = {j \in DOMAIN records[e.record].rects : records[e.record].rects[j].class = c}

\* The file of the name c has true lines of the records S, in their order.
Holds(file, S, records, c) ==
  /\ file \in Seq(TxtLine)
  /\ {file[k].record : k \in DOMAIN file} = S
  /\ \A k \in DOMAIN file : /\ TrueLine(records, c, file[k])
                            /\ k > 1 => file[k - 1].record < file[k].record

\* The records whose lines the run r has written to the file of c, the current
\* one with its first lines already.
LinesOf(r, c) ==
  {p \in loaded[r] : /\ c \in NamesIn(db[r][p].rects) /\ <<p, c>> \notin refused[r]
                     /\ p < at[r] \/ (p = at[r] /\ c \notin todo[r])}

TxtType ==
  /\ todo = [r \in Runs |-> todo[r]] /\ exFiles = [r \in Runs |-> exFiles[r]]
  /\ loaded = [r \in Runs |-> loaded[r]] /\ refused = [r \in Runs |-> refused[r]]

TxtRun(r) ==
  /\ \A p \in loaded[r] : p \in Nat /\ (p < at[r] \/ (p = at[r] /\ pc[r] # "record"))
  /\ pc[r] = "write" =>
       at[r] \in loaded[r] /\ HasRecord(r) /\ todo[r] \subseteq NamesIn(Current(r).rects)
  /\ \A p, c : <<p, c>> \in refused[r] => p \in loaded[r] /\ (p = at[r] => c \notin todo[r])
  /\ pc[r] = "idle" => loaded[r] = {} /\ refused[r] = {} /\ exFiles[r] = {}

\* The streams that are kept open are those of the files with lines of this run.
TxtStreams(r) == ~Ended(r) => \A c : c \in exFiles[r] <=> LinesOf(r, c) # {}

TxtFiles(r) ==
  \A c : LinesOf(r, c) # {} => c \in DOMAIN files /\ Holds(files[c], LinesOf(r, c), db[r], c)

LastBegun(r) == pc[r] # "idle" /\ \A s \in Runs : s > r => pc[s] = "idle"

TxtInv ==
  /\ TurnInv
  /\ layout = "PlainTxt" =>
       /\ TxtType
       /\ \A r \in Runs : TxtRun(r) /\ TxtStreams(r) /\ (LastBegun(r) => TxtFiles(r))
  /\ layout # "PlainTxt" => \A r \in Runs : loaded[r] = {}

LEMMA FirstLine ==
  ASSUME NEW records, NEW c, NEW e \in TxtLine, TrueLine(records, c, e)
  PROVE  Holds(<<e>>, {e.record}, records, c)
<1>1. <<e>> \in Seq(TxtLine) /\ DOMAIN <<e>> = {1} /\ <<e>>[1] = e
  OBVIOUS
<1> QED BY <1>1 DEF Holds

LEMMA NextLine ==
  ASSUME NEW records, NEW c, NEW e \in TxtLine, TrueLine(records, c, e),
         NEW file, NEW S, Holds(file, S, records, c), \A p \in S : p < e.record
  PROVE  Holds(Append(file, e), S \cup {e.record}, records, c)
<1>1. PICK n \in Nat, all \in Seq(TxtLine) :
        /\ n = Len(file) /\ all = Append(file, e) /\ DOMAIN file = 1..n
        /\ Len(all) = n + 1 /\ DOMAIN all = 1..(n + 1) /\ all[n + 1] = e
        /\ \A k \in 1..n : all[k] = file[k]
  <2>1. file \in Seq(TxtLine)
    BY DEF Holds
  <2>2. /\ Len(file) \in Nat /\ Append(file, e) \in Seq(TxtLine)
        /\ DOMAIN file = 1..Len(file) /\ Len(Append(file, e)) = Len(file) + 1
        /\ DOMAIN Append(file, e) = 1..(Len(file) + 1)
        /\ Append(file, e)[Len(file) + 1] = e
        /\ \A k \in 1..Len(file) : Append(file, e)[k] = file[k]
    BY <2>1
  <2> QED BY <2>2, Zenon
<1>2. {file[k].record : k \in 1..n} = S
  BY <1>1 DEF Holds
<1>3. 1..(n + 1) = 1..n \cup {n + 1}
  OBVIOUS
<1>4. {all[k].record : k \in 1..(n + 1)} = S \cup {e.record}
  <2>1. \A k \in 1..n : all[k].record = file[k].record
    BY <1>1
  <2> QED BY <1>1, <1>2, <1>3, <2>1
<1>5. ASSUME NEW k \in 1..(n + 1)
      PROVE  TrueLine(records, c, all[k]) /\ (k > 1 => all[k - 1].record < all[k].record)
  <2>1. CASE k \in 1..n
    <3>1. k > 1 => k - 1 \in 1..n
      BY <2>1
    <3> QED BY <1>1, <2>1, <3>1 DEF Holds
  <2>2. CASE k = n + 1
    <3>1. k > 1 => k - 1 \in 1..n
      BY <2>2
    <3>2. k > 1 => all[k - 1] = file[k - 1] /\ file[k - 1].record \in S
      BY <1>1, <1>2, <3>1
    <3> QED BY <1>1, <2>2, <3>2
  <2> QED BY <1>3, <1>5, <2>1, <2>2
<1> QED BY <1>1, <1>4, <1>5 DEF Holds

\* What export_image gathers of a name is written as a true line.
LEMMA LinesAreTrue ==
  ASSUME WalkOK, NEW r \in Runs, HasRecord(r), NEW c \in NamesIn(Current(r).rects)
  PROVE  /\ PlainTxt!Line(r, c) \in TxtLine
         /\ PlainTxt!Line(r, c).record = at[r]
         /\ TrueLine(db[r], c, PlainTxt!Line(r, c))
<1>1. PICK rects \in Seq(Rectangle) : Current(r).rects = rects /\ db[r][at[r]].rects = rects
  <2>1. db[r] \in Seq(Record) /\ at[r] \in DOMAIN db[r]
    BY DEF WalkOK, HasRecord
  <2>2. db[r][at[r]] \in Record
    BY <2>1
  <2>3. db[r][at[r]].rects \in Seq(Rectangle)
    BY <2>2 DEF Record
  <2> QED BY <2>3 DEF Current
<1>2. PICK ids \in Seq(Nat) : /\ ids = [j \in DOMAIN rects |-> j]
                              /\ DOMAIN ids = DOMAIN rects
                              /\ \A j \in DOMAIN rects : ids[j] = j
  <2>1. [j \in DOMAIN rects |-> j] \in Seq(Nat)
    BY <1>1
  <2> QED BY <2>1
<1>3. PICK P : P = {j \in DOMAIN rects : rects[j].class = c}
  OBVIOUS
<1>4. PICK drawn \in Seq(Nat) :
        /\ drawn = Selected(ids, P)
        /\ \A j \in DOMAIN drawn : \E k \in DOMAIN ids \cap P : drawn[j] = ids[k]
        /\ \A k \in DOMAIN ids \cap P : \E j \in DOMAIN drawn : drawn[j] = ids[k]
  BY SelectedMembers
<1>5. {drawn[j] : j \in DOMAIN drawn} = P
  <2>1. \A j \in DOMAIN drawn : drawn[j] \in P
    BY <1>2, <1>4
  <2>2. ASSUME NEW k \in P PROVE \E j \in DOMAIN drawn : drawn[j] = k
    <3>1. k \in DOMAIN ids \cap P /\ ids[k] = k
      BY <1>2, <1>3, <2>2
    <3> QED BY <1>4, <3>1, Zenon
  <2> QED BY <2>1, <2>2, Zenon
<1>6. PlainTxt!gather_ir_data(rects)[c] = drawn
  <2>1. \A s, Q : PlainTxt!Selected(s, Q) = Selected(s, Q)
    BY DEF PlainTxt!Selected, Selected, PlainTxt!FlattenSeq, FlattenSeq
  <2>2. c \in {rects[j].class : j \in DOMAIN rects}
    BY <1>1 DEF NamesIn
  <2>3. PlainTxt!gather_ir_data(rects)[c]
          = Selected([j \in DOMAIN rects |-> j], {j \in DOMAIN rects : rects[j].class = c})
    BY <2>1, <2>2, Zenon DEF PlainTxt!gather_ir_data
  <2> QED BY <1>2, <1>3, <1>4, <2>3
<1>7. PlainTxt!Line(r, c) = [record |-> at[r], count |-> Len(drawn), rects |-> drawn]
  BY <1>1, <1>6 DEF PlainTxt!Line, PlainTxt!Current, Current
<1>8. at[r] \in Nat /\ Len(drawn) \in Nat
  BY DEF WalkOK
<1> QED BY <1>1, <1>3, <1>5, <1>7, <1>8 DEF TrueLine, TxtLine

TxtBegins(r) ==
  /\ pc[r] = "idle" /\ pc'[r] \in {"record", "failed"}
  /\ UNCHANGED <<at, todo, exFiles, files, loaded, refused>>

\* The run goes on to the next record.
TxtGoesOn(r) ==
  /\ pc[r] = "record" \/ (pc[r] = "write" /\ todo[r] = {})
  /\ pc'[r] = "record" /\ at' = [at EXCEPT ![r] = @ + 1]
  /\ UNCHANGED <<db, todo, exFiles, files, loaded, refused>>

TxtLoads(r) ==
  /\ pc[r] = "record" /\ pc'[r] = "write" /\ HasRecord(r)
  /\ todo' = [todo EXCEPT ![r] = NamesIn(Current(r).rects)]
  /\ loaded' = [loaded EXCEPT ![r] = @ \cup {at[r]}]
  /\ UNCHANGED <<db, at, exFiles, files, refused>>

TxtWrites(r, c) ==
  /\ pc[r] = "write" /\ c \in todo[r]
  /\ todo' = [todo EXCEPT ![r] = @ \ {c}]
  /\ exFiles' = [exFiles EXCEPT ![r] = @ \cup {c}]
  /\ files' = [d \in DOMAIN files \cup {c} |->
                 IF d # c THEN files[d]
                 ELSE IF c \in exFiles[r] THEN Append(files[c], PlainTxt!Line(r, c))
                 ELSE <<PlainTxt!Line(r, c)>>]
  /\ UNCHANGED <<pc, db, at, loaded, refused>>

TxtRefuses(r, c) ==
  /\ pc[r] = "write" /\ c \in todo[r] /\ c \notin exFiles[r]
  /\ todo' = [todo EXCEPT ![r] = @ \ {c}]
  /\ refused' = [refused EXCEPT ![r] = @ \cup {<<at[r], c>>}]
  /\ UNCHANGED <<pc, db, at, exFiles, files, loaded>>

TxtStops(r) ==
  /\ pc[r] # "idle" /\ pc'[r] \in {"done", "crashed"}
  /\ UNCHANGED <<db, at, todo, files, loaded, refused>>
  /\ exFiles' = [exFiles EXCEPT ![r] = {}]

LEMMA TxtSteps ==
  ASSUME LibInv, layout = "PlainTxt", NEW r \in Runs,
         PlainTxt!Begin(r) \/ PlainTxt!Step(r) \/ PlainTxt!Crash(r)
  PROVE  \/ TxtBegins(r) \/ TxtGoesOn(r) \/ TxtLoads(r) \/ TxtStops(r)
         \/ \E c : TxtWrites(r, c) \/ TxtRefuses(r, c)
<1> USE DEF PlainTxt!Goto, PlainTxt!NextRecord
<1>1. pc = [s \in Runs |-> pc[s]]
  BY DEF LibInv, LibType, WalkOK
<1>2. CASE PlainTxt!Begin(r)
  BY <1>1, <1>2 DEF PlainTxt!Begin, PlainTxt!Start, TxtBegins
<1>3. CASE PlainTxt!SkipRecord(r) \/ PlainTxt!LastName(r)
  BY <1>1, <1>3 DEF PlainTxt!SkipRecord, PlainTxt!LastName, TxtGoesOn
<1>4. CASE PlainTxt!ExportIr(r)
  <2>1. DOMAIN PlainTxt!gather_ir_data(PlainTxt!Current(r).rects) = NamesIn(Current(r).rects)
    BY DEF PlainTxt!gather_ir_data, NamesIn, PlainTxt!Current, Current
  <2>2. PlainTxt!HasRecord(r) = HasRecord(r)
    BY DEF PlainTxt!HasRecord, HasRecord
  <2> QED BY <1>1, <1>4, <2>1, <2>2 DEF PlainTxt!ExportIr, TxtGoesOn, TxtLoads
<1>5. CASE PlainTxt!WriteIrData(r)
  <2>1. PICK c \in todo[r] :
          /\ todo' = [todo EXCEPT ![r] = @ \ {c}]
          /\ \/ PlainTxt!get_file(r, c) /\ UNCHANGED refused
             \/ /\ c \notin exFiles[r]
                /\ refused' = [refused EXCEPT ![r] = @ \cup {<<at[r], c>>}]
                /\ UNCHANGED <<exFiles, files>>
    BY <1>5 DEF PlainTxt!WriteIrData
  <2>2. pc[r] = "write" /\ UNCHANGED <<pc, db, at, loaded>>
    BY <1>5 DEF PlainTxt!WriteIrData
  <2>3. TxtWrites(r, c) \/ TxtRefuses(r, c)
    BY <2>1, <2>2 DEF PlainTxt!get_file, TxtWrites, TxtRefuses
  <2> QED BY <2>3
<1>6. CASE PlainTxt!LastRecord(r) \/ PlainTxt!Crash(r)
  BY <1>1, <1>6 DEF PlainTxt!LastRecord, PlainTxt!EndWalk, PlainTxt!Crash, PlainTxt!Kill,
                    PlainTxt!HasBegun, TxtStops
<1> QED BY <1>2, <1>3, <1>4, <1>5, <1>6 DEF PlainTxt!Step

\* Only a line that is written adds to the lines of a run.
LEMMA LinesGrow ==
  ASSUME TxtType, WalkOK, NEW r \in Runs, TxtRun(r)
  PROVE  /\ TxtGoesOn(r) \/ TxtLoads(r) \/ TxtStops(r) \/ (\E c : TxtRefuses(r, c))
              => \A d : LinesOf(r, d)' = LinesOf(r, d)
         /\ \A c : TxtWrites(r, c) =>
              /\ LinesOf(r, c)' = LinesOf(r, c) \cup {at[r]}
              /\ \A d : d # c => LinesOf(r, d)' = LinesOf(r, d)
              /\ \A p \in LinesOf(r, c) : p < at[r]
<1>1. /\ at[r] \in Nat /\ at = [s \in Runs |-> at[s]]
      /\ \A p \in loaded[r] : p \in Nat /\ (p < at[r] \/ (p = at[r] /\ pc[r] # "record"))
  BY DEF WalkOK, TxtRun
<1>2. ASSUME TxtGoesOn(r), NEW d PROVE LinesOf(r, d)' = LinesOf(r, d)
  <2>1. at'[r] = at[r] + 1
    BY <1>1, <1>2 DEF TxtGoesOn
  <2>2. ASSUME NEW p \in loaded[r]
        PROVE  (p < at[r] + 1 \/ (p = at[r] + 1 /\ d \notin todo[r]))
                 <=> (p < at[r] \/ (p = at[r] /\ d \notin todo[r]))
    BY <1>1, <1>2, <2>2 DEF TxtGoesOn
  <2> QED BY <1>2, <2>1, <2>2 DEF TxtGoesOn, LinesOf
<1>3. ASSUME TxtLoads(r), NEW d PROVE LinesOf(r, d)' = LinesOf(r, d)
  <2>1. /\ todo'[r] = NamesIn(db[r][at[r]].rects) /\ loaded'[r] = loaded[r] \cup {at[r]}
        /\ UNCHANGED <<db, at, refused>>
        /\ \A p \in loaded[r] : p < at[r] /\ p # at[r]
    BY <1>1, <1>3 DEF TxtLoads, TxtType, Current
  <2>2. \A p : p \in LinesOf(r, d)' => p \in LinesOf(r, d)
    BY <1>1, <2>1 DEF LinesOf
  <2>3. \A p : p \in LinesOf(r, d) => p \in LinesOf(r, d)'
    BY <2>1 DEF LinesOf
  <2> QED BY <2>2, <2>3
<1>4. ASSUME TxtStops(r), NEW d PROVE LinesOf(r, d)' = LinesOf(r, d)
  BY <1>4 DEF TxtStops, LinesOf
<1>5. ASSUME NEW c, TxtRefuses(r, c), NEW d PROVE LinesOf(r, d)' = LinesOf(r, d)
  <2>1. /\ todo'[r] = todo[r] \ {c} /\ refused'[r] = refused[r] \cup {<<at[r], c>>}
        /\ c \in todo[r] /\ UNCHANGED <<db, at, loaded>>
    BY <1>5 DEF TxtRefuses, TxtType
  <2>2. \A p : <<p, d>> \in refused'[r] <=> <<p, d>> \in refused[r] \/ (p = at[r] /\ d = c)
    BY <2>1
  <2>3. \A p \in loaded[r] : p = at[r] => ~(p < at[r])
    BY <1>1
  <2> QED BY <2>1, <2>2, <2>3 DEF LinesOf
<1>6. ASSUME NEW c, TxtWrites(r, c)
      PROVE  /\ LinesOf(r, c)' = LinesOf(r, c) \cup {at[r]}
             /\ \A d : d # c => LinesOf(r, d)' = LinesOf(r, d)
             /\ \A p \in LinesOf(r, c) : p < at[r]
  <2>1. /\ todo'[r] = todo[r] \ {c} /\ c \in todo[r] /\ UNCHANGED <<db, at, loaded, refused>>
    BY <1>6 DEF TxtWrites, TxtType
  <2>2. /\ at[r] \in loaded[r] /\ c \in NamesIn(db[r][at[r]].rects)
        /\ <<at[r], c>> \notin refused[r]
    BY <1>6, <2>1 DEF TxtWrites, TxtRun, Current
  <2>3. \A p \in LinesOf(r, c) : p < at[r]
    BY <2>1 DEF LinesOf
  <2>4. \A p : p \in LinesOf(r, c)' <=> p \in LinesOf(r, c) \/ p = at[r]
    BY <2>1, <2>2 DEF LinesOf
  <2>5. \A d : d # c => LinesOf(r, d)' = LinesOf(r, d)
    BY <2>1 DEF LinesOf
  <2> QED BY <2>3, <2>4, <2>5
<1> QED BY <1>2, <1>3, <1>4, <1>5, <1>6

\* The run that moves.
LEMMA TxtRunNext ==
  ASSUME TxtType, WalkOK, WalkOK', NEW r \in Runs, TxtRun(r), TxtStreams(r), ~Ended(r),
         \/ TxtBegins(r) \/ TxtGoesOn(r) \/ TxtLoads(r) \/ TxtStops(r)
         \/ \E c : TxtWrites(r, c) \/ TxtRefuses(r, c)
  PROVE  TxtRun(r)' /\ TxtStreams(r)'
<1>1. /\ at[r] \in Nat /\ at = [s \in Runs |-> at[s]]
      /\ \A p \in loaded[r] : p \in Nat /\ (p < at[r] \/ (p = at[r] /\ pc[r] # "record"))
      /\ \A p, c : <<p, c>> \in refused[r] => p \in loaded[r] /\ (p = at[r] => c \notin todo[r])
      /\ \A c : c \in exFiles[r] <=> LinesOf(r, c) # {}
  BY DEF WalkOK, TxtRun, TxtStreams
<1>2. CASE TxtBegins(r)
  <2>1. loaded[r] = {} /\ refused[r] = {} /\ exFiles[r] = {}
    BY <1>2 DEF TxtBegins, TxtRun
  <2>2. pc'[r] \notin {"idle", "write"}
    BY <1>2 DEF TxtBegins
  <2>3. \A c : LinesOf(r, c)' = {}
    BY <1>2, <2>1 DEF TxtBegins, LinesOf
  <2> QED BY <1>2, <2>1, <2>2, <2>3 DEF TxtBegins, TxtRun, TxtStreams
<1>3. CASE TxtGoesOn(r)
  <2>1. at'[r] = at[r] + 1 /\ pc'[r] = "record"
    BY <1>1, <1>3 DEF TxtGoesOn
  <2>2. TxtRun(r)'
    <3>1. \A p \in loaded[r] : p < at[r] + 1 /\ p # at[r] + 1
      BY <1>1
    <3> QED BY <1>1, <1>3, <2>1, <3>1 DEF TxtGoesOn, TxtRun
  <2> QED BY <1>1, <1>3, <2>2, LinesGrow DEF TxtGoesOn, TxtStreams
<1>4. CASE TxtLoads(r)
  <2>1. /\ todo'[r] = NamesIn(Current(r).rects) /\ loaded'[r] = loaded[r] \cup {at[r]}
        /\ UNCHANGED <<db, at, exFiles, refused>> /\ pc'[r] = "write" /\ HasRecord(r)
        /\ \A p \in loaded[r] : p # at[r]
    BY <1>1, <1>4 DEF TxtLoads, TxtType
  <2>2. HasRecord(r)' /\ Current(r)' = Current(r)
    BY <2>1 DEF HasRecord, Current
  <2>3. TxtRun(r)'
    BY <1>1, <2>1, <2>2 DEF TxtRun
  <2> QED BY <1>1, <1>4, <2>1, <2>3, LinesGrow DEF TxtStreams
<1>5. CASE TxtStops(r)
  <2>1. pc'[r] \in {"done", "crashed"}
    BY <1>5 DEF TxtStops
  <2>2. \A p \in loaded[r] : p < at[r] \/ p = at[r]
    BY <1>1
  <2>3. pc'[r] \notin {"idle", "write", "record"} /\ Ended(r)'
    BY <2>1 DEF Ended
  <2> QED BY <1>1, <1>5, <2>2, <2>3 DEF TxtStops, TxtRun, TxtStreams
<1>6. ASSUME NEW c, TxtWrites(r, c) PROVE TxtRun(r)' /\ TxtStreams(r)'
  <2>1. /\ todo'[r] = todo[r] \ {c} /\ exFiles'[r] = exFiles[r] \cup {c}
        /\ pc[r] = "write" /\ UNCHANGED <<pc, db, at, loaded, refused>>
    BY <1>6 DEF TxtWrites, TxtType
  <2>2. HasRecord(r)' = HasRecord(r) /\ Current(r)' = Current(r)
    BY <2>1 DEF HasRecord, Current
  <2>3. TxtRun(r)'
    BY <1>1, <2>1, <2>2 DEF TxtRun
  <2>4. \A d : d \in exFiles'[r] <=> LinesOf(r, d)' # {}
    <3>1. /\ LinesOf(r, c)' = LinesOf(r, c) \cup {at[r]}
          /\ \A d : d # c => LinesOf(r, d)' = LinesOf(r, d)
      BY <1>6, LinesGrow
    <3> QED BY <1>1, <2>1, <3>1
  <2> QED BY <2>3, <2>4 DEF TxtStreams
<1>7. ASSUME NEW c, TxtRefuses(r, c) PROVE TxtRun(r)' /\ TxtStreams(r)'
  <2>1. /\ todo'[r] = todo[r] \ {c} /\ refused'[r] = refused[r] \cup {<<at[r], c>>}
        /\ pc[r] = "write" /\ UNCHANGED <<pc, db, at, exFiles, loaded>>
        /\ at[r] \in loaded[r]
    BY <1>7 DEF TxtRefuses, TxtType, TxtRun
  <2>2. HasRecord(r)' = HasRecord(r) /\ Current(r)' = Current(r)
    BY <2>1 DEF HasRecord, Current
  <2>3. \A p, d : <<p, d>> \in refused'[r] => <<p, d>> \in refused[r] \/ (p = at[r] /\ d = c)
    BY <2>1
  <2>4. \A p, d : <<p, d>> \in refused'[r] =>
          p \in loaded'[r] /\ (p = at'[r] => d \notin todo'[r])
    BY <1>1, <2>1, <2>3
  <2>5. TxtRun(r)'
    BY <1>1, <2>1, <2>2, <2>4 DEF TxtRun
  <2> QED BY <1>1, <1>7, <2>1, <2>5, LinesGrow DEF TxtStreams
<1> QED BY <1>2, <1>3, <1>4, <1>5, <1>6, <1>7

\* The files of the run that moves.
LEMMA TxtFilesNext ==
  ASSUME TxtType, WalkOK, NEW r \in Runs, TxtRun(r), TxtStreams(r), ~Ended(r),
         \/ TxtBegins(r) \/ TxtGoesOn(r) \/ TxtLoads(r) \/ TxtStops(r)
         \/ \E c : TxtWrites(r, c) \/ TxtRefuses(r, c),
         pc[r] # "idle" => TxtFiles(r)
  PROVE  TxtFiles(r)'
<1>1. CASE TxtBegins(r)
  <2>1. loaded'[r] = {}
    BY <1>1 DEF TxtBegins, TxtRun
  <2>2. \A c : LinesOf(r, c)' = {}
    BY <2>1 DEF LinesOf
  <2> QED BY <2>2 DEF TxtFiles
<1>2. CASE TxtGoesOn(r) \/ TxtLoads(r) \/ TxtStops(r) \/ \E c : TxtRefuses(r, c)
  <2>1. \A d : LinesOf(r, d)' = LinesOf(r, d)
    BY <1>2, LinesGrow
  <2>2. UNCHANGED <<db, files>> /\ pc[r] # "idle"
    BY <1>2 DEF TxtGoesOn, TxtLoads, TxtStops, TxtRefuses
  <2> QED BY <2>1, <2>2 DEF TxtFiles
<1>3. ASSUME NEW c, TxtWrites(r, c) PROVE TxtFiles(r)'
  <2>1. PICK e : e = PlainTxt!Line(r, c)
    OBVIOUS
  <2>2. /\ pc[r] = "write" /\ c \in todo[r] /\ UNCHANGED <<db, at>>
        /\ files' = [d \in DOMAIN files \cup {c} |->
                       IF d # c THEN files[d]
                       ELSE IF c \in exFiles[r] THEN Append(files[c], e) ELSE <<e>>]
    BY <1>3, <2>1 DEF TxtWrites
  <2>3. e \in TxtLine /\ e.record = at[r] /\ TrueLine(db[r], c, e)
    <3>1. HasRecord(r) /\ c \in NamesIn(Current(r).rects)
      BY <2>2 DEF TxtRun
    <3> QED BY <2>1, <3>1, LinesAreTrue
  <2>4. /\ LinesOf(r, c)' = LinesOf(r, c) \cup {at[r]}
        /\ \A d : d # c => LinesOf(r, d)' = LinesOf(r, d)
        /\ \A p \in LinesOf(r, c) : p < at[r]
    BY <1>3, LinesGrow
  <2>5. TxtFiles(r) /\ (c \in exFiles[r] <=> LinesOf(r, c) # {})
    BY <2>2 DEF TxtStreams
  <2>6. Holds(files'[c], LinesOf(r, c)', db'[r], c) /\ c \in DOMAIN files'
    <3>1. CASE c \in exFiles[r]
      <4>1. Holds(files[c], LinesOf(r, c), db[r], c)
        BY <2>5, <3>1 DEF TxtFiles
      <4>2. Holds(Append(files[c], e), LinesOf(r, c) \cup {e.record}, db[r], c)
        BY <2>3, <2>4, <4>1, NextLine
      <4>3. files'[c] = Append(files[c], e)
        BY <2>2, <3>1
      <4> QED BY <2>2, <2>3, <2>4, <4>2, <4>3
    <3>2. CASE c \notin exFiles[r]
      <4>1. Holds(<<e>>, {e.record}, db[r], c)
        BY <2>3, FirstLine
      <4>2. files'[c] = <<e>> /\ LinesOf(r, c)' = {e.record}
        BY <2>2, <2>3, <2>4, <2>5, <3>2
      <4> QED BY <2>2, <4>1, <4>2
    <3> QED BY <3>1, <3>2
  <2>7. ASSUME NEW d, d # c, LinesOf(r, d)' # {}
        PROVE  d \in DOMAIN files' /\ Holds(files'[d], LinesOf(r, d)', db'[r], d)
    <3>1. LinesOf(r, d)' = LinesOf(r, d)
      BY <2>4, <2>7
    <3>2. d \in DOMAIN files /\ Holds(files[d], LinesOf(r, d), db[r], d)
      BY <2>5, <2>7, <3>1 DEF TxtFiles
    <3>3. files'[d] = files[d] /\ d \in DOMAIN files'
      BY <2>2, <2>7, <3>2
    <3> QED BY <2>2, <3>1, <3>2, <3>3
  <2> QED BY <2>6, <2>7 DEF TxtFiles
<1> QED BY <1>1, <1>2, <1>3

LEMMA TxtMove ==
  ASSUME ~Concurrent, TxtInv, layout = "PlainTxt", UNCHANGED <<layout, dest, images>>,
         NEW r \in Runs, PlainTxt!Begin(r) \/ PlainTxt!Step(r) \/ PlainTxt!Crash(r), TurnInv'
  PROVE  TxtInv'
<1>1. /\ LibInv /\ LibType /\ InTurn /\ WalkOK /\ WalkOK'
      /\ TxtType /\ \A s \in Runs : TxtRun(s) /\ TxtStreams(s) /\ (LastBegun(s) => TxtFiles(s))
  BY DEF TxtInv, TurnInv, LibInv, LibType
<1>2. Passes(r)
  BY <1>1, PlainTxtPasses
<1>3. /\ \A s \in Runs \ {r} : pc'[s] = pc[s] /\ db'[s] = db[s] /\ at'[s] = at[s]
      /\ pc'[r] # "idle"
  BY <1>1, <1>2, MovesKeepWalk
<1>4. \/ TxtBegins(r) \/ TxtGoesOn(r) \/ TxtLoads(r) \/ TxtStops(r)
      \/ \E c : TxtWrites(r, c) \/ TxtRefuses(r, c)
  BY <1>1, TxtSteps
<1>5. ~Ended(r) /\ \A s \in Runs \ {r} : (s < r /\ Ended(s)) \/ (s > r /\ pc[s] = "idle")
  BY <1>1, <1>2, MoversWork, MoversAlone
<1>6. /\ TxtType'
      /\ \A s \in Runs \ {r} : /\ todo'[s] = todo[s] /\ exFiles'[s] = exFiles[s]
                               /\ loaded'[s] = loaded[s] /\ refused'[s] = refused[s]
  BY <1>1, <1>4 DEF TxtType, TxtBegins, TxtGoesOn, TxtLoads, TxtStops, TxtWrites, TxtRefuses
<1>7. TxtRun(r)' /\ TxtStreams(r)'
  BY <1>1, <1>4, <1>5, TxtRunNext
<1>8. ASSUME NEW s \in Runs \ {r} PROVE TxtRun(s)' /\ TxtStreams(s)'
  <2>1. \A c : LinesOf(s, c)' = LinesOf(s, c)
    BY <1>3, <1>6, <1>8 DEF LinesOf
  <2>2. /\ HasRecord(s)' = HasRecord(s) /\ Current(s)' = Current(s) /\ Ended(s)' = Ended(s)
    BY <1>3, <1>8 DEF HasRecord, Current, Ended
  <2> QED BY <1>1, <1>3, <1>6, <1>8, <2>1, <2>2 DEF TxtRun, TxtStreams
<1>9. ASSUME NEW s \in Runs, LastBegun(s)' PROVE TxtFiles(s)'
  <2>1. s = r
    <3>1. \A q \in Runs : q > s => pc'[q] = "idle"
      BY <1>9 DEF LastBegun
    <3>2. pc'[s] # "idle"
      BY <1>9 DEF LastBegun
    <3> QED BY <1>3, <1>5, <3>1, <3>2, RunsAssumption DEF Runs
  <2>2. pc[r] # "idle" => TxtFiles(r)
    <3>1. \A q \in Runs : q > r => pc[q] = "idle"
      BY <1>5, RunsAssumption DEF Runs
    <3> QED BY <1>1, <3>1 DEF LastBegun
  <2>3. TxtFiles(r)'
    BY <1>1, <1>4, <1>5, <2>2, TxtFilesNext
  <2> QED BY <2>1, <2>3
<1> QED BY <1>6, <1>7, <1>8, <1>9 DEF TxtInv

LEMMA TxtInvariant == ASSUME ~Concurrent PROVE Spec => []TxtInv
<1>1. Init => TxtInv
  <2> SUFFICES ASSUME Init PROVE TxtInv
    OBVIOUS
  <2>1. TurnInv /\ WalkOK
    BY TurnInit DEF TurnInv, LibInv, LibType
  <2>2. /\ todo = [r \in Runs |-> {}] /\ exFiles = [r \in Runs |-> {}]
        /\ loaded = [r \in Runs |-> {}] /\ refused = [r \in Runs |-> {}]
        /\ pc = [r \in Runs |-> "idle"]
    BY DEF Init, PlainTxt!Init, PlainTxt!WalkInit, PlainTxt!Runs, Runs
  <2>3. TxtType
    BY <2>2 DEF TxtType
  <2>4. \A r \in Runs : TxtRun(r) /\ ~LastBegun(r)
    BY <2>2 DEF TxtRun, LastBegun
  <2>5. \A r \in Runs : TxtStreams(r)
    BY <2>2 DEF TxtStreams, LinesOf
  <2> QED BY <2>1, <2>2, <2>3, <2>4, <2>5 DEF TxtInv
<1>2. TurnInv' /\ TxtInv /\ [Next]_vars => TxtInv'
  <2> SUFFICES ASSUME TurnInv', TxtInv, [Next]_vars PROVE TxtInv'
    OBVIOUS
  <2>1. CASE layout = "PlainTxt" /\ UNCHANGED vars
    <3>1. UNCHANGED <<layout, pc, db, at, todo, exFiles, files, loaded, refused>>
      BY <2>1 DEF vars, walk, plainTxt
    <3>2. \A r : UNCHANGED <<HasRecord(r), Current(r), Ended(r), LastBegun(r)>>
      BY <3>1 DEF HasRecord, Current, Ended, LastBegun
    <3>3. \A r, c : UNCHANGED LinesOf(r, c)
      BY <3>1 DEF LinesOf
    <3>4. \A r : TxtRun(r)' = TxtRun(r) /\ TxtStreams(r)' = TxtStreams(r)
                 /\ TxtFiles(r)' = TxtFiles(r)
      BY <3>1, <3>2, <3>3 DEF TxtRun, TxtStreams, TxtFiles
    <3> QED BY <2>1, <3>1, <3>2, <3>4 DEF TxtInv, TxtType
  <2>2. CASE layout = "PlainTxt" /\ ~UNCHANGED vars
    <3>1. PICK r \in Runs :
            /\ PlainTxt!Begin(r) \/ PlainTxt!Step(r) \/ PlainTxt!Crash(r)
            /\ UNCHANGED <<dest, images>>
      BY <2>2 DEF Next, perform_export, export_db, NoExporter, Finished, copying
    <3> QED BY <2>2, <3>1, TxtMove, LayoutSteps
  <2>3. CASE layout # "PlainTxt"
    <3>1. UNCHANGED <<layout, loaded>>
      BY <2>3 DEF Next, perform_export, export_db, NoExporter, Finished, vars, walk, plainTxt
    <3> QED BY <2>3, <3>1 DEF TxtInv
  <2> QED BY <2>1, <2>2, <2>3
<1> QED BY <1>1, <1>2, TurnInvariant, PTL DEF Spec

\* The text file of a name follows the database: of exports that come one after
\* another, those of the last have true lines of just the loaded images with
\* rectangles of the name, in their order, but of those for which the file did not
\* open.  The stream that is kept open is why nothing is truncated away, and the
\* truncation by the first line of the export why no older line stays in between.
THEOREM FilesFollow == ASSUME ~Concurrent PROVE Spec => []OpenFilesFollowTheDatabase
<1>1. TxtInv => OpenFilesFollowTheDatabase
  <2>1. CASE layout = "PlainTxt"
    <3> SUFFICES ASSUME TxtInv, NEW r \in Runs, NEW c \in Classes, PlainTxt!IsLast(r),
                        PlainTxt!Expected(r, c) # {}
                 PROVE  /\ c \in DOMAIN files
                        /\ {files[c][k].record : k \in DOMAIN files[c]} \ {at[r]}
                             = PlainTxt!Expected(r, c)
                        /\ \A k \in DOMAIN files[c] :
                             /\ TrueLine(db[r], c, files[c][k])
                             /\ k > 1 => files[c][k - 1].record < files[c][k].record
      BY DEF OpenFilesFollowTheDatabase, PlainTxt!OpenFilesFollowTheDatabase,
             PlainTxt!Runs, Runs, TrueLine
    <3>1. LastBegun(r)
      <4>1. ASSUME NEW s \in Runs, s > r PROVE pc[s] = "idle"
        <5>1. r + 1 \in Runs /\ r # NRuns /\ (s = r + 1 \/ r + 1 \in 1..(s - 1))
          BY <4>1, RunsAssumption DEF Runs
        <5>2. pc[r + 1] = "idle"
          BY <5>1 DEF PlainTxt!IsLast
        <5> QED BY <2>1, <4>1, <5>1, <5>2 DEF TxtInv, TurnInv, InTurn, Ended
      <4> QED BY <4>1 DEF LastBegun, PlainTxt!IsLast, PlainTxt!HasBegun
    <3>2. LinesOf(r, c) # {} /\ TxtFiles(r)
      <4>1. PlainTxt!Expected(r, c) \subseteq LinesOf(r, c)
        BY DEF PlainTxt!Expected, PlainTxt!Has, LinesOf, NamesIn
      <4> QED BY <2>1, <3>1, <4>1 DEF TxtInv
    <3>3. c \in DOMAIN files /\ Holds(files[c], LinesOf(r, c), db[r], c)
      BY <3>2 DEF TxtFiles
    <3>4. PlainTxt!Expected(r, c) = LinesOf(r, c) \ {at[r]}
      <4>1. at[r] \in Nat /\ \A p \in loaded[r] : p \in Nat
        BY <2>1 DEF TxtInv, TxtRun, TurnInv, LibInv, LibType, WalkOK
      <4>2. \A p : p \in PlainTxt!Expected(r, c) <=> p \in LinesOf(r, c) \ {at[r]}
        BY <4>1 DEF PlainTxt!Expected, PlainTxt!Has, LinesOf, NamesIn
      <4> QED BY <4>2
    <3> QED BY <3>3, <3>4 DEF Holds
  <2>2. CASE layout # "PlainTxt"
    BY <2>2 DEF TxtInv, OpenFilesFollowTheDatabase, PlainTxt!OpenFilesFollowTheDatabase,
       PlainTxt!Expected, PlainTxt!Runs, Runs
  <2> QED BY <2>1, <2>2
<1>2. Spec => []TxtInv
  BY TxtInvariant
<1> QED BY <1>1, <1>2, PTL
=============================================================================
