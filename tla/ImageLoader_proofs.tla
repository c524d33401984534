------------------------ MODULE ImageLoader_proofs ------------------------
(***************************************************************************)
(* The cache of the images belongs to its records: for any number of       *)
(* loaders at work over one cache directory, any records and hosts and any *)
(* number of calls, whatever the network and the disk do.                  *)
(***************************************************************************)
EXTENDS ImageLoader, SequenceTheorems, TLAPS

\* The pieces of one answer to the record's own URL, from the first one on.
OwnBytes(r, c) ==
  /\ c \in Seq(Piece) /\ Len(c) <= Parts
  /\ \E page \in BOOLEAN : \A i \in 1..Len(c) :
       c[i] = [of |-> r, page |-> page, part |-> i]

LoaderType ==
  /\ pc \in [Loaders -> {"idle", "receive", "look", "mkdir", "name", "create",
                          "write"}]
  /\ ir \in [Loaders -> Records \cup {CHOOSE r \in Records : TRUE}]
  /\ cbuff \in [Loaders -> Seq(Piece)]
  /\ irfpath = [l \in Loaders |-> irfpath[l]]
  /\ tmppath = [r \in Records |-> tmppath[r]]
  /\ cleans \in Nat

\* A call is about a record of its loader, and the buffer holds what came from
\* the record's URL ...
BufferIsOwn ==
  \A l \in Loaders : pc[l] # "idle" =>
    ir[l] \in Own[l] /\ OwnBytes(ir[l], cbuff[l])

\* ... while the system removes no file, a call has no path in its record till
\* its file is made, and the name found is none of its loader's ...
NameIsFree ==
  cleans = 0 => \A l \in Loaders :
    /\ pc[l] \in {"receive", "look", "mkdir", "name", "create"} =>
         tmppath[ir[l]] = None
    /\ pc[l] = "create" =>
         \A r \in Own[l] : tmppath[r] # None => tmppath[r] # irfpath[l]

\* ... so that no two records of a loader share a file, and a file that other
\* loaders do not share is its record's own, till the system removes one.
CopiesAreOwn ==
  cleans = 0 =>
    /\ \A r \in Records : tmppath[r] # None =>
         /\ tmppath[r] \in DOMAIN cache
         /\ Alone(r) => OwnBytes(r, cache[tmppath[r]])
    /\ \A l \in Loaders : \A r, q \in Own[l] :
         r # q /\ tmppath[r] # None => tmppath[q] # tmppath[r]

CacheInv == LoaderType /\ BufferIsOwn /\ NameIsFree /\ CopiesAreOwn

-----------------------------------------------------------------------------
(* The records of the loaders, and what is read of an answer *)

LEMMA OwnRecords ==
  /\ \A l \in Loaders : Own[l] \subseteq Records
  /\ \A l, m \in Loaders : \A r \in Own[l] : r \in Own[m] => l = m
BY RecordAssumption

LEMMA NothingIsOwn == \A r : OwnBytes(r, << >>)
<1>1. << >> \in Seq(Piece) /\ Len(<< >>) = 0
  BY EmptySeq
<1>2. TRUE \in BOOLEAN /\ 1..0 = {} /\ 0 <= Parts
  BY SizeAssumption
<1> QED BY <1>1, <1>2 DEF OwnBytes

\* A write that falls short leaves the first pieces.
LEMMA HeadIsOwn ==
  ASSUME NEW r, NEW c, OwnBytes(r, c), NEW n \in 0..Len(c)
  PROVE  OwnBytes(r, SubSeq(c, 1, n))
<1>1. c \in Seq(Piece) /\ Len(c) \in Nat /\ Len(c) <= Parts
  BY LenProperties DEF OwnBytes
<1>2. \A i \in 1..n : c[i] \in Piece
  BY <1>1, ElementOfSeq
<1>3. /\ SubSeq(c, 1, n) \in Seq(Piece) /\ Len(SubSeq(c, 1, n)) = n
      /\ \A i \in 1..n : SubSeq(c, 1, n)[i] = c[i]
  BY <1>1, <1>2, SubSeqProperties
<1>4. PICK page \in BOOLEAN : \A i \in 1..Len(c) :
        c[i] = [of |-> r, page |-> page, part |-> i]
  BY DEF OwnBytes
<1>5. \A i \in 1..n : SubSeq(c, 1, n)[i] = [of |-> r, page |-> page, part |-> i]
  BY <1>1, <1>3, <1>4
<1> QED BY <1>1, <1>3, <1>5, SizeAssumption DEF OwnBytes

\* The next piece of an answer is the record's own.
LEMMA NextIsOwn ==
  ASSUME NEW r \in Records, NEW c \in Seq(Piece), NEW page \in BOOLEAN,
         NEW answer,
         answer = [i \in 1..Parts |-> [of |-> r, page |-> page, part |-> i]],
         IsStrictPrefix(c, answer)
  PROVE  OwnBytes(r, Append(c, answer[Len(c) + 1]))
<1>1. Len(c) \in Nat /\ Parts \in Nat
  BY LenProperties, SizeAssumption
<1>2. \A i \in 1..Parts : answer[i] \in Piece
  BY DEF Piece
<1>3. answer \in Seq(Piece) /\ Len(answer) = Parts
  <2>1. answer \in [1..Parts -> Piece]
    BY <1>2
  <2> QED BY <1>1, <2>1, LenProperties
<1>4. Len(c) <= Parts /\ SubSeq(c, 1, Len(c)) = SubSeq(answer, 1, Len(c))
  BY <1>3 DEF IsStrictPrefix, IsPrefix
<1>5. \A i \in 1..Len(c) : c[i] = answer[i]
  <2>1. c = SubSeq(answer, 1, Len(c))
    BY <1>4, SubSeqFull
  <2>2. \A i \in 1..Len(c) : SubSeq(answer, 1, Len(c))[i] = answer[i]
    BY <1>1, <1>2, <1>4, SubSeqProperties
  <2> QED BY <2>1, <2>2
<1>6. Len(c) # Parts
  <2>1. c # answer
    BY DEF IsStrictPrefix
  <2> QED BY <1>3, <1>5, <2>1, SeqEqual
<1>7. Len(c) + 1 \in 1..Parts
  BY <1>1, <1>4, <1>6
<1>8. answer[Len(c) + 1] \in Piece
  BY <1>2, <1>7
<1>9. PICK d : d = Append(c, answer[Len(c) + 1])
  OBVIOUS
<1>10. /\ d \in Seq(Piece) /\ Len(d) = Len(c) + 1
       /\ \A i \in 1..Len(c) : d[i] = c[i]
       /\ d[Len(c) + 1] = answer[Len(c) + 1]
  BY <1>8, <1>9, AppendProperties
<1>11. ASSUME NEW i \in 1..Len(d)
       PROVE  d[i] = [of |-> r, page |-> page, part |-> i]
  <2>1. i \in 1..Parts /\ (i \in 1..Len(c) \/ i = Len(c) + 1)
    BY <1>1, <1>7, <1>10
  <2>2. d[i] = answer[i]
    BY <1>5, <1>10, <2>1
  <2> QED BY <2>1, <2>2
<1>12. \A i \in 1..Len(d) : d[i] = [of |-> r, page |-> page, part |-> i]
  BY <1>11
<1>13. Len(d) <= Parts
  BY <1>7, <1>10
<1> QED BY <1>9, <1>10, <1>12, <1>13 DEF OwnBytes

\* What is the record's own begins its image or the page sent for it.
LEMMA OwnBytesBegin ==
  ASSUME NEW r \in Records, NEW c, OwnBytes(r, c)
  PROVE  \E whole \in {Image(r), Page(r)} : IsPrefix(c, whole)
<1>1. c \in Seq(Piece) /\ Len(c) \in Nat /\ Len(c) <= Parts /\ Parts \in Nat
  BY LenProperties, SizeAssumption DEF OwnBytes
<1>2. PICK page \in BOOLEAN : \A i \in 1..Len(c) :
        c[i] = [of |-> r, page |-> page, part |-> i]
  BY DEF OwnBytes
<1>3. PICK whole : whole = [i \in 1..Parts |-> [of |-> r, page |-> page, part |-> i]]
  OBVIOUS
<1>4. whole \in {Image(r), Page(r)}
  BY <1>2, <1>3 DEF Image, Page
<1>5. \A i \in 1..Parts : whole[i] \in Piece
  BY <1>3 DEF Piece
<1>6. Len(whole) = Parts
  <2>1. whole \in [1..Parts -> Piece]
    BY <1>3, <1>5
  <2> QED BY <1>1, <1>3, LenProperties
<1>7. \A i \in 1..Len(c) : c[i] \in Piece
  BY <1>1, ElementOfSeq
<1>8. /\ SubSeq(c, 1, Len(c)) \in Seq(Piece) /\ Len(SubSeq(c, 1, Len(c))) = Len(c)
      /\ \A i \in 1..Len(c) : SubSeq(c, 1, Len(c))[i] = c[i]
  BY <1>1, <1>7, SubSeqProperties
<1>9. /\ SubSeq(whole, 1, Len(c)) \in Seq(Piece)
      /\ Len(SubSeq(whole, 1, Len(c))) = Len(c)
      /\ \A i \in 1..Len(c) : SubSeq(whole, 1, Len(c))[i] = whole[i]
  BY <1>1, <1>5, SubSeqProperties
<1>10. \A i \in 1..Len(c) : SubSeq(c, 1, Len(c))[i] = SubSeq(whole, 1, Len(c))[i]
  BY <1>1, <1>2, <1>3, <1>8, <1>9
<1>11. SubSeq(c, 1, Len(c)) = SubSeq(whole, 1, Len(c))
  BY <1>8, <1>9, <1>10, SeqEqual
<1>12. IsPrefix(c, whole)
  BY <1>1, <1>6, <1>11 DEF IsPrefix
<1> QED BY <1>4, <1>12
-----------------------------------------------------------------------------
(* The first state, and one lemma for each action *)

LEMMA InitIsOwn == Init => CacheInv
<1> SUFFICES ASSUME Init PROVE CacheInv
  OBVIOUS
<1>1. << >> \in Seq(Piece)
  BY EmptySeq
<1>2. LoaderType
  BY <1>1 DEF Init, LoaderType
<1>3. BufferIsOwn /\ NameIsFree
  BY DEF Init, BufferIsOwn, NameIsFree
<1>4. CopiesAreOwn
  BY OwnRecords DEF Init, CopiesAreOwn
<1> QED BY <1>2, <1>3, <1>4 DEF CacheInv

\* A load empties its buffer before it becomes a call.
LEMMA LoadKeeps ==
  ASSUME CacheInv, NEW l \in Loaders, NEW r \in Records, Load(l, r)
  PROVE  CacheInv'
<1>1. /\ pc[l] = "idle" /\ r \in Own[l]
      /\ ir' = [ir EXCEPT ![l] = r]
      /\ UNCHANGED <<irfpath, tmppath, dirs, cache, cleans>>
      /\ \/ UNCHANGED <<pc, cbuff>>
         \/ /\ pc' = [pc EXCEPT ![l] = "receive"]
            /\ cbuff' = [cbuff EXCEPT ![l] = << >>]
  BY DEF Load, Goto, disk
<1>2. LoaderType /\ LoaderType'
  <2>1. << >> \in Seq(Piece) /\ LoaderType
    BY EmptySeq DEF CacheInv
  <2>2. ir' \in [Loaders -> Records \cup {CHOOSE q \in Records : TRUE}]
    BY <1>1, <2>1 DEF LoaderType
  <2>3. /\ pc' \in [Loaders -> {"idle", "receive", "look", "mkdir", "name", "create",
                                "write"}]
        /\ cbuff' \in [Loaders -> Seq(Piece)]
    BY <1>1, <2>1 DEF LoaderType
  <2> QED BY <1>1, <2>1, <2>2, <2>3 DEF LoaderType
<1>3. BufferIsOwn'
  BY <1>1, <1>2, NothingIsOwn DEF CacheInv, LoaderType, BufferIsOwn
<1>4. NameIsFree'
  <2>1. cleans = 0 /\ pc'[l] # "idle" => tmppath[r] = None
    <3>1. pc'[l] # "idle" => ~HasCopy(r)
      BY <1>1, <1>2 DEF Load, LoaderType
    <3> QED BY <3>1 DEF HasCopy, CacheInv, CopiesAreOwn
  <2>2. pc'[l] \in {"idle", "receive"} /\ ir'[l] = r
    BY <1>1, <1>2 DEF LoaderType
  <2>3. \A m \in Loaders : m # l => pc'[m] = pc[m] /\ ir'[m] = ir[m]
    BY <1>1, <1>2 DEF LoaderType
  <2> QED BY <1>1, <2>1, <2>2, <2>3 DEF CacheInv, NameIsFree
<1>5. CopiesAreOwn'
  BY <1>1 DEF CacheInv, CopiesAreOwn, Alone
<1> QED BY <1>2, <1>3, <1>4, <1>5 DEF CacheInv

\* wcallback appends the next piece of the record's own answer.
LEMMA ReceiveKeeps ==
  ASSUME CacheInv, NEW l \in Loaders, Receive(l)
  PROVE  CacheInv'
<1>1. /\ pc[l] = "receive"
      /\ UNCHANGED <<pc, ir, irfpath, tmppath, dirs, cache, cleans>>
  BY DEF Receive, disk
<1>2. LoaderType /\ ir[l] \in Own[l] /\ ir[l] \in Records /\ cbuff[l] \in Seq(Piece)
  BY <1>1, OwnRecords DEF CacheInv, LoaderType, BufferIsOwn
<1>3. PICK answer \in {Image(ir[l]), Page(ir[l])} :
        /\ IsStrictPrefix(cbuff[l], answer)
        /\ cbuff' = [cbuff EXCEPT ![l] = Append(cbuff[l], answer[Len(cbuff[l]) + 1])]
  BY DEF Receive, Answers
<1>4. PICK d : d = Append(cbuff[l], answer[Len(cbuff[l]) + 1])
  OBVIOUS
<1>5. PICK page \in BOOLEAN :
        answer = [i \in 1..Parts |-> [of |-> ir[l], page |-> page, part |-> i]]
  BY <1>3 DEF Image, Page
<1>6. OwnBytes(ir[l], d)
  BY <1>2, <1>3, <1>4, <1>5, NextIsOwn
<1>7. cbuff' = [cbuff EXCEPT ![l] = d]
  BY <1>3, <1>4
<1>8. d \in Seq(Piece)
  BY <1>6 DEF OwnBytes
<1>9. LoaderType'
  BY <1>1, <1>2, <1>7, <1>8 DEF LoaderType
<1>10. BufferIsOwn'
  BY <1>1, <1>2, <1>6, <1>7 DEF CacheInv, LoaderType, BufferIsOwn
<1>11. NameIsFree' /\ CopiesAreOwn'
  BY <1>1 DEF CacheInv, NameIsFree, CopiesAreOwn, Alone
<1> QED BY <1>9, <1>10, <1>11 DEF CacheInv

\* The steps that touch neither the buffers, the names nor the files: a call
\* goes on or returns.
LEMMA GoingOnKeeps ==
  ASSUME CacheInv, NEW l \in Loaders, pc[l] # "idle",
         NEW where \in {"idle", "receive", "look", "mkdir", "name"},
         where # "idle" => pc[l] \in {"receive", "look", "mkdir", "name"},
         pc' = [pc EXCEPT ![l] = where],
         UNCHANGED <<ir, cbuff, irfpath, tmppath, cache, cleans>>
  PROVE  CacheInv'
<1>1. LoaderType /\ LoaderType'
  BY DEF CacheInv, LoaderType
<1>2. BufferIsOwn'
  BY <1>1 DEF CacheInv, LoaderType, BufferIsOwn
<1>3. NameIsFree'
  BY <1>1 DEF CacheInv, LoaderType, NameIsFree
<1>4. CopiesAreOwn'
  BY DEF CacheInv, CopiesAreOwn, Alone
<1> QED BY <1>1, <1>2, <1>3, <1>4 DEF CacheInv

\* A call that cannot make its file returns with no path in its record.
LEMMA UnnamedKeeps ==
  ASSUME CacheInv, NEW l \in Loaders, pc[l] \in {"mkdir", "create"}, Unnamed(l),
         UNCHANGED <<ir, cbuff, cache, cleans>>,
         irfpath' = irfpath \/ irfpath' = [irfpath EXCEPT ![l] = None]
  PROVE  CacheInv'
<1>1. /\ pc' = [pc EXCEPT ![l] = "idle"]
      /\ tmppath' = [tmppath EXCEPT ![ir[l]] = None]
  BY DEF Unnamed, Return, Goto
<1>2. LoaderType /\ ir[l] \in Own[l] /\ ir[l] \in Records
  BY OwnRecords DEF CacheInv, BufferIsOwn
<1>3. LoaderType'
  BY <1>1, <1>2 DEF LoaderType
<1>4. BufferIsOwn'
  BY <1>1, <1>2 DEF CacheInv, LoaderType, BufferIsOwn
<1>5. cleans = 0 => tmppath' = tmppath
  <2>1. cleans = 0 => tmppath[ir[l]] = None
    BY DEF CacheInv, NameIsFree
  <2> QED BY <1>1, <1>2, <2>1 DEF LoaderType
<1>6. \A m \in Loaders : /\ pc'[m] = IF m = l THEN "idle" ELSE pc[m]
                         /\ m # l => irfpath'[m] = irfpath[m]
  BY <1>1, <1>2 DEF LoaderType
<1>7. NameIsFree'
  <2> SUFFICES ASSUME cleans = 0, NEW m \in Loaders, m # l
               PROVE  /\ pc[m] \in {"receive", "look", "mkdir", "name", "create"} =>
                           tmppath[ir[m]] = None
                      /\ pc[m] = "create" =>
                           \A r \in Own[m] : tmppath[r] # None => tmppath[r] # irfpath[m]
    BY <1>5, <1>6 DEF NameIsFree
  <2> QED BY DEF CacheInv, NameIsFree
<1>8. CopiesAreOwn'
  <2> SUFFICES ASSUME cleans = 0 PROVE CopiesAreOwn'
    BY DEF CopiesAreOwn
  <2>1. UNCHANGED <<tmppath, cache, cleans>>
    BY <1>5
  <2> QED BY <2>1 DEF CacheInv, CopiesAreOwn, Alone
<1> QED BY <1>3, <1>4, <1>7, <1>8 DEF CacheInv

LEMMA CreateDirectoryKeeps ==
  ASSUME CacheInv, NEW l \in Loaders, CreateDirectory(l)
  PROVE  CacheInv'
<1>1. CASE Goto(l, "name") /\ UNCHANGED <<tmppath, result>>
  BY <1>1, GoingOnKeeps DEF CreateDirectory, Goto
<1>2. CASE Unnamed(l)
  BY <1>2, UnnamedKeeps DEF CreateDirectory
<1> QED BY <1>1, <1>2 DEF CreateDirectory

\* No file has the name found, none of the loader's own therefore.
LEMMA GenerateNameKeeps ==
  ASSUME CacheInv, NEW l \in Loaders, GenerateName(l)
  PROVE  CacheInv'
<1>1. /\ pc[l] = "name" /\ pc' = [pc EXCEPT ![l] = "create"]
      /\ UNCHANGED <<ir, cbuff, tmppath, dirs, cache, cleans>>
  BY DEF GenerateName, Goto, disk
<1>2. PICK n : n \notin DOMAIN cache /\ irfpath' = [irfpath EXCEPT ![l] = n]
  BY DEF GenerateName
<1>3. LoaderType /\ LoaderType'
  BY <1>1, <1>2 DEF CacheInv, LoaderType
<1>4. BufferIsOwn'
  BY <1>1, <1>3 DEF CacheInv, LoaderType, BufferIsOwn
<1>5. NameIsFree'
  <2>1. cleans = 0 => \A r \in Own[l] : tmppath[r] # None => tmppath[r] # n
    BY <1>2, OwnRecords DEF CacheInv, CopiesAreOwn
  <2>2. pc'[l] = "create" /\ irfpath'[l] = n
    BY <1>1, <1>2, <1>3 DEF LoaderType
  <2>3. \A m \in Loaders : m # l => pc'[m] = pc[m] /\ irfpath'[m] = irfpath[m]
    BY <1>1, <1>2, <1>3 DEF LoaderType
  <2> QED BY <1>1, <2>1, <2>2, <2>3 DEF CacheInv, NameIsFree
<1>6. CopiesAreOwn'
  BY <1>1 DEF CacheInv, CopiesAreOwn, Alone
<1> QED BY <1>3, <1>4, <1>5, <1>6 DEF CacheInv

\* A new file is empty, and the record of the call is the only one of its loader
\* that names it; another loader's record that names it too is not alone.
LEMMA CreateFileKeeps ==
  ASSUME CacheInv, NEW l \in Loaders, CreateFile(l)
  PROVE  CacheInv'
<1>1. CASE Unnamed(l) /\ UNCHANGED cache
  BY <1>1, UnnamedKeeps DEF CreateFile
<1>2. CASE /\ cache' = Put(irfpath[l], << >>)
           /\ tmppath' = [tmppath EXCEPT ![ir[l]] = irfpath[l]]
           /\ Goto(l, "write")
  <2>1. /\ pc[l] = "create" /\ pc' = [pc EXCEPT ![l] = "write"]
        /\ irfpath' = [irfpath EXCEPT ![l] = None]
        /\ UNCHANGED <<ir, cbuff, dirs, cleans>>
    BY <1>2 DEF CreateFile, Goto
  <2>2. /\ LoaderType /\ ir[l] \in Own[l] /\ ir[l] \in Records
        /\ cleans = 0 =>
             /\ tmppath[ir[l]] = None
             /\ \A r \in Own[l] : tmppath[r] # None => tmppath[r] # irfpath[l]
    BY <2>1, OwnRecords DEF CacheInv, BufferIsOwn, NameIsFree
  <2>3. LoaderType'
    BY <1>2, <2>1, <2>2 DEF LoaderType
  <2>4. BufferIsOwn'
    BY <2>1, <2>2 DEF CacheInv, LoaderType, BufferIsOwn
  <2>5. DOMAIN cache' = DOMAIN cache \cup {irfpath[l]}
    BY <1>2 DEF Put
  <2>6. \A m \in Loaders : /\ pc'[m] = IF m = l THEN "write" ELSE pc[m]
                           /\ m # l => irfpath'[m] = irfpath[m]
    BY <2>1, <2>2 DEF LoaderType
  <2>7. \A r \in Records : tmppath'[r] = IF r = ir[l] THEN irfpath[l] ELSE tmppath[r]
    BY <1>2, <2>2 DEF LoaderType
  <2>8. NameIsFree'
    <3> SUFFICES ASSUME cleans = 0, NEW m \in Loaders, m # l
                 PROVE  /\ pc[m] \in {"receive", "look", "mkdir", "name", "create"} =>
                             tmppath'[ir[m]] = None
                        /\ pc[m] = "create" => \A r \in Own[m] :
                             tmppath'[r] # None => tmppath'[r] # irfpath[m]
      BY <2>1, <2>6 DEF NameIsFree
    <3>1. \A r \in Own[m] : r \in Records /\ r # ir[l]
      BY <2>2, OwnRecords
    <3>2. \A r \in Own[m] : tmppath'[r] = tmppath[r]
      BY <2>7, <3>1
    <3>3. pc[m] # "idle" => ir[m] \in Own[m]
      BY DEF CacheInv, BufferIsOwn
    <3> QED BY <3>2, <3>3 DEF CacheInv, NameIsFree
  <2>9. CopiesAreOwn'
    <3> SUFFICES ASSUME cleans = 0 PROVE CopiesAreOwn'
      BY <2>1 DEF CopiesAreOwn
    <3>1. cache'[irfpath[l]] = << >>
      BY <1>2 DEF Put
    <3>2. \A n \in DOMAIN cache : n # irfpath[l] => cache'[n] = cache[n]
      BY <1>2 DEF Put
    <3>3. ASSUME NEW r \in Records, tmppath'[r] # None
          PROVE  /\ tmppath'[r] \in DOMAIN cache'
                 /\ Alone(r)' => OwnBytes(r, cache'[tmppath'[r]])
      <4>1. CASE r = ir[l]
        BY <2>5, <2>7, <3>1, <4>1, NothingIsOwn
      <4>2. CASE r # ir[l]
        <5>1. /\ tmppath'[r] = tmppath[r] /\ tmppath[r] \in DOMAIN cache
              /\ Alone(r) => OwnBytes(r, cache[tmppath[r]])
          BY <2>7, <3>3, <4>2 DEF CacheInv, CopiesAreOwn
        <5>2. Alone(r)' => tmppath[r] # irfpath[l]
          BY <2>2, <2>7, <4>2, <5>1 DEF Alone
        <5>3. Alone(r)' => Alone(r)
          <6>1. tmppath[ir[l]] = None
            BY <2>2
          <6>2. \A q \in Records : q # ir[l] => tmppath'[q] = tmppath[q]
            BY <2>7
          <6>3. tmppath[r] # None
            BY <3>3, <5>1
          <6> QED BY <5>1, <6>1, <6>2, <6>3 DEF Alone
        <5> QED BY <2>5, <3>2, <5>1, <5>2, <5>3
      <4> QED BY <4>1, <4>2
    <3>4. ASSUME NEW m \in Loaders, NEW r \in Own[m], NEW q \in Own[m], r # q,
                 tmppath'[r] # None
          PROVE  tmppath'[q] # tmppath'[r]
      <4>1. r \in Records /\ q \in Records /\ (ir[l] \in {r, q} => m = l)
        BY <2>2, OwnRecords
      <4>2. tmppath[r] # None => tmppath[q] # tmppath[r]
        BY <3>4 DEF CacheInv, CopiesAreOwn
      <4>3. CASE r = ir[l]
        BY <2>2, <2>7, <3>4, <4>1, <4>3
      <4>4. CASE q = ir[l]
        BY <2>2, <2>7, <3>4, <4>1, <4>4
      <4>5. CASE r # ir[l] /\ q # ir[l]
        BY <2>7, <3>4, <4>1, <4>2, <4>5
      <4> QED BY <4>3, <4>4, <4>5
    <3> QED BY <3>3, <3>4 DEF CopiesAreOwn
  <2> QED BY <2>3, <2>4, <2>8, <2>9 DEF CacheInv
<1> QED BY <1>1, <1>2 DEF CreateFile

LEMMA EndTransferKeeps ==
  ASSUME CacheInv, NEW l \in Loaders, EndTransfer(l)
  PROVE  CacheInv'
BY GoingOnKeeps DEF EndTransfer, Return, Goto, disk

LEMMA LookForDirectoryKeeps ==
  ASSUME CacheInv, NEW l \in Loaders, LookForDirectory(l)
  PROVE  CacheInv'
<1>1. PICK where \in {"idle", "name", "mkdir"} : pc' = [pc EXCEPT ![l] = where]
  BY DEF LookForDirectory, Return, Goto
<1> QED BY <1>1, GoingOnKeeps DEF LookForDirectory, disk

\* What is written into the record's file is its own; a record of another loader
\* that has the file too is not alone.
LEMMA WriteDataKeeps ==
  ASSUME CacheInv, NEW l \in Loaders, WriteData(l)
  PROVE  CacheInv'
<1>1. /\ pc[l] = "write" /\ pc' = [pc EXCEPT ![l] = "idle"]
      /\ UNCHANGED <<ir, cbuff, irfpath, tmppath, cleans>>
  BY DEF WriteData, Return, Goto
<1>2. CASE UNCHANGED cache
  BY <1>1, <1>2, GoingOnKeeps
<1>3. ASSUME NEW c, OwnBytes(ir[l], c), cache' = Put(tmppath[ir[l]], c)
      PROVE  CacheInv'
  <2>1. /\ LoaderType /\ ir[l] \in Own[l] /\ ir[l] \in Records
    BY <1>1, OwnRecords DEF CacheInv, BufferIsOwn
  <2>2. LoaderType'
    BY <1>1, <2>1 DEF LoaderType
  <2>3. BufferIsOwn'
    BY <1>1, <2>1 DEF CacheInv, LoaderType, BufferIsOwn
  <2>4. /\ DOMAIN cache' = DOMAIN cache \cup {tmppath[ir[l]]}
        /\ cache'[tmppath[ir[l]]] = c
        /\ \A n \in DOMAIN cache : n # tmppath[ir[l]] => cache'[n] = cache[n]
    BY <1>3 DEF Put
  <2>5. NameIsFree'
    <3>1. pc'[l] = "idle" /\ \A m \in Loaders : m # l => pc'[m] = pc[m]
      BY <1>1, <2>1 DEF LoaderType
    <3> QED BY <1>1, <3>1 DEF CacheInv, NameIsFree
  <2>6. CopiesAreOwn'
    <3>1. UNCHANGED <<tmppath, cleans>>
      BY <1>1
    <3>2. ASSUME cleans = 0, NEW r \in Records, tmppath[r] # None
          PROVE  /\ tmppath[r] \in DOMAIN cache'
                 /\ Alone(r) => OwnBytes(r, cache'[tmppath[r]])
      <4>1. CASE r = ir[l]
        BY <1>3, <2>4, <4>1
      <4>2. CASE r # ir[l]
        <5>1. Alone(r) => tmppath[r] # tmppath[ir[l]]
          BY <2>1, <4>2 DEF Alone
        <5> QED BY <2>4, <3>2, <5>1 DEF CacheInv, CopiesAreOwn
      <4> QED BY <4>1, <4>2
    <3> QED BY <3>1, <3>2 DEF CacheInv, CopiesAreOwn, Alone
  <2> QED BY <2>2, <2>3, <2>5, <2>6 DEF CacheInv
<1>4. OwnBytes(ir[l], cbuff[l])
  BY <1>1 DEF CacheInv, BufferIsOwn
<1>5. CASE cache' = Put(tmppath[ir[l]], cbuff[l])
  BY <1>3, <1>4, <1>5
<1>6. CASE \E n \in 0..(Len(cbuff[l]) - 1) :
             cache' = Put(tmppath[ir[l]], SubSeq(cbuff[l], 1, n))
  <2>1. PICK n \in 0..(Len(cbuff[l]) - 1) :
          cache' = Put(tmppath[ir[l]], SubSeq(cbuff[l], 1, n))
    BY <1>6
  <2>2. n \in 0..Len(cbuff[l])
    BY <1>4, LenProperties DEF OwnBytes
  <2>3. OwnBytes(ir[l], SubSeq(cbuff[l], 1, n))
    BY <1>4, <2>2, HeadIsOwn
  <2> QED BY <1>3, <2>1, <2>3
<1> QED BY <1>2, <1>5, <1>6 DEF WriteData

LEMMA CleanTmpKeeps == CacheInv /\ CleanTmp => CacheInv'
<1> SUFFICES ASSUME CacheInv, CleanTmp PROVE CacheInv'
  OBVIOUS
<1>1. /\ UNCHANGED <<pc, ir, cbuff, irfpath, tmppath>>
      /\ cleans' = cleans + 1 /\ DOMAIN cache' \subseteq DOMAIN cache
  BY DEF CleanTmp, call
<1>2. LoaderType' /\ cleans' # 0
  BY <1>1 DEF CacheInv, LoaderType
<1> QED
  BY <1>1, <1>2 DEF CacheInv, BufferIsOwn, NameIsFree, CopiesAreOwn

LEMMA StutterKeeps == CacheInv /\ UNCHANGED vars => CacheInv'
<1> SUFFICES ASSUME CacheInv, UNCHANGED vars PROVE CacheInv'
  OBVIOUS
<1>1. UNCHANGED <<pc, ir, cbuff, irfpath, tmppath, cache, cleans>>
  BY DEF vars, call, disk
<1>2. LoaderType'
  BY <1>1 DEF CacheInv, LoaderType
<1> QED BY <1>1, <1>2 DEF CacheInv, BufferIsOwn, NameIsFree, CopiesAreOwn, Alone

-----------------------------------------------------------------------------
(* The theorems *)

LEMMA NextKeeps == CacheInv /\ [Next]_vars => CacheInv'
<1> SUFFICES ASSUME CacheInv, [Next]_vars PROVE CacheInv'
  OBVIOUS
<1>1. ASSUME NEW l \in Loaders, NEW r \in Records, Load(l, r) PROVE CacheInv'
  BY <1>1, LoadKeeps
<1>2. ASSUME NEW l \in Loaders, Call(l) PROVE CacheInv'
  BY <1>2, ReceiveKeeps, EndTransferKeeps, LookForDirectoryKeeps, CreateDirectoryKeeps,
     GenerateNameKeeps, CreateFileKeeps, WriteDataKeeps DEF Call
<1> QED BY <1>1, <1>2, CleanTmpKeeps, StutterKeeps DEF Next

\* Every loader of every exporter keeps the shared cache its records' own, but
\* for a file two loaders have named in one microsecond.
THEOREM CacheIsOwn == Spec => []CacheInv
BY InitIsOwn, NextKeeps, PTL DEF Spec

\* One loader gives its records files of their own, and a file that no other
\* loader has named meanwhile holds bytes of the record's own URL only, however
\* many loaders share the cache and whatever their clocks read, unless the
\* system has removed a file before.
THEOREM OnlyOwnBytes == Spec => []OwnBytesOnly
<1>1. CacheInv => OwnBytesOnly
  <2> SUFFICES ASSUME CacheInv, cleans = 0, NEW r \in Records, HasCopy(r)
               PROVE  /\ \A l \in Loaders : r \in Own[l] =>
                           \A q \in Own[l] \ {r} : tmppath[q] # tmppath[r]
                      /\ Alone(r) => \E whole \in {Image(r), Page(r)} :
                           IsPrefix(cache[tmppath[r]], whole)
    BY DEF OwnBytesOnly
  <2>1. tmppath[r] # None
    BY DEF HasCopy
  <2>2. Alone(r) => OwnBytes(r, cache[tmppath[r]])
    BY <2>1 DEF CacheInv, CopiesAreOwn
  <2>3. \A l \in Loaders : r \in Own[l] =>
          \A q \in Own[l] \ {r} : tmppath[q] # tmppath[r]
    BY <2>1 DEF CacheInv, CopiesAreOwn
  <2> QED BY <2>2, <2>3, OwnBytesBegin
<1> QED BY <1>1, CacheIsOwn, PTL

\* A record's copy and its path stay as they are in a step that makes no file,
\* finds no name and writes none.
Kept(r) ==
  /\ tmppath'[r] = tmppath[r] /\ tmppath[r] \in DOMAIN cache'
  /\ Undisputed(r)'
  /\ \/ cache'[tmppath[r]] = cache[tmppath[r]]
     \/ \E l \in Loaders : pc[l] = "write" /\ ir[l] = r

\* A step that leaves the paths and the files alone, and lets no other call come
\* to "create", disputes nothing.
LEMMA UntouchedKept ==
  ASSUME NEW r \in Records, HasCopy(r), Undisputed(r), UNCHANGED <<tmppath, cache>>,
         \A m \in Loaders : pc'[m] = "create" => pc[m] = "create" /\ irfpath'[m] = irfpath[m]
  PROVE  Kept(r)
BY DEF HasCopy, Undisputed, Alone, Kept

\* The call of another record finds a name no file has.
LEMMA NamingKept ==
  ASSUME CacheInv, NEW r \in Records, HasCopy(r), Undisputed(r),
         NEW l \in Loaders, GenerateName(l)
  PROVE  Kept(r)
<1>1. /\ pc' = [pc EXCEPT ![l] = "create"]
      /\ UNCHANGED <<tmppath, cache>>
  BY DEF GenerateName, Goto, disk
<1>2. PICK n : n \notin DOMAIN cache /\ irfpath' = [irfpath EXCEPT ![l] = n]
  BY DEF GenerateName
<1>3. irfpath'[l] # tmppath[r]
  BY <1>2 DEF HasCopy, CacheInv, LoaderType
<1>4. \A m \in Loaders : m # l => pc'[m] = pc[m] /\ irfpath'[m] = irfpath[m]
  BY <1>1, <1>2 DEF CacheInv, LoaderType
<1> QED BY <1>1, <1>3, <1>4 DEF HasCopy, Undisputed, Alone, Kept

\* The file made is not the record's, for the name would be disputed.
LEMMA MakingKept ==
  ASSUME CacheInv, NEW r \in Records, HasCopy(r), Undisputed(r), cleans = 0,
         NEW l \in Loaders, CreateFile(l)
  PROVE  Kept(r)
<1>1. /\ pc[l] = "create" /\ ir[l] \in Own[l] /\ ir[l] \in Records
      /\ tmppath[ir[l]] = None /\ ir[l] # r
  BY OwnRecords DEF CreateFile, CacheInv, BufferIsOwn, NameIsFree, HasCopy
<1>2. irfpath[l] # tmppath[r]
  BY <1>1 DEF Undisputed
<1>3. /\ irfpath' = [irfpath EXCEPT ![l] = None]
      /\ pc' = [pc EXCEPT ![l] = "write"] \/ pc' = [pc EXCEPT ![l] = "idle"]
  BY DEF CreateFile, Unnamed, Return, Goto
<1>4. /\ pc'[l] # "create"
      /\ \A m \in Loaders : m # l => pc'[m] = pc[m] /\ irfpath'[m] = irfpath[m]
  BY <1>3 DEF CacheInv, LoaderType
<1>5. \/ /\ cache' = Put(irfpath[l], << >>)
         /\ tmppath' = [tmppath EXCEPT ![ir[l]] = irfpath[l]]
      \/ UNCHANGED cache /\ tmppath' = [tmppath EXCEPT ![ir[l]] = None]
  BY DEF CreateFile, Unnamed
<1>6. /\ tmppath[r] \in DOMAIN cache' /\ cache'[tmppath[r]] = cache[tmppath[r]]
  BY <1>2, <1>5 DEF HasCopy, Put
<1>7. /\ \A q \in Records : q # ir[l] => tmppath'[q] = tmppath[q]
      /\ tmppath'[ir[l]] \in {None, irfpath[l]}
  BY <1>1, <1>5 DEF CacheInv, LoaderType
<1>8. Alone(r)'
  BY <1>1, <1>2, <1>7 DEF HasCopy, Undisputed, Alone
<1> QED BY <1>1, <1>4, <1>6, <1>7, <1>8 DEF Undisputed, Kept

\* What a call writes goes to its record's path, which is not the path of a
\* record that is alone, but for its own.
LEMMA WritingKept ==
  ASSUME CacheInv, NEW r \in Records, HasCopy(r), Undisputed(r),
         NEW l \in Loaders, WriteData(l)
  PROVE  Kept(r)
<1>1. /\ pc[l] = "write" /\ ir[l] \in Records
      /\ pc' = [pc EXCEPT ![l] = "idle"] /\ UNCHANGED <<irfpath, tmppath>>
      /\ UNCHANGED cache \/ \E c : cache' = Put(tmppath[ir[l]], c)
  BY OwnRecords DEF WriteData, Return, Goto, CacheInv, BufferIsOwn
<1>2. \A m \in Loaders : pc'[m] = "create" => pc[m] = "create"
  BY <1>1 DEF CacheInv, LoaderType
<1>3. Undisputed(r)'
  BY <1>1, <1>2 DEF Undisputed, Alone
<1>4. /\ tmppath[r] \in DOMAIN cache'
      /\ tmppath[ir[l]] # tmppath[r] => cache'[tmppath[r]] = cache[tmppath[r]]
  BY <1>1 DEF HasCopy, Put
<1>5. ir[l] # r => tmppath[ir[l]] # tmppath[r]
  BY <1>1 DEF Undisputed, Alone
<1> QED BY <1>1, <1>3, <1>4, <1>5 DEF Kept

\* The steps of a call that make no file leave every path as it is while the
\* system removes none: one that fails to make a directory had no path yet.
LEMMA OthersKept ==
  ASSUME CacheInv, NEW r \in Records, HasCopy(r), Undisputed(r), cleans = 0,
         NEW l \in Loaders,
         Receive(l) \/ EndTransfer(l) \/ LookForDirectory(l) \/ CreateDirectory(l)
  PROVE  Kept(r)
<1>1. /\ UNCHANGED <<irfpath, cache>> /\ pc[l] # "idle"
      /\ \E where \in {"idle", "receive", "look", "mkdir", "name"} :
           pc' = [pc EXCEPT ![l] = where] \/ UNCHANGED pc
  BY DEF Receive, EndTransfer, LookForDirectory, CreateDirectory, Unnamed, Return,
         Goto, disk
<1>2. \A m \in Loaders : pc'[m] = "create" => pc[m] = "create"
  BY <1>1 DEF CacheInv, LoaderType
<1>3. tmppath' = tmppath
  <2>1. CASE Receive(l) \/ EndTransfer(l) \/ LookForDirectory(l)
    BY <2>1 DEF Receive, EndTransfer, LookForDirectory
  <2>2. CASE CreateDirectory(l)
    <3>1. tmppath[ir[l]] = None /\ ir[l] \in Records
      BY <2>2, OwnRecords DEF CreateDirectory, CacheInv, BufferIsOwn, NameIsFree
    <3> QED BY <2>2, <3>1 DEF CreateDirectory, Unnamed, CacheInv, LoaderType
  <2> QED BY <2>1, <2>2
<1> QED BY <1>1, <1>2, <1>3, UntouchedKept

\* A copy that is its record's alone stays so, and a step touches it only when
\* it is the record's own write.
LEMMA CopiesKept ==
  ASSUME CacheInv, [Next]_vars, cleans' = 0, NEW r \in Records, HasCopy(r),
         Undisputed(r)
  PROVE  Kept(r)
<1>1. CASE UNCHANGED vars
  BY <1>1, UntouchedKept DEF vars, call, disk
<1>2. ASSUME NEW l \in Loaders, NEW q \in Records, Load(l, q) PROVE Kept(r)
  <2>1. UNCHANGED <<irfpath, tmppath, cache>>
    BY <1>2 DEF Load, disk
  <2>2. \A m \in Loaders : pc'[m] = "create" => pc[m] = "create"
    BY <1>2 DEF Load, Goto, CacheInv, LoaderType
  <2> QED BY <2>1, <2>2, UntouchedKept
<1>3. ~CleanTmp
  BY DEF CleanTmp, CacheInv, LoaderType
<1>4. ASSUME NEW l \in Loaders, Call(l) PROVE Kept(r)
  <2>1. cleans = 0
    BY <1>4 DEF Call, Receive, EndTransfer, LookForDirectory, CreateDirectory,
                GenerateName, CreateFile, WriteData, disk
  <2> QED BY <1>4, <2>1, OthersKept, NamingKept, MakingKept, WritingKept DEF Call
<1> QED BY <1>1, <1>2, <1>3, <1>4 DEF Next

\* A cache file that is its record's alone, with no loader on its way to the
\* same name, keeps its name and its bytes through every later load of every
\* loader, for any readings of their clocks.
THEOREM OthersCopiesAreKept == Spec => OthersCopiesKept
<1>1. CacheInv /\ [Next]_vars =>
        [cleans' = 0 =>
           \A r \in Records : HasCopy(r) /\ Undisputed(r) =>
             /\ tmppath'[r] = tmppath[r] /\ tmppath[r] \in DOMAIN cache'
             /\ Undisputed(r)'
             /\ \/ cache'[tmppath[r]] = cache[tmppath[r]]
                \/ \E l \in Loaders : pc[l] = "write" /\ ir[l] = r]_vars
  BY CopiesKept DEF Kept
<1> QED BY <1>1, CacheIsOwn, PTL DEF Spec, OthersCopiesKept

-----------------------------------------------------------------------------
(* A load that succeeds leaves a file *)

\* Only an address with a host comes to a name, and only a named file is
\* written, so that the path of a call that writes is no empty one.
Named ==
  /\ result = [r \in Records |-> result[r]]
  /\ \A l \in Loaders :
       /\ pc[l] \in {"mkdir", "name"} => Address(ir[l]) # NoHost
       /\ pc[l] = "create" => irfpath[l].host # NoHost
       /\ pc[l] = "write" => tmppath[ir[l]] # None

LEMMA InitIsNamed == Init => Named
BY DEF Init, Named

\* The other loaders' calls are about other records.
LEMMA OthersNamed ==
  ASSUME CacheInv, Named, NEW l \in Loaders, NEW r \in Own[l],
         NEW m \in Loaders, m # l,
         pc'[m] = pc[m], ir'[m] = ir[m], irfpath'[m] = irfpath[m],
         \A q \in Records : q # r => tmppath'[q] = tmppath[q]
  PROVE  /\ pc'[m] \in {"mkdir", "name"} => Address(ir'[m]) # NoHost
         /\ pc'[m] = "create" => irfpath'[m].host # NoHost
         /\ pc'[m] = "write" => tmppath'[ir'[m]] # None
<1>1. pc[m] # "idle" => ir[m] \in Own[m] /\ ir[m] \in Records /\ ir[m] # r
  BY OwnRecords DEF CacheInv, BufferIsOwn
<1>2. pc[m] = "write" => pc[m] # "idle"
  OBVIOUS
<1> QED BY <1>1, <1>2 DEF Named

LEMMA LoadNamed ==
  ASSUME CacheInv, Named, NEW l \in Loaders, NEW r \in Records, Load(l, r)
  PROVE  Named'
<1>1. r \in Own[l] /\ UNCHANGED <<irfpath, tmppath>>
  BY DEF Load
<1>2. pc'[l] \in {"idle", "receive"}
  BY DEF Load, Goto, CacheInv, LoaderType
<1>3. \A m \in Loaders : m # l => pc'[m] = pc[m] /\ ir'[m] = ir[m]
  BY DEF Load, Goto, CacheInv, LoaderType
<1>4. result' = [q \in Records |-> result'[q]]
  BY DEF Load, Named
<1> QED BY <1>1, <1>2, <1>3, <1>4, OthersNamed DEF Named

LEMMA CallNamed ==
  ASSUME CacheInv, Named, NEW l \in Loaders, Call(l)
  PROVE  Named'
<1>1. pc[l] # "idle" /\ ir' = ir
  BY DEF Call, Receive, EndTransfer, LookForDirectory, CreateDirectory,
         GenerateName, CreateFile, WriteData
<1>2. ir[l] \in Own[l] /\ ir[l] \in Records
  BY <1>1, OwnRecords DEF CacheInv, BufferIsOwn
<1>3. result' = [q \in Records |-> result'[q]]
  BY DEF Call, Receive, EndTransfer, LookForDirectory, CreateDirectory, Unnamed,
         GenerateName, CreateFile, WriteData, Return, Named
<1>4. \A m \in Loaders : m # l => pc'[m] = pc[m] /\ irfpath'[m] = irfpath[m]
  BY DEF Call, Receive, EndTransfer, LookForDirectory, CreateDirectory, Unnamed,
         GenerateName, CreateFile, WriteData, Return, Goto, CacheInv, LoaderType
<1>5. \A q \in Records : q # ir[l] => tmppath'[q] = tmppath[q]
  BY DEF Call, Receive, EndTransfer, LookForDirectory, CreateDirectory, Unnamed,
         GenerateName, CreateFile, WriteData, Return, Goto, CacheInv, LoaderType
<1>6. /\ pc'[l] \in {"mkdir", "name"} => Address(ir[l]) # NoHost
      /\ pc'[l] = "create" => irfpath'[l].host # NoHost
      /\ pc'[l] = "write" => tmppath'[ir[l]] # None
  <2> USE DEF Goto, Return, CacheInv, LoaderType
  <2>1. CASE Receive(l) \/ EndTransfer(l) \/ WriteData(l)
    <3>1. pc'[l] \in {"receive", "idle", "look"}
      BY <2>1 DEF Receive, EndTransfer, WriteData
    <3> QED BY <3>1
  <2>2. CASE LookForDirectory(l) BY <2>2 DEF LookForDirectory
  <2>3. CASE CreateDirectory(l)
    BY <2>3 DEF CreateDirectory, Unnamed, Named
  <2>4. CASE GenerateName(l)
    <3>1. Address(ir[l]) # NoHost
      BY <2>4 DEF GenerateName, Named
    <3>2. pc'[l] = "create" /\ irfpath'[l].host = Address(ir[l])
      BY <2>4 DEF GenerateName, PathName
    <3> QED BY <3>1, <3>2
  <2>5. CASE CreateFile(l)
    <3>1. pc[l] = "create" /\ irfpath[l].host # NoHost
      BY <2>5 DEF CreateFile, Named
    <3>2. None.host = NoHost
      BY DEF None
    <3>3. irfpath[l] # None
      BY <3>1, <3>2
    <3>4. \/ pc'[l] = "write" /\ tmppath'[ir[l]] = irfpath[l]
          \/ pc'[l] = "idle"
      BY <1>2, <2>5 DEF CreateFile, Unnamed
    <3> QED BY <3>3, <3>4
  <2> QED BY <2>1, <2>2, <2>3, <2>4, <2>5 DEF Call
<1> QED BY <1>1, <1>2, <1>3, <1>4, <1>5, <1>6, OthersNamed DEF Named

LEMMA NextNamed == CacheInv /\ Named /\ [Next]_vars => Named'
<1> SUFFICES ASSUME CacheInv, Named, [Next]_vars PROVE Named'
  OBVIOUS
<1>1. CASE UNCHANGED vars BY <1>1 DEF Named, vars, call
<1>2. CASE CleanTmp BY <1>2 DEF Named, CleanTmp, call
<1> QED BY <1>1, <1>2, LoadNamed, CallNamed DEF Next

\* A call answers with true only after its file has been made, and no other
\* step of the call takes the path from the record again.
LEMMA SuccessHasFile ==
  ASSUME CacheInv, Named, NEW l \in Loaders, [Next]_vars,
         pc[l] # "idle", pc'[l] = "idle", result'[ir[l]] = "true"
  PROVE  tmppath'[ir[l]] # None /\ tmppath'[ir[l]] \in DOMAIN cache'
<1>1. Call(l)
  <2>1. ~UNCHANGED vars /\ ~CleanTmp
    BY DEF vars, call, CleanTmp
  <2>2. ASSUME NEW m \in Loaders, NEW r \in Records, Load(m, r) PROVE m # l /\ FALSE
    BY <2>2 DEF Load, Goto, CacheInv, LoaderType
  <2>3. ASSUME NEW m \in Loaders, Call(m) PROVE m = l
    BY <2>3 DEF Call, Receive, EndTransfer, LookForDirectory, CreateDirectory,
         Unnamed, GenerateName, CreateFile, WriteData, Return, Goto, CacheInv,
         LoaderType
  <2> QED BY <2>1, <2>2, <2>3 DEF Next
<1>2. ir[l] \in Records
  BY OwnRecords DEF CacheInv, BufferIsOwn
<1>3. WriteData(l)
  BY <1>1, <1>2 DEF Call, Receive, EndTransfer, LookForDirectory, CreateDirectory,
     Unnamed, GenerateName, CreateFile, Return, Goto, CacheInv, LoaderType, Named
<1>4. tmppath[ir[l]] # None /\ tmppath' = tmppath
  BY <1>3 DEF WriteData, Named
<1>5. \E c : cache' = Put(tmppath[ir[l]], c)
  BY <1>2, <1>3 DEF WriteData, Return, Named
<1> QED BY <1>4, <1>5 DEF Put

\* A load that succeeds leaves the record a file for the exporter to copy,
\* unless the system has removed it, whatever other loaders do to the cache
\* and whichever call failed before.
THEOREM SuccessAlwaysLeavesFile == Spec => SuccessLeavesFile
<1>1. Spec => [](CacheInv /\ Named)
  BY InitIsOwn, InitIsNamed, NextKeeps, NextNamed, PTL DEF Spec
<1>2. CacheInv /\ Named /\ [Next]_vars =>
        [\A l \in Loaders :
           pc[l] # "idle" /\ pc'[l] = "idle" /\ result'[ir[l]] = "true" =>
             tmppath'[ir[l]] # None /\ tmppath'[ir[l]] \in DOMAIN cache']_vars
  BY SuccessHasFile
<1> QED BY <1>1, <1>2, PTL DEF Spec, SuccessLeavesFile

=============================================================================
