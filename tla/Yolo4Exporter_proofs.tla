----------------------- MODULE Yolo4Exporter_proofs -----------------------
(***************************************************************************)
(* Theorems about Yolo4Exporter, for any number of runs, any databases and *)
(* any source images.                                                      *)
(***************************************************************************)
EXTENDS Yolo4Exporter, FiniteSetTheorems, TLAPS

\* The names get_new_filepath tries are file names with the extension of the
\* source image.
LEMMA CandidateName ==
  ASSUME NEW n \in Filename, NEW k \in Nat
  PROVE  /\ Candidate(n, k) \in Filename
         /\ Candidate(n, k).ext = n.ext
<1>1. CASE k = 0
  BY <1>1 DEF Candidate
<1>2. CASE k # 0
  BY <1>2 DEF Candidate, Filename
<1> QED BY <1>1, <1>2

\* The files the exporter writes itself have extensions no image has.
LEMMA OwnNames ==
  /\ {ObjNames, ObjData, TrainTxt, ValTxt} \subseteq Filename
  /\ \A n \in {ObjNames, ObjData, TrainTxt, ValTxt} : n.ext \in OwnExts
  /\ \A n \in Filename : LabelOf(n) \in Filename /\ LabelOf(n).ext \in OwnExts
<1>1. \A base, ext \in Words :
        Own(base, ext) \in Filename /\ Own(base, ext).ext = ext
  <2>1. << >> \in Seq(Nat)
    OBVIOUS
  <2> QED BY <2>1 DEF Own, Filename
<1>2. \A n \in Filename : LabelOf(n) \in Filename /\ LabelOf(n).ext = "txt"
  BY WordAssumption DEF LabelOf, Filename, OwnExts
<1>3. /\ ObjNames \in Filename /\ ObjNames.ext = "names"
      /\ ObjData \in Filename /\ ObjData.ext = "data"
      /\ TrainTxt \in Filename /\ TrainTxt.ext = "txt"
      /\ ValTxt \in Filename /\ ValTxt.ext = "txt"
  BY <1>1, WordAssumption DEF OwnExts, ObjNames, ObjData, TrainTxt, ValTxt
<1> QED BY <1>2, <1>3 DEF OwnExts

\* A class index and the number of classes are natural numbers.
LEMMA CountsAreNat ==
  ASSUME NEW classes \in SUBSET Classes
  PROVE  /\ Cardinality(classes) \in Nat
         /\ \A c : ClassIndex(classes, c) \in Nat
<1>1. ASSUME NEW S \in SUBSET Classes PROVE Cardinality(S) \in Nat
  BY FS_Subset, FS_CardinalityType, ClassAssumption
<1>2. \A c : {d \in classes : d < c} \in SUBSET Classes
  OBVIOUS
<1> QED BY <1>1, <1>2 DEF ClassIndex

LEMMA LabelsType ==
  ASSUME NEW classes \in SUBSET Classes, NEW rec
  PROVE  IsContent(LabelFile(Labels(classes, rec)))
<1> DEFINE L == Labels(classes, rec)
<1>1. L \in [DOMAIN L -> Nat]
  BY CountsAreNat DEF Labels
<1>2. LabelFile(L).lines = L /\ LabelFile(L).kind = "labels"
  BY DEF LabelFile
<1> QED BY <1>1, <1>2 DEF IsContent

\* What writing one file does to the directory.
LEMMA PutFile ==
  ASSUME NEW files, NEW n, NEW c
  PROVE  /\ DOMAIN Put(files, n, c) = DOMAIN files \cup {n}
         /\ Put(files, n, c)[n] = c
         /\ \A m \in DOMAIN files : m # n => Put(files, n, c)[m] = files[m]
         /\ Put(files, n, c) = [m \in DOMAIN Put(files, n, c) |-> Put(files, n, c)[m]]
BY DEF Put

LEMMA Element ==
  ASSUME NEW S, NEW s \in Seq(S), NEW i \in DOMAIN s PROVE s[i] \in S
OBVIOUS

\* The records of a database are records, of a source image and known classes.
LEMMA RecordType ==
  ASSUME FieldsOK, NEW r \in Runs, NEW i \in DOMAIN db[r]
  PROVE  db[r][i] \in Record /\ db[r][i].img \in Images
           /\ db[r][i].rects \in Seq(Classes)
<1>1. db[r] \in Seq(Record)
  BY DEF FieldsOK
<1>2. db[r][i] \in Record
  BY <1>1, Element
<1> QED BY <1>2 DEF Record

-----------------------------------------------------------------------------
(* Type correctness *)

\* While a run is at an image, its loop is at a record that may be exported
\* and the name chosen for the copy has the extension of the source.
Working(r) == pc[r] \in {"copy", "label", "append"}

AtImage ==
  \A r \in Runs : Working(r) =>
    /\ HasRecord(r)
    /\ Exportable(Current(r))
    /\ dest[r].ext \notin OwnExts

TypeInv == TypeOK /\ AtImage

\* Writing a file of one of the kinds keeps the directory well-typed.
LEMMA PutType ==
  ASSUME DiskOK, NEW n \in Filename, NEW c, IsContent(c),
         disk' = Put(disk, n, c)
  PROVE  DiskOK'
<1>1. /\ DOMAIN disk' = DOMAIN disk \cup {n}
      /\ disk'[n] = c
      /\ \A m \in DOMAIN disk : m # n => disk'[m] = disk[m]
  BY DEF Put
<1>2. DOMAIN disk' \subseteq Filename
  BY <1>1 DEF DiskOK
<1>3. disk' = [m \in DOMAIN disk' |-> disk'[m]]
  BY DEF Put
<1>4. \A m \in DOMAIN disk' : IsContent(disk'[m])
  BY <1>1 DEF DiskOK
<1> QED BY <1>2, <1>3, <1>4 DEF DiskOK

\* The kinds of content the actions write.
LEMMA ContentKinds ==
  /\ \A i \in Images, w \in BOOLEAN : IsContent(ImageFile(i, w))
  /\ \A cs \in SUBSET Classes : IsContent(NamesFile(cs))
  /\ \A k \in Nat : IsContent(DataFile(k))
  /\ \A r \in Runs, ls \in Seq(Filename) : IsContent(ListFile(r, ls))
  /\ IsContent(MixedFile)
BY DEF IsContent, ImageFile, NamesFile, DataFile, ListFile

\* A line added to a list leaves the list a list, or mixed.
LEMMA AppendedContent ==
  ASSUME NEW files, NEW n, NEW line \in Filename, NEW r \in Runs,
         \A m \in DOMAIN files : IsContent(files[m])
  PROVE  \E c : IsContent(c) /\ Appended(files, r, n, line) = Put(files, n, c)
<1>1. CASE n \in DOMAIN files /\ files[n].kind = "list" /\ files[n].by = r
  <2>1. files[n].lines \in Seq(Filename)
    BY <1>1 DEF IsContent, LabelFile, MixedFile
  <2>2. Append(files[n].lines, line) \in Seq(Filename)
    BY <2>1
  <2>3. IsContent(ListFile(r, Append(files[n].lines, line)))
    BY <2>2, ContentKinds
  <2> QED BY <1>1, <2>3 DEF Appended
<1>2. CASE ~(n \in DOMAIN files /\ files[n].kind = "list" /\ files[n].by = r)
  BY <1>2, ContentKinds DEF Appended
<1> QED BY <1>1, <1>2

LEMMA TypeInit == Init => TypeInv
<1> SUFFICES ASSUME Init PROVE TypeInv
  OBVIOUS
<1>1. TrainTxt \in Filename /\ << >> \in Seq(Filename) /\ << >> \in Seq(Record)
  BY OwnNames
<1>2. DOMAIN disk = {}
  BY DEF Init
<1>3. TypeOK
  BY <1>1, <1>2 DEF Init, TypeOK, FieldsOK, DiskOK, PCs, NoCfg
<1>4. AtImage
  BY DEF Init, AtImage, Working
<1> QED BY <1>3, <1>4 DEF TypeInv

\* The run goes to one of its labels, and past a record.
LEMMA GotoType ==
  ASSUME FieldsOK, NEW r \in Runs
  PROVE  /\ \A l \in PCs : Goto(r, l) => pc' \in [Runs -> PCs]
         /\ NextRecord(r) => /\ pc' \in [Runs -> PCs]
                             /\ at' \in [Runs -> Nat \ {0}]
<1>1. \A l \in PCs : Goto(r, l) => pc' \in [Runs -> PCs]
  BY DEF FieldsOK, Goto
<1>2. NextRecord(r) => at' \in [Runs -> Nat \ {0}]
  BY DEF FieldsOK, NextRecord
<1>3. "record" \in PCs
  BY DEF PCs
<1> QED BY <1>1, <1>2, <1>3 DEF NextRecord

\* A step of one run keeps the condition on the others.
LEMMA AtImageFrame ==
  ASSUME TypeInv, NEW r \in Runs,
         \A q \in Runs \ {r} : /\ pc'[q] = pc[q] /\ db'[q] = db[q]
                               /\ at'[q] = at[q] /\ dest'[q] = dest[q],
         Working(r)' => /\ HasRecord(r)'
                        /\ Exportable(Current(r))'
                        /\ dest'[r].ext \notin OwnExts
  PROVE  AtImage'
BY DEF TypeInv, AtImage, Working, HasRecord, Current, Exportable

LEMMA BeginType ==
  ASSUME TypeInv, NEW r \in Runs, Begin(r) PROVE TypeInv'
<1> USE DEF TypeInv, TypeOK
<1>1. DiskOK'
  BY DEF Begin, DiskOK
<1>2. FieldsOK'
  BY DBAssumption DEF Begin, FieldsOK, Goto, PCs
<1>3. Working(r)' => /\ HasRecord(r)'
                     /\ Exportable(Current(r))'
                     /\ dest'[r].ext \notin OwnExts
  BY DEF FieldsOK, Begin, Goto, NextRecord, Working
<1>4. \A q \in Runs \ {r} : /\ pc'[q] = pc[q] /\ db'[q] = db[q]
                            /\ at'[q] = at[q] /\ dest'[q] = dest[q]
  BY DEF FieldsOK, Begin, Goto, NextRecord
<1>5. AtImage'
  BY <1>3, <1>4, AtImageFrame
<1> QED BY <1>1, <1>2, <1>5

LEMMA ObjNamesType ==
  ASSUME TypeInv, NEW r \in Runs, ExpressObjNames(r) PROVE TypeInv'
<1> USE DEF TypeInv, TypeOK
<1>a. Annotations(db[r]) \in SUBSET Classes
  <2>1. \A i \in DOMAIN db[r] : \A j \in DOMAIN db[r][i].rects :
          db[r][i].rects[j] \in Classes
    BY RecordType, Element
  <2> QED BY <2>1 DEF Annotations
<1>1. DiskOK'
  <2>1. CASE UNCHANGED disk
    BY <2>1 DEF DiskOK
  <2>2. CASE disk' = Put(disk, ObjNames, NamesFile(Annotations(db[r])))
    BY <1>a, <2>2, OwnNames, ContentKinds, PutType
  <2> QED BY <2>1, <2>2 DEF ExpressObjNames
<1>2. FieldsOK'
  <2>1. aList' \in [Runs -> SUBSET Classes]
    BY <1>a DEF ExpressObjNames, FieldsOK
  <2>2. pc' \in [Runs -> PCs]
    BY GotoType DEF ExpressObjNames, PCs
  <2> QED BY <2>1, <2>2 DEF ExpressObjNames, FieldsOK
<1>3. Working(r)' => /\ HasRecord(r)'
                     /\ Exportable(Current(r))'
                     /\ dest'[r].ext \notin OwnExts
  BY DEF FieldsOK, ExpressObjNames, Goto, NextRecord, Working
<1>4. \A q \in Runs \ {r} : /\ pc'[q] = pc[q] /\ db'[q] = db[q]
                            /\ at'[q] = at[q] /\ dest'[q] = dest[q]
  BY DEF FieldsOK, ExpressObjNames, Goto, NextRecord
<1>5. AtImage'
  BY <1>3, <1>4, AtImageFrame
<1> QED BY <1>1, <1>2, <1>5

LEMMA ObjDataType ==
  ASSUME TypeInv, NEW r \in Runs, ExpressObjData(r) PROVE TypeInv'
<1> USE DEF TypeInv, TypeOK
<1>1. DiskOK'
  <2>1. CASE UNCHANGED disk
    BY <2>1 DEF DiskOK
  <2>2. CASE disk' = Put(disk, ObjData, DataFile(Cardinality(aList[r])))
    <3>1. Cardinality(aList[r]) \in Nat
      BY CountsAreNat DEF FieldsOK
    <3> QED BY <2>2, <3>1, OwnNames, ContentKinds, PutType
  <2> QED BY <2>1, <2>2 DEF ExpressObjData
<1>2. FieldsOK'
  BY DEF ExpressObjData, FieldsOK, Goto, NextRecord, PCs
<1>3. Working(r)' => /\ HasRecord(r)'
                     /\ Exportable(Current(r))'
                     /\ dest'[r].ext \notin OwnExts
  BY DEF FieldsOK, ExpressObjData, Goto, NextRecord, Working
<1>4. \A q \in Runs \ {r} : /\ pc'[q] = pc[q] /\ db'[q] = db[q]
                            /\ at'[q] = at[q] /\ dest'[q] = dest[q]
  BY DEF FieldsOK, ExpressObjData, Goto, NextRecord
<1>5. AtImage'
  BY <1>3, <1>4, AtImageFrame
<1> QED BY <1>1, <1>2, <1>5

LEMMA OpenListsType ==
  ASSUME TypeInv, NEW r \in Runs, OpenLists(r) PROVE TypeInv'
<1> USE DEF TypeInv, TypeOK
<1>1. DiskOK'
  <2>1. PICK opened \in SUBSET {TrainTxt, ValTxt} :
          disk' = [n \in Files \cup opened |->
                     IF n \in opened THEN ListFile(r, << >>) ELSE disk[n]]
    BY DEF OpenLists
  <2>2. opened \subseteq Filename /\ IsContent(ListFile(r, << >>))
    <3>1. << >> \in Seq(Filename)
      OBVIOUS
    <3> QED BY <3>1, OwnNames, ContentKinds
  <2> QED BY <2>1, <2>2 DEF DiskOK, Files
<1>2. FieldsOK'
  <2>1. exportedImages' \in [Runs -> Nat]
    <3>1. \/ exportedImages' = [exportedImages EXCEPT ![r] = 0]
          \/ UNCHANGED exportedImages
      BY DEF OpenLists
    <3>2. exportedImages \in [Runs -> Nat]
      BY DEF FieldsOK
    <3>3. CASE exportedImages' = [exportedImages EXCEPT ![r] = 0]
      BY <3>2, <3>3
    <3>4. CASE UNCHANGED exportedImages
      BY <3>2, <3>4
    <3> QED BY <3>1, <3>3, <3>4
  <2>2. pc' \in [Runs -> PCs]
    BY GotoType DEF OpenLists, PCs
  <2> QED BY <2>1, <2>2 DEF OpenLists, FieldsOK
<1>3. Working(r)' => /\ HasRecord(r)'
                     /\ Exportable(Current(r))'
                     /\ dest'[r].ext \notin OwnExts
  BY DEF FieldsOK, OpenLists, Goto, NextRecord, Working
<1>4. \A q \in Runs \ {r} : /\ pc'[q] = pc[q] /\ db'[q] = db[q]
                            /\ at'[q] = at[q] /\ dest'[q] = dest[q]
  BY DEF FieldsOK, OpenLists, Goto, NextRecord
<1>5. AtImage'
  BY <1>3, <1>4, AtImageFrame
<1> QED BY <1>1, <1>2, <1>5

LEMMA SkipRecordType ==
  ASSUME TypeInv, NEW r \in Runs, SkipRecord(r) PROVE TypeInv'
<1> USE DEF TypeInv, TypeOK
<1>1. DiskOK'
  BY DEF SkipRecord, DiskOK
<1>2. FieldsOK'
  BY DEF SkipRecord, FieldsOK, Goto, NextRecord, PCs
<1>3. Working(r)' => /\ HasRecord(r)'
                     /\ Exportable(Current(r))'
                     /\ dest'[r].ext \notin OwnExts
  BY DEF FieldsOK, SkipRecord, Goto, NextRecord, Working
<1>4. \A q \in Runs \ {r} : /\ pc'[q] = pc[q] /\ db'[q] = db[q]
                            /\ at'[q] = at[q] /\ dest'[q] = dest[q]
  BY DEF FieldsOK, SkipRecord, Goto, NextRecord
<1>5. AtImage'
  BY <1>3, <1>4, AtImageFrame
<1> QED BY <1>1, <1>2, <1>5

LEMMA ChooseNameType ==
  ASSUME TypeInv, NEW r \in Runs, ChooseName(r) PROVE TypeInv'
<1> USE DEF TypeInv, TypeOK
<1>a. \A k \in 0..Cardinality(Files) :
        LET n == Candidate(SourceName[Current(r).img], k)
        IN  n \in Filename /\ n.ext \notin OwnExts
  <2>1. Current(r).img \in Images
    BY RecordType DEF ChooseName, HasRecord, Current
  <2> QED BY <2>1, NameAssumption, ExtAssumption, CandidateName
<1>1. DiskOK'
  BY DEF ChooseName, DiskOK
<1>2. FieldsOK'
  <2>1. dest' \in [Runs -> Filename]
    <3>1. CASE UNCHANGED dest
      BY <3>1 DEF FieldsOK
    <3>2. ASSUME NEW k \in 0..Cardinality(Files),
                 dest' = [dest EXCEPT ![r] =
                            Candidate(SourceName[Current(r).img], k)]
          PROVE  dest' \in [Runs -> Filename]
      BY <1>a, <3>2 DEF FieldsOK
    <3> QED BY <3>1, <3>2 DEF ChooseName
  <2>2. pc' \in [Runs -> PCs] /\ at' \in [Runs -> Nat \ {0}]
    BY GotoType DEF ChooseName, FieldsOK, PCs
  <2> QED BY <2>1, <2>2 DEF ChooseName, FieldsOK
<1>3. Working(r)' => /\ HasRecord(r)'
                     /\ Exportable(Current(r))'
                     /\ dest'[r].ext \notin OwnExts
  <2>1. CASE Working(r)'
    <3>1. at'[r] = at[r] /\ db' = db
      BY <2>1 DEF ChooseName, FieldsOK, Working, Goto, NextRecord
    <3>2. dest'[r].ext \notin OwnExts
      BY <1>a, <2>1 DEF ChooseName, FieldsOK, Working, Goto, NextRecord
    <3> QED BY <3>1, <3>2 DEF ChooseName, HasRecord, Current, Exportable
  <2> QED BY <2>1
<1>4. \A q \in Runs \ {r} : /\ pc'[q] = pc[q] /\ db'[q] = db[q]
                            /\ at'[q] = at[q] /\ dest'[q] = dest[q]
  BY DEF FieldsOK, ChooseName, Goto, NextRecord
<1>5. AtImage'
  BY <1>3, <1>4, AtImageFrame
<1> QED BY <1>1, <1>2, <1>5

LEMMA CopyImageType ==
  ASSUME TypeInv, NEW r \in Runs, CopyImage(r) PROVE TypeInv'
<1> USE DEF TypeInv, TypeOK
<1>a. HasRecord(r)
  BY DEF CopyImage, AtImage, Working
<1>1. DiskOK'
  <2>1. CASE UNCHANGED disk
    BY <2>1 DEF DiskOK
  <2>2. ASSUME NEW w \in BOOLEAN,
               disk' = Put(disk, dest[r], ImageFile(Current(r).img, w))
        PROVE  DiskOK'
    <3>1. Current(r).img \in Images /\ dest[r] \in Filename
      BY <1>a, RecordType DEF Current, HasRecord, FieldsOK
    <3> QED BY <2>2, <3>1, ContentKinds, PutType
  <2> QED BY <2>1, <2>2 DEF CopyImage
<1>2. FieldsOK'
  BY GotoType DEF CopyImage, FieldsOK, PCs
<1>3. Working(r)' => /\ HasRecord(r)'
                     /\ Exportable(Current(r))'
                     /\ dest'[r].ext \notin OwnExts
  BY DEF FieldsOK, AtImage, CopyImage, Goto, NextRecord, Working, HasRecord, Current, Exportable
<1>4. \A q \in Runs \ {r} : /\ pc'[q] = pc[q] /\ db'[q] = db[q]
                            /\ at'[q] = at[q] /\ dest'[q] = dest[q]
  BY DEF FieldsOK, CopyImage, Goto, NextRecord
<1>5. AtImage'
  BY <1>3, <1>4, AtImageFrame
<1> QED BY <1>1, <1>2, <1>5

LEMMA AnnotationsType ==
  ASSUME TypeInv, NEW r \in Runs, ExpressImageAnnotations(r) PROVE TypeInv'
<1> USE DEF TypeInv, TypeOK
<1>1. DiskOK'
  <2>1. CASE UNCHANGED disk
    BY <2>1 DEF DiskOK
  <2>2. CASE disk' = Put(disk, LabelOf(dest[r]),
                         LabelFile(Labels(aList[r], Current(r))))
    <3>1. LabelOf(dest[r]) \in Filename /\ aList[r] \in SUBSET Classes
      BY OwnNames DEF FieldsOK
    <3> QED BY <2>2, <3>1, LabelsType, PutType
  <2> QED BY <2>1, <2>2 DEF ExpressImageAnnotations
<1>2. FieldsOK'
  BY GotoType DEF ExpressImageAnnotations, FieldsOK, PCs
<1>3. Working(r)' => /\ HasRecord(r)'
                     /\ Exportable(Current(r))'
                     /\ dest'[r].ext \notin OwnExts
  BY DEF FieldsOK, AtImage, ExpressImageAnnotations, Goto, NextRecord, Working, HasRecord, Current, Exportable
<1>4. \A q \in Runs \ {r} : /\ pc'[q] = pc[q] /\ db'[q] = db[q]
                            /\ at'[q] = at[q] /\ dest'[q] = dest[q]
  BY DEF FieldsOK, ExpressImageAnnotations, Goto, NextRecord
<1>5. AtImage'
  BY <1>3, <1>4, AtImageFrame
<1> QED BY <1>1, <1>2, <1>5

LEMMA AppendType ==
  ASSUME TypeInv, NEW r \in Runs, AppendToLists(r) PROVE TypeInv'
<1> USE DEF TypeInv, TypeOK
<1>1. DiskOK'
  <2>1. dest[r] \in Filename
    BY DEF FieldsOK
  <2>2. PICK c : /\ IsContent(c)
                 /\ Appended(disk, r, TrainTxt, dest[r]) = Put(disk, TrainTxt, c)
    BY <2>1, AppendedContent DEF DiskOK
  <2> DEFINE mid == Put(disk, TrainTxt, c)
  <2>3. /\ DOMAIN mid \subseteq Filename
        /\ \A m \in DOMAIN mid : IsContent(mid[m])
    BY <2>2, OwnNames DEF Put, DiskOK
  <2>4. PICK d : /\ IsContent(d)
                 /\ Appended(mid, r, ValTxt, dest[r]) = Put(mid, ValTxt, d)
    <3> HIDE DEF mid
    <3> QED BY <2>1, <2>3, AppendedContent
  <2>5. disk' = Put(mid, ValTxt, d)
    BY <2>2, <2>4 DEF AppendToLists
  <2> HIDE DEF mid
  <2> QED BY <2>3, <2>4, <2>5, OwnNames DEF Put, DiskOK
<1>2. FieldsOK'
  <2>1. trainf' \in [Runs -> Seq(Filename)]
    BY DEF AppendToLists, FieldsOK
  <2> QED BY <2>1, GotoType DEF AppendToLists, FieldsOK
<1>3. Working(r)' => /\ HasRecord(r)'
                     /\ Exportable(Current(r))'
                     /\ dest'[r].ext \notin OwnExts
  BY DEF FieldsOK, AppendToLists, Goto, NextRecord, Working
<1>4. \A q \in Runs \ {r} : /\ pc'[q] = pc[q] /\ db'[q] = db[q]
                            /\ at'[q] = at[q] /\ dest'[q] = dest[q]
  BY DEF FieldsOK, AppendToLists, Goto, NextRecord
<1>5. AtImage'
  BY <1>3, <1>4, AtImageFrame
<1> QED BY <1>1, <1>2, <1>5

LEMMA CloseListsType ==
  ASSUME TypeInv, NEW r \in Runs, CloseLists(r) PROVE TypeInv'
<1> USE DEF TypeInv, TypeOK
<1>1. DiskOK'
  BY DEF CloseLists, DiskOK
<1>2. FieldsOK'
  BY GotoType DEF CloseLists, FieldsOK, PCs
<1>3. Working(r)' => /\ HasRecord(r)'
                     /\ Exportable(Current(r))'
                     /\ dest'[r].ext \notin OwnExts
  BY DEF FieldsOK, CloseLists, Goto, NextRecord, Working
<1>4. \A q \in Runs \ {r} : /\ pc'[q] = pc[q] /\ db'[q] = db[q]
                            /\ at'[q] = at[q] /\ dest'[q] = dest[q]
  BY DEF FieldsOK, CloseLists, Goto, NextRecord
<1>5. AtImage'
  BY <1>3, <1>4, AtImageFrame
<1> QED BY <1>1, <1>2, <1>5

LEMMA YoloCfgType ==
  ASSUME TypeInv, NEW r \in Runs, ExpressYoloCfg(r) PROVE TypeInv'
<1> USE DEF TypeInv, TypeOK
<1>1. DiskOK'
  BY DEF ExpressYoloCfg, DiskOK
<1>2. FieldsOK'
  <2>1. Cardinality(aList[r]) \in Nat /\ exportedImages[r] \in Nat
    BY CountsAreNat DEF FieldsOK
  <2>2. cfg' \in [classes: Nat, images: Nat, made: BOOLEAN]
    <3>1. \/ cfg' = [classes |-> Cardinality(aList[r]),
                     images |-> exportedImages[r], made |-> TRUE]
          \/ UNCHANGED cfg
      BY DEF ExpressYoloCfg
    <3>2. CASE UNCHANGED cfg
      BY <3>2 DEF FieldsOK
    <3>3. CASE cfg' = [classes |-> Cardinality(aList[r]),
                       images |-> exportedImages[r], made |-> TRUE]
      BY <2>1, <3>3
    <3> QED BY <3>1, <3>2, <3>3
  <2> QED BY <2>2, GotoType DEF ExpressYoloCfg, FieldsOK, PCs
<1>3. Working(r)' => /\ HasRecord(r)'
                     /\ Exportable(Current(r))'
                     /\ dest'[r].ext \notin OwnExts
  BY DEF FieldsOK, ExpressYoloCfg, Goto, NextRecord, Working
<1>4. \A q \in Runs \ {r} : /\ pc'[q] = pc[q] /\ db'[q] = db[q]
                            /\ at'[q] = at[q] /\ dest'[q] = dest[q]
  BY DEF FieldsOK, ExpressYoloCfg, Goto, NextRecord
<1>5. AtImage'
  BY <1>3, <1>4, AtImageFrame
<1> QED BY <1>1, <1>2, <1>5

LEMMA CrashType ==
  ASSUME TypeInv, NEW r \in Runs, Crash(r) PROVE TypeInv'
<1> USE DEF TypeInv, TypeOK
<1>1. DiskOK'
  BY DEF Crash, DiskOK
<1>2. FieldsOK'
  BY GotoType DEF Crash, FieldsOK, PCs
<1>3. Working(r)' => /\ HasRecord(r)'
                     /\ Exportable(Current(r))'
                     /\ dest'[r].ext \notin OwnExts
  BY DEF FieldsOK, Crash, Goto, NextRecord, Working
<1>4. \A q \in Runs \ {r} : /\ pc'[q] = pc[q] /\ db'[q] = db[q]
                            /\ at'[q] = at[q] /\ dest'[q] = dest[q]
  BY DEF FieldsOK, Crash, Goto, NextRecord
<1>5. AtImage'
  BY <1>3, <1>4, AtImageFrame
<1> QED BY <1>1, <1>2, <1>5

LEMMA TypeStep == TypeInv /\ [Next]_vars => TypeInv'
<1> SUFFICES ASSUME TypeInv, [Next]_vars PROVE TypeInv'
  OBVIOUS
<1>1. ASSUME NEW r \in Runs, Begin(r) PROVE TypeInv'
  BY <1>1, BeginType
<1>2. ASSUME NEW r \in Runs, Step(r) PROVE TypeInv'
  BY <1>2, ObjNamesType, ObjDataType, OpenListsType, SkipRecordType,
     ChooseNameType, CopyImageType, AnnotationsType, AppendType,
     CloseListsType, YoloCfgType DEF Step
<1>3. ASSUME NEW r \in Runs, Crash(r) PROVE TypeInv'
  BY <1>3, CrashType
<1>4. CASE UNCHANGED vars
  BY <1>4 DEF vars, TypeInv, TypeOK, FieldsOK, DiskOK, AtImage, Working,
              HasRecord, Current, Exportable
<1> QED BY <1>1, <1>2, <1>3, <1>4 DEF Next, Finished

\* Every reachable state is well-typed, however many runs write into the
\* directory and wherever they fail.
THEOREM TypeCorrect == Spec => []TypeOK
<1>1. TypeInv => TypeOK
  BY DEF TypeInv
<1> QED BY <1>1, TypeInit, TypeStep, PTL DEF Spec

-----------------------------------------------------------------------------
(* What no export, repeated, failing or concurrent, can do to the images of *)
(* the directory, to the lists naming them and to their labels.            *)

\* Only copies of source images are images: what the exporter writes itself
\* goes under an extension no source image has.
ImageNames == \A n \in ImageFiles : n.ext \notin OwnExts

SameImages ==
  /\ ImageFiles' = ImageFiles
  /\ \A n \in ImageFiles : disk'[n] = disk[n]

\* One more file, dest[r], is an image; every other image is as it was.
NewImage(r, whole) ==
  /\ dest[r] \notin Files
  /\ ImageFiles' = ImageFiles \cup {dest[r]}
  /\ disk'[dest[r]] = ImageFile(Current(r).img, whole)
  /\ \A n \in ImageFiles : disk'[n] = disk[n]

\* Writing under the exporter's own extensions touches no image.
LEMMA OwnWrite ==
  ASSUME DiskOK, ImageNames, NEW n \in Filename, n.ext \in OwnExts, NEW c,
         c.kind # "image", disk' = Put(disk, n, c)
  PROVE  SameImages
<1>1. n \notin ImageFiles
  BY DEF ImageNames
<1>2. Files' = Files \cup {n}
  BY DEF Put, Files
<1>3. disk'[n] = c /\ \A m \in Files \ {n} : disk'[m] = disk[m]
  BY DEF Put, Files
<1>4. ImageFiles' = ImageFiles
  BY <1>1, <1>2, <1>3 DEF ImageFiles
<1>5. \A m \in ImageFiles : disk'[m] = disk[m]
  BY <1>1, <1>3 DEF ImageFiles
<1> QED BY <1>4, <1>5 DEF SameImages

LEMMA UnchangedDisk == ASSUME UNCHANGED disk PROVE SameImages
BY DEF SameImages, ImageFiles, Files

LEMMA OwnKinds ==
  /\ \A ls : LabelFile(ls).kind # "image"
  /\ \A cs : NamesFile(cs).kind # "image"
  /\ \A k : DataFile(k).kind # "image"
  /\ \A r, ls : ListFile(r, ls).kind # "image"
  /\ MixedFile.kind # "image"
BY DEF LabelFile, NamesFile, DataFile, ListFile, MixedFile

\* Every step but a copy leaves the images alone; a copy adds one.
LEMMA ImagesOfCopy ==
  ASSUME TypeInv, ImageNames, NEW r \in Runs, CopyImage(r)
  PROVE  \/ SameImages /\ pc'[r] = "record"
         \/ NewImage(r, FALSE) /\ pc'[r] = "record"
         \/ NewImage(r, TRUE) /\ pc'[r] = "label" /\ UNCHANGED at
<1>1. ASSUME NEW w \in BOOLEAN, dest[r] \notin Files,
             disk' = Put(disk, dest[r], ImageFile(Current(r).img, w))
      PROVE  NewImage(r, w)
  <2>1. /\ Files' = Files \cup {dest[r]}
        /\ disk'[dest[r]] = ImageFile(Current(r).img, w)
        /\ \A m \in Files : disk'[m] = disk[m]
    BY <1>1 DEF Put, Files
  <2>2. ImageFile(Current(r).img, w).kind = "image"
    BY DEF ImageFile
  <2>3. ImageFiles' = ImageFiles \cup {dest[r]}
    BY <2>1, <2>2, <1>1 DEF ImageFiles
  <2> QED BY <1>1, <2>1, <2>3 DEF NewImage, ImageFiles
<1>2. NextRecord(r) => pc'[r] = "record"
  BY DEF NextRecord, Goto, TypeInv, TypeOK, FieldsOK
<1>3. Goto(r, "label") => pc'[r] = "label"
  BY DEF Goto, TypeInv, TypeOK, FieldsOK
<1> QED BY <1>1, <1>2, <1>3, UnchangedDisk DEF CopyImage

LEMMA ImagesOfLists ==
  ASSUME TypeInv, ImageNames, NEW r \in Runs, OpenLists(r)
  PROVE  SameImages
<1>1. PICK opened \in SUBSET {TrainTxt, ValTxt} :
        disk' = [n \in Files \cup opened |->
                   IF n \in opened THEN ListFile(r, << >>) ELSE disk[n]]
  BY DEF OpenLists
<1>2. opened \cap ImageFiles = {}
  BY OwnNames DEF ImageNames
<1>3. \A n \in opened : disk'[n].kind # "image"
  BY <1>1, OwnKinds
<1>4. Files' = Files \cup opened /\ \A m \in Files \ opened : disk'[m] = disk[m]
  BY <1>1 DEF Files
<1>5. ImageFiles' = ImageFiles
  BY <1>2, <1>3, <1>4 DEF ImageFiles
<1>6. \A m \in ImageFiles : disk'[m] = disk[m]
  BY <1>2, <1>4 DEF ImageFiles
<1> QED BY <1>5, <1>6 DEF SameImages

LEMMA ImagesOfAppend ==
  ASSUME TypeInv, ImageNames, NEW r \in Runs, AppendToLists(r)
  PROVE  SameImages
<1>1. PICK c : c.kind # "image" /\
               Appended(disk, r, TrainTxt, dest[r]) = Put(disk, TrainTxt, c)
  BY OwnKinds DEF Appended
<1> DEFINE mid == Put(disk, TrainTxt, c)
<1>2. PICK d : d.kind # "image" /\
               Appended(mid, r, ValTxt, dest[r]) = Put(mid, ValTxt, d)
  BY OwnKinds DEF Appended
<1>3. disk' = Put(mid, ValTxt, d)
  BY <1>1, <1>2 DEF AppendToLists
<1>4. /\ Files' = Files \cup {TrainTxt, ValTxt}
      /\ \A m \in Files' \ {TrainTxt, ValTxt} : disk'[m] = disk[m]
      /\ disk'[TrainTxt].kind # "image" /\ disk'[ValTxt].kind # "image"
  BY <1>1, <1>2, <1>3 DEF Put, Files
<1>5. TrainTxt \notin ImageFiles /\ ValTxt \notin ImageFiles
  BY OwnNames DEF ImageNames
<1>6. ImageFiles' = ImageFiles
  BY <1>4, <1>5 DEF ImageFiles
<1>7. \A m \in ImageFiles : disk'[m] = disk[m]
  BY <1>4, <1>5 DEF ImageFiles
<1> QED BY <1>6, <1>7 DEF SameImages

LEMMA ImagesOfStep ==
  ASSUME TypeInv, ImageNames, [Next]_vars
  PROVE  \/ SameImages
         \/ \E r \in Runs, w \in BOOLEAN :
              pc[r] = "copy" /\ CopyImage(r) /\ NewImage(r, w)
<1>1. CASE UNCHANGED disk
  BY <1>1, UnchangedDisk
<1>2. ASSUME NEW r \in Runs, ExpressObjNames(r) PROVE SameImages
  BY <1>2, OwnWrite, OwnNames, OwnKinds, UnchangedDisk
     DEF ExpressObjNames, TypeInv, TypeOK
<1>3. ASSUME NEW r \in Runs, ExpressObjData(r) PROVE SameImages
  BY <1>3, OwnWrite, OwnNames, OwnKinds, UnchangedDisk
     DEF ExpressObjData, TypeInv, TypeOK
<1>4. ASSUME NEW r \in Runs, ExpressImageAnnotations(r) PROVE SameImages
  <2>1. dest[r] \in Filename
    BY DEF TypeInv, TypeOK, FieldsOK
  <2> QED BY <1>4, <2>1, OwnWrite, OwnNames, OwnKinds, UnchangedDisk
             DEF ExpressImageAnnotations, TypeInv, TypeOK
<1>5. ASSUME NEW r \in Runs, CopyImage(r)
      PROVE  \/ SameImages
             \/ \E w \in BOOLEAN : pc[r] = "copy" /\ NewImage(r, w)
  BY <1>5, ImagesOfCopy DEF CopyImage
<1>6. ASSUME NEW r \in Runs, Begin(r) \/ SkipRecord(r) \/ ChooseName(r)
               \/ CloseLists(r) \/ ExpressYoloCfg(r) \/ Crash(r)
      PROVE  UNCHANGED disk
  BY <1>6 DEF Begin, SkipRecord, ChooseName, CloseLists, ExpressYoloCfg, Crash
<1>7. CASE UNCHANGED vars
  BY <1>7, UnchangedDisk DEF vars
<1> QED BY <1>1, <1>2, <1>3, <1>4, <1>5, <1>6, <1>7,
           ImagesOfLists, ImagesOfAppend DEF Next, Step, Finished

-----------------------------------------------------------------------------
(* The images of the directory *)

LEMMA ImageNamesInit == Init => ImageNames
BY DEF Init, ImageNames, ImageFiles, Files

LEMMA ImageNamesStep ==
  ASSUME TypeInv, ImageNames, [Next]_vars
  PROVE  ImageNames'
<1>1. CASE SameImages
  BY <1>1 DEF ImageNames, SameImages
<1>2. ASSUME NEW r \in Runs, NEW w \in BOOLEAN, pc[r] = "copy", NewImage(r, w)
      PROVE  ImageNames'
  <2>1. dest[r].ext \notin OwnExts
    BY <1>2 DEF TypeInv, AtImage, Working
  <2> QED BY <1>2, <2>1 DEF ImageNames, NewImage
<1> QED BY <1>1, <1>2, ImagesOfStep

LEMMA ImagesStay ==
  ASSUME TypeInv, ImageNames, [Next]_vars
  PROVE  \A n \in ImageFiles : n \in ImageFiles' /\ disk'[n] = disk[n]
BY ImagesOfStep DEF SameImages, NewImage

\* Whatever the exports do to one directory, no step of any of them overwrites,
\* truncates or removes an image that is there.
THEOREM ImagesAreKept == Spec => ImagesKept
<1> DEFINE Inv == TypeInv /\ ImageNames
<1>1. Init => Inv
  BY TypeInit, ImageNamesInit
<1>2. Inv /\ [Next]_vars => Inv'
  BY TypeStep, ImageNamesStep
<1>3. Inv /\ [Next]_vars =>
        [\A n \in Files : IsImage(n) =>
           n \in DOMAIN disk' /\ disk'[n] = disk[n]]_vars
  BY ImagesStay DEF ImageFiles, IsImage, Files
<1> QED BY <1>1, <1>2, <1>3, PTL DEF Spec, ImagesKept

-----------------------------------------------------------------------------
(* The training lists *)

Claiming(r) == pc[r] \in {"label", "append"}

\* An image that is copied but not listed yet is complete, is the current
\* record's, and belongs to one run alone.
Claims ==
  \A r \in Runs : Claiming(r) =>
    /\ dest[r] \in ImageFiles
    /\ disk[dest[r]] = ImageFile(Current(r).img, TRUE)
    /\ \A s \in Runs : dest[r] \notin Lines(s)
    /\ \A s \in Runs \ {r} : Claiming(s) => dest[s] # dest[r]

\* A run has listed nothing before it opens the lists.
Unlisted ==
  \A r \in Runs : pc[r] \in {"idle", "names", "data", "lists"} => trainf[r] = << >>

ListInv == /\ TypeInv /\ ImageNames /\ Claims /\ Unlisted
           /\ ListedImagesComplete /\ ListedOnce

LEMMA ListInit == Init => ListInv
<1> SUFFICES ASSUME Init PROVE ListInv
  OBVIOUS
<1>1. \A r \in Runs : trainf[r] = << >> /\ pc[r] = "idle"
  BY DEF Init
<1>2. \A r \in Runs : DOMAIN trainf[r] = {} /\ Lines(r) = {}
  BY <1>1 DEF Lines
<1>3. Claims /\ Unlisted
  BY <1>1 DEF Claims, Claiming, Unlisted
<1>4. ListedImagesComplete /\ ListedOnce
  BY <1>2 DEF ListedImagesComplete, ListedOnce
<1> QED BY <1>3, <1>4, TypeInit, ImageNamesInit DEF ListInv

\* Appending one name to a list.
LEMMA AppendLines ==
  ASSUME NEW s \in Seq(Filename), NEW n \in Filename
  PROVE  /\ DOMAIN Append(s, n) = DOMAIN s \cup {Len(s) + 1}
         /\ Len(s) + 1 \notin DOMAIN s
         /\ Append(s, n)[Len(s) + 1] = n
         /\ \A i \in DOMAIN s : Append(s, n)[i] = s[i]
OBVIOUS

\* A step that lists nothing and, for every run, either keeps the run's claim
\* or gives it up keeps the invariant.
LEMMA QuietStep ==
  ASSUME ListInv, [Next]_vars, NEW r \in Runs,
         UNCHANGED trainf,
         \A q \in Runs \ {r} : /\ pc'[q] = pc[q] /\ db'[q] = db[q]
                               /\ at'[q] = at[q] /\ dest'[q] = dest[q],
         trainf[r] = << >> \/ db'[r] = db[r],
         trainf[r] = << >> \/ pc'[r] \notin {"idle", "names", "data", "lists"},
         Claiming(r)' => Claiming(r) /\ dest'[r] = dest[r] /\ at'[r] = at[r]
                           /\ db'[r] = db[r]
  PROVE  ListInv'
<1>1. TypeInv' /\ ImageNames'
  BY TypeStep, ImageNamesStep DEF ListInv
<1>2. \A n \in ImageFiles : n \in ImageFiles' /\ disk'[n] = disk[n]
  BY ImagesStay DEF ListInv
<1>3. \A q \in Runs : Lines(q)' = Lines(q)
  BY DEF Lines
<1>4. \A q \in Runs : Claiming(q)' => /\ Claiming(q) /\ dest'[q] = dest[q]
                                     /\ Current(q)' = Current(q)
  BY DEF Claiming, Current
<1>5. Claims'
  <2> SUFFICES ASSUME NEW q \in Runs, Claiming(q)'
               PROVE  /\ dest'[q] \in ImageFiles'
                      /\ disk'[dest'[q]] = ImageFile(Current(q).img, TRUE)
                      /\ \A s \in Runs : dest'[q] \notin Lines(s)'
                      /\ \A s \in Runs \ {q} : Claiming(s)' => dest'[s] # dest'[q]
    BY <1>4 DEF Claims
  <2>1. Claiming(q) /\ dest'[q] = dest[q]
    BY <1>4
  <2>2. /\ dest[q] \in ImageFiles
        /\ disk[dest[q]] = ImageFile(Current(q).img, TRUE)
        /\ \A s \in Runs : dest[q] \notin Lines(s)
        /\ \A s \in Runs \ {q} : Claiming(s) => dest[s] # dest[q]
    BY <2>1 DEF ListInv, Claims
  <2> QED BY <1>2, <1>3, <1>4, <2>1, <2>2
<1>6. Unlisted'
  BY DEF ListInv, Unlisted
<1>7. ListedOnce'
  BY DEF ListInv, ListedOnce
<1>8. ListedImagesComplete'
  <2> SUFFICES ASSUME NEW q \in Runs, NEW n \in Lines(q)
               PROVE  /\ IsImage(n)' /\ disk'[n].whole
                      /\ \E i \in DOMAIN db'[q] : db'[q][i].img = disk'[n].of
                                                  /\ Exportable(db'[q][i])
    BY <1>3 DEF ListedImagesComplete
  <2>1. /\ n \in ImageFiles /\ disk[n].whole
        /\ \E i \in DOMAIN db[q] : db[q][i].img = disk[n].of
                                   /\ Exportable(db[q][i])
    BY DEF ListInv, ListedImagesComplete, ImageFiles, IsImage
  <2>2. trainf[q] # << >>
    BY DEF Lines
  <2>3. db'[q] = db[q]
    BY <2>2
  <2> QED BY <1>2, <2>1, <2>3 DEF IsImage, ImageFiles, Files
<1> QED BY <1>1, <1>5, <1>6, <1>7, <1>8 DEF ListInv

\* The successful copy: the run claims a file that was not there, so none of
\* the lists and none of the other claims names it.
LEMMA CopyClaims ==
  ASSUME ListInv, [Next]_vars, NEW r \in Runs, CopyImage(r),
         NewImage(r, TRUE), pc'[r] = "label", UNCHANGED at
  PROVE  ListInv'
<1>1. TypeInv' /\ ImageNames'
  BY TypeStep, ImageNamesStep DEF ListInv
<1>2. UNCHANGED <<db, aList, dest, trainf, at>>
  BY DEF CopyImage
<1>3. \A q \in Runs \ {r} : pc'[q] = pc[q]
  BY DEF CopyImage, Goto, NextRecord, ListInv, TypeInv, TypeOK, FieldsOK
<1>4. \A q \in Runs : Lines(q)' = Lines(q) /\ Lines(q) \subseteq ImageFiles
  BY <1>2 DEF Lines, ListInv, ListedImagesComplete, IsImage, ImageFiles
<1>5. \A n \in ImageFiles : n # dest[r] /\ n \in ImageFiles' /\ disk'[n] = disk[n]
  BY DEF NewImage, ImageFiles
<1>6. Claims'
  <2> SUFFICES ASSUME NEW q \in Runs, Claiming(q)'
               PROVE  /\ dest[q] \in ImageFiles'
                      /\ disk'[dest[q]] = ImageFile(Current(q).img, TRUE)
                      /\ \A s \in Runs : dest[q] \notin Lines(s)
                      /\ \A s \in Runs \ {q} : Claiming(s)' => dest[s] # dest[q]
    BY <1>2, <1>4 DEF Claims, Current
  <2>1. \A s \in Runs \ {r} : Claiming(s)' =>
          /\ Claiming(s) /\ dest[s] \in ImageFiles
          /\ disk[dest[s]] = ImageFile(Current(s).img, TRUE)
          /\ \A t \in Runs : dest[s] \notin Lines(t)
          /\ \A t \in Runs \ {s} : Claiming(t) => dest[t] # dest[s]
    BY <1>3 DEF ListInv, Claims, Claiming
  <2>2. CASE q = r
    BY <1>4, <1>5, <2>1, <2>2 DEF NewImage
  <2>3. CASE q # r
    BY <1>5, <2>1, <2>3
  <2> QED BY <2>2, <2>3
<1>7. Unlisted'
  BY <1>2, <1>3 DEF ListInv, Unlisted, CopyImage
<1>8. ListedOnce'
  BY <1>2 DEF ListInv, ListedOnce
<1>9. ListedImagesComplete'
  BY <1>2, <1>4, <1>5 DEF ListInv, ListedImagesComplete, IsImage, ImageFiles, Files
<1> QED BY <1>1, <1>6, <1>7, <1>8, <1>9 DEF ListInv

\* The claimed image is listed: by this run only, and for the first time.
LEMMA AppendLists ==
  ASSUME ListInv, [Next]_vars, NEW r \in Runs, AppendToLists(r)
  PROVE  ListInv'
<1>1. TypeInv' /\ ImageNames'
  BY TypeStep, ImageNamesStep DEF ListInv
<1>2. /\ UNCHANGED <<db, aList, dest>>
      /\ trainf' = [trainf EXCEPT ![r] = Append(@, dest[r])]
      /\ Claiming(r) /\ pc'[r] = "record"
      /\ \A q \in Runs \ {r} : pc'[q] = pc[q] /\ at'[q] = at[q]
  BY DEF AppendToLists, NextRecord, Goto, Claiming, ListInv, TypeInv, TypeOK,
         FieldsOK
<1>3. /\ trainf \in [Runs -> Seq(Filename)] /\ dest \in [Runs -> Filename]
  BY DEF ListInv, TypeInv, TypeOK, FieldsOK
<1> DEFINE L == Len(trainf[r]) + 1
<1>4. /\ trainf'[r] = Append(trainf[r], dest[r])
      /\ \A q \in Runs \ {r} : trainf'[q] = trainf[q]
  BY <1>2, <1>3
<1>5. /\ DOMAIN trainf'[r] = DOMAIN trainf[r] \cup {L}
      /\ L \notin DOMAIN trainf[r]
      /\ trainf'[r][L] = dest[r]
      /\ \A i \in DOMAIN trainf[r] : trainf'[r][i] = trainf[r][i]
  BY <1>3, <1>4, AppendLines
<1> HIDE DEF L
<1>6. /\ Lines(r)' = Lines(r) \cup {dest[r]}
      /\ \A q \in Runs \ {r} : Lines(q)' = Lines(q)
  BY <1>4, <1>5 DEF Lines
<1>7. \A n \in ImageFiles : n \in ImageFiles' /\ disk'[n] = disk[n]
  BY ImagesStay DEF ListInv
<1>8. /\ dest[r] \in ImageFiles
      /\ disk[dest[r]] = ImageFile(Current(r).img, TRUE)
      /\ \A s \in Runs : dest[r] \notin Lines(s)
      /\ \A s \in Runs \ {r} : Claiming(s) => dest[s] # dest[r]
  BY <1>2 DEF ListInv, Claims
<1>9. Claims'
  <2> SUFFICES ASSUME NEW q \in Runs, Claiming(q)'
               PROVE  /\ dest[q] \in ImageFiles'
                      /\ disk'[dest[q]] = ImageFile(Current(q)'.img, TRUE)
                      /\ \A s \in Runs : dest[q] \notin Lines(s)'
                      /\ \A s \in Runs \ {q} : Claiming(s)' => dest[s] # dest[q]
    BY <1>2 DEF Claims, Current
  <2>1. \A s \in Runs : Claiming(s)' => s # r /\ Claiming(s)
    BY <1>2 DEF Claiming
  <2>2. /\ dest[q] \in ImageFiles
        /\ disk[dest[q]] = ImageFile(Current(q).img, TRUE)
        /\ \A s \in Runs : dest[q] \notin Lines(s)
        /\ \A s \in Runs \ {q} : Claiming(s) => dest[s] # dest[q]
    BY <2>1 DEF ListInv, Claims
  <2>3. dest[q] # dest[r] /\ Current(q)' = Current(q)
    BY <1>2, <1>8, <2>1 DEF Current
  <2> QED BY <1>6, <1>7, <2>1, <2>2, <2>3
<1>10. Unlisted'
  BY <1>2, <1>4 DEF ListInv, Unlisted
<1>11. ListedOnce'
  <2> SUFFICES ASSUME NEW p \in Runs, NEW q \in Runs,
                      NEW i \in DOMAIN trainf'[p], NEW j \in DOMAIN trainf'[q],
                      trainf'[p][i] = trainf'[q][j]
               PROVE  p = q /\ i = j
    BY DEF ListedOnce
  <2>1. \A s \in Runs : \A k \in DOMAIN trainf'[s] :
          \/ s = r /\ k = L /\ trainf'[s][k] = dest[r]
          \/ /\ k \in DOMAIN trainf[s] /\ trainf'[s][k] = trainf[s][k]
             /\ trainf[s][k] # dest[r]
    BY <1>4, <1>5, <1>8 DEF Lines
  <2> QED BY <2>1 DEF ListInv, ListedOnce
<1>12. ListedImagesComplete'
  <2> SUFFICES ASSUME NEW q \in Runs, NEW n \in Lines(q)'
               PROVE  /\ IsImage(n)' /\ disk'[n].whole
                      /\ \E i \in DOMAIN db[q] : db[q][i].img = disk'[n].of
                                                 /\ Exportable(db[q][i])
    BY <1>2 DEF ListedImagesComplete
  <2>1. CASE n \in Lines(q)
    BY <1>7, <2>1 DEF ListInv, ListedImagesComplete, IsImage, ImageFiles, Files
  <2>2. CASE q = r /\ n = dest[r]
    <3>1. at[r] \in DOMAIN db[r] /\ Exportable(Current(r))
      BY DEF AppendToLists, ListInv, TypeInv, AtImage, Working, HasRecord
    <3>2. disk'[n].whole /\ disk'[n].of = Current(r).img
      BY <1>7, <1>8, <2>2 DEF ImageFile
    <3> QED BY <1>7, <1>8, <2>2, <3>1, <3>2
            DEF IsImage, ImageFiles, Files, Current
  <2> QED BY <1>6, <2>1, <2>2
<1> QED BY <1>1, <1>9, <1>10, <1>11, <1>12 DEF ListInv

\* The other steps list nothing and claim nothing.
LEMMA BeginLists ==
  ASSUME ListInv, [Next]_vars, NEW r \in Runs, Begin(r) PROVE ListInv'
<1> USE DEF Begin, Goto, NextRecord, Claiming
<1>1. FieldsOK
  BY DEF ListInv, TypeInv, TypeOK
<1>2. UNCHANGED trainf
  OBVIOUS
<1>3. \A q \in Runs \ {r} : /\ pc'[q] = pc[q] /\ db'[q] = db[q]
                            /\ at'[q] = at[q] /\ dest'[q] = dest[q]
  BY <1>1 DEF FieldsOK
<1>4. trainf[r] = << >> \/ db'[r] = db[r]
  BY DEF ListInv, Unlisted
<1>5. trainf[r] = << >> \/ pc'[r] \notin {"idle", "names", "data", "lists"}
  BY <1>1 DEF FieldsOK, ListInv, Unlisted
<1>6. Claiming(r)' => Claiming(r) /\ dest'[r] = dest[r] /\ at'[r] = at[r]
                        /\ db'[r] = db[r]
  BY <1>1 DEF FieldsOK
<1> QED BY <1>2, <1>3, <1>4, <1>5, <1>6, QuietStep

LEMMA ExpressObjNamesLists ==
  ASSUME ListInv, [Next]_vars, NEW r \in Runs, ExpressObjNames(r) PROVE ListInv'
<1> USE DEF ExpressObjNames, Goto, NextRecord, Claiming
<1>1. FieldsOK
  BY DEF ListInv, TypeInv, TypeOK
<1>2. UNCHANGED trainf
  OBVIOUS
<1>3. \A q \in Runs \ {r} : /\ pc'[q] = pc[q] /\ db'[q] = db[q]
                            /\ at'[q] = at[q] /\ dest'[q] = dest[q]
  BY <1>1 DEF FieldsOK
<1>4. trainf[r] = << >> \/ db'[r] = db[r]
  BY DEF ListInv, Unlisted
<1>5. trainf[r] = << >> \/ pc'[r] \notin {"idle", "names", "data", "lists"}
  BY <1>1 DEF FieldsOK, ListInv, Unlisted
<1>6. Claiming(r)' => Claiming(r) /\ dest'[r] = dest[r] /\ at'[r] = at[r]
                        /\ db'[r] = db[r]
  BY <1>1 DEF FieldsOK
<1> QED BY <1>2, <1>3, <1>4, <1>5, <1>6, QuietStep

LEMMA ExpressObjDataLists ==
  ASSUME ListInv, [Next]_vars, NEW r \in Runs, ExpressObjData(r) PROVE ListInv'
<1> USE DEF ExpressObjData, Goto, NextRecord, Claiming
<1>1. FieldsOK
  BY DEF ListInv, TypeInv, TypeOK
<1>2. UNCHANGED trainf
  OBVIOUS
<1>3. \A q \in Runs \ {r} : /\ pc'[q] = pc[q] /\ db'[q] = db[q]
                            /\ at'[q] = at[q] /\ dest'[q] = dest[q]
  BY <1>1 DEF FieldsOK
<1>4. trainf[r] = << >> \/ db'[r] = db[r]
  BY DEF ListInv, Unlisted
<1>5. trainf[r] = << >> \/ pc'[r] \notin {"idle", "names", "data", "lists"}
  BY <1>1 DEF FieldsOK, ListInv, Unlisted
<1>6. Claiming(r)' => Claiming(r) /\ dest'[r] = dest[r] /\ at'[r] = at[r]
                        /\ db'[r] = db[r]
  BY <1>1 DEF FieldsOK
<1> QED BY <1>2, <1>3, <1>4, <1>5, <1>6, QuietStep

LEMMA OpenListsLists ==
  ASSUME ListInv, [Next]_vars, NEW r \in Runs, OpenLists(r) PROVE ListInv'
<1> USE DEF OpenLists, Goto, NextRecord, Claiming
<1>1. FieldsOK
  BY DEF ListInv, TypeInv, TypeOK
<1>2. UNCHANGED trainf
  OBVIOUS
<1>3. \A q \in Runs \ {r} : /\ pc'[q] = pc[q] /\ db'[q] = db[q]
                            /\ at'[q] = at[q] /\ dest'[q] = dest[q]
  BY <1>1 DEF FieldsOK
<1>4. trainf[r] = << >> \/ db'[r] = db[r]
  BY DEF ListInv, Unlisted
<1>5. trainf[r] = << >> \/ pc'[r] \notin {"idle", "names", "data", "lists"}
  BY <1>1 DEF FieldsOK, ListInv, Unlisted
<1>6. Claiming(r)' => Claiming(r) /\ dest'[r] = dest[r] /\ at'[r] = at[r]
                        /\ db'[r] = db[r]
  BY <1>1 DEF FieldsOK
<1> QED BY <1>2, <1>3, <1>4, <1>5, <1>6, QuietStep

LEMMA SkipRecordLists ==
  ASSUME ListInv, [Next]_vars, NEW r \in Runs, SkipRecord(r) PROVE ListInv'
<1> USE DEF SkipRecord, Goto, NextRecord, Claiming
<1>1. FieldsOK
  BY DEF ListInv, TypeInv, TypeOK
<1>2. UNCHANGED trainf
  OBVIOUS
<1>3. \A q \in Runs \ {r} : /\ pc'[q] = pc[q] /\ db'[q] = db[q]
                            /\ at'[q] = at[q] /\ dest'[q] = dest[q]
  BY <1>1 DEF FieldsOK
<1>4. trainf[r] = << >> \/ db'[r] = db[r]
  BY DEF ListInv, Unlisted
<1>5. trainf[r] = << >> \/ pc'[r] \notin {"idle", "names", "data", "lists"}
  BY <1>1 DEF FieldsOK, ListInv, Unlisted
<1>6. Claiming(r)' => Claiming(r) /\ dest'[r] = dest[r] /\ at'[r] = at[r]
                        /\ db'[r] = db[r]
  BY <1>1 DEF FieldsOK
<1> QED BY <1>2, <1>3, <1>4, <1>5, <1>6, QuietStep

LEMMA ChooseNameLists ==
  ASSUME ListInv, [Next]_vars, NEW r \in Runs, ChooseName(r) PROVE ListInv'
<1> USE DEF ChooseName, Goto, NextRecord, Claiming
<1>1. FieldsOK
  BY DEF ListInv, TypeInv, TypeOK
<1>2. UNCHANGED trainf
  OBVIOUS
<1>3. \A q \in Runs \ {r} : /\ pc'[q] = pc[q] /\ db'[q] = db[q]
                            /\ at'[q] = at[q] /\ dest'[q] = dest[q]
  BY <1>1 DEF FieldsOK
<1>4. trainf[r] = << >> \/ db'[r] = db[r]
  BY DEF ListInv, Unlisted
<1>5. trainf[r] = << >> \/ pc'[r] \notin {"idle", "names", "data", "lists"}
  BY <1>1 DEF FieldsOK, ListInv, Unlisted
<1>6. Claiming(r)' => Claiming(r) /\ dest'[r] = dest[r] /\ at'[r] = at[r]
                        /\ db'[r] = db[r]
  BY <1>1 DEF FieldsOK
<1> QED BY <1>2, <1>3, <1>4, <1>5, <1>6, QuietStep

LEMMA ExpressImageAnnotationsLists ==
  ASSUME ListInv, [Next]_vars, NEW r \in Runs, ExpressImageAnnotations(r) PROVE ListInv'
<1> USE DEF ExpressImageAnnotations, Goto, NextRecord, Claiming
<1>1. FieldsOK
  BY DEF ListInv, TypeInv, TypeOK
<1>2. UNCHANGED trainf
  OBVIOUS
<1>3. \A q \in Runs \ {r} : /\ pc'[q] = pc[q] /\ db'[q] = db[q]
                            /\ at'[q] = at[q] /\ dest'[q] = dest[q]
  BY <1>1 DEF FieldsOK
<1>4. trainf[r] = << >> \/ db'[r] = db[r]
  BY DEF ListInv, Unlisted
<1>5. trainf[r] = << >> \/ pc'[r] \notin {"idle", "names", "data", "lists"}
  BY <1>1 DEF FieldsOK, ListInv, Unlisted
<1>6. Claiming(r)' => Claiming(r) /\ dest'[r] = dest[r] /\ at'[r] = at[r]
                        /\ db'[r] = db[r]
  BY <1>1 DEF FieldsOK
<1> QED BY <1>2, <1>3, <1>4, <1>5, <1>6, QuietStep

LEMMA CloseListsLists ==
  ASSUME ListInv, [Next]_vars, NEW r \in Runs, CloseLists(r) PROVE ListInv'
<1> USE DEF CloseLists, Goto, NextRecord, Claiming
<1>1. FieldsOK
  BY DEF ListInv, TypeInv, TypeOK
<1>2. UNCHANGED trainf
  OBVIOUS
<1>3. \A q \in Runs \ {r} : /\ pc'[q] = pc[q] /\ db'[q] = db[q]
                            /\ at'[q] = at[q] /\ dest'[q] = dest[q]
  BY <1>1 DEF FieldsOK
<1>4. trainf[r] = << >> \/ db'[r] = db[r]
  BY DEF ListInv, Unlisted
<1>5. trainf[r] = << >> \/ pc'[r] \notin {"idle", "names", "data", "lists"}
  BY <1>1 DEF FieldsOK, ListInv, Unlisted
<1>6. Claiming(r)' => Claiming(r) /\ dest'[r] = dest[r] /\ at'[r] = at[r]
                        /\ db'[r] = db[r]
  BY <1>1 DEF FieldsOK
<1> QED BY <1>2, <1>3, <1>4, <1>5, <1>6, QuietStep

LEMMA ExpressYoloCfgLists ==
  ASSUME ListInv, [Next]_vars, NEW r \in Runs, ExpressYoloCfg(r) PROVE ListInv'
<1> USE DEF ExpressYoloCfg, Goto, NextRecord, Claiming
<1>1. FieldsOK
  BY DEF ListInv, TypeInv, TypeOK
<1>2. UNCHANGED trainf
  OBVIOUS
<1>3. \A q \in Runs \ {r} : /\ pc'[q] = pc[q] /\ db'[q] = db[q]
                            /\ at'[q] = at[q] /\ dest'[q] = dest[q]
  BY <1>1 DEF FieldsOK
<1>4. trainf[r] = << >> \/ db'[r] = db[r]
  BY DEF ListInv, Unlisted
<1>5. trainf[r] = << >> \/ pc'[r] \notin {"idle", "names", "data", "lists"}
  BY <1>1 DEF FieldsOK, ListInv, Unlisted
<1>6. Claiming(r)' => Claiming(r) /\ dest'[r] = dest[r] /\ at'[r] = at[r]
                        /\ db'[r] = db[r]
  BY <1>1 DEF FieldsOK
<1> QED BY <1>2, <1>3, <1>4, <1>5, <1>6, QuietStep

LEMMA CrashLists ==
  ASSUME ListInv, [Next]_vars, NEW r \in Runs, Crash(r) PROVE ListInv'
<1> USE DEF Crash, Goto, NextRecord, Claiming
<1>1. FieldsOK
  BY DEF ListInv, TypeInv, TypeOK
<1>2. UNCHANGED trainf
  OBVIOUS
<1>3. \A q \in Runs \ {r} : /\ pc'[q] = pc[q] /\ db'[q] = db[q]
                            /\ at'[q] = at[q] /\ dest'[q] = dest[q]
  BY <1>1 DEF FieldsOK
<1>4. trainf[r] = << >> \/ db'[r] = db[r]
  BY DEF ListInv, Unlisted
<1>5. trainf[r] = << >> \/ pc'[r] \notin {"idle", "names", "data", "lists"}
  BY <1>1 DEF FieldsOK, ListInv, Unlisted
<1>6. Claiming(r)' => Claiming(r) /\ dest'[r] = dest[r] /\ at'[r] = at[r]
                        /\ db'[r] = db[r]
  BY <1>1 DEF FieldsOK
<1> QED BY <1>2, <1>3, <1>4, <1>5, <1>6, QuietStep

LEMMA CopyImageLists ==
  ASSUME ListInv, [Next]_vars, NEW r \in Runs, CopyImage(r) PROVE ListInv'
<1>1. CASE NewImage(r, TRUE) /\ pc'[r] = "label" /\ UNCHANGED at
  BY <1>1, CopyClaims
<1>2. CASE pc'[r] = "record"
  <2>1. FieldsOK
    BY DEF ListInv, TypeInv, TypeOK
  <2>2. \A q \in Runs \ {r} : /\ pc'[q] = pc[q] /\ db'[q] = db[q]
                              /\ at'[q] = at[q] /\ dest'[q] = dest[q]
    BY <2>1 DEF CopyImage, Goto, NextRecord, FieldsOK
  <2>3. UNCHANGED <<trainf, db>>
    BY DEF CopyImage
  <2>4. ~Claiming(r)'
    BY <1>2 DEF Claiming
  <2> QED BY <1>2, <2>2, <2>3, <2>4, QuietStep
<1> QED BY <1>1, <1>2, ImagesOfCopy DEF ListInv

LEMMA ListStep == ListInv /\ [Next]_vars => ListInv'
<1> SUFFICES ASSUME ListInv, [Next]_vars PROVE ListInv'
  OBVIOUS
<1>1. ASSUME NEW r \in Runs, Begin(r) \/ Step(r) \/ Crash(r) PROVE ListInv'
  BY <1>1, BeginLists, ExpressObjNamesLists, ExpressObjDataLists,
     OpenListsLists, SkipRecordLists, ChooseNameLists, CopyImageLists,
     ExpressImageAnnotationsLists, AppendLists, CloseListsLists,
     ExpressYoloCfgLists, CrashLists DEF Step
<1>2. CASE UNCHANGED vars
  <2>1. TypeInv' /\ ImageNames'
    BY TypeStep, ImageNamesStep DEF ListInv
  <2>2. Claims'
    <3>1. /\ UNCHANGED <<dest, disk>> /\ ImageFiles' = ImageFiles
          /\ \A q \in Runs : /\ Claiming(q)' = Claiming(q)
                             /\ Current(q)' = Current(q)
                             /\ Lines(q)' = Lines(q)
      BY <1>2 DEF vars, Claiming, Current, Lines, ImageFiles, Files
    <3> QED BY <3>1 DEF ListInv, Claims
  <2>3. Unlisted' /\ ListedOnce'
    BY <1>2 DEF vars, ListInv, Unlisted, ListedOnce
  <2>4. ListedImagesComplete'
    BY <1>2 DEF vars, ListInv, ListedImagesComplete, Lines, IsImage, Files
  <2> QED BY <2>1, <2>2, <2>3, <2>4 DEF ListInv
<1> QED BY <1>1, <1>2 DEF Next, Finished

\* A name in a training list is a complete image of a record of that run,
\* whatever the other runs do.
THEOREM ListedImagesAreComplete == Spec => []ListedImagesComplete
<1>1. ListInv => ListedImagesComplete
  BY DEF ListInv
<1> QED BY <1>1, ListInit, ListStep, PTL DEF Spec

\* No copy is ever listed twice, by one run or by two that choose names in the
\* same directory at the same time.
THEOREM ListedOnlyOnce == Spec => []ListedOnce
<1>1. ListInv => ListedOnce
  BY DEF ListInv
<1> QED BY <1>1, ListInit, ListStep, PTL DEF Spec

-----------------------------------------------------------------------------
(* The labels *)

\* The names a copy may get.
CopyNames == {Candidate(SourceName[i], k) : i \in Images, k \in Nat}

\* The images are such that no copy has the stem of a list, ...
ListStemsFree == \A n \in CopyNames : LabelOf(n) \notin {TrainTxt, ValTxt}

\* ... and two copies of one stem have one extension: label files keep the stem
\* only, so that without it one image's labels replace a list, or another's.
StemsTellApart ==
  /\ ListStemsFree
  /\ \A m, n \in CopyNames : LabelOf(m) = LabelOf(n) => m.ext = n.ext

\* The label file of image n has the lines of the record for run r.
Labelled(r, n, rec) ==
  LabelOf(n) \in Files /\ disk[LabelOf(n)] = LabelFile(Labels(aList[r], rec))

\* A run between labelling and listing has labelled its image ...
LabelsReady ==
  \A r \in Runs : pc[r] = "append" => Labelled(r, dest[r], Current(r))

\* ... and only names of copies are listed.
CopiesNamed ==
  \A r \in Runs : /\ Working(r) => dest[r] \in CopyNames
                  /\ Lines(r) \subseteq CopyNames

LabelInv == ListInv /\ LabelsReady /\ CopiesNamed /\ LabelsOfListedImages

LEMMA LabelInit == Init => LabelInv
<1> SUFFICES ASSUME Init PROVE LabelInv
  OBVIOUS
<1>1. \A r \in Runs : pc[r] = "idle" /\ Lines(r) = {}
  BY DEF Init, Lines
<1> QED BY <1>1, ListInit
        DEF LabelInv, LabelsReady, CopiesNamed, Working, LabelsOfListedImages

LEMMA CopyNamesType == CopyNames \subseteq Filename
BY CandidateName, NameAssumption DEF CopyNames

\* The label file tells which copy it is of.
LEMMA LabelTells ==
  ASSUME StemsTellApart, NEW m \in CopyNames, NEW n \in CopyNames,
         LabelOf(m) = LabelOf(n)
  PROVE  m = n
<1>1. m \in Filename /\ n \in Filename /\ m.ext = n.ext
  BY CopyNamesType DEF StemsTellApart
<1>2. /\ LabelOf(m).base = m.base /\ LabelOf(m).tail = m.tail
      /\ LabelOf(n).base = n.base /\ LabelOf(n).tail = n.tail
  BY <1>1 DEF LabelOf, Filename
<1> QED BY <1>1, <1>2 DEF Filename

\* A label file stays as it is unless a run labels that very copy.
LEMMA LabelStays ==
  ASSUME LabelInv, StemsTellApart, [Next]_vars,
         NEW n \in CopyNames, LabelOf(n) \in Files,
         \A r \in Runs : pc[r] = "label" => dest[r] # n
  PROVE  LabelOf(n) \in Files' /\ disk'[LabelOf(n)] = disk[LabelOf(n)]
<1> DEFINE f == LabelOf(n)
<1>1. n \in Filename /\ f \in Filename /\ f.ext = "txt"
  BY CopyNamesType, OwnNames DEF LabelOf, Filename
<1>2. f \notin {TrainTxt, ValTxt, ObjNames, ObjData}
  BY <1>1 DEF StemsTellApart, ListStemsFree, ObjNames, ObjData, Own
<1> HIDE DEF f
<1>3. f \in Files
  BY DEF f
<1>4. CASE UNCHANGED disk
  BY <1>3, <1>4 DEF Files
<1>5. ASSUME NEW r \in Runs, ExpressObjNames(r) \/ ExpressObjData(r)
      PROVE  f \in Files' /\ disk'[f] = disk[f]
  BY <1>2, <1>3, <1>4, <1>5 DEF ExpressObjNames, ExpressObjData, Put, Files
<1>6. ASSUME NEW r \in Runs, OpenLists(r) PROVE f \in Files' /\ disk'[f] = disk[f]
  BY <1>2, <1>3, <1>6 DEF OpenLists, Files
<1>7. ASSUME NEW r \in Runs, CopyImage(r) PROVE f \in Files' /\ disk'[f] = disk[f]
  BY <1>3, <1>4, <1>7 DEF CopyImage, Put, Files
<1>8. ASSUME NEW r \in Runs, ExpressImageAnnotations(r)
      PROVE  f \in Files' /\ disk'[f] = disk[f]
  <2>1. pc[r] = "label" /\ dest[r] \in CopyNames
    BY <1>8 DEF ExpressImageAnnotations, LabelInv, CopiesNamed, Working
  <2>2. LabelOf(dest[r]) # f
    BY <2>1, LabelTells DEF f
  <2> QED BY <1>3, <1>4, <1>8, <2>2 DEF ExpressImageAnnotations, Put, Files
<1>9. ASSUME NEW r \in Runs, AppendToLists(r)
      PROVE  f \in Files' /\ disk'[f] = disk[f]
  BY <1>2, <1>3, <1>9 DEF AppendToLists, Appended, Put, Files
<1>10. ASSUME NEW r \in Runs, Begin(r) \/ SkipRecord(r) \/ ChooseName(r)
                \/ CloseLists(r) \/ ExpressYoloCfg(r) \/ Crash(r)
       PROVE  UNCHANGED disk
  BY <1>10 DEF Begin, SkipRecord, ChooseName, CloseLists, ExpressYoloCfg, Crash
<1> QED BY <1>4, <1>5, <1>6, <1>7, <1>8, <1>9, <1>10 DEF Next, Step, Finished, vars, f

\* A run's classes and records are settled before it labels anything.
LEMMA SettledRun ==
  ASSUME LabelInv, [Next]_vars, NEW q \in Runs
  PROVE  /\ trainf[q] # << >> => aList'[q] = aList[q] /\ db'[q] = db[q]
         /\ pc[q] = "append" => aList'[q] = aList[q] /\ db'[q] = db[q]
         /\ pc'[q] = "append" => aList'[q] = aList[q] /\ db'[q] = db[q]
<1>1. FieldsOK
  BY DEF LabelInv, ListInv, TypeInv, TypeOK
<1>2. UNCHANGED <<aList, db>> \/ \E r \in Runs : Begin(r) \/ ExpressObjNames(r)
  BY DEF Next, Step, Finished, vars, ExpressObjData, OpenLists, SkipRecord,
         ChooseName, CopyImage, ExpressImageAnnotations, AppendToLists, CloseLists,
         ExpressYoloCfg, Crash
<1>3. ASSUME NEW r \in Runs, Begin(r) \/ ExpressObjNames(r)
      PROVE  /\ trainf[r] = << >> /\ pc[r] # "append" /\ pc'[r] # "append"
             /\ r # q => aList'[q] = aList[q] /\ db'[q] = db[q]
  BY <1>1, <1>3 DEF Begin, ExpressObjNames, Goto, FieldsOK, LabelInv, ListInv, Unlisted
<1> QED BY <1>2, <1>3

\* The current image of a run that has labelled it is one nobody labels.
LEMMA NobodyLabels ==
  ASSUME LabelInv
  PROVE  /\ \A q \in Runs : pc[q] = "append" =>
              \A r \in Runs : pc[r] = "label" => dest[r] # dest[q]
         /\ \A q \in Runs : \A n \in Lines(q) :
              \A r \in Runs : pc[r] = "label" => dest[r] # n
<1>1. \A r \in Runs : pc[r] = "label" => Claiming(r)
  BY DEF Claiming
<1>2. \A r \in Runs : pc[r] = "append" => Claiming(r) /\ pc[r] # "label"
  BY DEF Claiming
<1> QED BY <1>1, <1>2 DEF LabelInv, ListInv, Claims

LEMMA ReadyStep ==
  ASSUME LabelInv, StemsTellApart, [Next]_vars
  PROVE  LabelsReady'
<1>1. FieldsOK
  BY DEF LabelInv, ListInv, TypeInv, TypeOK
<1> SUFFICES ASSUME NEW q \in Runs, pc'[q] = "append"
             PROVE  Labelled(q, dest[q], Current(q))'
  BY DEF LabelsReady
<1>2. aList'[q] = aList[q] /\ db'[q] = db[q]
  BY SettledRun
<1>3. CASE ExpressImageAnnotations(q)
  <2>1. /\ disk' = Put(disk, LabelOf(dest[q]),
                       LabelFile(Labels(aList[q], Current(q))))
        /\ UNCHANGED <<at, dest>>
    BY <1>1, <1>3 DEF ExpressImageAnnotations, NextRecord, Goto, FieldsOK
  <2>2. /\ LabelOf(dest[q]) \in Files'
        /\ disk'[LabelOf(dest[q])] = LabelFile(Labels(aList[q], Current(q)))
    BY <2>1 DEF Put, Files
  <2> QED BY <1>2, <2>1, <2>2 DEF Labelled, Current
<1>4. CASE ~ExpressImageAnnotations(q)
  <2>1. /\ pc[q] = "append" /\ dest'[q] = dest[q] /\ at'[q] = at[q]
    <3>1. ASSUME NEW r \in Runs, Begin(r) \/ Step(r) \/ Crash(r), r # q
          PROVE  pc'[q] = pc[q] /\ dest'[q] = dest[q] /\ at'[q] = at[q]
      BY <1>1, <3>1
      DEF Step, Begin, Crash, ExpressObjNames, ExpressObjData, OpenLists, SkipRecord,
          ChooseName, CopyImage, ExpressImageAnnotations, AppendToLists, CloseLists,
          ExpressYoloCfg, NextRecord, Goto, FieldsOK
    <3>2. ~(Begin(q) \/ Step(q) \/ Crash(q))
      BY <1>1, <1>4
      DEF Step, Begin, Crash, ExpressObjNames, ExpressObjData, OpenLists, SkipRecord,
          ChooseName, CopyImage, AppendToLists, CloseLists, ExpressYoloCfg,
          NextRecord, Goto, FieldsOK
    <3> QED BY <3>1, <3>2 DEF Next, Finished, vars
  <2>2. Labelled(q, dest[q], Current(q)) /\ dest[q] \in CopyNames
    BY <2>1 DEF LabelInv, LabelsReady, CopiesNamed, Working
  <2>3. /\ LabelOf(dest[q]) \in Files'
        /\ disk'[LabelOf(dest[q])] = disk[LabelOf(dest[q])]
    BY <2>1, <2>2, LabelStays, NobodyLabels DEF Labelled
  <2> QED BY <1>2, <2>1, <2>2, <2>3 DEF Labelled, Current
<1> QED BY <1>3, <1>4

\* What a step lists.
LEMMA LinesStep ==
  ASSUME ListInv, [Next]_vars, NEW q \in Runs
  PROVE  \/ Lines(q)' = Lines(q)
         \/ pc[q] = "append" /\ Lines(q)' = Lines(q) \cup {dest[q]}
<1>1. FieldsOK
  BY DEF ListInv, TypeInv, TypeOK
<1>2. ASSUME NEW r \in Runs, AppendToLists(r)
      PROVE  \/ Lines(q)' = Lines(q)
             \/ pc[q] = "append" /\ Lines(q)' = Lines(q) \cup {dest[q]}
  <2>1. /\ pc[r] = "append" /\ trainf'[r] = Append(trainf[r], dest[r])
        /\ q # r => trainf'[q] = trainf[q]
    BY <1>1, <1>2 DEF AppendToLists, FieldsOK
  <2>2. /\ DOMAIN trainf'[r] = DOMAIN trainf[r] \cup {Len(trainf[r]) + 1}
        /\ trainf'[r][Len(trainf[r]) + 1] = dest[r]
        /\ \A i \in DOMAIN trainf[r] : trainf'[r][i] = trainf[r][i]
    BY <1>1, <2>1, AppendLines DEF FieldsOK
  <2> QED BY <2>1, <2>2 DEF Lines
<1>3. UNCHANGED trainf \/ \E r \in Runs : AppendToLists(r)
  BY DEF Next, Step, Finished, vars, Begin, ExpressObjNames, ExpressObjData,
         OpenLists, SkipRecord, ChooseName, CopyImage, ExpressImageAnnotations,
         CloseLists, ExpressYoloCfg, Crash
<1> QED BY <1>2, <1>3 DEF Lines

LEMMA NamedStep ==
  ASSUME ListInv, CopiesNamed, [Next]_vars
  PROVE  CopiesNamed'
<1>1. FieldsOK
  BY DEF ListInv, TypeInv, TypeOK
<1> SUFFICES ASSUME NEW q \in Runs
             PROVE  /\ Working(q)' => dest'[q] \in CopyNames
                    /\ Lines(q)' \subseteq CopyNames
  BY DEF CopiesNamed
<1>2. Lines(q)' \subseteq CopyNames
  BY LinesStep DEF CopiesNamed, Working
<1>3. CASE ChooseName(q)
  <2>1. Current(q).img \in Images
    BY <1>1, <1>3, RecordType DEF ChooseName, HasRecord, Current
  <2>2. CASE UNCHANGED dest /\ NextRecord(q)
    <3>1. pc'[q] = "record"
      BY <1>1, <2>2 DEF NextRecord, Goto, FieldsOK
    <3> QED BY <1>2, <3>1 DEF Working
  <2>3. ASSUME NEW k \in 0..Cardinality(Files),
               dest' = [dest EXCEPT ![q] = Candidate(SourceName[Current(q).img], k)]
        PROVE  dest'[q] \in CopyNames
    BY <1>1, <2>1, <2>3 DEF CopyNames, FieldsOK
  <2> QED BY <1>2, <1>3, <2>2, <2>3 DEF ChooseName
<1>4. CASE ~ChooseName(q)
  <2>1. dest'[q] = dest[q]
    BY <1>1, <1>4
    DEF Next, Step, Finished, vars, Begin, Crash, ExpressObjNames, ExpressObjData,
        OpenLists, SkipRecord, ChooseName, CopyImage, ExpressImageAnnotations,
        AppendToLists, CloseLists, ExpressYoloCfg, FieldsOK
  <2>2. Working(q)' => Working(q)
    BY <1>1, <1>4
    DEF Next, Step, Finished, vars, Begin, Crash, ExpressObjNames, ExpressObjData,
        OpenLists, SkipRecord, ChooseName, CopyImage, ExpressImageAnnotations,
        AppendToLists, CloseLists, ExpressYoloCfg, NextRecord, Goto, Working, FieldsOK
  <2> QED BY <1>2, <2>1, <2>2 DEF CopiesNamed
<1> QED BY <1>3, <1>4

LEMMA ListedLabelsStep ==
  ASSUME LabelInv, StemsTellApart, [Next]_vars
  PROVE  LabelsOfListedImages'
<1> SUFFICES ASSUME NEW q \in Runs, NEW n \in Lines(q)'
             PROVE  \E i \in DOMAIN db'[q] : db'[q][i].img = disk'[n].of
                                             /\ Labelled(q, n, db[q][i])'
  BY DEF LabelsOfListedImages, Labelled
<1>1. n \in CopyNames
  BY NamedStep DEF LabelInv, CopiesNamed
<1>2. PICK i \in DOMAIN db[q] : n \in ImageFiles /\ db[q][i].img = disk[n].of
                                /\ Labelled(q, n, db[q][i])
  <2>1. CASE n \in Lines(q)
    BY <2>1 DEF LabelInv, ListInv, ListedImagesComplete, IsImage, ImageFiles,
                LabelsOfListedImages, Labelled
  <2>2. CASE pc[q] = "append" /\ n = dest[q]
    <3>1. at[q] \in DOMAIN db[q]
      BY <2>2 DEF LabelInv, ListInv, TypeInv, AtImage, Working, HasRecord
    <3>2. n \in ImageFiles /\ disk[n] = ImageFile(Current(q).img, TRUE)
      BY <2>2 DEF LabelInv, ListInv, Claims, Claiming
    <3>3. Labelled(q, n, Current(q))
      BY <2>2 DEF LabelInv, LabelsReady
    <3> QED BY <3>1, <3>2, <3>3 DEF Current, ImageFile
  <2> QED BY <2>1, <2>2, LinesStep DEF LabelInv
<1>3. aList'[q] = aList[q] /\ db'[q] = db[q]
  <2>1. CASE n \in Lines(q)
    <3>1. trainf[q] # << >>
      BY <2>1 DEF Lines
    <3> QED BY <3>1, SettledRun
  <2>2. CASE pc[q] = "append"
    BY <2>2, SettledRun
  <2> QED BY <2>1, <2>2, LinesStep DEF LabelInv
<1>4. disk'[n] = disk[n]
  BY <1>2, ImagesStay DEF LabelInv, ListInv
<1>5. \A r \in Runs : pc[r] = "label" => dest[r] # n
  BY LinesStep, NobodyLabels DEF LabelInv
<1>6. LabelOf(n) \in Files' /\ disk'[LabelOf(n)] = disk[LabelOf(n)]
  BY <1>1, <1>2, <1>5, LabelStays DEF Labelled
<1> QED BY <1>2, <1>3, <1>4, <1>6 DEF Labelled

\* Where stems tell the images apart, the label file of a listed image holds
\* the rectangles of that very image, by the classes of the run that lists it,
\* whatever other exports write into the directory and wherever one dies.
THEOREM LabelsAreOfTheirImages ==
  ASSUME StemsTellApart
  PROVE  Spec => []LabelsOfListedImages
<1>1. LabelInv /\ [Next]_vars => LabelInv'
  BY ListStep, ReadyStep, NamedStep, ListedLabelsStep DEF LabelInv
<1>2. LabelInv => LabelsOfListedImages
  BY DEF LabelInv
<1> QED BY <1>1, <1>2, LabelInit, PTL DEF Spec
-----------------------------------------------------------------------------
(***************************************************************************)
(* The exporter implements the store of copies, the abstract specification *)
(* of what every exporter promises: each file operation of any number of   *)
(* exports is a step of the store or changes nothing of it.                *)
(***************************************************************************)

RunningPCs == PCs \ {"idle", "done", "failed", "crashed"}

\* The directory as the store's variables.
Phases == [r \in Runs |-> StorePhase(pc[r])]
Copies == [n \in ImageFiles |-> [of |-> disk[n].of, whole |-> disk[n].whole]]

\* What a run has counted is what it has listed.
Counted ==
  \A r \in Runs : pc[r] \in {"record", "copy", "label", "append", "cfg"} =>
    exportedImages[r] = Len(trainf[r])

StoreInv == ListInv /\ Counted

LEMMA Fields == ListInv => FieldsOK
BY DEF ListInv, TypeInv, TypeOK

\* Every step of a run moves its own program counter only.
LEMMA CountedStep ==
  ASSUME StoreInv, [Next]_vars
  PROVE  Counted'
<1>1. FieldsOK
  BY Fields DEF StoreInv
<1>2. CASE UNCHANGED vars
  BY <1>2 DEF vars, StoreInv, Counted
<1>3. ASSUME NEW r \in Runs, OpenLists(r) PROVE Counted'
  <2>1. trainf[r] = << >> /\ UNCHANGED trainf
    BY <1>3 DEF StoreInv, ListInv, Unlisted, OpenLists
  <2>2. \/ exportedImages'[r] = 0
        \/ pc'[r] = "failed"
    BY <1>1, <1>3 DEF OpenLists, Goto, FieldsOK
  <2>3. \A q \in Runs \ {r} : pc'[q] = pc[q] /\ exportedImages'[q] = exportedImages[q]
    BY <1>1, <1>3 DEF OpenLists, Goto, FieldsOK
  <2> QED BY <2>1, <2>2, <2>3 DEF StoreInv, Counted
<1>4. ASSUME NEW r \in Runs, AppendToLists(r) PROVE Counted'
  <2>1. /\ exportedImages'[r] = exportedImages[r] + 1
        /\ trainf'[r] = Append(trainf[r], dest[r])
        /\ exportedImages[r] = Len(trainf[r])
    BY <1>1, <1>4 DEF AppendToLists, FieldsOK, StoreInv, Counted
  <2>2. Len(trainf'[r]) = Len(trainf[r]) + 1
    BY <1>1, <2>1 DEF FieldsOK
  <2>3. \A q \in Runs \ {r} : /\ pc'[q] = pc[q] /\ trainf'[q] = trainf[q]
                              /\ exportedImages'[q] = exportedImages[q]
    BY <1>1, <1>4 DEF AppendToLists, NextRecord, Goto, FieldsOK
  <2> QED BY <2>1, <2>2, <2>3 DEF StoreInv, Counted
<1>5. ASSUME NEW r \in Runs,
             pc[r] \in {"record", "copy", "label", "append", "cfg"} \/
               pc'[r] \notin {"record", "copy", "label", "append", "cfg"},
             \A q \in Runs \ {r} : pc'[q] = pc[q],
             UNCHANGED <<trainf, exportedImages>>
      PROVE  Counted'
  BY <1>5 DEF StoreInv, Counted
<1>6. ASSUME NEW r \in Runs, Begin(r) \/ ExpressObjNames(r) \/ ExpressObjData(r)
                               \/ Crash(r)
      PROVE  Counted'
  <2>1. /\ pc'[r] \notin {"record", "copy", "label", "append", "cfg"}
        /\ \A q \in Runs \ {r} : pc'[q] = pc[q]
    BY <1>1, <1>6
    DEF Begin, ExpressObjNames, ExpressObjData, Crash, Goto, FieldsOK
  <2>2. UNCHANGED <<trainf, exportedImages>>
    BY <1>6 DEF Begin, ExpressObjNames, ExpressObjData, Crash
  <2> QED BY <1>5, <2>1, <2>2
<1>7. ASSUME NEW r \in Runs,
             \/ SkipRecord(r) \/ ChooseName(r) \/ CopyImage(r)
             \/ ExpressImageAnnotations(r) \/ CloseLists(r) \/ ExpressYoloCfg(r)
      PROVE  Counted'
  <2>1. /\ pc[r] \in {"record", "copy", "label", "append", "cfg"}
        /\ UNCHANGED <<trainf, exportedImages>>
    BY <1>7 DEF SkipRecord, ChooseName, CopyImage, ExpressImageAnnotations, CloseLists,
                ExpressYoloCfg
  <2>2. PICK x : pc' = [pc EXCEPT ![r] = x]
    BY <1>7 DEF SkipRecord, ChooseName, CopyImage, ExpressImageAnnotations, CloseLists,
                ExpressYoloCfg, NextRecord, Goto
  <2>3. \A q \in Runs \ {r} : pc'[q] = pc[q]
    BY <1>1, <2>2 DEF FieldsOK
  <2> QED BY <1>5, <2>1, <2>3
<1> QED
  BY <1>2, <1>3, <1>4, <1>6, <1>7 DEF Next, Step, Finished

LEMMA StoreInit == Init => StoreInv
BY ListInit DEF StoreInv, Counted, Init

-----------------------------------------------------------------------------
(* What a step is to the store *)

LEMMA SameCopies == SameImages => Copies' = Copies
BY DEF SameImages, Copies

\* The run goes on, ends in a failure or its process dies, and no image, list
\* or descriptor changes: the store stutters or the export stops.
LEMMA GoingOn ==
  ASSUME FieldsOK, NEW r \in Runs, pc[r] \in RunningPCs,
         NEW x \in RunningPCs \cup {"failed", "crashed"},
         pc' = [pc EXCEPT ![r] = x], SameImages, UNCHANGED <<trainf, cfg>>
  PROVE  [Store!Next]_(Store!vars)
<1>1. Copies' = Copies
  BY SameCopies
<1>2. StorePhase(pc[r]) = "running"
  BY DEF StorePhase, RunningPCs, PCs
<1>3. CASE x \in RunningPCs
  <2>1. StorePhase(x) = "running"
    BY <1>3 DEF StorePhase, RunningPCs, PCs
  <2>2. Phases' = Phases
    BY <1>2, <2>1 DEF Phases, FieldsOK
  <2> QED BY <1>1, <2>2 DEF Store!vars, Phases, Copies
<1>4. CASE x \in {"failed", "crashed"}
  <2>1. StorePhase(x) = "stopped"
    BY <1>4 DEF StorePhase
  <2>2. Phases' = [Phases EXCEPT ![r] = "stopped"] /\ Phases[r] = "running"
    BY <1>2, <2>1 DEF Phases, FieldsOK
  <2>3. Store!Stop(r)
    BY <1>1, <2>2 DEF Store!Stop, Phases, Copies
  <2> QED BY <2>3 DEF Store!Next
<1> QED BY <1>3, <1>4

\* An export begins, or its directories cannot be made.
LEMMA BeginStarts ==
  ASSUME FieldsOK, NEW r \in Runs, Begin(r)
  PROVE  Store!Start(r)
<1>1. PICK x \in {"names", "failed"} : pc' = [pc EXCEPT ![r] = x]
  BY DEF Begin, Goto
<1>2. pc[r] = "idle" /\ UNCHANGED <<trainf, disk, cfg>>
  BY DEF Begin
<1>3. StorePhase(x) \in {"running", "stopped"} /\ StorePhase(pc[r]) = "idle"
  BY <1>2 DEF StorePhase
<1>4. Phases' = [Phases EXCEPT ![r] = StorePhase(x)] /\ Phases[r] = "idle"
  BY <1>1, <1>3 DEF Phases, FieldsOK
<1>5. Copies' = Copies
  BY <1>2, SameCopies, UnchangedDisk
<1> QED BY <1>2, <1>3, <1>4, <1>5 DEF Store!Start, Phases, Copies

\* A copy, whole or not, is added under a name no image has.
LEMMA CopyAdds ==
  ASSUME ListInv, NEW r \in Runs, CopyImage(r), NEW w \in BOOLEAN, NewImage(r, w),
         NEW x \in {"record", "label"}, pc' = [pc EXCEPT ![r] = x]
  PROVE  Store!Add(r)
<1>1. pc[r] = "copy" /\ UNCHANGED <<trainf, cfg>> /\ FieldsOK
  BY Fields DEF CopyImage
<1>2. StorePhase(pc[r]) = "running" /\ StorePhase(x) = "running"
  BY <1>1 DEF StorePhase
<1>3. Phases' = Phases /\ Phases[r] = "running"
  BY <1>1, <1>2 DEF Phases, FieldsOK
<1>4. Current(r).img \in Images
  BY <1>1, RecordType DEF ListInv, TypeInv, AtImage, Working, HasRecord, Current
<1>5. /\ dest[r] \notin ImageFiles /\ ImageFiles' = ImageFiles \cup {dest[r]}
      /\ disk'[dest[r]].of = Current(r).img /\ disk'[dest[r]].whole = w
      /\ \A n \in ImageFiles : disk'[n] = disk[n]
  BY DEF NewImage, ImageFiles, ImageFile
<1>6. /\ DOMAIN Copies = ImageFiles /\ DOMAIN Copies' = ImageFiles \cup {dest[r]}
      /\ Copies'[dest[r]] = [of |-> Current(r).img, whole |-> w]
      /\ \A n \in ImageFiles : Copies'[n] = Copies[n]
  BY <1>5 DEF Copies
<1>7. dest[r] \in DOMAIN Copies' \ DOMAIN Copies
  BY <1>5, <1>6
<1>8. Copies'[dest[r]] \in Store!Copy
  BY <1>4, <1>6 DEF Store!Copy
<1>9. Copies' = [m \in DOMAIN Copies \cup {dest[r]} |->
                   IF m = dest[r] THEN Copies'[dest[r]] ELSE Copies[m]]
  BY <1>5, <1>6 DEF Copies
<1> QED BY <1>1, <1>3, <1>7, <1>8, <1>9 DEF Store!Add, Phases, Copies

\* A complete copy that nobody has listed is listed.
LEMMA AppendKeeps ==
  ASSUME ListInv, NEW r \in Runs, AppendToLists(r)
  PROVE  Store!Keep(r)
<1>1. /\ pc[r] = "append" /\ pc' = [pc EXCEPT ![r] = "record"]
      /\ trainf' = [trainf EXCEPT ![r] = Append(@, dest[r])]
      /\ UNCHANGED cfg /\ FieldsOK
  BY Fields DEF AppendToLists, NextRecord, Goto
<1>2. StorePhase(pc[r]) = "running" /\ StorePhase("record") = "running"
  BY <1>1 DEF StorePhase
<1>3. Phases' = Phases /\ Phases[r] = "running"
  BY <1>1, <1>2 DEF Phases, FieldsOK
<1>4. Copies' = Copies
  BY SameCopies, ImagesOfAppend DEF ListInv
<1>5. /\ dest[r] \in ImageFiles /\ disk[dest[r]] = ImageFile(Current(r).img, TRUE)
      /\ \A s \in Runs : dest[r] \notin Lines(s)
  BY <1>1 DEF ListInv, Claims, Claiming
<1>6. dest[r] \in DOMAIN Copies /\ Copies[dest[r]].whole
  BY <1>5 DEF Copies, ImageFile
<1>7. dest[r] \notin Store!AllKept
  BY <1>5 DEF Store!AllKept, Lines
<1> QED BY <1>1, <1>3, <1>4, <1>6, <1>7 DEF Store!Keep, Phases, Copies

\* The descriptor is written for as many images as the run has listed.
LEMMA CfgPublishes ==
  ASSUME StoreInv, NEW r \in Runs, ExpressYoloCfg(r), pc' = [pc EXCEPT ![r] = "done"],
         cfg' = [classes |-> Cardinality(aList[r]), images |-> exportedImages[r],
                 made |-> TRUE]
  PROVE  Store!Publish(r)
<1>1. pc[r] = "cfg" /\ UNCHANGED <<trainf, disk>> /\ FieldsOK
  BY Fields DEF ExpressYoloCfg, StoreInv
<1>2. StorePhase(pc[r]) = "running" /\ StorePhase("done") = "done"
  BY <1>1 DEF StorePhase
<1>3. Phases' = [Phases EXCEPT ![r] = "done"] /\ Phases[r] = "running"
  BY <1>1, <1>2 DEF Phases, FieldsOK
<1>4. Copies' = Copies
  BY <1>1, SameCopies, UnchangedDisk
<1>5. cfg'.images = Len(trainf[r])
  BY <1>1 DEF StoreInv, Counted
<1> QED BY <1>1, <1>3, <1>4, <1>5 DEF Store!Publish, Phases, Copies

-----------------------------------------------------------------------------
(* The refinement *)

LEMMA InitImplements == Init => Store!Init
<1> SUFFICES ASSUME Init PROVE Store!Init
  OBVIOUS
<1>1. /\ \A r \in Runs : StorePhase(pc[r]) = "idle"
      /\ trainf = [r \in Runs |-> << >>] /\ cfg.images = 0
  BY DEF Init, StorePhase, NoCfg
<1>2. ImageFiles = {}
  BY DEF Init, ImageFiles, Files
<1>3. Copies = << >>
  BY <1>2 DEF Copies
<1> QED BY <1>1, <1>3 DEF Store!Init, Copies

LEMMA StepImplements ==
  ASSUME StoreInv, [Next]_vars
  PROVE  [Store!Next]_(Store!vars)
<1>1. ListInv /\ FieldsOK /\ TypeInv /\ ImageNames
  BY Fields DEF StoreInv, ListInv
<1>2. CASE UNCHANGED vars
  <2>1. Phases' = Phases /\ Copies' = Copies
    BY <1>2, SameCopies, UnchangedDisk DEF vars, Phases
  <2> QED BY <1>2, <2>1 DEF vars, Store!vars, Phases, Copies
<1>3. ASSUME NEW r \in Runs, Begin(r) PROVE [Store!Next]_(Store!vars)
  BY <1>1, <1>3, BeginStarts DEF Store!Next
<1>4. ASSUME NEW r \in Runs, AppendToLists(r) PROVE [Store!Next]_(Store!vars)
  BY <1>1, <1>4, AppendKeeps DEF Store!Next
<1>5. ASSUME NEW r \in Runs, ExpressYoloCfg(r) PROVE [Store!Next]_(Store!vars)
  <2>1. CASE UNCHANGED cfg /\ Goto(r, "failed")
    <3>1. pc[r] \in RunningPCs /\ UNCHANGED <<trainf, disk>>
      BY <1>5 DEF ExpressYoloCfg, RunningPCs, PCs
    <3> QED BY <1>1, <2>1, <3>1, GoingOn, UnchangedDisk DEF Goto
  <2>2. CASE ~(UNCHANGED cfg /\ Goto(r, "failed"))
    BY <1>5, <2>2, CfgPublishes DEF ExpressYoloCfg, Goto, Store!Next
  <2> QED BY <2>1, <2>2
<1>6. ASSUME NEW r \in Runs, CopyImage(r) PROVE [Store!Next]_(Store!vars)
  <2>1. pc[r] = "copy" /\ UNCHANGED <<trainf, cfg>>
    BY <1>6 DEF CopyImage
  <2>2. PICK x \in {"record", "label"} : pc' = [pc EXCEPT ![r] = x]
    BY <1>6 DEF CopyImage, NextRecord, Goto
  <2>3. CASE SameImages
    <3>1. pc[r] \in RunningPCs /\ x \in RunningPCs
      BY <2>1 DEF RunningPCs, PCs
    <3> QED BY <1>1, <2>1, <2>2, <2>3, <3>1, GoingOn
  <2>4. ASSUME NEW w \in BOOLEAN, NewImage(r, w) PROVE Store!Add(r)
    BY <1>1, <1>6, <2>2, <2>4, CopyAdds
  <2> QED BY <1>1, <1>6, <2>3, <2>4, ImagesOfCopy DEF Store!Next
<1>7. ASSUME NEW r \in Runs, Crash(r) PROVE [Store!Next]_(Store!vars)
  <2>1. pc[r] \in RunningPCs
    BY <1>1, <1>7 DEF Crash, Ended, RunningPCs, FieldsOK
  <2> QED BY <1>1, <1>7, <2>1, GoingOn, UnchangedDisk DEF Crash, Goto
<1>8. ASSUME NEW r \in Runs,
             \/ ExpressObjNames(r) \/ ExpressObjData(r) \/ OpenLists(r)
             \/ SkipRecord(r) \/ ChooseName(r) \/ ExpressImageAnnotations(r)
             \/ CloseLists(r)
      PROVE  [Store!Next]_(Store!vars)
  <2>1. pc[r] \in RunningPCs /\ UNCHANGED <<trainf, cfg>>
    BY <1>8 DEF ExpressObjNames, ExpressObjData, OpenLists, SkipRecord, ChooseName,
                ExpressImageAnnotations, CloseLists, RunningPCs, PCs
  <2>2. PICK x \in {"data", "lists", "record", "copy", "append", "cfg", "failed"} :
          pc' = [pc EXCEPT ![r] = x]
    BY <1>8 DEF ExpressObjNames, ExpressObjData, OpenLists, SkipRecord, ChooseName,
                ExpressImageAnnotations, CloseLists, NextRecord, Goto
  <2>3. x \in RunningPCs \cup {"failed", "crashed"}
    BY DEF RunningPCs, PCs
  <2>4. SameImages
    <3>1. \/ SameImages
          \/ \E q \in Runs, w \in BOOLEAN : pc[q] = "copy" /\ CopyImage(q)
      BY <1>1, ImagesOfStep
    <3>2. ASSUME NEW q \in Runs, CopyImage(q) PROVE FALSE
      <4>1. pc[q] = "copy" /\ pc[r] # "copy"
        BY <1>8, <3>2
        DEF CopyImage, ExpressObjNames, ExpressObjData, OpenLists, SkipRecord,
            ChooseName, ExpressImageAnnotations, CloseLists
      <4>2. PICK y \in {"record", "label"} : pc' = [pc EXCEPT ![q] = y]
        BY <3>2 DEF CopyImage, NextRecord, Goto
      <4>3. pc'[r] = pc[r] /\ pc'[r] = x
        BY <1>1, <2>2, <4>1, <4>2 DEF FieldsOK
      <4>4. pc'[q] = pc[q] /\ pc'[q] = y
        BY <1>1, <2>2, <4>1, <4>2 DEF FieldsOK
      <4> QED BY <4>1, <4>4
    <3> QED BY <3>1, <3>2
  <2> QED BY <1>1, <2>1, <2>2, <2>3, <2>4, GoingOn
<1> QED
  BY <1>2, <1>3, <1>4, <1>5, <1>6, <1>7, <1>8 DEF Next, Step, Finished

\* The exporter implements the store, for any number of exports in sequence or
\* at once, any databases and images, and whatever fails or dies: the copies
\* only grow, each is listed at most once and only when complete, and the count
\* published is the count listed.
THEOREM ExporterIsStore == Spec => ImplementsStore
<1>1. StoreInv /\ [Next]_vars => StoreInv'
  BY ListStep, CountedStep DEF StoreInv
<1>2. StoreInv /\ [Next]_vars => [Store!Next]_(Store!vars)
  BY StepImplements
<1>3. Spec => Store!Spec
  BY StoreInit, <1>1, <1>2, InitImplements, PTL DEF Spec, Store!Spec
<1> QED BY <1>3 DEF ImplementsStore

-----------------------------------------------------------------------------
(***************************************************************************)
(* Exports that follow one another: what a successful one has published.   *)
(***************************************************************************)

\* Without Concurrent a run begins when those before it have ended.
InTurn == \A r \in Runs : pc[r] # "idle" => \A q \in 1..(r - 1) : Ended(q)

\* What the run the directory belongs to has left in it so far.
Stage(r) ==
  /\ pc[r] \in {"data", "lists", "record", "copy", "label", "append", "cfg", "done"} =>
       ObjNames \in Files /\ disk[ObjNames] = NamesFile(aList[r])
  /\ pc[r] \in {"lists", "record", "copy", "label", "append", "cfg", "done"} =>
       ObjData \in Files /\ disk[ObjData] = DataFile(Cardinality(aList[r]))
  /\ pc[r] \in {"record", "copy", "label", "append", "cfg", "done"} =>
       /\ TrainTxt \in Files /\ disk[TrainTxt] = ListFile(r, trainf[r])
       /\ ValTxt \in Files /\ disk[ValTxt] = ListFile(r, trainf[r])
  /\ pc[r] = "done" =>
       /\ cfg = [classes |-> Cardinality(aList[r]), images |-> exportedImages[r],
                 made |-> TRUE]
       /\ exportedImages[r] = Len(trainf[r])

TurnInv ==
  /\ StoreInv /\ CopiesNamed /\ InTurn
  /\ \A r \in Runs : IsLast(r) => Stage(r)

LEMMA StepsOfRun ==
  ASSUME FieldsOK, NEW r \in Runs, Begin(r) \/ Step(r) \/ Crash(r)
  PROVE  /\ ~Ended(r) /\ pc'[r] # "idle"
         /\ pc[r] = "idle" => Begin(r)
         /\ \A s \in Runs \ {r} : pc'[s] = pc[s]
<1>1. PICK l \in PCs \ {"idle"} : pc' = [pc EXCEPT ![r] = l]
  BY DEF Begin, Step, Crash, ExpressObjNames, ExpressObjData, OpenLists, SkipRecord,
     ChooseName, CopyImage, ExpressImageAnnotations, AppendToLists, CloseLists,
     ExpressYoloCfg, NextRecord, Goto, PCs
<1>2. /\ ~Ended(r)
      /\ pc[r] = "idle" => Begin(r)
  BY DEF Begin, Step, Crash, ExpressObjNames, ExpressObjData, OpenLists, SkipRecord,
     ChooseName, CopyImage, ExpressImageAnnotations, AppendToLists, CloseLists,
     ExpressYoloCfg, Ended
<1> QED BY <1>1, <1>2 DEF FieldsOK

\* The run that moves is the only one at work: those before it have ended and
\* those after it have not begun.
LEMMA MoverAlone ==
  ASSUME FieldsOK, InTurn, ~Concurrent, NEW r \in Runs, NEW s \in Runs \ {r},
         Begin(r) \/ Step(r) \/ Crash(r)
  PROVE  (s < r /\ Ended(s)) \/ (s > r /\ pc[s] = "idle")
<1>1. s < r \/ s > r
  BY RunsAssumption DEF Runs
<1>2. s < r => s \in 1..(r - 1)
  BY RunsAssumption DEF Runs
<1>3. s > r => r \in 1..(s - 1)
  BY RunsAssumption DEF Runs
<1>4. CASE s < r
  <2>1. CASE pc[r] = "idle"
    <3>1. Begin(r)
      BY <2>1, StepsOfRun
    <3> QED BY <1>2, <1>4, <3>1 DEF Begin
  <2>2. CASE pc[r] # "idle"
    BY <1>2, <1>4, <2>2 DEF InTurn
  <2> QED BY <2>1, <2>2
<1>5. CASE s > r
  BY <1>3, <1>5, StepsOfRun DEF InTurn
<1> QED BY <1>1, <1>4, <1>5

\* The directory belongs to the run that moves.
LEMMA MoverIsLast ==
  ASSUME FieldsOK, InTurn, ~Concurrent, NEW r \in Runs,
         Begin(r) \/ Step(r) \/ Crash(r), NEW s \in Runs, IsLast(s)'
  PROVE  /\ s = r
         /\ pc[r] # "idle" => IsLast(r)
<1>1. pc'[s] # "idle" /\ (s = NRuns \/ pc'[s + 1] = "idle")
  BY DEF IsLast, HasBegun
<1>2. s # NRuns => s < NRuns /\ s + 1 \in Runs
  BY RunsAssumption DEF Runs
<1>3. s = r
  <2> SUFFICES ASSUME s # r PROVE FALSE
    OBVIOUS
  <2>1. s < r /\ Ended(s)
    BY <1>1, MoverAlone, StepsOfRun
  <2>2. s # NRuns
    BY <2>1, RunsAssumption DEF Runs
  <2>3. pc'[s + 1] = "idle" /\ s + 1 # r
    BY <1>1, <2>2, StepsOfRun
  <2>4. pc[s + 1] = "idle"
    BY <1>2, <2>2, <2>3, StepsOfRun
  <2>5. ~(s + 1 > r)
    BY <2>1, RunsAssumption DEF Runs
  <2>6. Ended(s + 1)
    BY <1>2, <2>2, <2>3, <2>5, MoverAlone
  <2> QED BY <2>4, <2>6 DEF Ended
<1>4. s # NRuns => s + 1 # r /\ pc[s + 1] = "idle"
  <2> SUFFICES ASSUME s # NRuns PROVE s + 1 # r /\ pc[s + 1] = "idle"
    OBVIOUS
  <2>1. s + 1 # r
    BY <1>1, StepsOfRun
  <2> QED BY <1>1, <1>2, <2>1, StepsOfRun
<1> QED BY <1>3, <1>4 DEF IsLast, HasBegun

LEMMA InTurnStep ==
  ASSUME FieldsOK, InTurn, ~Concurrent, [Next]_vars
  PROVE  InTurn'
<1>1. CASE UNCHANGED pc
  BY <1>1 DEF InTurn, Ended
<1>2. ASSUME NEW r \in Runs, Begin(r) \/ Step(r) \/ Crash(r) PROVE InTurn'
  <2> SUFFICES ASSUME NEW s \in Runs, pc'[s] # "idle", NEW q \in 1..(s - 1)
               PROVE  Ended(q)'
    BY DEF InTurn
  <2>1. q \in Runs /\ q < s
    BY RunsAssumption DEF Runs
  <2>2. CASE s = r
    <3>1. Ended(q)
      BY <1>2, <2>1, <2>2, MoverAlone, RunsAssumption DEF Runs
    <3> QED BY <1>2, <2>1, <2>2, <3>1, StepsOfRun, RunsAssumption DEF Ended, Runs
  <2>3. CASE s # r
    <3>1. pc[s] # "idle"
      BY <1>2, <2>3, StepsOfRun
    <3>2. Ended(q)
      BY <3>1 DEF InTurn
    <3> QED BY <1>2, <2>1, <3>2, StepsOfRun DEF Ended
  <2> QED BY <2>2, <2>3
<1> QED BY <1>1, <1>2 DEF Next, Finished, vars

\* The files a descriptor, a list or the names are in are four.
LEMMA FourNames ==
  /\ ObjNames \notin {ObjData, TrainTxt, ValTxt}
  /\ ObjData \notin {TrainTxt, ValTxt}
  /\ TrainTxt # ValTxt
BY DEF ObjNames, ObjData, TrainTxt, ValTxt, Own

\* While the run goes through its records the four stay, but for what it lists.
LEMMA StageKept ==
  ASSUME ListInv, CopiesNamed, ListStemsFree, NEW r \in Runs,
         SkipRecord(r) \/ ChooseName(r) \/ CopyImage(r) \/ ExpressImageAnnotations(r)
           \/ CloseLists(r),
         NEW n \in {ObjNames, ObjData, TrainTxt, ValTxt}, n \in Files
  PROVE  n \in Files' /\ disk'[n] = disk[n]
<1>1. CASE UNCHANGED disk
  BY <1>1 DEF Files
<1>2. CASE CopyImage(r)
  BY <1>1, <1>2 DEF CopyImage, Put, Files
<1>3. CASE ExpressImageAnnotations(r)
  <2>1. dest[r] \in CopyNames /\ dest[r] \in Filename
    BY <1>3 DEF ExpressImageAnnotations, CopiesNamed, Working, ListInv, TypeInv, TypeOK,
       FieldsOK
  <2>2. LabelOf(dest[r]) \notin {TrainTxt, ValTxt} /\ LabelOf(dest[r]).ext = "txt"
    BY <2>1 DEF ListStemsFree, LabelOf, Filename
  <2>3. LabelOf(dest[r]) # n
    BY <2>2 DEF ObjNames, ObjData, Own
  <2> QED BY <1>1, <1>3, <2>3 DEF ExpressImageAnnotations, Put, Files
<1> QED BY <1>1, <1>2, <1>3 DEF SkipRecord, ChooseName, CloseLists

\* What is appended to both lists.
LEMMA AppendedLists ==
  ASSUME NEW r \in Runs, NEW ls, NEW line,
         TrainTxt \in Files, disk[TrainTxt] = ListFile(r, ls),
         ValTxt \in Files, disk[ValTxt] = ListFile(r, ls),
         disk' = Appended(Appended(disk, r, TrainTxt, line), r, ValTxt, line)
  PROVE  /\ Files' = Files
         /\ disk'[TrainTxt] = ListFile(r, Append(ls, line))
         /\ disk'[ValTxt] = ListFile(r, Append(ls, line))
         /\ \A n \in Files \ {TrainTxt, ValTxt} : disk'[n] = disk[n]
<1> DEFINE new == ListFile(r, Append(ls, line))
           mid == Put(disk, TrainTxt, new)
<1>1. ListFile(r, ls).kind = "list" /\ ListFile(r, ls).by = r /\ ListFile(r, ls).lines = ls
  BY DEF ListFile
<1>2. Appended(disk, r, TrainTxt, line) = mid
  BY <1>1 DEF Appended, Files
<1>3. /\ DOMAIN mid = Files /\ mid[TrainTxt] = new
      /\ \A n \in Files \ {TrainTxt} : mid[n] = disk[n]
  BY DEF Put, Files
<1>4. mid[ValTxt] = ListFile(r, ls)
  BY <1>3, FourNames
<1> HIDE DEF mid, new
<1>5. disk' = Put(mid, ValTxt, new)
  BY <1>1, <1>2, <1>3, <1>4 DEF Appended, new
<1>6. /\ Files' = Files /\ disk'[ValTxt] = new
      /\ \A n \in Files \ {ValTxt} : disk'[n] = mid[n]
  BY <1>3, <1>5 DEF Put, Files
<1> QED BY <1>3, <1>6, FourNames DEF new

LEMMA StageStep ==
  ASSUME TurnInv, ~Concurrent, ListStemsFree, NEW r \in Runs,
         Begin(r) \/ Step(r) \/ Crash(r), IsLast(r)'
  PROVE  Stage(r)'
<1>1. ListInv /\ FieldsOK /\ CopiesNamed /\ InTurn /\ Counted /\ Unlisted
  BY Fields DEF TurnInv, StoreInv, ListInv
<1>2. pc[r] # "idle" => Stage(r)
  BY <1>1, MoverIsLast DEF TurnInv
<1> DEFINE mid == {"record", "copy", "label", "append", "cfg"}
<1>3. CASE Begin(r) \/ Crash(r)
  <2>1. pc'[r] \in {"names", "failed", "crashed"}
    BY <1>1, <1>3 DEF Begin, Crash, Goto, FieldsOK
  <2> QED BY <2>1 DEF Stage
<1>4. CASE ExpressObjNames(r)
  <2>1. CASE Goto(r, "failed")
    BY <1>1, <2>1 DEF Goto, FieldsOK, Stage
  <2>2. CASE /\ aList' = [aList EXCEPT ![r] = Annotations(db[r])]
             /\ disk' = Put(disk, ObjNames, NamesFile(Annotations(db[r])))
             /\ Goto(r, "data")
    <3>1. pc'[r] = "data" /\ aList'[r] = Annotations(db[r])
      BY <1>1, <2>2 DEF Goto, FieldsOK
    <3>2. ObjNames \in Files' /\ disk'[ObjNames] = NamesFile(aList'[r])
      BY <2>2, <3>1 DEF Put, Files
    <3> QED BY <3>1, <3>2 DEF Stage, NamesFile
  <2> QED BY <1>4, <2>1, <2>2 DEF ExpressObjNames
<1>5. CASE ExpressObjData(r)
  <2>1. CASE Goto(r, "failed")
    BY <1>1, <2>1 DEF Goto, FieldsOK, Stage
  <2>2. CASE /\ disk' = Put(disk, ObjData, DataFile(Cardinality(aList[r])))
             /\ Goto(r, "lists")
    <3>1. pc[r] = "data" /\ pc'[r] = "lists" /\ UNCHANGED aList
      BY <1>1, <1>5, <2>2 DEF ExpressObjData, Goto, FieldsOK
    <3>2. ObjNames \in Files /\ disk[ObjNames] = NamesFile(aList[r])
      BY <1>2, <3>1 DEF Stage
    <3>3. ObjData \in Files' /\ disk'[ObjData] = DataFile(Cardinality(aList'[r]))
      BY <2>2, <3>1 DEF Put, Files
    <3>4. ObjNames \in Files' /\ disk'[ObjNames] = NamesFile(aList'[r])
      BY <2>2, <3>1, <3>2, FourNames DEF Put, Files
    <3> QED BY <3>1, <3>3, <3>4 DEF Stage, NamesFile, DataFile
  <2> QED BY <1>5, <2>1, <2>2 DEF ExpressObjData
<1>6. CASE OpenLists(r)
  <2>1. /\ pc[r] = "lists" /\ UNCHANGED <<aList, trainf>> /\ trainf[r] = << >>
    BY <1>1, <1>6 DEF OpenLists, Unlisted
  <2>2. /\ ObjNames \in Files /\ disk[ObjNames] = NamesFile(aList[r])
        /\ ObjData \in Files /\ disk[ObjData] = DataFile(Cardinality(aList[r]))
    BY <1>2, <2>1 DEF Stage
  <2>3. PICK opened \in SUBSET {TrainTxt, ValTxt} :
          /\ disk' = [n \in Files \cup opened |->
                        IF n \in opened THEN ListFile(r, << >>) ELSE disk[n]]
          /\ IF opened = {TrainTxt, ValTxt}
             THEN /\ exportedImages' = [exportedImages EXCEPT ![r] = 0]
                  /\ Goto(r, "record")
             ELSE Goto(r, "failed") /\ UNCHANGED exportedImages
    BY <1>6 DEF OpenLists
  <2>4. CASE opened # {TrainTxt, ValTxt}
    BY <1>1, <2>3, <2>4 DEF Goto, FieldsOK, Stage
  <2>5. CASE opened = {TrainTxt, ValTxt}
    <3>1. pc'[r] = "record"
      BY <1>1, <2>3, <2>5 DEF Goto, FieldsOK
    <3>2. /\ TrainTxt \in Files' /\ disk'[TrainTxt] = ListFile(r, trainf'[r])
          /\ ValTxt \in Files' /\ disk'[ValTxt] = ListFile(r, trainf'[r])
      BY <2>1, <2>3, <2>5 DEF Files
    <3>3. /\ ObjNames \in Files' /\ disk'[ObjNames] = NamesFile(aList'[r])
          /\ ObjData \in Files' /\ disk'[ObjData] = DataFile(Cardinality(aList'[r]))
      BY <2>1, <2>2, <2>3, <2>5, FourNames DEF Files
    <3> QED BY <3>1, <3>2, <3>3 DEF Stage, NamesFile, DataFile, ListFile
  <2> QED BY <2>4, <2>5
<1>7. ASSUME pc[r] \in mid, pc'[r] \in mid, UNCHANGED aList,
             \A n \in {ObjNames, ObjData} : n \in Files => n \in Files' /\ disk'[n] = disk[n],
             /\ TrainTxt \in Files' /\ disk'[TrainTxt] = ListFile(r, trainf'[r])
             /\ ValTxt \in Files' /\ disk'[ValTxt] = ListFile(r, trainf'[r])
      PROVE  Stage(r)'
  <2>1. /\ ObjNames \in Files /\ disk[ObjNames] = NamesFile(aList[r])
        /\ ObjData \in Files /\ disk[ObjData] = DataFile(Cardinality(aList[r]))
    BY <1>2, <1>7 DEF Stage
  <2> QED BY <1>7, <2>1 DEF Stage, NamesFile, DataFile, ListFile
<1>8. CASE SkipRecord(r) \/ ChooseName(r) \/ CopyImage(r) \/ ExpressImageAnnotations(r)
             \/ CloseLists(r)
  <2>1. pc[r] \in mid /\ UNCHANGED <<aList, trainf>>
    BY <1>8 DEF SkipRecord, ChooseName, CopyImage, ExpressImageAnnotations, CloseLists
  <2>2. PICK l \in mid : pc' = [pc EXCEPT ![r] = l]
    BY <1>8 DEF SkipRecord, ChooseName, CopyImage, ExpressImageAnnotations, CloseLists,
       NextRecord, Goto
  <2>3. pc'[r] \in mid
    BY <1>1, <2>2 DEF FieldsOK
  <2>4. \A n \in {ObjNames, ObjData, TrainTxt, ValTxt} :
          n \in Files => n \in Files' /\ disk'[n] = disk[n]
    BY <1>1, <1>8, StageKept
  <2>5. /\ TrainTxt \in Files /\ disk[TrainTxt] = ListFile(r, trainf[r])
        /\ ValTxt \in Files /\ disk[ValTxt] = ListFile(r, trainf[r])
    BY <1>2, <2>1 DEF Stage
  <2> QED BY <1>7, <2>1, <2>3, <2>4, <2>5
<1>9. CASE AppendToLists(r)
  <2>1. pc[r] = "append" /\ pc'[r] = "record" /\ UNCHANGED aList
    BY <1>1, <1>9 DEF AppendToLists, NextRecord, Goto, FieldsOK
  <2>2. trainf'[r] = Append(trainf[r], dest[r])
    BY <1>1, <1>9 DEF AppendToLists, FieldsOK
  <2>3. /\ TrainTxt \in Files /\ disk[TrainTxt] = ListFile(r, trainf[r])
        /\ ValTxt \in Files /\ disk[ValTxt] = ListFile(r, trainf[r])
    BY <1>2, <2>1 DEF Stage
  <2>4. /\ Files' = Files
        /\ disk'[TrainTxt] = ListFile(r, Append(trainf[r], dest[r]))
        /\ disk'[ValTxt] = ListFile(r, Append(trainf[r], dest[r]))
        /\ \A n \in Files \ {TrainTxt, ValTxt} : disk'[n] = disk[n]
    BY <1>9, <2>3, AppendedLists DEF AppendToLists
  <2> QED BY <1>7, <2>1, <2>2, <2>3, <2>4, FourNames
<1>10. CASE ExpressYoloCfg(r)
  <2>1. CASE Goto(r, "failed")
    BY <1>1, <2>1 DEF Goto, FieldsOK, Stage
  <2>2. CASE /\ cfg' = [classes |-> Cardinality(aList[r]), images |-> exportedImages[r],
                        made |-> TRUE]
             /\ Goto(r, "done")
    <3>1. /\ pc[r] = "cfg" /\ pc'[r] = "done"
          /\ UNCHANGED <<aList, trainf, exportedImages, disk>>
      BY <1>1, <1>10, <2>2 DEF ExpressYoloCfg, Goto, FieldsOK
    <3>2. exportedImages[r] = Len(trainf[r])
      BY <1>1, <3>1 DEF Counted
    <3>3. /\ ObjNames \in Files /\ disk[ObjNames] = NamesFile(aList[r])
          /\ ObjData \in Files /\ disk[ObjData] = DataFile(Cardinality(aList[r]))
          /\ TrainTxt \in Files /\ disk[TrainTxt] = ListFile(r, trainf[r])
          /\ ValTxt \in Files /\ disk[ValTxt] = ListFile(r, trainf[r])
      BY <1>2, <3>1 DEF Stage
    <3> QED BY <2>2, <3>1, <3>2, <3>3 DEF Stage, Files, NamesFile, DataFile, ListFile
  <2> QED BY <1>10, <2>1, <2>2 DEF ExpressYoloCfg
<1> QED BY <1>3, <1>4, <1>5, <1>6, <1>8, <1>9, <1>10 DEF Step

LEMMA TurnInit == Init => TurnInv
<1> SUFFICES ASSUME Init PROVE TurnInv
  OBVIOUS
<1>1. \A r \in Runs : pc[r] = "idle"
  BY DEF Init
<1>2. CopiesNamed
  BY LabelInit DEF LabelInv
<1> QED BY <1>1, <1>2, StoreInit DEF TurnInv, InTurn, IsLast, HasBegun

LEMMA TurnStep == ~Concurrent /\ ListStemsFree /\ TurnInv /\ [Next]_vars => TurnInv'
<1> SUFFICES ASSUME ~Concurrent, ListStemsFree, TurnInv, [Next]_vars PROVE TurnInv'
  OBVIOUS
<1>1. FieldsOK /\ StoreInv' /\ CopiesNamed' /\ InTurn'
  BY ListStep, CountedStep, NamedStep, InTurnStep, Fields DEF TurnInv, StoreInv
<1>2. ASSUME NEW s \in Runs, IsLast(s)' PROVE Stage(s)'
  <2>1. CASE UNCHANGED vars
    BY <1>2, <2>1 DEF vars, TurnInv, IsLast, HasBegun, Stage, Files
  <2>2. ASSUME NEW r \in Runs, Begin(r) \/ Step(r) \/ Crash(r) PROVE Stage(s)'
    <3>1. s = r
      BY <1>1, <1>2, <2>2, MoverIsLast DEF TurnInv
    <3> QED BY <1>2, <2>2, <3>1, StageStep
  <2> QED BY <2>1, <2>2 DEF Next, Finished
<1> QED BY <1>1, <1>2 DEF TurnInv, IsLast, HasBegun

LEMMA TurnInvariant ==
  ASSUME ~Concurrent, ListStemsFree
  PROVE  Spec => []TurnInv
<1>1. TurnInv /\ [Next]_vars => TurnInv'
  BY TurnStep
<1> QED BY <1>1, TurnInit, PTL DEF Spec

\* The lists and the descriptors of a successful export agree with one another and
\* with what it has listed, where exports follow one another and no image has the
\* stem of a list: whatever earlier, failed or dead ones have left in the directory.
THEOREM PublishedFilesAgree ==
  ASSUME ~Concurrent, ListStemsFree
  PROVE  Spec => []DescriptorsAgree
<1>1. TurnInv => DescriptorsAgree
  <2> SUFFICES ASSUME TurnInv, NEW r \in Runs, Published(r)
               PROVE  /\ disk[TrainTxt] = ListFile(r, trainf[r])
                      /\ disk[ValTxt]   = ListFile(r, trainf[r])
                      /\ cfg.made
                      /\ cfg.images = Len(trainf[r])
                      /\ cfg.classes = Cardinality(disk[ObjNames].classes)
                      /\ disk[ObjData].count = cfg.classes
    BY DEF DescriptorsAgree
  <2>1. Stage(r) /\ pc[r] = "done"
    BY DEF TurnInv, Published
  <2>2. /\ NamesFile(aList[r]).classes = aList[r]
        /\ DataFile(Cardinality(aList[r])).count = Cardinality(aList[r])
    BY DEF NamesFile, DataFile
  <2> QED BY <2>1, <2>2 DEF Stage
<1> QED BY <1>1, TurnInvariant, PTL

\* The label file of every image a successful export lists holds its rectangles by
\* the indexes of the names in the obj.names beside it.
THEOREM PublishedLabelsAgree ==
  ASSUME ~Concurrent, StemsTellApart
  PROVE  Spec => []LabelsDescribeImages
<1>1. TurnInv /\ LabelsOfListedImages => LabelsDescribeImages
  <2> SUFFICES ASSUME TurnInv, LabelsOfListedImages, NEW r \in Runs, Published(r),
                      NEW n \in Lines(r)
               PROVE  \E i \in DOMAIN db[r] :
                        /\ db[r][i].img = disk[n].of
                        /\ LabelOf(n) \in Files
                        /\ disk[LabelOf(n)]
                             = LabelFile(Labels(disk[ObjNames].classes, db[r][i]))
    BY DEF LabelsDescribeImages
  <2>1. disk[ObjNames].classes = aList[r]
    <3>1. Stage(r) /\ pc[r] = "done"
      BY DEF TurnInv, Published
    <3>2. disk[ObjNames] = NamesFile(aList[r])
      BY <3>1 DEF Stage
    <3> QED BY <3>2 DEF NamesFile
  <2> QED BY <2>1 DEF LabelsOfListedImages
<1>2. ListStemsFree
  BY DEF StemsTellApart
<1>3. Spec => []TurnInv /\ []LabelsOfListedImages
  BY <1>2, TurnInvariant, LabelsAreOfTheirImages, PTL
<1> QED BY <1>1, <1>3, PTL
=============================================================================
