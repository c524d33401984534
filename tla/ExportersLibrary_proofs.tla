----------------------- MODULE ExportersLibrary_proofs -----------------------
(***************************************************************************)
(* What the exports of one layout, repeated, failing or interleaved, can   *)
(* never do to the copies of the images and to what names them.            *)
(*                                                                         *)
(* The layouts share one walk.  Its moves are stated once, every layout is *)
(* shown to make no others, and the invariants are proved of the moves.    *)
(***************************************************************************)
EXTENDS ExportersLibrary, FiniteSetTheorems, TLAPS

\* The layouts which copy images into the export directory.
CopyLayouts == {"PascalVOC", "Ultralytics", "COCO", "CreateML", "Project"}

\* Where a run has copied its image and not yet written about it, where it has
\* a name for the image, and all the places of the walk.
EntryLabels == {"annotation", "entry", "label"}
NamedLabels == EntryLabels \cup {"copy"}
QuietLabels == {"record", "names", "train", "val", "json", "open", "write", "done",
                "failed", "crashed"}
PcLabels    == NamedLabels \cup QuietLabels
                 \cup {"idle", "yaml", "rect", "mkdir", "crop"}

\* What the names of a run's entries are, for all runs.
kept == [r \in Runs |-> Entries(r)]

-----------------------------------------------------------------------------
(* The moves of the walk *)

Begins(r) ==
  /\ pc[r] = "idle"
  /\ \A q \in 1..(r - 1) : pc[q] # "idle" /\ (Concurrent \/ Ended(q))
  /\ \E records \in DBs : db' = [db EXCEPT ![r] = records]
  /\ \E l \in {"record", "yaml", "failed"} : Goto(r, l)
  /\ UNCHANGED <<at, dest, images, kept>>

\* Neither an image is touched nor an entry made.
Walks(r) ==
  /\ pc[r] # "idle" /\ ~Ended(r)
  /\ \E l \in QuietLabels : Goto(r, l)
  /\ UNCHANGED at \/ at' = [at EXCEPT ![r] = @ + 1]
  /\ UNCHANGED <<db, dest, images, kept>>

\* A name outside of S is chosen for the image of the current record.
ChoosesOutside(r, S) ==
  /\ pc[r] = "record" /\ HasRecord(r) /\ Exportable(Current(r))
  /\ \E k \in Nat : LET n == Candidate(SourceName[Current(r).img], k)
                    IN  n \notin S /\ dest' = [dest EXCEPT ![r] = n]
  /\ Goto(r, "copy")
  /\ UNCHANGED <<db, at, images>>

\* The loader gives no image.
LoadFails(r) == pc[r] = "record" /\ NextRecord(r) /\ UNCHANGED <<db, dest, images>>

\* The name Create ML keeps from the images, for its descriptor.
Reserved == IF layout = "CreateML" THEN {CreateML!annotationsRel} ELSE {}

Chooses(r) == ChoosesOutside(r, DOMAIN images \cup Reserved) /\ UNCHANGED kept

Copies(r) ==
  /\ pc[r] = "copy"
  /\ dest[r] \notin DOMAIN images
  /\ \/ /\ images' = Put(images, dest[r], Copied(Current(r).img, TRUE))
        /\ \E l \in EntryLabels : Goto(r, l)
        /\ UNCHANGED at
     \/ /\ images' = Put(images, dest[r], Copied(Current(r).img, FALSE))
        /\ NextRecord(r)
  /\ UNCHANGED <<db, dest, kept>>

Enters(r) ==
  /\ pc[r] \in EntryLabels
  /\ kept' = [kept EXCEPT ![r] = Append(@, dest[r])]
  /\ NextRecord(r)
  /\ UNCHANGED <<db, dest, images>>

Moves(r) == Begins(r) \/ Walks(r) \/ Chooses(r) \/ Copies(r) \/ Enters(r)

-----------------------------------------------------------------------------
(* Types *)

LabelSets == {Labels(rects) : rects \in Seq(Rectangle)}

\* What the exporters collect for their descriptors.
CollectedOK ==
  /\ layout = "PascalVOC" => imageSet \in [Runs -> Seq(Filename)]
  /\ layout = "COCO" =>
       /\ imageId \in [Runs -> Nat]
       /\ imagesJson \in [Runs -> Seq([id: Nat, file_name: Filename])]
  /\ layout = "CreateML" =>
       imagesJson \in [Runs -> Seq([imagefilename: Filename, annotation: LabelSets])]
  /\ layout = "Project" =>
       express_images \in [Runs -> Seq([relPath: Filename, record: Nat])]

WalkOK ==
  /\ layout \in Layouts
  /\ pc \in [Runs -> PcLabels]
  /\ db \in [Runs -> Seq(Record)]
  /\ at \in [Runs -> Nat]
  /\ dest = [r \in Runs |-> dest[r]]

\* A run that has a name for an image is at a record with such an image.
AtImage ==
  \A r \in Runs : pc[r] \in NamedLabels =>
    dest[r] \in Filename /\ HasRecord(r) /\ Exportable(Current(r))

CopiesOK ==
  /\ images = [n \in DOMAIN images |-> images[n]]
  /\ \A n \in DOMAIN images : images[n] \in [of: Images, whole: BOOLEAN]

\* A run has entered nothing before its call.
Unentered == \A r \in Runs : pc[r] = "idle" => Entries(r) = << >>

\* No image has, or is about to have, the name of the Create ML descriptor.
DescriptorApart ==
  /\ Reserved \cap DOMAIN images = {}
  /\ \A r \in Runs : pc[r] = "copy" => dest[r] \notin Reserved

LibType ==
  /\ WalkOK /\ CollectedOK /\ Unentered
  /\ layout \in CopyLayouts => AtImage /\ CopiesOK

-----------------------------------------------------------------------------
(* The copying exporters make the moves of the walk *)

\* Any name tried for a file name is a file name.
LEMMA CandidatesAreNames ==
  ASSUME NEW n \in Filename, NEW k \in Nat
  PROVE  Candidate(n, k) \in Filename
BY DEF Candidate, Filename

\* The walk of PascalVoc is the shared one, of the databases of its layout.
LEMMA PascalVocWalk ==
  ASSUME layout = "PascalVOC", layout \in Layouts, NEW r \in Runs, NEW l
  PROVE  /\ PascalVoc!Enter(r, l) => Enter(r, l)
         /\ PascalVoc!Skip(r) => Skip(r)
         /\ PascalVoc!Copy(r, l) => Copy(r, l)
         /\ PascalVoc!LastRecord(r, l) => LastRecord(r, l)
         /\ PascalVoc!Die(r) => Die(r)
         /\ \A S : PascalVoc!Choose(r, S) => ChoosesOutside(r, S) \/ LoadFails(r)
<1> USE DEF PascalVoc!Goto, Goto, PascalVoc!NextRecord, NextRecord, PascalVoc!HasRecord,
            HasRecord, PascalVoc!Current, Current, PascalVoc!Exportable, Exportable,
            PascalVoc!Ended, Ended, PascalVoc!HasBegun, HasBegun
<1>1. PascalVoc!Enter(r, l) => Enter(r, l)
  BY DatabasesAssumption DEF PascalVoc!Enter, PascalVoc!Start, Enter, Start
<1>2. PascalVoc!Skip(r) => Skip(r)
  BY DEF PascalVoc!Skip, Skip
<1>3. PascalVoc!Copy(r, l) => Copy(r, l)
  BY DEF PascalVoc!Copy, PascalVoc!Put, PascalVoc!Copied, Copy, Put, Copied
<1>4. PascalVoc!LastRecord(r, l) => LastRecord(r, l)
  BY DEF PascalVoc!LastRecord, PascalVoc!EndWalk, LastRecord, EndWalk
<1>5. PascalVoc!Die(r) => Die(r)
  BY DEF PascalVoc!Die, PascalVoc!Kill, Die, Kill
<1>6. ASSUME NEW S, PascalVoc!Choose(r, S) PROVE ChoosesOutside(r, S) \/ LoadFails(r)
  <2> DEFINE n == SourceName[Current(r).img]
             top == PascalVoc!Cardinality(S)
  <2>1. /\ pc[r] = "record" /\ HasRecord(r) /\ Exportable(Current(r))
        /\ \/ /\ \E k \in 0..top : /\ Candidate(n, k) \notin S
                                   /\ dest' = [dest EXCEPT ![r] = Candidate(n, k)]
              /\ Goto(r, "copy")
              /\ UNCHANGED at
           \/ NextRecord(r) /\ UNCHANGED dest
        /\ UNCHANGED <<db, images>>
    BY <1>6 DEF PascalVoc!Choose, PascalVoc!Candidate, Candidate
  <2>2. 0..top \subseteq Nat
    OBVIOUS
  <2> QED BY <2>1, <2>2 DEF ChoosesOutside, LoadFails
<1> QED BY <1>1, <1>2, <1>3, <1>4, <1>5, <1>6

\* The walk of Ultralytics is the shared one, of the databases of its layout.
LEMMA UltralyticsWalk ==
  ASSUME layout = "Ultralytics", layout \in Layouts, NEW r \in Runs, NEW l
  PROVE  /\ Ultralytics!Enter(r, l) => Enter(r, l)
         /\ Ultralytics!Skip(r) => Skip(r)
         /\ Ultralytics!Copy(r, l) => Copy(r, l)
         /\ Ultralytics!LastRecord(r, l) => LastRecord(r, l)
         /\ Ultralytics!Die(r) => Die(r)
         /\ \A S : Ultralytics!Choose(r, S) => ChoosesOutside(r, S) \/ LoadFails(r)
<1> USE DEF Ultralytics!Goto, Goto, Ultralytics!NextRecord, NextRecord,
            Ultralytics!HasRecord, HasRecord, Ultralytics!Current, Current,
            Ultralytics!Exportable, Exportable, Ultralytics!Ended, Ended,
            Ultralytics!HasBegun, HasBegun
<1>1. Ultralytics!Enter(r, l) => Enter(r, l)
  BY DatabasesAssumption DEF Ultralytics!Enter, Ultralytics!Start, Enter, Start
<1>2. Ultralytics!Skip(r) => Skip(r)
  BY DEF Ultralytics!Skip, Skip
<1>3. Ultralytics!Copy(r, l) => Copy(r, l)
  BY DEF Ultralytics!Copy, Ultralytics!Put, Ultralytics!Copied, Copy, Put, Copied
<1>4. Ultralytics!LastRecord(r, l) => LastRecord(r, l)
  BY DEF Ultralytics!LastRecord, Ultralytics!EndWalk, LastRecord, EndWalk
<1>5. Ultralytics!Die(r) => Die(r)
  BY DEF Ultralytics!Die, Ultralytics!Kill, Die, Kill
<1>6. ASSUME NEW S, Ultralytics!Choose(r, S) PROVE ChoosesOutside(r, S) \/ LoadFails(r)
  <2> DEFINE n == SourceName[Current(r).img]
             top == Ultralytics!Cardinality(S)
  <2>1. /\ pc[r] = "record" /\ HasRecord(r) /\ Exportable(Current(r))
        /\ \/ /\ \E k \in 0..top : /\ Candidate(n, k) \notin S
                                   /\ dest' = [dest EXCEPT ![r] = Candidate(n, k)]
              /\ Goto(r, "copy")
              /\ UNCHANGED at
           \/ NextRecord(r) /\ UNCHANGED dest
        /\ UNCHANGED <<db, images>>
    BY <1>6 DEF Ultralytics!Choose, Ultralytics!Candidate, Candidate
  <2>2. 0..top \subseteq Nat
    OBVIOUS
  <2> QED BY <2>1, <2>2 DEF ChoosesOutside, LoadFails
<1> QED BY <1>1, <1>2, <1>3, <1>4, <1>5, <1>6

\* The walk of Coco is the shared one, of the databases of its layout.
LEMMA CocoWalk ==
  ASSUME layout = "COCO", layout \in Layouts, NEW r \in Runs, NEW l
  PROVE  /\ Coco!Enter(r, l) => Enter(r, l)
         /\ Coco!Skip(r) => Skip(r)
         /\ Coco!Copy(r, l) => Copy(r, l)
         /\ Coco!LastRecord(r, l) => LastRecord(r, l)
         /\ Coco!Die(r) => Die(r)
         /\ \A S : Coco!Choose(r, S) => ChoosesOutside(r, S) \/ LoadFails(r)
<1> USE DEF Coco!Goto, Goto, Coco!NextRecord, NextRecord, Coco!HasRecord, HasRecord,
            Coco!Current, Current, Coco!Exportable, Exportable, Coco!Ended, Ended,
            Coco!HasBegun, HasBegun
<1>1. Coco!Enter(r, l) => Enter(r, l)
  BY DatabasesAssumption DEF Coco!Enter, Coco!Start, Enter, Start
<1>2. Coco!Skip(r) => Skip(r)
  BY DEF Coco!Skip, Skip
<1>3. Coco!Copy(r, l) => Copy(r, l)
  BY DEF Coco!Copy, Coco!Put, Coco!Copied, Copy, Put, Copied
<1>4. Coco!LastRecord(r, l) => LastRecord(r, l)
  BY DEF Coco!LastRecord, Coco!EndWalk, LastRecord, EndWalk
<1>5. Coco!Die(r) => Die(r)
  BY DEF Coco!Die, Coco!Kill, Die, Kill
<1>6. ASSUME NEW S, Coco!Choose(r, S) PROVE ChoosesOutside(r, S) \/ LoadFails(r)
  <2> DEFINE n == SourceName[Current(r).img]
             top == Coco!Cardinality(S)
  <2>1. /\ pc[r] = "record" /\ HasRecord(r) /\ Exportable(Current(r))
        /\ \/ /\ \E k \in 0..top : /\ Candidate(n, k) \notin S
                                   /\ dest' = [dest EXCEPT ![r] = Candidate(n, k)]
              /\ Goto(r, "copy")
              /\ UNCHANGED at
           \/ NextRecord(r) /\ UNCHANGED dest
        /\ UNCHANGED <<db, images>>
    BY <1>6 DEF Coco!Choose, Coco!Candidate, Candidate
  <2>2. 0..top \subseteq Nat
    OBVIOUS
  <2> QED BY <2>1, <2>2 DEF ChoosesOutside, LoadFails
<1> QED BY <1>1, <1>2, <1>3, <1>4, <1>5, <1>6

\* The walk of CreateML is the shared one, of the databases of its layout.
LEMMA CreateMLWalk ==
  ASSUME layout = "CreateML", layout \in Layouts, NEW r \in Runs, NEW l
  PROVE  /\ CreateML!Enter(r, l) => Enter(r, l)
         /\ CreateML!Skip(r) => Skip(r)
         /\ CreateML!Copy(r, l) => Copy(r, l)
         /\ CreateML!LastRecord(r, l) => LastRecord(r, l)
         /\ CreateML!Die(r) => Die(r)
         /\ \A S : CreateML!Choose(r, S) => ChoosesOutside(r, S) \/ LoadFails(r)
<1> USE DEF CreateML!Goto, Goto, CreateML!NextRecord, NextRecord, CreateML!HasRecord,
            HasRecord, CreateML!Current, Current, CreateML!Exportable, Exportable,
            CreateML!Ended, Ended, CreateML!HasBegun, HasBegun
<1>1. CreateML!Enter(r, l) => Enter(r, l)
  BY DatabasesAssumption DEF CreateML!Enter, CreateML!Start, Enter, Start
<1>2. CreateML!Skip(r) => Skip(r)
  BY DEF CreateML!Skip, Skip
<1>3. CreateML!Copy(r, l) => Copy(r, l)
  BY DEF CreateML!Copy, CreateML!Put, CreateML!Copied, Copy, Put, Copied
<1>4. CreateML!LastRecord(r, l) => LastRecord(r, l)
  BY DEF CreateML!LastRecord, CreateML!EndWalk, LastRecord, EndWalk
<1>5. CreateML!Die(r) => Die(r)
  BY DEF CreateML!Die, CreateML!Kill, Die, Kill
<1>6. ASSUME NEW S, CreateML!Choose(r, S) PROVE ChoosesOutside(r, S) \/ LoadFails(r)
  <2> DEFINE n == SourceName[Current(r).img]
             top == CreateML!Cardinality(S)
  <2>1. /\ pc[r] = "record" /\ HasRecord(r) /\ Exportable(Current(r))
        /\ \/ /\ \E k \in 0..top : /\ Candidate(n, k) \notin S
                                   /\ dest' = [dest EXCEPT ![r] = Candidate(n, k)]
              /\ Goto(r, "copy")
              /\ UNCHANGED at
           \/ NextRecord(r) /\ UNCHANGED dest
        /\ UNCHANGED <<db, images>>
    BY <1>6 DEF CreateML!Choose, CreateML!Candidate, Candidate
  <2>2. 0..top \subseteq Nat
    OBVIOUS
  <2> QED BY <2>1, <2>2 DEF ChoosesOutside, LoadFails
<1> QED BY <1>1, <1>2, <1>3, <1>4, <1>5, <1>6

\* The walk of Project is the shared one, of the databases of its layout.
LEMMA ProjectWalk ==
  ASSUME layout = "Project", layout \in Layouts, NEW r \in Runs, NEW l
  PROVE  /\ Project!Enter(r, l) => Enter(r, l)
         /\ Project!Skip(r) => Skip(r)
         /\ Project!Copy(r, l) => Copy(r, l)
         /\ Project!LastRecord(r, l) => LastRecord(r, l)
         /\ Project!Die(r) => Die(r)
         /\ \A S : Project!Choose(r, S) => ChoosesOutside(r, S) \/ LoadFails(r)
<1> USE DEF Project!Goto, Goto, Project!NextRecord, NextRecord, Project!HasRecord,
            HasRecord, Project!Current, Current, Project!Exportable, Exportable,
            Project!Ended, Ended, Project!HasBegun, HasBegun
<1>1. Project!Enter(r, l) => Enter(r, l)
  BY DatabasesAssumption DEF Project!Enter, Project!Start, Enter, Start
<1>2. Project!Skip(r) => Skip(r)
  BY DEF Project!Skip, Skip
<1>3. Project!Copy(r, l) => Copy(r, l)
  BY DEF Project!Copy, Project!Put, Project!Copied, Copy, Put, Copied
<1>4. Project!LastRecord(r, l) => LastRecord(r, l)
  BY DEF Project!LastRecord, Project!EndWalk, LastRecord, EndWalk
<1>5. Project!Die(r) => Die(r)
  BY DEF Project!Die, Project!Kill, Die, Kill
<1>6. ASSUME NEW S, Project!Choose(r, S) PROVE ChoosesOutside(r, S) \/ LoadFails(r)
  <2> DEFINE n == SourceName[Current(r).img]
             top == Project!Cardinality(S)
  <2>1. /\ pc[r] = "record" /\ HasRecord(r) /\ Exportable(Current(r))
        /\ \/ /\ \E k \in 0..top : /\ Candidate(n, k) \notin S
                                   /\ dest' = [dest EXCEPT ![r] = Candidate(n, k)]
              /\ Goto(r, "copy")
              /\ UNCHANGED at
           \/ NextRecord(r) /\ UNCHANGED dest
        /\ UNCHANGED <<db, images>>
    BY <1>6 DEF Project!Choose, Project!Candidate, Candidate
  <2>2. 0..top \subseteq Nat
    OBVIOUS
  <2> QED BY <2>1, <2>2 DEF ChoosesOutside, LoadFails
<1> QED BY <1>1, <1>2, <1>3, <1>4, <1>5, <1>6

LEMMA SharedMoves ==
  ASSUME WalkOK, NEW r \in Runs, UNCHANGED kept
  PROVE  /\ \A l \in {"record", "yaml"} : Enter(r, l) => Begins(r)
         /\ Skip(r) => Walks(r)
         /\ LoadFails(r) => Walks(r)
         /\ \A S : ChoosesOutside(r, S) /\ DOMAIN images \cup Reserved \subseteq S => Chooses(r)
         /\ \A l \in EntryLabels : Copy(r, l) => Copies(r) \/ Walks(r)
         /\ \A l \in QuietLabels : LastRecord(r, l) => Walks(r)
         /\ Die(r) => Walks(r)
<1>1. ASSUME NEW l \in {"record", "yaml"}, Enter(r, l) PROVE Begins(r)
  BY <1>1 DEF Enter, Start, Begins, Goto, Ended
<1>2. NextRecord(r) /\ pc[r] \in {"record", "copy"} /\ UNCHANGED <<db, dest, images>>
        => Walks(r)
  BY DEF NextRecord, Walks, Ended, Goto, QuietLabels
<1>3. ASSUME NEW S, ChoosesOutside(r, S), DOMAIN images \cup Reserved \subseteq S
      PROVE  Chooses(r)
  BY <1>3 DEF ChoosesOutside, Chooses
<1>4. ASSUME NEW l \in EntryLabels, Copy(r, l) PROVE Copies(r) \/ Walks(r)
  BY <1>2, <1>4 DEF Copy, Copies
<1>5. ASSUME NEW l \in QuietLabels, LastRecord(r, l) PROVE Walks(r)
  BY <1>5 DEF LastRecord, EndWalk, Walks, Ended
<1>6. Die(r) => Walks(r)
  BY DEF Die, Kill, Walks, HasBegun, Goto, QuietLabels
<1> QED BY <1>1, <1>2, <1>3, <1>4, <1>5, <1>6 DEF Skip, LoadFails

-----------------------------------------------------------------------------
(* Each copying layout only makes these moves *)

\* The moves of the Pascal VOC exporter; a run enters what it has described.
LEMMA PascalVocMoves ==
  ASSUME LibType, layout = "PascalVOC", UNCHANGED layout, NEW r \in Runs,
         PascalVoc!Begin(r) \/ PascalVoc!Step(r) \/ PascalVoc!Crash(r)
  PROVE  Moves(r) /\ CollectedOK'
<1> USE DEF LibType, PascalVoc!Goto, Goto
<1>1. imageSet \in [Runs -> Seq(Filename)]
  BY DEF CollectedOK
<1>2. kept = imageSet /\ kept' = [s \in Runs |-> imageSet'[s]]
  BY <1>1 DEF kept, Entries
<1>3. ASSUME UNCHANGED imageSet PROVE UNCHANGED kept /\ CollectedOK'
  BY <1>1, <1>2, <1>3 DEF CollectedOK
<1>4. CASE PascalVoc!Begin(r)
  <2>1. Enter(r, "record") /\ imageSet' = [imageSet EXCEPT ![r] = << >>]
    BY <1>4, PascalVocWalk DEF PascalVoc!Begin, PascalVoc!cleared, WalkOK
  <2>2. imageSet[r] = << >>
    BY <2>1 DEF Enter, Start, Unentered, Entries
  <2>3. UNCHANGED imageSet
    BY <1>1, <2>1, <2>2
  <2> QED BY <1>3, <2>1, <2>3, SharedMoves DEF Moves
<1>5. CASE PascalVoc!SkipRecord(r)
  BY <1>3, <1>5, PascalVocWalk, SharedMoves DEF PascalVoc!SkipRecord, Moves, WalkOK
<1>6. CASE PascalVoc!ChooseName(r)
  <2>1. DOMAIN images \cup Reserved \subseteq PascalVoc!name_taken
    BY DEF PascalVoc!name_taken, Reserved
  <2> QED BY <1>3, <1>6, <2>1, PascalVocWalk, SharedMoves
          DEF PascalVoc!ChooseName, Moves, WalkOK
<1>7. CASE PascalVoc!CopyImage(r)
  <2>1. Copy(r, "annotation") /\ UNCHANGED imageSet
    BY <1>7, PascalVocWalk DEF PascalVoc!CopyImage, WalkOK
  <2> QED BY <1>3, <2>1, SharedMoves DEF Moves, EntryLabels
<1>8. CASE PascalVoc!ExpressAnnotation(r)
  <2>1. /\ pc[r] = "annotation" /\ NextRecord(r) /\ UNCHANGED <<db, dest, images>>
        /\ \/ imageSet' = [imageSet EXCEPT ![r] = Append(@, dest[r])]
           \/ UNCHANGED imageSet
    BY <1>8 DEF PascalVoc!ExpressAnnotation, PascalVoc!NextRecord, NextRecord
  <2>2. CASE UNCHANGED imageSet
    BY <1>3, <2>1, <2>2 DEF Moves, Walks, Ended, NextRecord, QuietLabels
  <2>3. CASE imageSet' = [imageSet EXCEPT ![r] = Append(@, dest[r])]
    <3>1. dest[r] \in Filename
      BY <2>1 DEF AtImage, NamedLabels, EntryLabels, CopyLayouts
    <3>2. imageSet' \in [Runs -> Seq(Filename)]
      BY <1>1, <2>3, <3>1
    <3>3. Enters(r)
      BY <1>2, <2>1, <2>3, <3>2 DEF Enters, EntryLabels
    <3> QED BY <3>2, <3>3 DEF Moves, CollectedOK
  <2> QED BY <2>1, <2>2, <2>3
<1>9. CASE PascalVoc!EndOfRecords(r)
  BY <1>3, <1>9, PascalVocWalk, SharedMoves
     DEF PascalVoc!EndOfRecords, Moves, WalkOK, QuietLabels
<1>10. CASE PascalVoc!ExpressTrainSet(r) \/ PascalVoc!ExpressValSet(r)
  BY <1>3, <1>10 DEF PascalVoc!ExpressTrainSet, PascalVoc!ExpressValSet, Moves, Walks,
                     Ended, QuietLabels
<1>11. CASE PascalVoc!Crash(r)
  BY <1>3, <1>11, PascalVocWalk, SharedMoves DEF PascalVoc!Crash, Moves, WalkOK
<1> QED BY <1>4, <1>5, <1>6, <1>7, <1>8, <1>9, <1>10, <1>11 DEF PascalVoc!Step

\* The moves of the COCO exporter; an entry is the element of an image.
LEMMA CocoMoves ==
  ASSUME LibType, layout = "COCO", UNCHANGED layout, NEW r \in Runs,
         Coco!Begin(r) \/ Coco!Step(r) \/ Coco!Crash(r)
  PROVE  Moves(r) /\ CollectedOK'
<1> USE DEF LibType, Coco!Goto, Goto
<1> DEFINE Entry == [id: Nat, file_name: Filename]
<1>1. imagesJson \in [Runs -> Seq(Entry)]
  BY DEF CollectedOK
<1>2. /\ kept = [s \in Runs |-> [k \in DOMAIN imagesJson[s] |-> imagesJson[s][k].file_name]]
      /\ kept' = [s \in Runs |-> [k \in DOMAIN imagesJson'[s] |-> imagesJson'[s][k].file_name]]
  BY DEF kept, Entries, Coco!Entries
<1>3. ASSUME UNCHANGED <<imagesJson, imageId>> PROVE UNCHANGED kept /\ CollectedOK'
  BY <1>1, <1>2, <1>3 DEF CollectedOK
<1>4. CASE Coco!Begin(r)
  <2>1. Enter(r, "record") /\ imagesJson' = [imagesJson EXCEPT ![r] = << >>] /\ UNCHANGED imageId
    BY <1>4, CocoWalk DEF Coco!Begin, Coco!cleared, Coco!Members, WalkOK
  <2>2. imagesJson[r] = << >>
    <3>1. [k \in DOMAIN imagesJson[r] |-> imagesJson[r][k].file_name] = << >>
      BY <1>2, <2>1 DEF Enter, Start, Unentered, kept
    <3>2. imagesJson[r] \in Seq(Entry)
      BY <1>1
    <3> HIDE DEF Entry
    <3> QED BY <3>1, <3>2
  <2>3. UNCHANGED <<imagesJson, imageId>>
    BY <1>1, <2>1, <2>2
  <2> QED BY <1>3, <2>1, <2>3, SharedMoves DEF Moves
<1>5. CASE Coco!SkipRecord(r)
  BY <1>3, <1>5, CocoWalk, SharedMoves DEF Coco!SkipRecord, Moves, WalkOK, Coco!collected
<1>6. CASE Coco!ChooseName(r)
  <2>1. DOMAIN images \cup Reserved \subseteq Coco!Taken
    BY DEF Coco!Taken, Reserved
  <2> QED BY <1>3, <1>6, <2>1, CocoWalk, SharedMoves
          DEF Coco!ChooseName, Moves, WalkOK, Coco!collected
<1>7. CASE Coco!CopyImage(r)
  <2>1. Copy(r, "entry") /\ UNCHANGED <<imagesJson, imageId>>
    BY <1>7, CocoWalk DEF Coco!CopyImage, WalkOK, Coco!collected
  <2> QED BY <1>3, <2>1, SharedMoves DEF Moves, EntryLabels
<1>8. CASE Coco!ExpressImage(r)
  <2>1. /\ pc[r] = "entry" /\ NextRecord(r) /\ UNCHANGED <<db, dest, images>>
        /\ imageId' = [imageId EXCEPT ![r] = imageId[r] + 1]
        /\ imagesJson' = [imagesJson EXCEPT ![r] =
                            Append(@, [id |-> imageId[r] + 1, file_name |-> dest[r]])]
    BY <1>8 DEF Coco!ExpressImage, Coco!NextRecord, NextRecord
  <2>2. dest[r] \in Filename
    BY <2>1 DEF AtImage, NamedLabels, EntryLabels, CopyLayouts
  <2>a. imageId[r] \in Nat /\ imageId' \in [Runs -> Nat]
    BY <2>1 DEF CollectedOK
  <2>3. PICK e \in Entry : e.file_name = dest[r] /\ imagesJson' = [imagesJson EXCEPT ![r] = Append(@, e)]
    BY <2>1, <2>2, <2>a
  <2>4. imagesJson' \in [Runs -> Seq(Entry)]
    <3> HIDE DEF Entry
    <3> QED BY <1>1, <2>3
  <2>5. [k \in DOMAIN imagesJson'[r] |-> imagesJson'[r][k].file_name]
          = Append([k \in DOMAIN imagesJson[r] |-> imagesJson[r][k].file_name], dest[r])
    <3>1. imagesJson[r] \in Seq(Entry) /\ imagesJson'[r] = Append(imagesJson[r], e)
      BY <1>1, <2>3
    <3> HIDE DEF Entry
    <3> QED BY <2>3, <3>1
  <2>6. kept' = [kept EXCEPT ![r] = Append(@, dest[r])]
    BY <1>1, <1>2, <2>3, <2>5
  <2>7. Enters(r)
    BY <2>1, <2>6 DEF Enters, EntryLabels
  <2> QED BY <2>1, <2>4, <2>7, <2>a DEF Moves, CollectedOK
<1>9. CASE Coco!EndOfRecords(r)
  BY <1>3, <1>9, CocoWalk, SharedMoves
     DEF Coco!EndOfRecords, Moves, WalkOK, QuietLabels, Coco!collected
<1>10. CASE Coco!OpenInstancesJson(r) \/ Coco!WriteInstancesJson(r)
  BY <1>3, <1>10 DEF Coco!OpenInstancesJson, Coco!WriteInstancesJson, Moves, Walks, Ended,
                     QuietLabels, Coco!collected
<1>11. CASE Coco!Crash(r)
  BY <1>3, <1>11, CocoWalk, SharedMoves DEF Coco!Crash, Moves, WalkOK, Coco!collected
<1> QED BY <1>4, <1>5, <1>6, <1>7, <1>8, <1>9, <1>10, <1>11 DEF Coco!Step

\* The moves of the darknetxx project exporter; an entry is a copy with its record.
LEMMA ProjectMoves ==
  ASSUME LibType, layout = "Project", UNCHANGED layout, NEW r \in Runs,
         Project!Begin(r) \/ Project!Step(r) \/ Project!Crash(r)
  PROVE  Moves(r) /\ CollectedOK'
<1> USE DEF LibType, Project!Goto, Goto
<1> DEFINE Entry == [relPath: Filename, record: Nat]
<1>1. express_images \in [Runs -> Seq(Entry)]
  BY DEF CollectedOK
<1>2. /\ kept = [s \in Runs |-> [k \in DOMAIN express_images[s] |-> express_images[s][k].relPath]]
      /\ kept' = [s \in Runs |-> [k \in DOMAIN express_images'[s] |-> express_images'[s][k].relPath]]
  BY DEF kept, Entries, Project!Entries
<1>3. ASSUME UNCHANGED express_images PROVE UNCHANGED kept /\ CollectedOK'
  BY <1>1, <1>2, <1>3 DEF CollectedOK
<1>4. CASE Project!Begin(r)
  BY <1>3, <1>4, ProjectWalk, SharedMoves DEF Project!Begin, Moves, WalkOK
<1>5. CASE Project!SkipRecord(r)
  BY <1>3, <1>5, ProjectWalk, SharedMoves DEF Project!SkipRecord, Moves, WalkOK
<1>6. CASE Project!ChooseName(r)
  <2>1. DOMAIN images \cup Reserved \subseteq Project!Taken
    BY DEF Project!Taken, Reserved
  <2> QED BY <1>3, <1>6, <2>1, ProjectWalk, SharedMoves
          DEF Project!ChooseName, Moves, WalkOK
<1>7. CASE Project!CopyImage(r)
  <2>1. Copy(r, "entry") /\ UNCHANGED express_images
    BY <1>7, ProjectWalk DEF Project!CopyImage, WalkOK
  <2> QED BY <1>3, <2>1, SharedMoves DEF Moves, EntryLabels
<1>8. CASE Project!AddImage(r)
  <2>1. /\ pc[r] = "entry" /\ NextRecord(r) /\ UNCHANGED <<db, dest, images>>
        /\ express_images' = [express_images EXCEPT ![r] =
                                Append(@, [relPath |-> dest[r], record |-> at[r]])]
    BY <1>8 DEF Project!AddImage, Project!NextRecord, NextRecord
  <2>2. dest[r] \in Filename
    BY <2>1 DEF AtImage, NamedLabels, EntryLabels, CopyLayouts
  <2>3. PICK e \in Entry : e.relPath = dest[r] /\ express_images' = [express_images EXCEPT ![r] = Append(@, e)]
    BY <2>1, <2>2 DEF WalkOK
  <2>4. express_images' \in [Runs -> Seq(Entry)]
    <3> HIDE DEF Entry
    <3> QED BY <1>1, <2>3
  <2>5. [k \in DOMAIN express_images'[r] |-> express_images'[r][k].relPath]
          = Append([k \in DOMAIN express_images[r] |-> express_images[r][k].relPath], dest[r])
    <3>1. express_images[r] \in Seq(Entry) /\ express_images'[r] = Append(express_images[r], e)
      BY <1>1, <2>3
    <3> HIDE DEF Entry
    <3> QED BY <2>3, <3>1
  <2>6. kept' = [kept EXCEPT ![r] = Append(@, dest[r])]
    BY <1>1, <1>2, <2>3, <2>5
  <2>7. Enters(r)
    BY <2>1, <2>6 DEF Enters, EntryLabels
  <2> QED BY <2>1, <2>4, <2>7 DEF Moves, CollectedOK
<1>9. CASE Project!EndOfRecords(r)
  BY <1>3, <1>9, ProjectWalk, SharedMoves
     DEF Project!EndOfRecords, Moves, WalkOK, QuietLabels
<1>10. CASE Project!OpenFile(r) \/ Project!WriteFile(r)
  BY <1>3, <1>10 DEF Project!OpenFile, Project!WriteFile, Moves, Walks, Ended,
                     QuietLabels
<1>11. CASE Project!Crash(r)
  BY <1>3, <1>11, ProjectWalk, SharedMoves DEF Project!Crash, Moves, WalkOK
<1> QED BY <1>4, <1>5, <1>6, <1>7, <1>8, <1>9, <1>10, <1>11 DEF Project!Step

\* The moves of the Create ML exporter; opening the descriptor takes no image away.
LEMMA CreateMLMoves ==
  ASSUME LibType, DescriptorApart, layout = "CreateML", UNCHANGED layout, NEW r \in Runs,
         CreateML!Begin(r) \/ CreateML!Step(r) \/ CreateML!Crash(r)
  PROVE  Moves(r) /\ CollectedOK'
<1> USE DEF LibType, CreateML!Goto, Goto
<1> DEFINE Entry == [imagefilename: Filename, annotation: LabelSets]
<1>1. imagesJson \in [Runs -> Seq(Entry)]
  BY DEF CollectedOK
<1>2. /\ kept = [s \in Runs |-> [k \in DOMAIN imagesJson[s] |-> imagesJson[s][k].imagefilename]]
      /\ kept' = [s \in Runs |-> [k \in DOMAIN imagesJson'[s] |-> imagesJson'[s][k].imagefilename]]
  BY DEF kept, Entries, CreateML!Entries
<1>3. ASSUME UNCHANGED imagesJson PROVE UNCHANGED kept /\ CollectedOK'
  BY <1>1, <1>2, <1>3 DEF CollectedOK
<1>4. CASE CreateML!Begin(r)
  <2>1. Enter(r, "record") /\ imagesJson' = [imagesJson EXCEPT ![r] = << >>]
    BY <1>4, CreateMLWalk DEF CreateML!Begin, CreateML!cleared, WalkOK
  <2>2. imagesJson[r] = << >>
    <3>1. [k \in DOMAIN imagesJson[r] |-> imagesJson[r][k].imagefilename] = << >>
      BY <1>2, <2>1 DEF Enter, Start, Unentered, kept
    <3>2. imagesJson[r] \in Seq(Entry)
      BY <1>1
    <3> HIDE DEF Entry
    <3> QED BY <3>1, <3>2
  <2>3. UNCHANGED imagesJson
    BY <1>1, <2>1, <2>2
  <2> QED BY <1>3, <2>1, <2>3, SharedMoves DEF Moves
<1>5. CASE CreateML!SkipRecord(r)
  BY <1>3, <1>5, CreateMLWalk, SharedMoves DEF CreateML!SkipRecord, Moves, WalkOK
<1>6. CASE CreateML!ChooseName(r)
  <2>1. DOMAIN images \cup Reserved \subseteq CreateML!taken
    BY DEF CreateML!taken, CreateML!Files, Reserved
  <2> QED BY <1>3, <1>6, <2>1, CreateMLWalk, SharedMoves
          DEF CreateML!ChooseName, Moves, WalkOK
<1>7. CASE CreateML!CopyImage(r)
  <2>1. Copy(r, "entry") /\ UNCHANGED imagesJson
    BY <1>7, CreateMLWalk DEF CreateML!CopyImage, WalkOK
  <2> QED BY <1>3, <2>1, SharedMoves DEF Moves, EntryLabels
<1>8. CASE CreateML!ExpressImage(r)
  <2>1. /\ pc[r] = "entry" /\ NextRecord(r) /\ UNCHANGED <<db, dest, images>>
        /\ imagesJson' = [imagesJson EXCEPT ![r] =
             Append(@, [imagefilename |-> dest[r],
                        annotation |-> CreateML!Labels(Current(r).rects)])]
    BY <1>8 DEF CreateML!ExpressImage, CreateML!NextRecord, NextRecord,
                CreateML!Current, Current
  <2>2. dest[r] \in Filename
    BY <2>1 DEF AtImage, NamedLabels, EntryLabels, CopyLayouts
  <2>a. CreateML!Labels(Current(r).rects) \in LabelSets
    <3>1. Current(r) \in Record
      BY <2>1 DEF AtImage, NamedLabels, EntryLabels, CopyLayouts, WalkOK, HasRecord,
                  Current
    <3>2. Current(r).rects \in Seq(Rectangle)
      BY <3>1 DEF Record
    <3>3. CreateML!Labels(Current(r).rects) = Labels(Current(r).rects)
      BY DEF CreateML!Labels, Labels, CreateML!Visible, Visible, CreateML!Selected,
             Selected, CreateML!FlattenSeq, FlattenSeq
    <3> QED BY <3>2, <3>3 DEF LabelSets
  <2>3. PICK e \in Entry : e.imagefilename = dest[r] /\ imagesJson' = [imagesJson EXCEPT ![r] = Append(@, e)]
    BY <2>1, <2>2, <2>a
  <2>4. imagesJson' \in [Runs -> Seq(Entry)]
    <3> HIDE DEF Entry
    <3> QED BY <1>1, <2>3
  <2>5. [k \in DOMAIN imagesJson'[r] |-> imagesJson'[r][k].imagefilename]
          = Append([k \in DOMAIN imagesJson[r] |-> imagesJson[r][k].imagefilename], dest[r])
    <3>1. imagesJson[r] \in Seq(Entry) /\ imagesJson'[r] = Append(imagesJson[r], e)
      BY <1>1, <2>3
    <3> HIDE DEF Entry
    <3> QED BY <2>3, <3>1
  <2>6. kept' = [kept EXCEPT ![r] = Append(@, dest[r])]
    BY <1>1, <1>2, <2>3, <2>5
  <2>7. Enters(r)
    BY <2>1, <2>6 DEF Enters, EntryLabels
  <2> QED BY <2>1, <2>4, <2>7 DEF Moves, CollectedOK
<1>9. CASE CreateML!EndOfRecords(r)
  BY <1>3, <1>9, CreateMLWalk, SharedMoves
     DEF CreateML!EndOfRecords, Moves, WalkOK, QuietLabels
<1>10. CASE CreateML!OpenAnnotationsJson(r) \/ CreateML!WriteAnnotationsJson(r)
  <2>1. UNCHANGED images
    BY <1>10 DEF CreateML!OpenAnnotationsJson, CreateML!WriteAnnotationsJson, LibType,
                 CopiesOK, DescriptorApart, Reserved, CopyLayouts
  <2> QED BY <1>3, <1>10, <2>1 DEF CreateML!OpenAnnotationsJson,
             CreateML!WriteAnnotationsJson, Moves, Walks, Ended, QuietLabels
<1>11. CASE CreateML!Crash(r)
  BY <1>3, <1>11, CreateMLWalk, SharedMoves DEF CreateML!Crash, Moves, WalkOK
<1> QED BY <1>4, <1>5, <1>6, <1>7, <1>8, <1>9, <1>10, <1>11 DEF CreateML!Step

\* The moves of the Ultralytics exporters, which enter copies into nothing.
LEMMA UltralyticsMoves ==
  ASSUME LibType, layout = "Ultralytics", UNCHANGED layout, NEW r \in Runs,
         Ultralytics!Begin(r) \/ Ultralytics!Step(r) \/ Ultralytics!Crash(r)
  PROVE  Moves(r) /\ CollectedOK'
<1> USE DEF LibType, Ultralytics!Goto, Goto
<1>1. UNCHANGED kept /\ CollectedOK'
  BY DEF kept, Entries, CollectedOK
<1>2. DOMAIN images \cup Reserved \subseteq Ultralytics!Taken
  BY DEF Ultralytics!Taken, Reserved
<1>3. CASE Ultralytics!Begin(r)
  BY <1>1, <1>3, UltralyticsWalk, SharedMoves DEF Ultralytics!Begin, Moves, WalkOK
<1>4. CASE Ultralytics!OpenDataYaml(r) \/ Ultralytics!ExpressDataYaml(r)
  BY <1>1, <1>4 DEF Ultralytics!OpenDataYaml, Ultralytics!ExpressDataYaml, Moves, Walks,
                    Ended, QuietLabels
<1>5. CASE Ultralytics!SkipRecord(r)
  BY <1>1, <1>5, UltralyticsWalk, SharedMoves DEF Ultralytics!SkipRecord, Moves, WalkOK
<1>6. CASE Ultralytics!ChooseName(r)
  BY <1>1, <1>2, <1>6, UltralyticsWalk, SharedMoves
     DEF Ultralytics!ChooseName, Moves, WalkOK
<1>7. CASE Ultralytics!CopyImage(r)
  <2>1. Copy(r, "label")
    BY <1>7, UltralyticsWalk DEF Ultralytics!CopyImage, WalkOK
  <2> QED BY <1>1, <2>1, SharedMoves DEF Moves, EntryLabels
<1>8. CASE Ultralytics!ExpressImageAnnotations(r)
  BY <1>1, <1>8 DEF Ultralytics!ExpressImageAnnotations, Ultralytics!NextRecord, Moves,
                    Walks, Ended, QuietLabels
<1>9. CASE Ultralytics!EndOfRecords(r)
  BY <1>1, <1>9, UltralyticsWalk, SharedMoves
     DEF Ultralytics!EndOfRecords, Moves, WalkOK, QuietLabels
<1>10. CASE Ultralytics!Crash(r)
  BY <1>1, <1>10, UltralyticsWalk, SharedMoves DEF Ultralytics!Crash, Moves, WalkOK
<1> QED BY <1>3, <1>4, <1>5, <1>6, <1>7, <1>8, <1>9, <1>10 DEF Ultralytics!Step

-----------------------------------------------------------------------------
(* The other layouts, and the steps of all of them *)

\* An export that copies no images goes on.
Passes(r) ==
  /\ ~Ended(r)
  /\ \E l \in PcLabels \ {"idle"} : Goto(r, l) /\ (pc[r] = "idle" => l # "done")
  /\ \/ UNCHANGED db
     \/ pc[r] = "idle" /\ \E records \in DBs : db' = [db EXCEPT ![r] = records]
  /\ pc[r] = "idle" /\ layout # "unknown" =>
       \A q \in 1..(r - 1) : pc[q] # "idle" /\ (Concurrent \/ Ended(q))
  /\ UNCHANGED at \/ at' = [at EXCEPT ![r] = @ + 1]
  /\ UNCHANGED dest \/ \E n : dest' = [dest EXCEPT ![r] = n]
  /\ UNCHANGED <<images, kept>>

LEMMA PyTorchPasses ==
  ASSUME WalkOK, layout = "PyTorch", UNCHANGED <<layout, images>>, NEW r \in Runs,
         PyTorch!Begin(r) \/ PyTorch!Step(r) \/ PyTorch!Crash(r)
  PROVE  Passes(r)
<1> USE DEF PyTorch!Goto, Goto, Passes, PcLabels, QuietLabels, Ended
<1>1. UNCHANGED kept
  BY DEF kept, Entries
<1>2. PyTorch!NextRecord(r) /\ pc[r] # "idle" /\ ~Ended(r) /\ UNCHANGED <<db, dest>>
        => Passes(r)
  BY <1>1 DEF PyTorch!NextRecord
<1>3. PyTorch!NextRect(r) /\ pc[r] # "idle" /\ ~Ended(r) /\ UNCHANGED <<db, at, dest>>
        => Passes(r)
  BY <1>1 DEF PyTorch!NextRect
<1>4. CASE PyTorch!Begin(r)
  BY <1>1, <1>4, DatabasesAssumption DEF PyTorch!Begin, PyTorch!Start, PyTorch!Ended, WalkOK
<1>5. CASE PyTorch!LoadImage(r) \/ PyTorch!LastRect(r)
  BY <1>1, <1>2, <1>5 DEF PyTorch!LoadImage, PyTorch!LastRect
<1>6. CASE PyTorch!SkipRect(r) \/ PyTorch!FindDirectory(r) \/ PyTorch!CreateDirectory(r)
  BY <1>1, <1>3, <1>6
     DEF PyTorch!SkipRect, PyTorch!FindDirectory, PyTorch!CreateDirectory
<1>7. CASE PyTorch!Crop(r)
  <2>1. CASE PyTorch!NextRect(r) /\ UNCHANGED dest
    BY <1>3, <1>7, <2>1 DEF PyTorch!Crop
  <2>2. CASE /\ \E n : dest' = [dest EXCEPT ![r] = n]
             /\ Goto(r, "write")
    BY <1>1, <1>7, <2>2 DEF PyTorch!Crop
  <2> QED BY <1>7, <2>1, <2>2 DEF PyTorch!Crop
<1>8. CASE PyTorch!WriteCrop(r)
  BY <1>3, <1>8 DEF PyTorch!WriteCrop
<1>9. CASE PyTorch!LastRecord(r) \/ PyTorch!Crash(r)
  BY <1>1, <1>9 DEF PyTorch!LastRecord, PyTorch!EndWalk, PyTorch!Crash, PyTorch!Kill,
                    PyTorch!HasBegun, PyTorch!Ended
<1> QED BY <1>4, <1>5, <1>6, <1>7, <1>8, <1>9 DEF PyTorch!Step

LEMMA PlainTxtPasses ==
  ASSUME WalkOK, layout = "PlainTxt", UNCHANGED <<layout, dest, images>>, NEW r \in Runs,
         PlainTxt!Begin(r) \/ PlainTxt!Step(r) \/ PlainTxt!Crash(r)
  PROVE  Passes(r)
<1> USE DEF PlainTxt!Goto, Goto, Passes, PcLabels, QuietLabels, Ended
<1>1. UNCHANGED kept
  BY DEF kept, Entries
<1>2. PlainTxt!NextRecord(r) /\ pc[r] # "idle" /\ ~Ended(r) /\ UNCHANGED db => Passes(r)
  BY <1>1 DEF PlainTxt!NextRecord
<1>3. CASE PlainTxt!Begin(r)
  BY <1>1, <1>3, DatabasesAssumption DEF PlainTxt!Begin, PlainTxt!Start, PlainTxt!Ended,
      WalkOK
<1>4. CASE PlainTxt!SkipRecord(r) \/ PlainTxt!ExportIr(r) \/ PlainTxt!LastName(r)
  BY <1>1, <1>2, <1>4 DEF PlainTxt!SkipRecord, PlainTxt!ExportIr, PlainTxt!LastName
<1>5. CASE PlainTxt!WriteIrData(r)
  <2>1. pc[r] = "write" /\ UNCHANGED <<pc, db, at>>
    BY <1>5 DEF PlainTxt!WriteIrData
  <2>2. Goto(r, "write")
    BY <2>1 DEF WalkOK
  <2> QED BY <1>1, <2>1, <2>2
<1>6. CASE PlainTxt!LastRecord(r) \/ PlainTxt!Crash(r)
  BY <1>1, <1>6 DEF PlainTxt!LastRecord, PlainTxt!EndWalk, PlainTxt!Crash, PlainTxt!Kill,
                    PlainTxt!HasBegun, PlainTxt!Ended
<1> QED BY <1>3, <1>4, <1>5, <1>6 DEF PlainTxt!Step

\* A step of one export, of whatever layout.
LEMMA RunSteps ==
  ASSUME LibType, DescriptorApart, UNCHANGED layout, NEW r \in Runs,
         export_db(r) \/ NoExporter(r)
  PROVE  /\ CollectedOK'
         /\ \/ layout \in CopyLayouts /\ Moves(r)
            \/ layout \notin CopyLayouts /\ Passes(r)
<1>1. CASE layout \in CopyLayouts
  BY <1>1, PascalVocMoves, UltralyticsMoves, CocoMoves, CreateMLMoves, ProjectMoves
     DEF export_db, NoExporter, CopyLayouts
<1>2. CASE layout \notin CopyLayouts
  <2>1. CollectedOK'
    BY <1>2 DEF CollectedOK, CopyLayouts
  <2>2. CASE export_db(r)
    BY <1>2, <2>1, <2>2, PyTorchPasses, PlainTxtPasses
       DEF export_db, CopyLayouts, LibType, copying
  <2>3. CASE NoExporter(r)
    <3>1. UNCHANGED kept
      BY <2>3 DEF NoExporter, kept, Entries
    <3> QED BY <1>2, <2>1, <2>3, <3>1
            DEF NoExporter, Passes, copying, Ended, PcLabels, QuietLabels
  <2> QED BY <2>2, <2>3
<1> QED BY <1>1, <1>2

LEMMA IdleSteps ==
  ASSUME LibType, UNCHANGED vars
  PROVE  /\ CollectedOK' /\ UNCHANGED <<walk, copying, kept, PublishedEntries>>
         /\ UNCHANGED <<sets, instances, document, project>>
BY Zenon DEF vars, walk, copying, pascalVoc, coco, darknetxx, kept, Entries, Coco!Entries,
   CreateML!Entries, Project!Entries, CollectedOK, LibType, PublishedEntries,
   Coco!IsWritten, CreateML!IsWritten, Project!IsWritten

\* A step of the library: a move of a copying exporter, a pass of another one or
\* nothing of what they share.
LEMMA LibrarySteps ==
  ASSUME LibType, DescriptorApart, [Next]_vars
  PROVE  /\ UNCHANGED layout /\ CollectedOK'
         /\ \/ layout \in CopyLayouts /\ \E r \in Runs : Moves(r)
            \/ layout \notin CopyLayouts /\ \E r \in Runs : Passes(r)
            \/ UNCHANGED <<walk, copying, kept>>
<1>1. UNCHANGED layout
  BY DEF Next, perform_export, Finished, vars, walk
<1>2. CASE UNCHANGED vars
  BY <1>1, <1>2, IdleSteps
<1>3. ASSUME NEW r \in Runs, export_db(r) \/ NoExporter(r)
      PROVE  /\ CollectedOK'
             /\ \/ layout \in CopyLayouts /\ Moves(r)
                \/ layout \notin CopyLayouts /\ Passes(r)
  BY <1>1, <1>3, RunSteps
<1> QED BY <1>1, <1>2, <1>3 DEF Next, perform_export, Finished

-----------------------------------------------------------------------------
(* The invariant of the copies and of the entries *)

\* What an export is about to enter is a complete copy of its current image,
\* which nobody has entered, and no other export is about to.
Claims ==
  \A r \in Runs : pc[r] \in EntryLabels =>
    /\ dest[r] \in DOMAIN images
    /\ images[dest[r]] = Copied(Current(r).img, TRUE)
    /\ \A s \in Runs : \A k \in DOMAIN kept[s] : kept[s][k] # dest[r]
    /\ \A s \in Runs \ {r} : pc[s] \in EntryLabels => dest[s] # dest[r]

EntriesWhole ==
  \A r \in Runs : \A k \in DOMAIN kept[r] :
    kept[r][k] \in DOMAIN images /\ images[kept[r][k]].whole

EntriesApart ==
  \A r, s \in Runs : \A j \in DOMAIN kept[r], k \in DOMAIN kept[s] :
    kept[r][j] = kept[s][k] => r = s /\ j = k

LibInv ==
  /\ LibType /\ DescriptorApart
  /\ layout \in CopyLayouts => Claims /\ EntriesWhole /\ EntriesApart

\* The entries are sequences of names; where nothing is copied there are none.
LEMMA KeptType ==
  ASSUME LibType
  PROVE  /\ kept \in [Runs -> Seq(Filename)]
         /\ layout \notin CopyLayouts => kept = [r \in Runs |-> << >>]
<1>1. CASE layout = "PascalVOC"
  BY <1>1 DEF LibType, CollectedOK, kept, Entries, CopyLayouts
<1>2. CASE layout = "COCO"
  <2> DEFINE Entry == [id: Nat, file_name: Filename]
  <2>1. imagesJson \in [Runs -> Seq(Entry)] /\ \A e \in Entry : e.file_name \in Filename
    BY <1>2 DEF LibType, CollectedOK
  <2>2. \A r \in Runs : kept[r] = [k \in DOMAIN imagesJson[r] |-> imagesJson[r][k].file_name]
    BY <1>2 DEF kept, Entries, Coco!Entries
  <2>3. kept = [r \in Runs |-> kept[r]]
    BY DEF kept
  <2> HIDE DEF Entry
  <2> QED BY <1>2, <2>1, <2>2, <2>3 DEF CopyLayouts
<1>3. CASE layout = "CreateML"
  <2> DEFINE Entry == [imagefilename: Filename, annotation: LabelSets]
  <2>1. imagesJson \in [Runs -> Seq(Entry)] /\ \A e \in Entry : e.imagefilename \in Filename
    BY <1>3 DEF LibType, CollectedOK
  <2>2. \A r \in Runs :
          kept[r] = [k \in DOMAIN imagesJson[r] |-> imagesJson[r][k].imagefilename]
    BY <1>3 DEF kept, Entries, CreateML!Entries
  <2>3. kept = [r \in Runs |-> kept[r]]
    BY DEF kept
  <2> HIDE DEF Entry
  <2> QED BY <1>3, <2>1, <2>2, <2>3 DEF CopyLayouts
<1>4. CASE layout = "Project"
  <2> DEFINE Entry == [relPath: Filename, record: Nat]
  <2>1. express_images \in [Runs -> Seq(Entry)] /\ \A e \in Entry : e.relPath \in Filename
    BY <1>4 DEF LibType, CollectedOK
  <2>2. \A r \in Runs :
          kept[r] = [k \in DOMAIN express_images[r] |-> express_images[r][k].relPath]
    BY <1>4 DEF kept, Entries, Project!Entries
  <2>3. kept = [r \in Runs |-> kept[r]]
    BY DEF kept
  <2> HIDE DEF Entry
  <2> QED BY <1>4, <2>1, <2>2, <2>3 DEF CopyLayouts
<1>5. CASE layout \notin {"PascalVOC", "COCO", "CreateML", "Project"}
  <2>1. kept = [r \in Runs |-> << >>]
    BY <1>5 DEF kept, Entries
  <2> QED BY <1>5, <2>1
<1> QED BY <1>1, <1>2, <1>3, <1>4, <1>5 DEF CopyLayouts

\* What a move leaves as it is: the other runs, and the types of its own.
LEMMA MovesKeepWalk ==
  ASSUME LibType, UNCHANGED layout, NEW r \in Runs, Moves(r) \/ Passes(r)
  PROVE  /\ WalkOK'
         /\ \A s \in Runs \ {r} :
              /\ pc'[s] = pc[s] /\ db'[s] = db[s] /\ at'[s] = at[s]
              /\ dest'[s] = dest[s] /\ kept'[s] = kept[s]
         /\ pc'[r] # "idle"
<1> USE DEF LibType, WalkOK
<1>1. PICK l \in PcLabels \ {"idle"} : pc' = [pc EXCEPT ![r] = l]
  BY DEF Moves, Begins, Walks, Chooses, ChoosesOutside, Copies, Enters, Passes, Goto,
         NextRecord, PcLabels, QuietLabels, NamedLabels, EntryLabels
<1>2. UNCHANGED at \/ at' = [at EXCEPT ![r] = @ + 1]
  BY DEF Moves, Begins, Walks, Chooses, ChoosesOutside, Copies, Enters, Passes,
         NextRecord
<1>3. UNCHANGED db \/ \E records \in DBs : db' = [db EXCEPT ![r] = records]
  BY DEF Moves, Begins, Walks, Chooses, ChoosesOutside, Copies, Enters, Passes
<1>4. UNCHANGED dest \/ \E n : dest' = [dest EXCEPT ![r] = n]
  BY DEF Moves, Begins, Walks, Chooses, ChoosesOutside, Copies, Enters, Passes
<1>5. UNCHANGED kept \/ \E n : kept' = [kept EXCEPT ![r] = Append(@, n)]
  BY DEF Moves, Begins, Walks, Chooses, ChoosesOutside, Copies, Enters, Passes
<1>6. pc' \in [Runs -> PcLabels] /\ pc'[r] # "idle" /\ \A s \in Runs \ {r} : pc'[s] = pc[s]
  BY <1>1
<1>7. at' \in [Runs -> Nat] /\ \A s \in Runs \ {r} : at'[s] = at[s]
  BY <1>2
<1>8. db' \in [Runs -> Seq(Record)] /\ \A s \in Runs \ {r} : db'[s] = db[s]
  BY <1>3, DBAssumption
<1>9. dest' = [s \in Runs |-> dest'[s]] /\ \A s \in Runs \ {r} : dest'[s] = dest[s]
  <2>1. CASE UNCHANGED dest
    BY <2>1
  <2>2. ASSUME NEW n, dest' = [dest EXCEPT ![r] = n]
        PROVE  dest' = [s \in Runs |-> dest'[s]] /\ \A s \in Runs \ {r} : dest'[s] = dest[s]
    BY <2>2
  <2> QED BY <1>4, <2>1, <2>2
<1>10. \A s \in Runs \ {r} : kept'[s] = kept[s]
  <2>1. kept = [s \in Runs |-> kept[s]]
    BY DEF kept
  <2> QED BY <1>5, <2>1
<1> QED BY <1>6, <1>7, <1>8, <1>9, <1>10

\* The name chosen for an image is a file name outside of those it was kept from.
LEMMA ChosenNames ==
  ASSUME WalkOK, NEW r \in Runs, NEW S, ChoosesOutside(r, S)
  PROVE  /\ dest'[r] \in Filename \ S
         /\ dest' = [dest EXCEPT ![r] = dest'[r]]
         /\ Current(r) \in Record /\ Current(r)' = Current(r) /\ HasRecord(r)'
<1>1. Current(r) \in Record
  BY DEF ChoosesOutside, HasRecord, Current, WalkOK
<1>2. SourceName[Current(r).img] \in Filename
  BY <1>1, NameAssumption DEF Record
<1>3. PICK k \in Nat : LET n == Candidate(SourceName[Current(r).img], k)
                       IN  n \notin S /\ dest' = [dest EXCEPT ![r] = n]
  BY DEF ChoosesOutside
<1>4. dest'[r] \in Filename \ S /\ dest' = [dest EXCEPT ![r] = dest'[r]]
  BY <1>2, <1>3, CandidatesAreNames DEF WalkOK
<1>5. Current(r)' = Current(r) /\ HasRecord(r)'
  BY DEF ChoosesOutside, Current, HasRecord
<1> QED BY <1>1, <1>4, <1>5

\* What the invariant says of the copying layouts beside the types of the walk.
CopyInv ==
  /\ AtImage /\ CopiesOK /\ Unentered /\ DescriptorApart
  /\ Claims /\ EntriesWhole /\ EntriesApart

\* The parts of the invariant where images are copied.
LEMMA LibParts ==
  ASSUME LibInv, layout \in CopyLayouts
  PROVE  /\ WalkOK /\ LibType
         /\ AtImage /\ CopiesOK /\ Unentered /\ DescriptorApart
         /\ Claims /\ EntriesWhole /\ EntriesApart
BY DEF LibInv, LibType

LEMMA ClaimOf ==
  ASSUME Claims, NEW s \in Runs, pc[s] \in EntryLabels
  PROVE  /\ dest[s] \in DOMAIN images /\ images[dest[s]].whole
         /\ images[dest[s]] = Copied(Current(s).img, TRUE)
         /\ \A q \in Runs : \A k \in DOMAIN kept[q] : kept[q][k] # dest[s]
         /\ \A q \in Runs \ {s} : pc[q] \in EntryLabels => dest[q] # dest[s]
<1>1. images[dest[s]] = Copied(Current(s).img, TRUE)
  BY DEF Claims
<1>2. images[dest[s]].whole
  BY <1>1 DEF Copied
<1> QED BY <1>1, <1>2 DEF Claims

LEMMA SameReserved == UNCHANGED layout => UNCHANGED Reserved
BY DEF Reserved, CreateML!annotationsRel, CreateML!Own

\* A move that neither names nor copies an image nor makes an entry.
LEMMA QuietInv ==
  ASSUME LibInv, layout \in CopyLayouts, UNCHANGED <<layout, dest, images, kept>>,
         NEW r \in Runs, Moves(r), pc'[r] \notin NamedLabels
  PROVE  CopyInv'
<1>0. /\ WalkOK /\ LibType
      /\ AtImage /\ CopiesOK /\ Unentered /\ DescriptorApart
      /\ Claims /\ EntriesWhole /\ EntriesApart
  BY LibParts
<1>1. \A s \in Runs : pc'[s] \in NamedLabels =>
        s # r /\ pc'[s] = pc[s] /\ Current(s)' = Current(s) /\ HasRecord(s)' = HasRecord(s)
  BY <1>0, MovesKeepWalk DEF Current, HasRecord
<1>2. EntryLabels \subseteq NamedLabels /\ "copy" \in NamedLabels
  BY <1>0 DEF NamedLabels
<1>3. AtImage'
  BY <1>0, <1>1 DEF AtImage, Exportable
<1>4. CopiesOK'
  BY <1>0 DEF CopiesOK
<1>5. Unentered'
  <2>1. \A s \in Runs : pc'[s] = "idle" => pc[s] = "idle"
    BY <1>0, MovesKeepWalk
  <2>2. \A s \in Runs : Entries(s)' = Entries(s)
    BY <1>0 DEF kept
  <2> QED BY <1>0, <2>1, <2>2 DEF Unentered
<1>6. DescriptorApart'
  BY <1>0, <1>1, <1>2, SameReserved DEF DescriptorApart
<1>7. Claims'
  <2>1. ASSUME NEW s \in Runs, pc'[s] \in EntryLabels
        PROVE  /\ dest'[s] \in DOMAIN images'
               /\ images'[dest'[s]] = Copied(Current(s)'.img, TRUE)
               /\ \A q \in Runs : \A k \in DOMAIN kept'[q] : kept'[q][k] # dest'[s]
               /\ \A q \in Runs \ {s} : pc'[q] \in EntryLabels => dest'[q] # dest'[s]
    BY <1>0, <1>1, <1>2, <2>1 DEF Claims
  <2> QED BY <2>1 DEF Claims, Copied
<1>8. EntriesWhole' /\ EntriesApart'
  BY <1>0 DEF EntriesWhole, EntriesApart
<1> QED BY <1>0, <1>3, <1>4, <1>5, <1>6, <1>7, <1>8 DEF CopyInv

LEMMA ChoosesInv ==
  ASSUME LibInv, layout \in CopyLayouts, UNCHANGED layout, NEW r \in Runs, Chooses(r)
  PROVE  CopyInv'
<1>0. /\ WalkOK /\ LibType
      /\ AtImage /\ CopiesOK /\ Unentered /\ DescriptorApart
      /\ Claims /\ EntriesWhole /\ EntriesApart
  BY LibParts
<1>1. /\ pc'[r] = "copy" /\ UNCHANGED <<db, at, images, kept>>
      /\ Exportable(Current(r))
  BY <1>0 DEF Chooses, ChoosesOutside, Goto, WalkOK
<1>2. /\ dest'[r] \in Filename \ (DOMAIN images \cup Reserved)
      /\ Current(r)' = Current(r) /\ HasRecord(r)'
  BY <1>0, ChosenNames DEF Chooses
<1>3. \A s \in Runs \ {r} : /\ pc'[s] = pc[s] /\ dest'[s] = dest[s]
                            /\ Current(s)' = Current(s) /\ HasRecord(s)' = HasRecord(s)
  BY <1>0, MovesKeepWalk DEF Moves, Current, HasRecord
<1>4. "copy" \notin EntryLabels /\ "copy" # "idle"
  BY <1>0 DEF EntryLabels
<1>5. AtImage'
  BY <1>0, <1>1, <1>2, <1>3 DEF AtImage, Exportable
<1>6. CopiesOK'
  BY <1>0, <1>1 DEF CopiesOK
<1>7. Unentered'
  <2>1. \A s \in Runs : pc'[s] = "idle" => pc[s] = "idle"
    BY <1>0, <1>1, <1>3, <1>4
  <2>2. \A s \in Runs : Entries(s)' = Entries(s)
    BY <1>0, <1>1 DEF kept
  <2> QED BY <1>0, <2>1, <2>2 DEF Unentered
<1>8. DescriptorApart'
  BY <1>0, <1>1, <1>2, <1>3, SameReserved DEF DescriptorApart
<1>9. Claims'
  <2>1. ASSUME NEW s \in Runs, pc'[s] \in EntryLabels
        PROVE  /\ dest'[s] \in DOMAIN images'
               /\ images'[dest'[s]] = Copied(Current(s)'.img, TRUE)
               /\ \A q \in Runs : \A k \in DOMAIN kept'[q] : kept'[q][k] # dest'[s]
               /\ \A q \in Runs \ {s} : pc'[q] \in EntryLabels => dest'[q] # dest'[s]
    <3>1. s # r /\ pc[s] \in EntryLabels /\ dest'[s] = dest[s]
      BY <1>1, <1>3, <1>4, <2>1
    <3>2. \A q \in Runs \ {s} : pc'[q] \in EntryLabels =>
            pc[q] \in EntryLabels /\ dest'[q] = dest[q]
      BY <1>1, <1>3, <1>4
    <3>3. /\ dest[s] \in DOMAIN images /\ images[dest[s]] = Copied(Current(s).img, TRUE)
          /\ \A q \in Runs : \A k \in DOMAIN kept[q] : kept[q][k] # dest[s]
          /\ \A q \in Runs \ {s} : pc[q] \in EntryLabels => dest[q] # dest[s]
      BY <1>0, <3>1, ClaimOf
    <3> QED BY <1>1, <1>3, <3>1, <3>2, <3>3
  <2> QED BY <2>1 DEF Claims, Copied
<1>10. EntriesWhole' /\ EntriesApart'
  BY <1>0, <1>1 DEF EntriesWhole, EntriesApart
<1> QED BY <1>0, <1>5, <1>6, <1>7, <1>8, <1>9, <1>10 DEF CopyInv

\* The copy, complete or not, gets a name no image had, and no entry.
LEMMA CopiesInv ==
  ASSUME LibInv, layout \in CopyLayouts, UNCHANGED layout, NEW r \in Runs, Copies(r)
  PROVE  CopyInv'
<1>0. /\ WalkOK /\ LibType
      /\ AtImage /\ CopiesOK /\ Unentered /\ DescriptorApart
      /\ Claims /\ EntriesWhole /\ EntriesApart
  BY LibParts
<1> DEFINE d == dest[r]
<1>1. /\ pc[r] = "copy" /\ d \notin DOMAIN images /\ UNCHANGED <<db, dest, kept>>
      /\ \/ /\ images' = Put(images, d, Copied(Current(r).img, TRUE))
            /\ pc'[r] \in EntryLabels /\ UNCHANGED at
         \/ /\ images' = Put(images, d, Copied(Current(r).img, FALSE))
            /\ pc'[r] = "record"
  BY <1>0 DEF Copies, Goto, NextRecord, WalkOK
<1>2. PICK w \in BOOLEAN : images' = Put(images, d, Copied(Current(r).img, w))
  BY <1>0, <1>1
<1>3. /\ DOMAIN images' = DOMAIN images \cup {d}
      /\ images'[d] = Copied(Current(r).img, w)
      /\ \A n \in DOMAIN images : images'[n] = images[n]
  BY <1>0, <1>1, <1>2 DEF Put
<1>4. \A s \in Runs \ {r} : /\ pc'[s] = pc[s] /\ dest'[s] = dest[s]
                            /\ Current(s)' = Current(s) /\ HasRecord(s)' = HasRecord(s)
  BY <1>0, MovesKeepWalk DEF Moves, Current, HasRecord
<1>5. d \in Filename /\ HasRecord(r) /\ Exportable(Current(r)) /\ d \notin Reserved
  BY <1>0, <1>1 DEF AtImage, NamedLabels, DescriptorApart
<1>6. Current(r) \in Record
  BY <1>0, <1>5 DEF HasRecord, Current, WalkOK
<1>7. pc'[r] \in EntryLabels =>
        Current(r)' = Current(r) /\ HasRecord(r)' /\ images'[d] = Copied(Current(r).img, TRUE)
  <2>1. "record" \notin EntryLabels
    BY <1>0 DEF EntryLabels
  <2> QED BY <1>0, <1>1, <1>3, <1>5, <2>1 DEF Current, HasRecord, Put
<1>8. pc'[r] \in EntryLabels \cup {"record"} /\ "record" \notin NamedLabels
      /\ "copy" \notin EntryLabels /\ "idle" \notin EntryLabels
  BY <1>0, <1>1 DEF NamedLabels, EntryLabels
<1>9. AtImage'
  BY <1>0, <1>1, <1>4, <1>5, <1>7, <1>8 DEF AtImage, Exportable
<1>10. CopiesOK'
  <2>1. Copied(Current(r).img, w) \in [of: Images, whole: BOOLEAN]
    BY <1>0, <1>6 DEF Copied, Record
  <2>2. images' = [n \in DOMAIN images' |-> images'[n]]
    BY <1>0, <1>2 DEF Put
  <2> QED BY <1>0, <1>3, <2>1, <2>2 DEF CopiesOK, CopyLayouts
<1>11. Unentered'
  <2>1. \A s \in Runs : pc'[s] = "idle" => pc[s] = "idle"
    BY <1>0, <1>4, <1>8
  <2>2. \A s \in Runs : Entries(s)' = Entries(s)
    BY <1>0, <1>1 DEF kept
  <2> QED BY <1>0, <2>1, <2>2 DEF Unentered
<1>12. DescriptorApart'
  BY <1>0, <1>3, <1>4, <1>5, <1>8, SameReserved DEF DescriptorApart
<1>13. \A q \in Runs : \A k \in DOMAIN kept[q] : kept[q][k] # d
  BY <1>0, <1>1 DEF EntriesWhole
<1>14. Claims'
  <2>1. ASSUME NEW s \in Runs, pc'[s] \in EntryLabels
        PROVE  /\ dest'[s] \in DOMAIN images'
               /\ images'[dest'[s]] = Copied(Current(s)'.img, TRUE)
               /\ \A q \in Runs : \A k \in DOMAIN kept'[q] : kept'[q][k] # dest'[s]
               /\ \A q \in Runs \ {s} : pc'[q] \in EntryLabels => dest'[q] # dest'[s]
    <3>1. CASE s = r
      <4>1. \A q \in Runs \ {r} : pc'[q] \in EntryLabels => dest[q] \in DOMAIN images
        BY <1>0, <1>4 DEF Claims
      <4> QED BY <1>0, <1>1, <1>3, <1>7, <1>13, <2>1, <3>1, <4>1
    <3>2. CASE s # r
      <4>1. dest[s] \in DOMAIN images /\ dest[s] # d
        BY <1>0, <1>1, <1>4, <2>1, <3>2 DEF Claims
      <4> QED BY <1>0, <1>1, <1>3, <1>4, <2>1, <3>2, <4>1 DEF Claims
    <3> QED BY <1>0, <3>1, <3>2
  <2> QED BY <2>1 DEF Claims, Copied
<1>15. EntriesWhole' /\ EntriesApart'
  BY <1>0, <1>1, <1>3 DEF EntriesWhole, EntriesApart
<1> QED BY <1>0, <1>9, <1>10, <1>11, <1>12, <1>14, <1>15 DEF CopyInv

\* The entry is of the copy the run has claimed, which is nobody else's.
LEMMA EntersInv ==
  ASSUME LibInv, layout \in CopyLayouts, UNCHANGED layout, NEW r \in Runs, Enters(r)
  PROVE  CopyInv'
<1>0. /\ WalkOK /\ LibType
      /\ AtImage /\ CopiesOK /\ Unentered /\ DescriptorApart
      /\ Claims /\ EntriesWhole /\ EntriesApart
  BY LibParts
<1> DEFINE d == dest[r]
<1>1. /\ pc[r] \in EntryLabels /\ pc'[r] = "record" /\ UNCHANGED <<db, dest, images>>
      /\ kept' = [kept EXCEPT ![r] = Append(@, d)]
  BY <1>0 DEF Enters, Goto, NextRecord, WalkOK
<1>2. \A s \in Runs \ {r} : /\ pc'[s] = pc[s] /\ kept'[s] = kept[s]
                            /\ Current(s)' = Current(s) /\ HasRecord(s)' = HasRecord(s)
  BY <1>0, MovesKeepWalk DEF Moves, Current, HasRecord
<1>3. "record" \notin NamedLabels /\ EntryLabels \subseteq NamedLabels
      /\ "idle" \notin EntryLabels /\ "copy" \in NamedLabels
  BY <1>0 DEF NamedLabels, EntryLabels
<1>4. /\ kept[r] \in Seq(Filename) /\ d \in Filename
      /\ kept'[r] = Append(kept[r], d)
  BY <1>0, <1>1, <1>3, KeptType DEF AtImage
<1>5. /\ DOMAIN kept'[r] = DOMAIN kept[r] \cup {Len(kept[r]) + 1}
      /\ Len(kept[r]) + 1 \notin DOMAIN kept[r]
      /\ kept'[r][Len(kept[r]) + 1] = d
      /\ \A k \in DOMAIN kept[r] : kept'[r][k] = kept[r][k]
  BY <1>0, <1>4
<1>6. /\ d \in DOMAIN images /\ images[d].whole
      /\ \A q \in Runs : \A k \in DOMAIN kept[q] : kept[q][k] # d
      /\ \A q \in Runs \ {r} : pc[q] \in EntryLabels => dest[q] # d
  BY <1>0, <1>1, ClaimOf
<1>7. AtImage'
  BY <1>0, <1>1, <1>2, <1>3 DEF AtImage, Exportable
<1>8. CopiesOK'
  BY <1>0, <1>1 DEF CopiesOK
<1>9. Unentered'
  <2>1. \A s \in Runs : pc'[s] = "idle" => s # r /\ pc[s] = "idle"
    BY <1>0, <1>1, <1>2
  <2>2. \A s \in Runs \ {r} : Entries(s)' = Entries(s)
    BY <1>0, <1>2 DEF kept
  <2> QED BY <1>0, <2>1, <2>2 DEF Unentered
<1>10. DescriptorApart'
  BY <1>0, <1>1, <1>2, <1>3, SameReserved DEF DescriptorApart
<1>11. Claims'
  <2>1. ASSUME NEW s \in Runs, pc'[s] \in EntryLabels
        PROVE  /\ dest'[s] \in DOMAIN images'
               /\ images'[dest'[s]] = Copied(Current(s)'.img, TRUE)
               /\ \A q \in Runs : \A k \in DOMAIN kept'[q] : kept'[q][k] # dest'[s]
               /\ \A q \in Runs \ {s} : pc'[q] \in EntryLabels => dest'[q] # dest'[s]
    <3>1. s # r /\ pc[s] \in EntryLabels /\ dest[s] # d
      BY <1>0, <1>1, <1>2, <1>3, <1>6, <2>1
    <3>a. /\ dest[s] \in DOMAIN images /\ images[dest[s]] = Copied(Current(s).img, TRUE)
          /\ \A q \in Runs : \A k \in DOMAIN kept[q] : kept[q][k] # dest[s]
          /\ \A q \in Runs \ {s} : pc[q] \in EntryLabels => dest[q] # dest[s]
      BY <1>0, <3>1, ClaimOf
    <3>2. \A q \in Runs : \A k \in DOMAIN kept'[q] : kept'[q][k] # dest[s]
      BY <1>2, <1>5, <3>1, <3>a
    <3>3. \A q \in Runs \ {s} : pc'[q] \in EntryLabels => q # r
      BY <1>0, <1>1, <1>3
    <3>4. UNCHANGED <<dest, images>> /\ Current(s)' = Current(s)
      BY <1>1, <1>2, <3>1
    <3>5. \A q \in Runs \ {s} : pc'[q] \in EntryLabels => dest[q] # dest[s]
      BY <1>2, <3>3, <3>a
    <3> QED BY <3>2, <3>4, <3>5, <3>a
  <2> QED BY <2>1 DEF Claims, Copied
<1>12. EntriesWhole'
  BY <1>0, <1>1, <1>2, <1>5, <1>6 DEF EntriesWhole
<1>13. EntriesApart'
  <2>1. ASSUME NEW s \in Runs, NEW q \in Runs, NEW j \in DOMAIN kept'[s],
               NEW k \in DOMAIN kept'[q], kept'[s][j] = kept'[q][k]
        PROVE  s = q /\ j = k
    BY <1>0, <1>2, <1>5, <1>6, <2>1 DEF EntriesApart
  <2> QED BY <2>1 DEF EntriesApart
<1> QED BY <1>0, <1>7, <1>8, <1>9, <1>10, <1>11, <1>12, <1>13 DEF CopyInv

LEMMA LibInit == Init => LibInv
<1> SUFFICES ASSUME Init PROVE LibInv
  OBVIOUS
<1> USE DEF Init
<1>1. /\ layout \in Layouts
      /\ pc = [r \in Runs |-> "idle"] /\ db = [r \in Runs |-> << >>]
      /\ at = [r \in Runs |-> 1] /\ dest = [r \in Runs |-> PascalVoc!NoName]
      /\ images = << >>
      /\ imageSet = [r \in Runs |-> << >>]
  BY DEF PascalVoc!Init, PascalVoc!CopyInit, PascalVoc!WalkInit, PascalVoc!Runs, Runs
<1>2. /\ imageId = [r \in Runs |-> 0]
      /\ imagesJson = [r \in Runs |-> << >>]
  BY DEF Coco!Init, Coco!Runs, Runs
<1>3. express_images = [r \in Runs |-> << >>]
  BY DEF Project!Init, Project!Runs, Runs
<1>4. WalkOK
  <2>1. "idle" \in PcLabels
    BY DEF PcLabels
  <2> QED BY <1>1, <2>1 DEF WalkOK
<1>5. CollectedOK
  <2>1. /\ imageSet \in [Runs -> Seq(Filename)] /\ imageId \in [Runs -> Nat]
    BY <1>1, <1>2
  <2>2. \A T : imagesJson \in [Runs -> Seq(T)] /\ express_images \in [Runs -> Seq(T)]
    BY <1>2, <1>3
  <2> QED BY <2>1, <2>2, Zenon DEF CollectedOK
<1>6. \A r \in Runs : Entries(r) = << >>
  <2> TAKE r \in Runs
  <2>1. Coco!Entries(r) = << >>
    BY <1>2 DEF Coco!Entries
  <2>2. CreateML!Entries(r) = << >>
    BY <1>2 DEF CreateML!Entries
  <2>3. Project!Entries(r) = << >>
    BY <1>3 DEF Project!Entries
  <2>4. imageSet[r] = << >>
    BY <1>1
  <2> QED BY <2>1, <2>2, <2>3, <2>4 DEF Entries
<1>7. \A r \in Runs : kept[r] = << >>
  BY <1>6 DEF kept
<1>8. \A r \in Runs : pc[r] \notin NamedLabels
  BY <1>1 DEF NamedLabels, EntryLabels
<1>9. AtImage /\ CopiesOK
  BY <1>1, <1>8 DEF AtImage, CopiesOK
<1>10. DescriptorApart
  BY <1>1 DEF DescriptorApart
<1>11. Claims
  BY <1>8 DEF Claims, NamedLabels
<1>12. EntriesWhole /\ EntriesApart
  BY <1>7 DEF EntriesWhole, EntriesApart
<1> QED BY <1>4, <1>5, <1>6, <1>9, <1>10, <1>11, <1>12 DEF LibInv, LibType, Unentered

LEMMA LibStep == LibInv /\ [Next]_vars => LibInv'
<1> SUFFICES ASSUME LibInv, [Next]_vars PROVE LibInv'
  OBVIOUS
<1>1. LibType /\ DescriptorApart
  BY DEF LibInv
<1>2. UNCHANGED layout /\ CollectedOK'
  BY <1>1, LibrarySteps
<1>3. CASE layout \in CopyLayouts /\ \E r \in Runs : Moves(r)
  <2> PICK r \in Runs : Moves(r)
    BY <1>3
  <2>1. WalkOK'
    BY <1>1, <1>2, MovesKeepWalk
  <2>2. CopyInv'
    <3>1. CASE Begins(r) \/ Walks(r)
      <4>1. UNCHANGED <<dest, images, kept>>
        BY <3>1 DEF Begins, Walks
      <4>2. pc'[r] \notin NamedLabels
        BY <1>1, <3>1 DEF Begins, Walks, Goto, LibType, WalkOK, QuietLabels, NamedLabels,
           EntryLabels
      <4> QED BY <1>2, <1>3, <4>1, <4>2, QuietInv
    <3> QED BY <1>2, <1>3, <3>1, ChoosesInv, CopiesInv, EntersInv DEF Moves
  <2> QED BY <1>2, <2>1, <2>2 DEF LibInv, LibType, CopyInv
<1>4. CASE layout \notin CopyLayouts /\ \E r \in Runs : Passes(r)
  <2> PICK r \in Runs : Passes(r)
    BY <1>4
  <2>1. WalkOK'
    BY <1>1, <1>2, MovesKeepWalk
  <2>2. Unentered' /\ DescriptorApart'
    BY <1>2, <1>4 DEF Unentered, Entries, DescriptorApart, Reserved, CopyLayouts
  <2> QED BY <1>2, <1>4, <2>1, <2>2 DEF LibInv, LibType
<1>5. CASE UNCHANGED <<walk, copying, kept>>
  <2>1. UNCHANGED <<layout, pc, db, at, dest, images, kept>>
    BY <1>5 DEF walk, copying
  <2>2. WalkOK' /\ CopiesOK'= CopiesOK /\ AtImage' = AtImage
    BY <1>1, <2>1 DEF LibType, WalkOK, CopiesOK, AtImage, HasRecord, Current, Exportable
  <2>3. Unentered'
    <3>1. \A s \in Runs : Entries(s)' = Entries(s)
      BY <2>1 DEF kept
    <3> QED BY <1>1, <2>1, <3>1 DEF Unentered, LibType
  <2>4. DescriptorApart'
    BY <1>1, <2>1, SameReserved DEF DescriptorApart
  <2>5. Claims' = Claims /\ EntriesWhole' = EntriesWhole /\ EntriesApart' = EntriesApart
    BY <2>1 DEF Claims, EntriesWhole, EntriesApart, Current, Copied
  <2> QED BY <1>2, <2>1, <2>2, <2>3, <2>4, <2>5 DEF LibInv, LibType
<1> QED BY <1>1, <1>3, <1>4, <1>5, LibrarySteps

LEMMA LibraryInvariant == Spec => []LibInv
BY LibInit, LibStep, PTL DEF Spec

-----------------------------------------------------------------------------
(* Theorems *)

\* Every copy an export enters into what it will write is complete, and no two
\* entries are of one file: for every layout, however the exports of it interleave,
\* although the name is chosen before copy_file runs.
THEOREM EntriesAreCopies == Spec => []EnteredOnce
<1>1. LibInv => EnteredOnce
  <2> SUFFICES ASSUME LibInv PROVE EnteredOnce
    OBVIOUS
  <2>1. \A r \in Runs : kept[r] = Entries(r)
    BY DEF kept
  <2>2. CASE layout \in CopyLayouts
    BY <2>1, <2>2 DEF LibInv, EntriesWhole, EntriesApart, EnteredOnce
  <2>3. CASE layout \notin CopyLayouts
    <3>1. \A r \in Runs : Entries(r) = << >>
      BY <2>3 DEF Entries, CopyLayouts
    <3> QED BY <3>1 DEF EnteredOnce
  <2> QED BY <2>2, <2>3
<1> QED BY <1>1, LibraryInvariant, PTL

\* No step of an export takes away or changes a copy: not the copying of another
\* image, and not the opening of the Create ML descriptor beside the images.
THEOREM CopiesAreKept == Spec => ImagesKept
<1> DEFINE Kept == \A n \in DOMAIN images : n \in DOMAIN images' /\ images'[n] = images[n]
<1>1. LibInv /\ [Next]_vars => Kept
  <2> SUFFICES ASSUME LibInv, [Next]_vars PROVE Kept
    OBVIOUS
  <2>1. \/ UNCHANGED images
        \/ \E r \in Runs : Copies(r)
    BY LibrarySteps DEF LibInv, Moves, Begins, Walks, Chooses, ChoosesOutside, Enters,
       Passes, copying
  <2>2. ASSUME NEW r \in Runs, Copies(r) PROVE Kept
    BY <2>2 DEF Copies, Put
  <2> QED BY <2>1, <2>2
<1>2. LibInv /\ [Next]_vars => [Kept]_images
  BY <1>1
<1> QED BY <1>2, LibraryInvariant, PTL DEF Spec, ImagesKept

-----------------------------------------------------------------------------
(* Exports that follow one another *)

\* Without Concurrent a run begins when those before it have ended.
InTurn ==
  ~Concurrent /\ layout # "unknown" =>
    \A r \in Runs : pc[r] # "idle" => \A q \in 1..(r - 1) : Ended(q)

Working(r) == pc[r] # "idle" /\ ~Ended(r)

LEMMA OneWorks ==
  ASSUME InTurn, ~Concurrent, layout # "unknown",
         NEW r \in Runs, NEW s \in Runs, Working(r), Working(s)
  PROVE  r = s
<1>1. r < s \/ s < r \/ r = s
  BY RunsAssumption DEF Runs
<1>2. r < s => r \in 1..(s - 1)
  BY RunsAssumption DEF Runs
<1>3. s < r => s \in 1..(r - 1)
  BY RunsAssumption DEF Runs
<1> QED BY <1>1, <1>2, <1>3 DEF InTurn, Working

LEMMA MoversWork ==
  ASSUME NEW r \in Runs, Moves(r) \/ Passes(r)
  PROVE  /\ ~Ended(r)
         /\ pc[r] = "idle" /\ layout # "unknown" =>
              \A q \in 1..(r - 1) : Concurrent \/ Ended(q)
BY DEF Moves, Passes, Begins, Walks, Chooses, ChoosesOutside, Copies, Enters, EntryLabels,
       Ended

LEMMA InTurnStep ==
  ASSUME LibInv, InTurn, [Next]_vars
  PROVE  InTurn'
<1>1. LibType /\ DescriptorApart
  BY DEF LibInv
<1>2. UNCHANGED layout
  BY <1>1, LibrarySteps
<1>3. CASE UNCHANGED pc
  BY <1>2, <1>3 DEF InTurn, Ended
<1>4. ASSUME NEW r \in Runs, Moves(r) \/ Passes(r) PROVE InTurn'
  <2> SUFFICES ASSUME ~Concurrent, layout # "unknown", NEW s \in Runs, pc'[s] # "idle",
                      NEW q \in 1..(s - 1)
               PROVE  Ended(q)'
    BY <1>2 DEF InTurn
  <2>1. q \in Runs
    BY RunsAssumption DEF Runs
  <2>2. Ended(q)
    BY <1>1, <1>2, <1>4, MoversWork, MovesKeepWalk DEF InTurn
  <2>3. q # r
    BY <1>4, <2>2, MoversWork
  <2> QED BY <1>1, <1>2, <1>4, <2>1, <2>2, <2>3, MovesKeepWalk DEF Ended
<1> QED BY <1>1, <1>3, <1>4, LibrarySteps DEF walk

\* The document an export writes is the one it has opened.
DocumentOpen ==
  ~Concurrent => \A r \in Runs : pc[r] = "write" =>
    /\ layout = "COCO" => instances = Coco!EmptyDocument(r)
    /\ layout = "CreateML" => document = CreateML!EmptyDocument(r)
    /\ layout = "Project" => project = Project!OpenProject(r)

ListsOK == sets = [train |-> sets.train, val |-> sets.val]

TurnInv == LibInv /\ InTurn /\ DocumentOpen /\ ListsOK

\* What a step does to what is published: nothing, a descriptor is withdrawn, or
\* that of the run is published.
Publishes(r) ==
  \/ UNCHANGED PublishedEntries /\ pc'[r] # "done"
  \/ PublishedEntries' = 0 /\ pc'[r] = "write"
  \/ PublishedEntries' = Len(kept[r]) /\ pc'[r] = "done"

\* The document of a layout is opened, and written, by the run that moves.
Documents(r) ==
  /\ \/ pc[r] \in {"json", "open", "write"}
     \/ /\ layout = "COCO" => UNCHANGED instances
        /\ layout = "CreateML" => UNCHANGED document
        /\ layout = "Project" => UNCHANGED project
  /\ pc'[r] = "write" =>
       /\ layout = "COCO" => instances' = Coco!EmptyDocument(r)
       /\ layout = "CreateML" => document' = CreateML!EmptyDocument(r)
       /\ layout = "Project" => project' = Project!OpenProject(r)

LEMMA PascalVocPublishes ==
  ASSUME LibType, ListsOK, layout = "PascalVOC", UNCHANGED layout, NEW r \in Runs,
         PascalVoc!Begin(r) \/ PascalVoc!Step(r) \/ PascalVoc!Crash(r)
  PROVE  Publishes(r) /\ Documents(r) /\ ListsOK'
<1> USE DEF PascalVoc!Goto
<1>1. pc \in [Runs -> PcLabels] /\ imageSet \in [Runs -> Seq(Filename)]
  BY DEF LibType, WalkOK, CollectedOK
<1>2. PublishedEntries = Len(sets.val) /\ PublishedEntries' = Len(sets'.val)
  BY DEF PublishedEntries
<1>3. kept[r] = imageSet[r]
  BY DEF kept, Entries
<1>4. UNCHANGED sets /\ pc'[r] \notin {"done", "write"}
        => Publishes(r) /\ Documents(r) /\ ListsOK'
  BY <1>2 DEF Publishes, Documents, ListsOK
<1>5. CASE PascalVoc!ExpressTrainSet(r)
  <2>1. sets'.val = sets.val /\ ListsOK' /\ pc'[r] \notin {"done", "write"}
    BY <1>1, <1>5 DEF PascalVoc!ExpressTrainSet, ListsOK
  <2> QED BY <1>2, <2>1 DEF Publishes, Documents
<1>6. CASE PascalVoc!ExpressValSet(r)
  <2>1. CASE sets' = [sets EXCEPT !.val = PascalVoc!Stems(imageSet[r])]
             /\ PascalVoc!Goto(r, "done")
    <3>1. /\ sets'.val = [i \in DOMAIN imageSet[r] |-> PascalVoc!StemOf(imageSet[r][i])]
          /\ ListsOK' /\ pc'[r] = "done"
      BY <1>1, <2>1 DEF ListsOK, PascalVoc!Stems
    <3>2. Len(sets'.val) = Len(imageSet[r])
      BY <1>1, <3>1
    <3> QED BY <1>2, <1>3, <3>1, <3>2 DEF Publishes, Documents
  <2>2. CASE UNCHANGED sets /\ PascalVoc!Goto(r, "failed")
    BY <1>1, <1>4, <2>2
  <2> QED BY <1>6, <2>1, <2>2 DEF PascalVoc!ExpressValSet
<1>7. CASE \/ PascalVoc!Begin(r) \/ PascalVoc!SkipRecord(r) \/ PascalVoc!ChooseName(r)
           \/ PascalVoc!CopyImage(r) \/ PascalVoc!ExpressAnnotation(r)
           \/ PascalVoc!EndOfRecords(r) \/ PascalVoc!Crash(r)
  <2>1. UNCHANGED sets
    BY <1>7 DEF PascalVoc!Begin, PascalVoc!SkipRecord, PascalVoc!ChooseName,
       PascalVoc!CopyImage, PascalVoc!ExpressAnnotation, PascalVoc!EndOfRecords,
       PascalVoc!Crash
  <2>2. \E l \in PcLabels \ {"done", "write"} : PascalVoc!Goto(r, l)
    BY <1>7 DEF PascalVoc!Begin, PascalVoc!SkipRecord, PascalVoc!ChooseName,
       PascalVoc!CopyImage, PascalVoc!ExpressAnnotation, PascalVoc!EndOfRecords,
       PascalVoc!Crash, PascalVoc!Enter, PascalVoc!Start, PascalVoc!Skip,
       PascalVoc!NextRecord, PascalVoc!Choose, PascalVoc!Copy, PascalVoc!LastRecord,
       PascalVoc!EndWalk, PascalVoc!Die, PascalVoc!Kill,
       PcLabels, NamedLabels, EntryLabels, QuietLabels
  <2>3. pc'[r] \notin {"done", "write"}
    BY <1>1, <2>2
  <2> QED BY <1>4, <2>1, <2>3
<1> QED BY <1>5, <1>6, <1>7 DEF PascalVoc!Step

LEMMA CocoPublishes ==
  ASSUME LibType, ~Concurrent, DocumentOpen, layout = "COCO", UNCHANGED layout,
         NEW r \in Runs, Coco!Begin(r) \/ Coco!Step(r) \/ Coco!Crash(r)
  PROVE  Publishes(r) /\ Documents(r)
<1> USE DEF Coco!Goto
<1> DEFINE Entry == [id: Nat, file_name: Filename]
<1>1. pc \in [Runs -> PcLabels] /\ imagesJson \in [Runs -> Seq(Entry)]
  BY DEF LibType, WalkOK, CollectedOK
<1>2. Len(kept[r]) = Len(imagesJson[r])
  <2>1. kept[r] = [k \in DOMAIN imagesJson[r] |-> imagesJson[r][k].file_name]
    BY DEF kept, Entries, Coco!Entries
  <2>2. imagesJson[r] \in Seq(Entry)
    BY <1>1
  <2> HIDE DEF Entry
  <2> QED BY <2>1, <2>2
<1>3. UNCHANGED instances => UNCHANGED PublishedEntries
  BY DEF PublishedEntries, Coco!IsWritten
<1>4. UNCHANGED instances /\ pc'[r] \notin {"done", "write"} => Publishes(r) /\ Documents(r)
  BY <1>3 DEF Publishes, Documents
<1>5. CASE Coco!OpenInstancesJson(r)
  <2>1. CASE instances' = Coco!EmptyDocument(r) /\ Coco!Goto(r, "write")
    <3>1. instances'.state = "empty" /\ pc'[r] = "write" /\ pc[r] = "json"
      BY <1>1, <1>5, <2>1 DEF Coco!OpenInstancesJson, Coco!EmptyDocument
    <3>2. PublishedEntries' = 0
      BY <3>1 DEF PublishedEntries, Coco!IsWritten
    <3> QED BY <2>1, <3>1, <3>2 DEF Publishes, Documents
  <2>2. CASE UNCHANGED instances /\ Coco!Goto(r, "failed")
    BY <1>1, <1>4, <2>2
  <2> QED BY <1>5, <2>1, <2>2 DEF Coco!OpenInstancesJson
<1>6. CASE Coco!WriteInstancesJson(r)
  <2>1. pc[r] = "write" /\ pc'[r] = "done" /\ instances = Coco!EmptyDocument(r)
    BY <1>1, <1>6 DEF Coco!WriteInstancesJson, DocumentOpen
  <2>2. instances'.state = "written" /\ instances'.images = imagesJson[r]
    BY <1>6, <2>1 DEF Coco!WriteInstancesJson
  <2>3. PublishedEntries' = Len(imagesJson[r])
    BY <2>2 DEF PublishedEntries, Coco!IsWritten
  <2> QED BY <1>2, <2>1, <2>3 DEF Publishes, Documents
<1>7. CASE \/ Coco!Begin(r) \/ Coco!SkipRecord(r) \/ Coco!ChooseName(r)
           \/ Coco!CopyImage(r) \/ Coco!ExpressImage(r) \/ Coco!EndOfRecords(r) \/ Coco!Crash(r)
  <2>1. UNCHANGED instances
    BY <1>7 DEF Coco!Begin, Coco!SkipRecord, Coco!ChooseName,
       Coco!CopyImage, Coco!ExpressImage, Coco!EndOfRecords, Coco!Crash
  <2>2. \E l \in PcLabels \ {"done", "write"} : Coco!Goto(r, l)
    BY <1>7 DEF Coco!Begin, Coco!SkipRecord, Coco!ChooseName,
       Coco!CopyImage, Coco!ExpressImage, Coco!EndOfRecords, Coco!Crash, Coco!Enter,
       Coco!Start, Coco!Skip, Coco!NextRecord, Coco!Choose, Coco!Copy,
       Coco!LastRecord, Coco!EndWalk, Coco!Die, Coco!Kill,
       PcLabels, NamedLabels, EntryLabels, QuietLabels
  <2>3. pc'[r] \notin {"done", "write"}
    BY <1>1, <2>2
  <2> QED BY <1>4, <2>1, <2>3
<1> QED BY <1>5, <1>6, <1>7 DEF Coco!Step

LEMMA CreateMLPublishes ==
  ASSUME LibType, ~Concurrent, DocumentOpen, layout = "CreateML", UNCHANGED layout,
         NEW r \in Runs, CreateML!Begin(r) \/ CreateML!Step(r) \/ CreateML!Crash(r)
  PROVE  Publishes(r) /\ Documents(r)
<1> USE DEF CreateML!Goto
<1> DEFINE Entry == [imagefilename: Filename, annotation: LabelSets]
<1>1. pc \in [Runs -> PcLabels] /\ imagesJson \in [Runs -> Seq(Entry)]
  BY DEF LibType, WalkOK, CollectedOK
<1>2. Len(kept[r]) = Len(imagesJson[r])
  <2>1. kept[r] = [k \in DOMAIN imagesJson[r] |-> imagesJson[r][k].imagefilename]
    BY DEF kept, Entries, CreateML!Entries
  <2>2. imagesJson[r] \in Seq(Entry)
    BY <1>1
  <2> HIDE DEF Entry
  <2> QED BY <2>1, <2>2
<1>3. UNCHANGED document => UNCHANGED PublishedEntries
  BY DEF PublishedEntries, CreateML!IsWritten
<1>4. UNCHANGED document /\ pc'[r] \notin {"done", "write"} => Publishes(r) /\ Documents(r)
  BY <1>3 DEF Publishes, Documents
<1>5. CASE CreateML!OpenAnnotationsJson(r)
  <2>1. CASE document' = CreateML!EmptyDocument(r) /\ CreateML!Goto(r, "write")
    <3>1. document'.state = "empty" /\ pc'[r] = "write" /\ pc[r] = "json"
      BY <1>1, <1>5, <2>1 DEF CreateML!OpenAnnotationsJson, CreateML!EmptyDocument
    <3>2. PublishedEntries' = 0
      BY <3>1 DEF PublishedEntries, CreateML!IsWritten
    <3> QED BY <2>1, <3>1, <3>2 DEF Publishes, Documents
  <2>2. CASE UNCHANGED document /\ CreateML!Goto(r, "failed")
    BY <1>1, <1>4, <2>2
  <2> QED BY <1>5, <2>1, <2>2 DEF CreateML!OpenAnnotationsJson
<1>6. CASE CreateML!WriteAnnotationsJson(r)
  <2>1. pc[r] = "write" /\ pc'[r] = "done" /\ document = CreateML!EmptyDocument(r)
    BY <1>1, <1>6 DEF CreateML!WriteAnnotationsJson, DocumentOpen
  <2>2. document'.state = "written" /\ document'.entries = imagesJson[r]
    BY <1>6, <2>1 DEF CreateML!WriteAnnotationsJson
  <2>3. PublishedEntries' = Len(imagesJson[r])
    BY <2>2 DEF PublishedEntries, CreateML!IsWritten
  <2> QED BY <1>2, <2>1, <2>3 DEF Publishes, Documents
<1>7. CASE \/ CreateML!Begin(r) \/ CreateML!SkipRecord(r) \/ CreateML!ChooseName(r)
           \/ CreateML!CopyImage(r) \/ CreateML!ExpressImage(r) \/ CreateML!EndOfRecords(r) \/ CreateML!Crash(r)
  <2>1. UNCHANGED document
    BY <1>7 DEF CreateML!Begin, CreateML!SkipRecord, CreateML!ChooseName,
       CreateML!CopyImage, CreateML!ExpressImage, CreateML!EndOfRecords, CreateML!Crash
  <2>2. \E l \in PcLabels \ {"done", "write"} : CreateML!Goto(r, l)
    BY <1>7 DEF CreateML!Begin, CreateML!SkipRecord, CreateML!ChooseName,
       CreateML!CopyImage, CreateML!ExpressImage, CreateML!EndOfRecords, CreateML!Crash, CreateML!Enter,
       CreateML!Start, CreateML!Skip, CreateML!NextRecord, CreateML!Choose, CreateML!Copy,
       CreateML!LastRecord, CreateML!EndWalk, CreateML!Die, CreateML!Kill,
       PcLabels, NamedLabels, EntryLabels, QuietLabels
  <2>3. pc'[r] \notin {"done", "write"}
    BY <1>1, <2>2
  <2> QED BY <1>4, <2>1, <2>3
<1> QED BY <1>5, <1>6, <1>7 DEF CreateML!Step

LEMMA ProjectPublishes ==
  ASSUME LibType, ~Concurrent, DocumentOpen, layout = "Project", UNCHANGED layout,
         NEW r \in Runs, Project!Begin(r) \/ Project!Step(r) \/ Project!Crash(r)
  PROVE  Publishes(r) /\ Documents(r)
<1> USE DEF Project!Goto
<1> DEFINE Entry == [relPath: Filename, record: Nat]
<1>1. pc \in [Runs -> PcLabels] /\ express_images \in [Runs -> Seq(Entry)]
  BY DEF LibType, WalkOK, CollectedOK
<1>2. Len(kept[r]) = Len(express_images[r])
  <2>1. kept[r] = [k \in DOMAIN express_images[r] |-> express_images[r][k].relPath]
    BY DEF kept, Entries, Project!Entries
  <2>2. express_images[r] \in Seq(Entry)
    BY <1>1
  <2> HIDE DEF Entry
  <2> QED BY <2>1, <2>2
<1>3. UNCHANGED project => UNCHANGED PublishedEntries
  BY DEF PublishedEntries, Project!IsWritten
<1>4. UNCHANGED project /\ pc'[r] \notin {"done", "write"} => Publishes(r) /\ Documents(r)
  BY <1>3 DEF Publishes, Documents
<1>5. CASE Project!OpenFile(r)
  <2>1. CASE project' = Project!OpenProject(r) /\ Project!Goto(r, "write")
    <3>1. project'.state = "empty" /\ pc'[r] = "write" /\ pc[r] = "open"
      BY <1>1, <1>5, <2>1 DEF Project!OpenFile, Project!OpenProject
    <3>2. PublishedEntries' = 0
      BY <3>1 DEF PublishedEntries, Project!IsWritten
    <3> QED BY <2>1, <3>1, <3>2 DEF Publishes, Documents
  <2>2. CASE UNCHANGED project /\ Project!Goto(r, "failed")
    BY <1>1, <1>4, <2>2
  <2> QED BY <1>5, <2>1, <2>2 DEF Project!OpenFile
<1>6. CASE Project!WriteFile(r)
  <2>1. pc[r] = "write" /\ project = Project!OpenProject(r)
    BY <1>6 DEF Project!WriteFile, DocumentOpen
  <2>2. PublishedEntries = 0
    BY <2>1 DEF PublishedEntries, Project!IsWritten, Project!OpenProject
  <2>3. CASE project' = Project!Document(r) /\ Project!Goto(r, "done")
    <3>1. /\ pc'[r] = "done" /\ project'.state = "written"
          /\ project'.annotations = [k \in DOMAIN express_images[r] |->
                                      Project!Annotated(r, express_images[r][k])]
      BY <1>1, <2>3 DEF Project!Document, Project!annotations
    <3>2. Len(project'.annotations) = Len(express_images[r])
      <4>1. express_images[r] \in Seq(Entry)
        BY <1>1
      <4> HIDE DEF Entry
      <4> QED BY <3>1, <4>1
    <3>3. PublishedEntries' = Len(express_images[r])
      BY <3>1, <3>2 DEF PublishedEntries, Project!IsWritten
    <3> QED BY <1>2, <2>1, <3>1, <3>3 DEF Publishes, Documents
  <2>4. CASE project' = Project!CutProject /\ Project!Goto(r, "failed")
    <3>1. pc'[r] = "failed" /\ project'.state = "cut"
      BY <1>1, <2>4 DEF Project!CutProject
    <3>2. PublishedEntries' = 0
      BY <3>1 DEF PublishedEntries, Project!IsWritten
    <3> QED BY <2>1, <2>2, <3>1, <3>2 DEF Publishes, Documents
  <2> QED BY <1>6, <2>1, <2>3, <2>4 DEF Project!WriteFile
<1>7. CASE \/ Project!Begin(r) \/ Project!SkipRecord(r) \/ Project!ChooseName(r)
           \/ Project!CopyImage(r) \/ Project!AddImage(r) \/ Project!EndOfRecords(r) \/ Project!Crash(r)
  <2>1. UNCHANGED project
    BY <1>7 DEF Project!Begin, Project!SkipRecord, Project!ChooseName,
       Project!CopyImage, Project!AddImage, Project!EndOfRecords, Project!Crash
  <2>2. \E l \in PcLabels \ {"done", "write"} : Project!Goto(r, l)
    BY <1>7 DEF Project!Begin, Project!SkipRecord, Project!ChooseName,
       Project!CopyImage, Project!AddImage, Project!EndOfRecords, Project!Crash, Project!Enter,
       Project!Start, Project!Skip, Project!NextRecord, Project!Choose, Project!Copy,
       Project!LastRecord, Project!EndWalk, Project!Die, Project!Kill,
       PcLabels, NamedLabels, EntryLabels, QuietLabels
  <2>3. pc'[r] \notin {"done", "write"}
    BY <1>1, <2>2
  <2> QED BY <1>4, <2>1, <2>3
<1> QED BY <1>5, <1>6, <1>7 DEF Project!Step

\* A step of exports that follow one another, and what it publishes.
LEMMA TurnSteps ==
  ASSUME TurnInv, ~Concurrent, [Next]_vars
  PROVE  /\ ListsOK'
         /\ \/ /\ layout \in CopyLayouts
               /\ \E r \in Runs : Moves(r) /\ Publishes(r) /\ Documents(r)
            \/ layout \notin CopyLayouts /\ \E r \in Runs : Passes(r)
            \/ UNCHANGED <<walk, copying, kept, instances, document, project,
                           PublishedEntries>>
<1>1. LibType /\ DescriptorApart /\ ListsOK /\ DocumentOpen
  BY DEF TurnInv, LibInv
<1>2. UNCHANGED layout
  BY <1>1, LibrarySteps
<1>3. CASE UNCHANGED vars
  BY <1>1, <1>3, IdleSteps DEF ListsOK
<1>4. ASSUME NEW r \in Runs, export_db(r) \/ NoExporter(r)
      PROVE  /\ ListsOK'
             /\ \/ layout \in CopyLayouts /\ Moves(r) /\ Publishes(r) /\ Documents(r)
                \/ layout \notin CopyLayouts /\ Passes(r)
  <2>1. CASE layout = "PascalVOC"
    BY <1>1, <1>2, <1>4, <2>1, PascalVocPublishes, RunSteps
       DEF export_db, NoExporter, CopyLayouts
  <2>2. CASE layout # "PascalVOC"
    <3>1. UNCHANGED sets
      BY <1>4, <2>2 DEF export_db, NoExporter, pascalVoc
    <3>2. ListsOK'
      BY <1>1, <3>1 DEF ListsOK
    <3>3. CASE layout \in {"COCO", "CreateML", "Project"}
      BY <1>1, <1>2, <1>4, <3>2, <3>3, CocoPublishes, CreateMLPublishes, ProjectPublishes,
         RunSteps DEF export_db, NoExporter, CopyLayouts
    <3>4. CASE layout = "Ultralytics"
      <4>1. kept[r] = << >>
        BY <3>4 DEF kept, Entries
      <4>2. Publishes(r) /\ Documents(r)
        BY <1>2, <3>4, <4>1 DEF Publishes, Documents, PublishedEntries, export_db,
           NoExporter, coco, darknetxx
      <4> QED BY <1>1, <1>2, <1>4, <3>2, <3>4, <4>2, RunSteps DEF CopyLayouts
    <3>5. CASE layout \notin CopyLayouts
      BY <1>1, <1>2, <1>4, <3>2, <3>5, RunSteps
    <3> QED BY <2>2, <3>3, <3>4, <3>5 DEF CopyLayouts
  <2> QED BY <2>1, <2>2
<1> QED BY <1>3, <1>4 DEF Next, perform_export, Finished

LEMMA TurnInit == Init => TurnInv
<1> SUFFICES ASSUME Init PROVE TurnInv
  OBVIOUS
<1>1. pc = [r \in Runs |-> "idle"] /\ sets = [train |-> << >>, val |-> << >>]
  BY DEF Init, PascalVoc!Init, PascalVoc!CopyInit, PascalVoc!WalkInit, PascalVoc!Runs, Runs
<1>2. InTurn /\ DocumentOpen /\ ListsOK
  BY <1>1 DEF InTurn, DocumentOpen, ListsOK
<1> QED BY <1>2, LibInit DEF TurnInv

LEMMA TurnStep == ~Concurrent /\ TurnInv /\ [Next]_vars => TurnInv'
<1> SUFFICES ASSUME ~Concurrent, TurnInv, [Next]_vars PROVE TurnInv'
  OBVIOUS
<1>1. LibInv /\ LibType /\ DescriptorApart /\ InTurn /\ DocumentOpen
  BY DEF TurnInv, LibInv
<1>2. LibInv' /\ InTurn' /\ ListsOK' /\ UNCHANGED layout
  BY <1>1, LibStep, InTurnStep, TurnSteps, LibrarySteps
<1>3. DocumentOpen'
  <2>1. CASE layout \notin CopyLayouts
    BY <1>2, <2>1 DEF DocumentOpen, CopyLayouts
  <2>2. CASE UNCHANGED <<walk, copying, kept, instances, document, project,
                         PublishedEntries>>
    BY <1>1, <2>2 DEF DocumentOpen, walk, Coco!EmptyDocument, CreateML!EmptyDocument,
       Project!OpenProject
  <2>3. ASSUME NEW r \in Runs, Moves(r), Documents(r), layout \in CopyLayouts
        PROVE  DocumentOpen'
    <3>1. ASSUME NEW s \in Runs, pc'[s] = "write"
          PROVE  /\ layout = "COCO" => instances' = Coco!EmptyDocument(s)
                 /\ layout = "CreateML" => document' = CreateML!EmptyDocument(s)
                 /\ layout = "Project" => project' = Project!OpenProject(s)
      <4>1. CASE s = r
        BY <2>3, <3>1, <4>1 DEF Documents
      <4>2. CASE s # r
        <5>1. pc[s] = "write"
          BY <1>1, <1>2, <2>3, <3>1, <4>2, MovesKeepWalk
        <5>2. ~Working(r)
          BY <1>1, <2>3, <4>2, <5>1, OneWorks DEF Working, Ended, CopyLayouts
        <5>3. pc[r] \notin {"json", "open", "write"}
          BY <5>2 DEF Working, Ended
        <5> QED BY <1>1, <2>3, <5>1, <5>3 DEF Documents, DocumentOpen
      <4> QED BY <4>1, <4>2
    <3> QED BY <1>2, <3>1 DEF DocumentOpen, Coco!EmptyDocument, CreateML!EmptyDocument,
               Project!OpenProject
  <2> QED BY <2>1, <2>2, <2>3, TurnSteps
<1> QED BY <1>2, <1>3 DEF TurnInv

LEMMA TurnInvariant == ASSUME ~Concurrent PROVE Spec => []TurnInv
<1>1. TurnInv /\ [Next]_vars => TurnInv'
  BY TurnStep
<1> QED BY <1>1, TurnInit, PTL DEF Spec

-----------------------------------------------------------------------------
(* The store *)

storePhase == [r \in Runs |-> StorePhase(pc[r])]

LEMMA PhaseOfGoto ==
  ASSUME WalkOK, NEW r \in Runs, NEW l, Goto(r, l)
  PROVE  storePhase' = [storePhase EXCEPT ![r] = StorePhase(l)]
<1>1. \A s \in Runs : pc'[s] = IF s = r THEN l ELSE pc[s]
  BY DEF Goto, WalkOK
<1>2. storePhase' = [s \in Runs |-> StorePhase(pc'[s])]
  BY DEF storePhase, StorePhase
<1> QED BY <1>1, <1>2 DEF storePhase

\* The steps of the store, over the variables of the library.
LEMMA StoreStart ==
  ASSUME NEW r \in Runs, storePhase[r] = "idle", NEW p \in {"running", "stopped"},
         storePhase' = [storePhase EXCEPT ![r] = p],
         UNCHANGED <<images, kept, PublishedEntries>>
  PROVE  Store!Start(r)
BY DEF Store!Start, storePhase, kept

LEMMA StoreAdd ==
  ASSUME NEW r \in Runs, storePhase[r] = "running",
         NEW n \in DOMAIN images' \ DOMAIN images,
         images'[n] \in [of: Images, whole: BOOLEAN],
         images' = [m \in DOMAIN images \cup {n} |->
                      IF m = n THEN images'[n] ELSE images[m]],
         UNCHANGED <<storePhase, kept, PublishedEntries>>
  PROVE  Store!Add(r)
BY DEF Store!Add, Store!Copy, storePhase, kept

LEMMA StorePublish ==
  ASSUME NEW r \in Runs, storePhase[r] = "running",
         storePhase' = [storePhase EXCEPT ![r] = "done"],
         PublishedEntries' = Len(kept[r]), UNCHANGED <<images, kept>>
  PROVE  Store!Publish(r)
BY DEF Store!Publish, storePhase, kept

LEMMA StoreWithdraw ==
  ASSUME NEW r \in Runs, storePhase[r] = "running", PublishedEntries' = 0,
         UNCHANGED <<storePhase, images, kept>>
  PROVE  Store!Withdraw(r)
BY DEF Store!Withdraw, storePhase, kept

LEMMA StoreStop ==
  ASSUME NEW r \in Runs, storePhase[r] = "running",
         storePhase' = [storePhase EXCEPT ![r] = "stopped"],
         UNCHANGED <<images, kept, PublishedEntries>>
  PROVE  Store!Stop(r)
BY DEF Store!Stop, storePhase, kept

LEMMA StoreKeep ==
  ASSUME NEW r \in Runs, storePhase[r] = "running",
         NEW n \in DOMAIN images, images[n].whole,
         \A s \in Runs : \A k \in DOMAIN kept[s] : kept[s][k] # n,
         kept' = [kept EXCEPT ![r] = Append(@, n)],
         UNCHANGED <<storePhase, images, PublishedEntries>>
  PROVE  Store!Keep(r)
<1>1. n \notin UNION {{kept[s][i] : i \in DOMAIN kept[s]} : s \in Runs}
  OBVIOUS
<1> QED BY <1>1 DEF Store!Keep, Store!AllKept, storePhase, kept

\* The move of a copying exporter is a step of the store, or none.
LEMMA StoreOfMoves ==
  ASSUME TurnInv, layout \in CopyLayouts, UNCHANGED layout, NEW r \in Runs,
         Moves(r), Publishes(r)
  PROVE  Store!Next \/ UNCHANGED <<storePhase, images, kept, PublishedEntries>>
<1>1. /\ LibInv /\ LibType /\ WalkOK /\ CopiesOK /\ Claims /\ AtImage
  BY LibParts DEF TurnInv
<1>2. PICK l \in PcLabels \ {"idle"} : Goto(r, l) /\ pc'[r] = l
  BY <1>1 DEF Moves, Begins, Walks, Chooses, ChoosesOutside, Copies, Enters, NextRecord,
     Goto, PcLabels, NamedLabels, EntryLabels, QuietLabels, WalkOK
<1>3. /\ storePhase' = [storePhase EXCEPT ![r] = StorePhase(l)]
      /\ storePhase[r] = StorePhase(pc[r])
      /\ storePhase \in [Runs -> {"idle", "running", "stopped", "done"}]
  BY <1>1, <1>2, PhaseOfGoto DEF storePhase, StorePhase
<1>4. kept \in [Runs -> Seq(Filename)]
  BY <1>1, KeptType
<1>5. CASE Begins(r)
  <2>1. storePhase[r] = "idle" /\ UNCHANGED <<images, kept>>
    BY <1>3, <1>5 DEF Begins, StorePhase
  <2>2. l \in {"record", "yaml", "failed"}
    BY <1>1, <1>2, <1>5 DEF Begins, Goto, WalkOK
  <2>3. StorePhase(l) \in {"running", "stopped"} /\ UNCHANGED PublishedEntries
    BY <1>2, <2>2 DEF StorePhase, Publishes
  <2> QED BY <1>3, <2>1, <2>3, StoreStart DEF Store!Next
<1>6. ASSUME ~Begins(r)
      PROVE  storePhase[r] = "running"
  BY <1>3, <1>6 DEF Moves, Walks, Chooses, ChoosesOutside, Copies, Enters, Ended,
     StorePhase, EntryLabels
<1>7. StorePhase(l) = "running" => UNCHANGED storePhase \/ Begins(r)
  BY <1>3, <1>6
<1>8. CASE Walks(r)
  <2>1. UNCHANGED <<images, kept>> /\ ~Begins(r)
    BY <1>8 DEF Walks, Begins
  <2>2. CASE l = "done"
    <3>1. StorePhase(l) = "done" /\ PublishedEntries' = Len(kept[r])
      BY <1>2, <2>2 DEF StorePhase, Publishes
    <3> QED BY <1>3, <1>6, <2>1, <3>1, StorePublish DEF Store!Next
  <2>3. CASE l \in {"failed", "crashed"}
    <3>1. StorePhase(l) = "stopped" /\ UNCHANGED PublishedEntries
      BY <1>2, <2>3 DEF StorePhase, Publishes
    <3> QED BY <1>3, <1>6, <2>1, <3>1, StoreStop DEF Store!Next
  <2>4. CASE l \notin {"done", "failed", "crashed"}
    <3>1. StorePhase(l) = "running"
      BY <2>4 DEF StorePhase
    <3>2. UNCHANGED PublishedEntries \/ PublishedEntries' = 0
      BY <1>2, <2>4 DEF Publishes
    <3> QED BY <1>6, <1>7, <2>1, <3>1, <3>2, StoreWithdraw DEF Store!Next
  <2> QED BY <2>2, <2>3, <2>4
<1>9. ASSUME Chooses(r) \/ Copies(r) \/ Enters(r)
      PROVE  ~Begins(r) /\ UNCHANGED <<storePhase, PublishedEntries>>
  <2>1. l \in EntryLabels \cup {"copy", "record"}
    BY <1>1, <1>2, <1>9 DEF Chooses, ChoosesOutside, Copies, Enters, Goto, NextRecord,
                            WalkOK
  <2>2. StorePhase(l) = "running" /\ UNCHANGED PublishedEntries
    BY <1>2, <2>1 DEF StorePhase, EntryLabels, Publishes
  <2>3. ~Begins(r)
    BY <1>9 DEF Begins, Chooses, ChoosesOutside, Copies, Enters, EntryLabels
  <2> QED BY <1>7, <2>2, <2>3
<1>10. CASE Chooses(r)
  BY <1>9, <1>10 DEF Chooses, ChoosesOutside
<1>11. CASE Copies(r)
  <2>1. PICK w \in BOOLEAN : images' = Put(images, dest[r], Copied(Current(r).img, w))
    BY <1>11 DEF Copies
  <2>2. /\ dest[r] \in DOMAIN images' \ DOMAIN images
        /\ images'[dest[r]] = Copied(Current(r).img, w)
        /\ images' = [m \in DOMAIN images \cup {dest[r]} |->
                        IF m = dest[r] THEN images'[dest[r]] ELSE images[m]]
    BY <1>11, <2>1 DEF Copies, Put
  <2>3. Current(r) \in Record
    BY <1>1, <1>11 DEF Copies, AtImage, NamedLabels, HasRecord, Current, WalkOK
  <2>4. images'[dest[r]] \in [of: Images, whole: BOOLEAN]
    BY <2>2, <2>3 DEF Copied, Record
  <2>5. UNCHANGED kept
    BY <1>11 DEF Copies
  <2>6. Store!Add(r)
    BY <1>6, <1>9, <1>11, <2>2, <2>4, <2>5, StoreAdd
  <2> QED BY <2>6 DEF Store!Next
<1>12. CASE Enters(r)
  <2>1. /\ kept' = [kept EXCEPT ![r] = Append(@, dest[r])]
        /\ UNCHANGED images /\ pc[r] \in EntryLabels
    BY <1>12 DEF Enters
  <2>2. /\ dest[r] \in DOMAIN images /\ images[dest[r]].whole
        /\ \A s \in Runs : \A k \in DOMAIN kept[s] : kept[s][k] # dest[r]
    BY <1>1, <2>1, ClaimOf
  <2>3. Store!Keep(r)
    BY <1>6, <1>9, <1>12, <2>1, <2>2, StoreKeep
  <2> QED BY <2>3 DEF Store!Next
<1> QED BY <1>5, <1>8, <1>10, <1>11, <1>12 DEF Moves

\* An export that copies nothing begins, stops or publishes its no entries.
LEMMA StoreOfPasses ==
  ASSUME TurnInv, layout \notin CopyLayouts, UNCHANGED layout, NEW r \in Runs, Passes(r)
  PROVE  Store!Next \/ UNCHANGED <<storePhase, images, kept, PublishedEntries>>
<1>1. LibType /\ WalkOK
  BY DEF TurnInv, LibInv, LibType
<1>2. PICK l \in PcLabels \ {"idle"} : Goto(r, l) /\ (pc[r] = "idle" => l # "done")
  BY DEF Passes
<1>3. /\ storePhase' = [storePhase EXCEPT ![r] = StorePhase(l)]
      /\ storePhase[r] = StorePhase(pc[r])
      /\ storePhase \in [Runs -> {"idle", "running", "stopped", "done"}]
  BY <1>1, <1>2, PhaseOfGoto DEF storePhase, StorePhase
<1>4. /\ UNCHANGED <<images, kept>> /\ PublishedEntries' = PublishedEntries
      /\ PublishedEntries = 0
  BY DEF Passes, PublishedEntries, CopyLayouts
<1>5. Len(kept[r]) = 0
  BY <1>1, KeptType
<1>6. StorePhase(l) \in {"running", "stopped", "done"}
  BY DEF StorePhase
<1>7. CASE pc[r] = "idle"
  <2>1. storePhase[r] = "idle" /\ StorePhase(l) # "done"
    BY <1>2, <1>3, <1>7 DEF StorePhase
  <2> QED BY <1>3, <1>4, <1>6, <2>1, StoreStart DEF Store!Next
<1>8. CASE pc[r] # "idle"
  <2>1. storePhase[r] = "running"
    BY <1>3, <1>8 DEF Passes, Ended, StorePhase
  <2>2. CASE StorePhase(l) = "running"
    BY <1>3, <1>4, <2>1, <2>2
  <2>3. CASE StorePhase(l) \in {"stopped", "done"}
    BY <1>3, <1>4, <1>5, <2>1, <2>3, StoreStop, StorePublish DEF Store!Next
  <2> QED BY <1>6, <2>2, <2>3
<1> QED BY <1>7, <1>8

\* Exports that follow one another implement the store, whatever the layout: the
\* copies only grow, each is entered at most once and only when complete, and a
\* successful export publishes all it has entered.
THEOREM LibraryIsStore ==
  ASSUME ~Concurrent
  PROVE  Spec => ImplementsStore
<1>1. Init => Store!Init
  <2> SUFFICES ASSUME Init PROVE Store!Init
    OBVIOUS
  <2>1. LibInv /\ Unentered
    BY LibInit DEF LibInv, LibType
  <2>2. /\ pc = [r \in Runs |-> "idle"] /\ images = << >> /\ Len(sets.val) = 0
        /\ instances.state = "none" /\ document.state = "none" /\ project.state = "none"
    BY DEF Init, PascalVoc!Init, PascalVoc!CopyInit, PascalVoc!WalkInit, PascalVoc!Runs,
       Runs, Coco!Init, Coco!NoDocument, CreateML!Init, CreateML!NoDocument,
       Project!Init, Project!NoProject
  <2>3. [r \in Runs |-> Entries(r)] = [r \in Runs |-> << >>]
    BY <2>1, <2>2 DEF Unentered
  <2>4. [r \in Runs |-> StorePhase(pc[r])] = [r \in Runs |-> "idle"]
    BY <2>2 DEF StorePhase
  <2>5. PublishedEntries = 0
    BY <2>2 DEF PublishedEntries, Coco!IsWritten, CreateML!IsWritten, Project!IsWritten
  <2> QED BY <2>2, <2>3, <2>4, <2>5 DEF Store!Init
<1>2. TurnInv /\ [Next]_vars => [Store!Next]_(Store!vars)
  <2> SUFFICES ASSUME TurnInv, [Next]_vars
               PROVE  Store!Next \/ UNCHANGED Store!vars
    OBVIOUS
  <2>1. UNCHANGED layout
    BY LibrarySteps DEF TurnInv, LibInv
  <2>2. Store!Next \/ UNCHANGED <<storePhase, images, kept, PublishedEntries>>
    <3>1. UNCHANGED walk => UNCHANGED storePhase
      BY DEF walk, storePhase, StorePhase
    <3> QED BY <2>1, <3>1, TurnSteps, StoreOfMoves, StoreOfPasses DEF copying
  <2> QED BY <2>2 DEF Store!vars, storePhase, kept
<1> QED BY <1>1, <1>2, TurnInvariant, PTL DEF Spec, ImplementsStore, Store!Spec

-----------------------------------------------------------------------------
(* The crops of PyTorch Vision *)

CropsOK ==
  /\ rectAt \in [Runs -> Nat]
  /\ crops = [c \in Classes |-> crops[c]]
  /\ \A c \in Classes : \A n \in DOMAIN crops[c] :
       crops[c][n] \in [run: Runs, record: Nat, rect: Nat, whole: BOOLEAN]

\* Where a run looks for, or has, a rectangle there is one.
PlacesOK ==
  layout = "PyTorch" => \A r \in Runs :
    /\ pc[r] \in {"rect", "mkdir", "crop", "write"} => HasRecord(r)
    /\ pc[r] \in {"mkdir", "crop", "write"} => PyTorch!HasRect(r)

\* The run r has gone by the rectangle j of its record i.
Behind(r, i, j) ==
  /\ pc[r] # "idle"
  /\ i < at[r] \/ (i = at[r] /\ pc[r] # "record" /\ j < rectAt[r])

\* What the files of a class are cut from: a rectangle of that class, which the
\* run has gone by.
CropsTrue ==
  \A c \in Classes : \A n \in DOMAIN crops[c] :
    \E s \in Runs, i \in Nat, j \in Nat :
      /\ crops[c][n].run = s /\ crops[c][n].record = i /\ crops[c][n].rect = j
      /\ Behind(s, i, j)
      /\ db[s][i].rects[j].class = c

CropsApart ==
  \A c, d \in Classes : \A n \in DOMAIN crops[c], m \in DOMAIN crops[d] :
    <<crops[c][n].run, crops[c][n].record, crops[c][n].rect>>
      = <<crops[d][m].run, crops[d][m].record, crops[d][m].rect>> => c = d /\ n = m

NoCrops == layout # "PyTorch" => \A c \in Classes : DOMAIN crops[c] = {}

CropInv == WalkOK /\ CropsOK /\ PlacesOK /\ CropsTrue /\ CropsApart /\ NoCrops

\* A rectangle of a database is of a class.
LEMMA RectIsRectangle ==
  ASSUME WalkOK, NEW r \in Runs, HasRecord(r), PyTorch!HasRect(r)
  PROVE  PyTorch!Rect(r) \in Rectangle /\ PyTorch!Class(r) \in Classes
<1>1. Current(r) \in Record
  BY DEF HasRecord, Current, WalkOK
<1>2. Current(r).rects \in Seq(Rectangle) /\ PyTorch!Current(r) = Current(r)
  BY <1>1 DEF Record, PyTorch!Current, Current
<1>3. PyTorch!Rect(r) \in Rectangle
  BY <1>2 DEF PyTorch!HasRect, PyTorch!Rect
<1> QED BY <1>3 DEF PyTorch!Class, Rectangle

\* A run only goes on, and a run that has begun keeps its database.
LEMMA PlacesForward ==
  ASSUME CropInv, layout = "PyTorch", UNCHANGED <<layout, images>>, NEW r \in Runs,
         PyTorch!Begin(r) \/ PyTorch!Step(r) \/ PyTorch!Crash(r)
  PROVE  /\ rectAt' \in [Runs -> Nat] /\ PlacesOK'
         /\ \A s \in Runs : pc[s] # "idle" => pc'[s] # "idle" /\ db'[s] = db[s]
         /\ \A s \in Runs, i \in Nat, j \in Nat : Behind(s, i, j) => Behind(s, i, j)'
<1> USE DEF PyTorch!Goto
<1>1. /\ pc \in [Runs -> PcLabels] /\ at \in [Runs -> Nat] /\ rectAt \in [Runs -> Nat]
      /\ db \in [Runs -> Seq(Record)]
  BY DEF CropInv, WalkOK, CropsOK
<1>2. PICK l \in PcLabels \ {"idle"} : pc' = [pc EXCEPT ![r] = l]
  <2>1. Passes(r)
    BY PyTorchPasses DEF CropInv
  <2> QED BY <2>1 DEF Passes, Goto
<1>3. \A s \in Runs \ {r} : pc'[s] = pc[s]
  BY <1>1, <1>2
<1>4. \A s \in Runs : pc'[s] = "idle" => pc[s] = "idle"
  BY <1>1, <1>2
<1>5. \/ UNCHANGED db
      \/ pc[r] = "idle" /\ \E records \in DBs : db' = [db EXCEPT ![r] = records]
  <2>1. Passes(r)
    BY PyTorchPasses DEF CropInv
  <2> QED BY <2>1 DEF Passes
<1>6. \A s \in Runs : pc[s] # "idle" => db'[s] = db[s]
  BY <1>1, <1>5
<1> DEFINE Place(a, b, p) == at'[r] = a /\ rectAt'[r] = b /\ pc'[r] = p
           busy == {"rect", "mkdir", "crop", "write"}
<1>7. /\ rectAt' \in [Runs -> Nat]
      /\ \A s \in Runs \ {r} : at'[s] = at[s] /\ rectAt'[s] = rectAt[s]
      /\ \/ Place(at[r] + 1, rectAt[r], "record")
         \/ pc[r] = "record" /\ Place(at[r], 1, "rect") /\ HasRecord(r)
         \/ pc[r] \in busy /\ Place(at[r], rectAt[r] + 1, "rect")
         \/ pc[r] \in busy /\ PyTorch!HasRect(r) /\ Place(at[r], rectAt[r], "mkdir")
         \/ pc[r] \in busy /\ PyTorch!HasRect(r) /\ Place(at[r], rectAt[r], "crop")
         \/ pc[r] \in busy /\ PyTorch!HasRect(r) /\ Place(at[r], rectAt[r], "write")
         \/ \E p \in {"done", "failed", "crashed"} : Place(at[r], rectAt[r], p)
         \/ pc[r] = "idle" /\ Place(at[r], rectAt[r], "record")
  <2> USE <1>1
  <2>1. CASE PyTorch!Begin(r)
    BY <2>1 DEF PyTorch!Begin, PyTorch!Start
  <2>2. CASE PyTorch!LoadImage(r)
    <3>1. CASE PyTorch!NextRecord(r) /\ UNCHANGED rectAt
      BY <2>2, <3>1 DEF PyTorch!NextRecord
    <3>2. CASE /\ rectAt' = [rectAt EXCEPT ![r] = 1]
               /\ PyTorch!Goto(r, "rect") /\ UNCHANGED at
      <4>1. pc[r] = "record" /\ HasRecord(r)
        BY <2>2 DEF PyTorch!LoadImage, PyTorch!HasRecord, HasRecord
      <4> QED BY <3>2, <4>1
    <3> QED BY <2>2, <3>1, <3>2 DEF PyTorch!LoadImage
  <2>3. CASE PyTorch!SkipRect(r)
    BY <2>3 DEF PyTorch!SkipRect, PyTorch!NextRect
  <2>4. CASE PyTorch!FindDirectory(r)
    BY <2>4 DEF PyTorch!FindDirectory
  <2>5. CASE PyTorch!CreateDirectory(r)
    <3>1. pc[r] = "mkdir" /\ UNCHANGED at /\ PyTorch!HasRect(r)
      BY <2>5 DEF PyTorch!CreateDirectory, CropInv, PlacesOK
    <3>2. CASE PyTorch!Goto(r, "crop") /\ UNCHANGED rectAt
      BY <3>1, <3>2
    <3>3. CASE PyTorch!NextRect(r)
      BY <3>1, <3>3 DEF PyTorch!NextRect
    <3> QED BY <2>5, <3>2, <3>3 DEF PyTorch!CreateDirectory
  <2>6. CASE PyTorch!Crop(r)
    <3>1. pc[r] = "crop" /\ UNCHANGED at /\ PyTorch!HasRect(r)
      BY <2>6 DEF PyTorch!Crop, CropInv, PlacesOK
    <3>2. \/ PyTorch!Goto(r, "write") /\ UNCHANGED rectAt
          \/ PyTorch!NextRect(r)
      BY <2>6 DEF PyTorch!Crop
    <3>3. CASE PyTorch!Goto(r, "write") /\ UNCHANGED rectAt
      BY <3>1, <3>3
    <3>4. CASE PyTorch!NextRect(r)
      BY <3>1, <3>4 DEF PyTorch!NextRect
    <3> QED BY <3>2, <3>3, <3>4
  <2>7. CASE PyTorch!WriteCrop(r)
    BY <2>7 DEF PyTorch!WriteCrop, PyTorch!NextRect
  <2>8. CASE PyTorch!LastRect(r)
    BY <2>8 DEF PyTorch!LastRect, PyTorch!NextRecord
  <2>9. CASE PyTorch!LastRecord(r) \/ PyTorch!Crash(r)
    BY <2>9 DEF PyTorch!LastRecord, PyTorch!EndWalk, PyTorch!Crash, PyTorch!Kill
  <2> QED BY <2>1, <2>2, <2>3, <2>4, <2>5, <2>6, <2>7, <2>8, <2>9 DEF PyTorch!Step
<1>8. ASSUME NEW s \in Runs, NEW i \in Nat, NEW j \in Nat, Behind(s, i, j)
      PROVE  Behind(s, i, j)'
  <2>1. CASE s # r
    BY <1>3, <1>7, <1>8, <2>1 DEF Behind
  <2>2. CASE s = r
    BY <1>1, <1>7, <1>8, <2>2 DEF Behind
  <2> QED BY <2>1, <2>2
<1>9. PlacesOK'
  <2> DEFINE Fine(s) ==
        /\ pc'[s] \in {"rect", "mkdir", "crop", "write"} => HasRecord(s)'
        /\ pc'[s] \in {"mkdir", "crop", "write"} => PyTorch!HasRect(s)'
  <2> SUFFICES ASSUME NEW s \in Runs PROVE Fine(s)
    BY DEF PlacesOK
  <2>1. CASE s # r
    <3>1. pc[s] \in busy => db'[s] = db[s] /\ at'[s] = at[s] /\ rectAt'[s] = rectAt[s]
      BY <1>6, <1>7, <2>1
    <3>2. pc[s] \in busy => /\ HasRecord(s)' = HasRecord(s)
                            /\ PyTorch!HasRect(s)' = PyTorch!HasRect(s)
                            /\ PyTorch!Rect(s)' = PyTorch!Rect(s)
      BY <3>1 DEF HasRecord, PyTorch!HasRect, PyTorch!Rect, PyTorch!Current
    <3> QED BY <1>3, <2>1, <3>2 DEF CropInv, PlacesOK
  <2>2. CASE s = r
    <3>1. pc'[r] \in busy => db'[r] = db[r] /\ at'[r] = at[r] /\ HasRecord(r)
      BY <1>6, <1>7 DEF CropInv, PlacesOK
    <3>2. pc'[r] \in busy => HasRecord(r)'
      BY <3>1 DEF HasRecord
    <3>3. pc'[r] \in {"mkdir", "crop", "write"} => rectAt'[r] = rectAt[r] /\ PyTorch!HasRect(r)
      BY <1>7
    <3> QED BY <2>2, <3>1, <3>2, <3>3
            DEF PyTorch!HasRect, PyTorch!Rect, PyTorch!Current
  <2> QED BY <2>1, <2>2
<1> QED BY <1>4, <1>6, <1>7, <1>8, <1>9

\* A crop that is there stays of the rectangle it was cut from.
LEMMA CropsStay ==
  ASSUME CropInv, layout = "PyTorch", UNCHANGED <<layout, images>>, NEW r \in Runs,
         PyTorch!Begin(r) \/ PyTorch!Step(r) \/ PyTorch!Crash(r),
         NEW c \in Classes, NEW n \in DOMAIN crops[c]
  PROVE  \E s \in Runs, i \in Nat, j \in Nat :
           /\ crops[c][n].run = s /\ crops[c][n].record = i /\ crops[c][n].rect = j
           /\ Behind(s, i, j) /\ Behind(s, i, j)'
           /\ db'[s][i].rects[j].class = c
<1>3. PICK s \in Runs, i \in Nat, j \in Nat :
        /\ crops[c][n].run = s /\ crops[c][n].record = i /\ crops[c][n].rect = j
        /\ Behind(s, i, j)
        /\ db[s][i].rects[j].class = c
  BY DEF CropInv, CropsTrue
<1>4. pc[s] # "idle"
  BY <1>3 DEF Behind
<1>5. db'[s] = db[s]
  BY <1>4, PlacesForward
<1>6. Behind(s, i, j)'
  BY <1>3, PlacesForward
<1> QED BY <1>3, <1>5, <1>6

\* What a step does to the crops: nothing, or the file of the chosen name is of
\* the rectangle the run is at, which it goes by.
LEMMA CropsOfStep ==
  ASSUME CropInv, layout = "PyTorch", UNCHANGED <<layout, images>>, NEW r \in Runs,
         PyTorch!Begin(r) \/ PyTorch!Step(r) \/ PyTorch!Crash(r)
  PROVE  \/ UNCHANGED crops
         \/ \E c \in Classes, w \in BOOLEAN :
              /\ pc[r] = "write" /\ c = PyTorch!Class(r) /\ UNCHANGED <<db, at, dest>>
              /\ crops' = [crops EXCEPT ![c] = Put(@, dest[r],
                            [run |-> r, record |-> at[r], rect |-> rectAt[r], whole |-> w])]
              /\ db[r][at[r]].rects[rectAt[r]].class = c
              /\ ~Behind(r, at[r], rectAt[r]) /\ pc'[r] = "rect"
              /\ rectAt'[r] = rectAt[r] + 1
<1>1. CASE PyTorch!WriteCrop(r)
  <2>1. /\ pc[r] = "write" /\ HasRecord(r) /\ PyTorch!HasRect(r)
        /\ UNCHANGED <<db, at, dest>> /\ pc'[r] = "rect" /\ rectAt'[r] = rectAt[r] + 1
    BY <1>1 DEF PyTorch!WriteCrop, PyTorch!NextRect, PyTorch!Goto, CropInv, WalkOK,
                PlacesOK, CropsOK
  <2>2. PyTorch!Rect(r) \in Rectangle /\ PyTorch!Class(r) \in Classes
    BY <2>1, RectIsRectangle DEF CropInv
  <2>4. db[r][at[r]].rects[rectAt[r]].class = PyTorch!Class(r)
    BY DEF PyTorch!Class, PyTorch!Rect, PyTorch!Current
  <2>5. ~Behind(r, at[r], rectAt[r])
    BY DEF Behind, CropInv, WalkOK, CropsOK
  <2>6. \/ UNCHANGED crops
        \/ \E w \in BOOLEAN :
             crops' = [crops EXCEPT ![PyTorch!Class(r)] = Put(@, dest[r],
                        [run |-> r, record |-> at[r], rect |-> rectAt[r], whole |-> w])]
    BY <1>1 DEF PyTorch!WriteCrop, PyTorch!Put, Put
  <2> QED BY <2>1, <2>2, <2>4, <2>5, <2>6
<1>2. CASE ~PyTorch!WriteCrop(r)
  BY <1>2 DEF PyTorch!Begin, PyTorch!Step, PyTorch!Crash, PyTorch!LoadImage,
     PyTorch!SkipRect, PyTorch!FindDirectory, PyTorch!CreateDirectory, PyTorch!Crop,
     PyTorch!LastRect, PyTorch!LastRecord
<1> QED BY <1>1, <1>2

LEMMA CropsStep ==
  ASSUME CropInv, layout = "PyTorch", UNCHANGED <<layout, images>>, NEW r \in Runs,
         PyTorch!Begin(r) \/ PyTorch!Step(r) \/ PyTorch!Crash(r)
  PROVE  CropsOK' /\ PlacesOK' /\ CropsTrue' /\ CropsApart' /\ NoCrops'
<1>1. rectAt' \in [Runs -> Nat] /\ PlacesOK' /\ NoCrops'
  BY PlacesForward DEF NoCrops
<1>2. CASE UNCHANGED crops
  <2>1. CropsOK' /\ CropsApart'
    BY <1>1, <1>2 DEF CropInv, CropsOK, CropsApart
  <2>2. CropsTrue'
    <3>1. ASSUME NEW c \in Classes, NEW n \in DOMAIN crops[c]
          PROVE  \E s \in Runs, i \in Nat, j \in Nat :
                   /\ crops'[c][n].run = s /\ crops'[c][n].record = i
                   /\ crops'[c][n].rect = j /\ Behind(s, i, j)'
                   /\ db'[s][i].rects[j].class = c
      BY <1>2, CropsStay
    <3> QED BY <1>2, <3>1 DEF CropsTrue
  <2> QED BY <1>1, <2>1, <2>2
<1>3. ASSUME NEW c \in Classes, NEW w \in BOOLEAN,
             pc[r] = "write", UNCHANGED <<db, at, dest>>,
             crops' = [crops EXCEPT ![c] = Put(@, dest[r],
                        [run |-> r, record |-> at[r], rect |-> rectAt[r], whole |-> w])],
             db[r][at[r]].rects[rectAt[r]].class = c,
             ~Behind(r, at[r], rectAt[r]), pc'[r] = "rect", rectAt'[r] = rectAt[r] + 1
      PROVE  CropsOK' /\ CropsTrue' /\ CropsApart'
  <2> DEFINE new == [run |-> r, record |-> at[r], rect |-> rectAt[r], whole |-> w]
             f == dest[r]
  <2>1. /\ crops = [d \in Classes |-> crops[d]]
        /\ at[r] \in Nat /\ rectAt[r] \in Nat
    BY DEF CropInv, CropsOK, WalkOK
  <2>2. /\ crops' = [d \in Classes |-> crops'[d]]
        /\ \A d \in Classes \ {c} : crops'[d] = crops[d]
        /\ crops'[c] = Put(crops[c], f, new)
    BY <1>3, <2>1
  <2>3. /\ DOMAIN crops'[c] = DOMAIN crops[c] \cup {f}
        /\ crops'[c][f] = new
        /\ \A n \in DOMAIN crops[c] \ {f} : crops'[c][n] = crops[c][n]
    BY <2>2 DEF Put
  <2>4. \A d \in Classes : \A n \in DOMAIN crops'[d] :
          \/ d = c /\ n = f /\ crops'[d][n] = new
          \/ <<d, n>> # <<c, f>> /\ n \in DOMAIN crops[d] /\ crops'[d][n] = crops[d][n]
    BY <2>2, <2>3
  <2> HIDE DEF f
  <2>5. new \in [run: Runs, record: Nat, rect: Nat, whole: BOOLEAN]
    BY <2>1
  <2>6. CropsOK'
    <3>1. \A d \in Classes : \A n \in DOMAIN crops'[d] :
            crops'[d][n] \in [run: Runs, record: Nat, rect: Nat, whole: BOOLEAN]
      BY <2>4, <2>5 DEF CropInv, CropsOK
    <3> QED BY <1>1, <2>2, <3>1 DEF CropsOK
  <2>7. CropsTrue'
    <3>1. ASSUME NEW d \in Classes, NEW n \in DOMAIN crops'[d]
          PROVE  \E s \in Runs, i \in Nat, j \in Nat :
                   /\ crops'[d][n].run = s /\ crops'[d][n].record = i
                   /\ crops'[d][n].rect = j /\ Behind(s, i, j)'
                   /\ db'[s][i].rects[j].class = d
      <4>1. CASE d = c /\ n = f /\ crops'[d][n] = new
        <5>2. PICK i \in Nat, j \in Nat : i = at[r] /\ j = rectAt[r]
          BY <2>1
        <5>3. Behind(r, i, j)'
          BY <1>3, <2>1, <5>2 DEF Behind
        <5> QED BY <1>3, <4>1, <5>2, <5>3
      <4>2. CASE n \in DOMAIN crops[d] /\ crops'[d][n] = crops[d][n]
        BY <4>2, CropsStay
      <4> QED BY <2>4, <4>1, <4>2
    <3> QED BY <3>1 DEF CropsTrue
  <2>8. \A d \in Classes : \A n \in DOMAIN crops[d] :
          <<crops[d][n].run, crops[d][n].record, crops[d][n].rect>>
            # <<r, at[r], rectAt[r]>>
    BY <1>3 DEF CropInv, CropsTrue
  <2>9. CropsApart'
    <3>1. ASSUME NEW d \in Classes, NEW e \in Classes,
                 NEW n \in DOMAIN crops'[d], NEW m \in DOMAIN crops'[e],
                 <<crops'[d][n].run, crops'[d][n].record, crops'[d][n].rect>>
                   = <<crops'[e][m].run, crops'[e][m].record, crops'[e][m].rect>>
          PROVE  d = e /\ n = m
      BY <2>4, <2>8, <3>1 DEF CropInv, CropsApart
    <3> QED BY <3>1 DEF CropsApart
  <2> QED BY <2>6, <2>7, <2>9
<1> QED BY <1>1, <1>2, <1>3, CropsOfStep

CropsInv == LibInv /\ CropInv

LEMMA CropsInvariant == Spec => []CropsInv
<1>1. Init => CropsInv
  <2> SUFFICES ASSUME Init PROVE CropsInv
    OBVIOUS
  <2>1. /\ pc = [r \in Runs |-> "idle"] /\ rectAt = [r \in Runs |-> 1]
        /\ crops = [c \in Classes |-> << >>]
    BY DEF Init, PyTorch!Init, PyTorch!WalkInit, PyTorch!Runs, Runs
  <2>2. \A c \in Classes : DOMAIN crops[c] = {}
    BY <2>1
  <2>3. CropsOK /\ PlacesOK /\ CropsTrue /\ CropsApart /\ NoCrops
    BY <2>1, <2>2 DEF CropsOK, PlacesOK, CropsTrue, CropsApart, NoCrops
  <2> QED BY <2>3, LibInit DEF CropsInv, CropInv, LibInv, LibType
<1>2. CropsInv /\ [Next]_vars => CropsInv'
  <2> SUFFICES ASSUME CropsInv, [Next]_vars PROVE CropsInv'
    OBVIOUS
  <2>1. LibInv' /\ WalkOK' /\ UNCHANGED layout
    BY LibStep, LibrarySteps DEF CropsInv, LibInv, LibType
  <2>2. CASE UNCHANGED <<pc, db, at, rectAt, crops>>
    <3>1. \A r \in Runs : /\ HasRecord(r)' = HasRecord(r)
                          /\ PyTorch!HasRect(r)' = PyTorch!HasRect(r)
                          /\ PyTorch!Rect(r)' = PyTorch!Rect(r)
      BY <2>2 DEF HasRecord, PyTorch!HasRect, PyTorch!Rect, PyTorch!Current
    <3>2. PlacesOK'
      BY <2>1, <2>2, <3>1 DEF CropsInv, CropInv, PlacesOK
    <3>3. CropsOK' /\ CropsTrue' /\ CropsApart' /\ NoCrops'
      BY <2>1, <2>2 DEF CropsInv, CropInv, CropsOK, CropsTrue, CropsApart, NoCrops, Behind
    <3> QED BY <2>1, <3>2, <3>3 DEF CropsInv, CropInv
  <2>3. CASE layout # "PyTorch"
    <3>1. UNCHANGED <<rectAt, crops>>
      BY <2>3 DEF Next, perform_export, export_db, NoExporter, Finished, vars, pyTorch
    <3>2. \A c \in Classes : DOMAIN crops[c] = {}
      BY <2>3 DEF CropsInv, CropInv, NoCrops
    <3>3. CropsOK' /\ PlacesOK' /\ CropsTrue' /\ CropsApart' /\ NoCrops'
      BY <2>1, <2>3, <3>1, <3>2
         DEF CropsInv, CropInv, CropsOK, PlacesOK, CropsTrue, CropsApart, NoCrops
    <3> QED BY <2>1, <3>3 DEF CropsInv, CropInv
  <2>4. ASSUME layout = "PyTorch", NEW r \in Runs,
               PyTorch!Begin(r) \/ PyTorch!Step(r) \/ PyTorch!Crash(r), UNCHANGED images
        PROVE  CropsInv'
    BY <2>1, <2>4, CropsStep DEF CropsInv, CropInv
  <2> QED BY <2>2, <2>3, <2>4
          DEF Next, perform_export, export_db, NoExporter, Finished, vars, walk, pyTorch
<1> QED BY <1>1, <1>2, PTL DEF Spec

\* A rectangle is cut into one file at most, in the directory of its own class: by
\* exports that interleave in one directory, repeat, fail and die, too.
THEOREM CropsAreOfOneRectangle == Spec => []OneCropPerRectangle
<1>1. CropsInv => OneCropPerRectangle
  <2> SUFFICES ASSUME CropsInv, NEW c \in Classes, NEW d \in Classes,
                      NEW n \in DOMAIN crops[c], NEW m \in DOMAIN crops[d]
               PROVE  /\ db[crops[c][n].run][crops[c][n].record].rects[crops[c][n].rect].class
                           = c
                      /\ [crops[c][n] EXCEPT !.whole = TRUE]
                           = [crops[d][m] EXCEPT !.whole = TRUE] => c = d /\ n = m
    BY DEF OneCropPerRectangle, PyTorch!OneCropPerRectangle
  <2>1. /\ crops[c][n] \in [run: Runs, record: Nat, rect: Nat, whole: BOOLEAN]
        /\ crops[d][m] \in [run: Runs, record: Nat, rect: Nat, whole: BOOLEAN]
    BY DEF CropsInv, CropInv, CropsOK
  <2>2. [crops[c][n] EXCEPT !.whole = TRUE] = [crops[d][m] EXCEPT !.whole = TRUE]
          => <<crops[c][n].run, crops[c][n].record, crops[c][n].rect>>
               = <<crops[d][m].run, crops[d][m].record, crops[d][m].rect>>
    BY <2>1
  <2> QED BY <2>2 DEF CropsInv, CropInv, CropsTrue, CropsApart
<1> QED BY <1>1, CropsInvariant, PTL

-----------------------------------------------------------------------------
(* The descriptors of Pascal VOC, exported again and again *)

\* The stem a run has chosen has no descriptor yet.
FreshStem ==
  \A r \in Runs : pc[r] \in {"copy", "annotation"} =>
    PascalVoc!StemOf(dest[r]) \notin DOMAIN annotations

\* The image n of the run r is the copy of its record i, its descriptor names it
\* and holds what the record shows.
DescribedBy(r, n, i) ==
  /\ i \in DOMAIN db[r] /\ PascalVoc!CopyOf(r, n, i)
  /\ PascalVoc!StemOf(n) \in DOMAIN annotations
  /\ annotations[PascalVoc!StemOf(n)].filename = n
  /\ annotations[PascalVoc!StemOf(n)].objects = PascalVoc!Labels(db[r][i].rects)

Described ==
  \A r \in Runs : \A k \in DOMAIN imageSet[r] : \E n, i :
    imageSet[r][k] = n /\ DescribedBy(r, n, i)

\* Between the two lists the first is of the run, and after them both are, until
\* another run begins.
ListsWritten ==
  \A r \in Runs :
    /\ pc[r] \in {"val", "done"} /\ (r = NRuns \/ pc[r + 1] = "idle")
         => sets.train = PascalVoc!Stems(imageSet[r])
    /\ pc[r] = "done" /\ (r = NRuns \/ pc[r + 1] = "idle")
         => sets.val = PascalVoc!Stems(imageSet[r])

VocInv ==
  /\ TurnInv
  /\ layout = "PascalVOC" => FreshStem /\ Described /\ ListsWritten

\* A descriptor is written under the stem of the image that has been copied, and
\* a list by the run that is at it.
LEMMA VocSteps ==
  ASSUME LibInv, ListsOK, layout = "PascalVOC", UNCHANGED layout, NEW r \in Runs,
         PascalVoc!Begin(r) \/ PascalVoc!Step(r) \/ PascalVoc!Crash(r)
  PROVE  /\ \/ UNCHANGED <<annotations, imageSet>>
            \/ /\ pc[r] = "annotation" /\ pc'[r] = "record" /\ UNCHANGED <<db, dest, images>>
               /\ annotations' = Put(annotations, PascalVoc!StemOf(dest[r]),
                                     [filename |-> dest[r],
                                      objects |-> PascalVoc!Labels(Current(r).rects)])
               /\ imageSet' = [imageSet EXCEPT ![r] = Append(@, dest[r])]
         /\ pc'[r] = "copy" => PascalVoc!StemOf(dest'[r]) \notin DOMAIN annotations
                               /\ UNCHANGED annotations
         /\ pc'[r] = "annotation" => pc[r] = "copy" /\ UNCHANGED <<dest, annotations>>
         /\ \/ UNCHANGED sets /\ pc'[r] \notin {"val", "done"}
            \/ /\ pc[r] = "train" /\ pc'[r] = "val"
               /\ sets'.train = PascalVoc!Stems(imageSet[r]) /\ UNCHANGED imageSet
            \/ /\ pc[r] = "val" /\ pc'[r] = "done" /\ sets'.train = sets.train
               /\ sets'.val = PascalVoc!Stems(imageSet[r]) /\ UNCHANGED imageSet
<1> USE DEF PascalVoc!Goto
<1>1. /\ pc \in [Runs -> PcLabels] /\ imageSet \in [Runs -> Seq(Filename)] /\ WalkOK
      /\ sets = [train |-> sets.train, val |-> sets.val]
  BY DEF LibInv, LibType, WalkOK, CollectedOK, ListsOK
<1> DEFINE Quiet == UNCHANGED <<annotations, imageSet>> /\ UNCHANGED sets
<1>2. CASE PascalVoc!Begin(r)
  <2>1. pc[r] = "idle" /\ pc'[r] \in {"record", "failed"} /\ UNCHANGED <<annotations, sets>>
        /\ imageSet' = [imageSet EXCEPT ![r] = << >>]
    BY <1>1, <1>2 DEF PascalVoc!Begin, PascalVoc!cleared, PascalVoc!Enter, PascalVoc!Start
  <2>2. imageSet[r] = << >>
    BY <2>1 DEF LibInv, LibType, Unentered, Entries
  <2>3. UNCHANGED imageSet
    BY <1>1, <2>1, <2>2
  <2> QED BY <2>1, <2>3
<1>3. CASE PascalVoc!SkipRecord(r) \/ PascalVoc!EndOfRecords(r) \/ PascalVoc!Crash(r)
  <2>1. Quiet /\ pc'[r] \in {"record", "train", "crashed"}
    BY <1>1, <1>3 DEF PascalVoc!SkipRecord, PascalVoc!EndOfRecords, PascalVoc!Crash,
       PascalVoc!Skip, PascalVoc!NextRecord, PascalVoc!LastRecord, PascalVoc!EndWalk,
       PascalVoc!Die, PascalVoc!Kill
  <2> QED BY <2>1
<1>4. CASE PascalVoc!ChooseName(r)
  <2> DEFINE S == PascalVoc!name_taken
  <2>1. Quiet /\ (ChoosesOutside(r, S) \/ LoadFails(r))
    BY <1>1, <1>4, PascalVocWalk DEF PascalVoc!ChooseName, WalkOK
  <2>2. CASE LoadFails(r)
    BY <1>1, <2>1, <2>2 DEF LoadFails, NextRecord, Goto
  <2>3. CASE ChoosesOutside(r, S)
    <3>1. pc'[r] = "copy" /\ dest'[r] \in Filename /\ dest'[r] \notin S
      BY <1>1, <2>3, ChosenNames DEF ChoosesOutside, Goto
    <3>2. ASSUME PascalVoc!StemOf(dest'[r]) \in DOMAIN annotations
          PROVE  FALSE
      <4>1. PICK d \in Filename : d = dest'[r]
        BY <3>1
      <4>2. PICK s \in DOMAIN annotations : s = PascalVoc!StemOf(d)
        BY <3>2, <4>1
      <4>3. s.base = d.base /\ s.tail = d.tail
        BY <4>2 DEF PascalVoc!StemOf
      <4>4. d = [base |-> s.base, tail |-> s.tail, ext |-> d.ext] /\ d.ext \in Words
        BY <4>1, <4>3 DEF Filename
      <4>5. d \in S
        BY <4>4 DEF PascalVoc!name_taken
      <4> QED BY <3>1, <4>1, <4>5
    <3> QED BY <2>1, <3>1, <3>2
  <2> QED BY <2>1, <2>2, <2>3
<1>5. CASE PascalVoc!CopyImage(r)
  <2>1. Quiet /\ pc[r] = "copy" /\ UNCHANGED dest /\ pc'[r] \in {"annotation", "record"}
    BY <1>1, <1>5 DEF PascalVoc!CopyImage, PascalVoc!Copy, PascalVoc!NextRecord
  <2> QED BY <2>1
<1>6. CASE PascalVoc!ExpressAnnotation(r)
  <2>1. pc'[r] = "record" /\ UNCHANGED sets
    BY <1>1, <1>6 DEF PascalVoc!ExpressAnnotation, PascalVoc!NextRecord
  <2> QED BY <1>6, <2>1 DEF PascalVoc!ExpressAnnotation, PascalVoc!Put, Put,
                             PascalVoc!Current, Current
<1>7. CASE PascalVoc!ExpressTrainSet(r)
  <2>1. UNCHANGED <<annotations, imageSet>> /\ pc[r] = "train"
    BY <1>7 DEF PascalVoc!ExpressTrainSet
  <2>2. \/ UNCHANGED sets /\ pc'[r] = "failed"
        \/ sets'.train = PascalVoc!Stems(imageSet[r]) /\ pc'[r] = "val"
    BY <1>1, <1>7 DEF PascalVoc!ExpressTrainSet
  <2> QED BY <2>1, <2>2
<1>8. CASE PascalVoc!ExpressValSet(r)
  <2>1. UNCHANGED <<annotations, imageSet>> /\ pc[r] = "val"
    BY <1>8 DEF PascalVoc!ExpressValSet
  <2>2. \/ UNCHANGED sets /\ pc'[r] = "failed"
        \/ /\ sets'.train = sets.train /\ sets'.val = PascalVoc!Stems(imageSet[r])
           /\ pc'[r] = "done"
    BY <1>1, <1>8 DEF PascalVoc!ExpressValSet
  <2> QED BY <2>1, <2>2
<1> QED BY <1>2, <1>3, <1>4, <1>5, <1>6, <1>7, <1>8 DEF PascalVoc!Step

\* In turn, the run that moves is the only one at work: those before it have ended
\* and those after it have not begun.
LEMMA MoversAlone ==
  ASSUME InTurn, ~Concurrent, layout # "unknown",
         NEW r \in Runs, NEW s \in Runs \ {r}, Moves(r) \/ Passes(r)
  PROVE  (s < r /\ Ended(s)) \/ (s > r /\ pc[s] = "idle")
<1>1. s < r \/ s > r
  BY RunsAssumption DEF Runs
<1>2. s < r => s \in 1..(r - 1)
  BY RunsAssumption DEF Runs
<1>3. s > r => r \in 1..(s - 1)
  BY RunsAssumption DEF Runs
<1>4. CASE s < r
  <2>1. CASE pc[r] = "idle"
    <3>1. \A q \in 1..(r - 1) : Ended(q)
      BY <2>1, MoversWork
    <3> QED BY <1>2, <1>4, <3>1
  <2>2. CASE pc[r] # "idle"
    BY <1>2, <1>4, <2>2 DEF InTurn
  <2> QED BY <2>1, <2>2
<1>5. CASE s > r
  BY <1>3, <1>5, MoversWork DEF InTurn
<1> QED BY <1>1, <1>4, <1>5

\* No move takes away or changes a copy.
LEMMA MovesKeepImages ==
  ASSUME NEW r \in Runs, Moves(r)
  PROVE  \A n \in DOMAIN images : n \in DOMAIN images' /\ images'[n] = images[n]
<1>1. UNCHANGED images \/ Copies(r)
  BY DEF Moves, Begins, Walks, Chooses, ChoosesOutside, Enters
<1> QED BY <1>1 DEF Copies, Put

\* An image stays described: its copy and its database stay, and a descriptor is
\* only added where there was none.
LEMMA StaysDescribed ==
  ASSUME LibInv, FreshStem, ListsOK, layout = "PascalVOC", UNCHANGED layout, NEW r \in Runs,
         PascalVoc!Begin(r) \/ PascalVoc!Step(r) \/ PascalVoc!Crash(r), Moves(r),
         NEW s \in Runs, pc[s] # "idle", NEW n, NEW i, DescribedBy(s, n, i)
  PROVE  DescribedBy(s, n, i)'
<1>1. db'[s] = db[s]
  <2>1. UNCHANGED db \/ pc[r] = "idle"
    BY DEF Moves, Begins, Walks, Chooses, ChoosesOutside, Copies, Enters
  <2> QED BY <2>1, MovesKeepWalk DEF LibInv
<1>2. n \in DOMAIN images' /\ images'[n] = images[n]
  BY MovesKeepImages DEF DescribedBy, PascalVoc!CopyOf
<1>3. ASSUME NEW t \in DOMAIN annotations
      PROVE  t \in DOMAIN annotations' /\ annotations'[t] = annotations[t]
  <2>1. CASE UNCHANGED annotations
    BY <2>1
  <2>2. CASE /\ pc[r] = "annotation"
             /\ \E a : annotations' = Put(annotations, PascalVoc!StemOf(dest[r]), a)
    BY <2>2 DEF FreshStem, Put
  <2> QED BY <2>1, <2>2, VocSteps
<1>4. /\ i \in DOMAIN db'[s]
      /\ images'[n].whole /\ db'[s][i].img = images'[n].of
      /\ PascalVoc!Exportable(db'[s][i])
  BY <1>1, <1>2 DEF DescribedBy, PascalVoc!CopyOf
<1>5. PascalVoc!StemOf(n) \in DOMAIN annotations
  BY DEF DescribedBy
<1>6. /\ PascalVoc!StemOf(n) \in DOMAIN annotations'
      /\ annotations'[PascalVoc!StemOf(n)].filename = n
      /\ annotations'[PascalVoc!StemOf(n)].objects = PascalVoc!Labels(db'[s][i].rects)
  BY <1>1, <1>3, <1>5 DEF DescribedBy
<1> QED BY <1>2, <1>4, <1>6 DEF DescribedBy, PascalVoc!CopyOf

LEMMA VocMove ==
  ASSUME ~Concurrent, VocInv, layout = "PascalVOC", UNCHANGED layout, NEW r \in Runs,
         PascalVoc!Begin(r) \/ PascalVoc!Step(r) \/ PascalVoc!Crash(r)
  PROVE  FreshStem' /\ Described' /\ ListsWritten'
<1>1. /\ LibInv /\ LibType /\ ListsOK /\ InTurn /\ Unentered /\ AtImage /\ WalkOK
      /\ FreshStem /\ Described /\ ListsWritten
  BY DEF VocInv, TurnInv, LibInv, LibType, CopyLayouts
<1>2. Moves(r)
  BY <1>1, PascalVocMoves
<1>3. /\ \A s \in Runs \ {r} : pc'[s] = pc[s] /\ dest'[s] = dest[s] /\ kept'[s] = kept[s]
      /\ pc'[r] # "idle"
  BY <1>1, <1>2, MovesKeepWalk
<1>4. \A s \in Runs \ {r} : (s < r /\ Ended(s)) \/ (s > r /\ pc[s] = "idle")
  BY <1>1, <1>2, MoversAlone
<1>5. imageSet \in [Runs -> Seq(Filename)]
  BY <1>1 DEF LibType, CollectedOK
<1>6. FreshStem'
  <2> SUFFICES ASSUME NEW s \in Runs, pc'[s] \in {"copy", "annotation"}
               PROVE  PascalVoc!StemOf(dest'[s]) \notin DOMAIN annotations'
    BY DEF FreshStem, PascalVoc!StemOf
  <2>1. s = r
    BY <1>3, <1>4 DEF Ended
  <2>2. CASE pc'[s] = "copy"
    BY <1>1, <2>1, <2>2, VocSteps
  <2>3. CASE pc'[s] = "annotation"
    <3>1. pc[r] = "copy" /\ UNCHANGED <<dest, annotations>>
      BY <1>1, <2>1, <2>3, VocSteps
    <3> QED BY <1>1, <2>1, <3>1 DEF FreshStem
  <2> QED BY <2>2, <2>3
<1>7. Described'
  <2>1. ASSUME NEW s \in Runs, NEW k \in DOMAIN imageSet[s]
        PROVE  \E n, i : imageSet[s][k] = n /\ DescribedBy(s, n, i)'
    <3>1. PICK n, i : imageSet[s][k] = n /\ DescribedBy(s, n, i)
      BY <1>1 DEF Described
    <3>2. pc[s] # "idle"
      BY <1>1 DEF Unentered, Entries
    <3>3. DescribedBy(s, n, i)'
      BY <1>1, <1>2, <3>1, <3>2, StaysDescribed
    <3> QED BY <3>1, <3>3
  <2>2. CASE UNCHANGED imageSet
    BY <2>1, <2>2 DEF Described
  <2>3. CASE /\ pc[r] = "annotation" /\ UNCHANGED <<db, dest, images>>
             /\ annotations' = Put(annotations, PascalVoc!StemOf(dest[r]),
                                   [filename |-> dest[r],
                                    objects |-> PascalVoc!Labels(Current(r).rects)])
             /\ imageSet' = [imageSet EXCEPT ![r] = Append(@, dest[r])]
    <3>1. PICK n \in Filename : n = dest[r]
      BY <1>1, <2>3 DEF AtImage, NamedLabels, EntryLabels
    <3>2. HasRecord(r) /\ Exportable(Current(r))
      BY <1>1, <2>3 DEF AtImage, NamedLabels, EntryLabels
    <3>3. n \in DOMAIN images /\ images[n] = Copied(Current(r).img, TRUE)
      BY <1>1, <2>3, <3>1, ClaimOf DEF LibInv, CopyLayouts, EntryLabels
    <3>4. PICK i : i = at[r]
      OBVIOUS
    <3>5. /\ i \in DOMAIN db'[r] /\ PascalVoc!Exportable(db'[r][i])
          /\ n \in DOMAIN images' /\ images'[n].whole /\ db'[r][i].img = images'[n].of
      BY <2>3, <3>2, <3>3, <3>4
         DEF HasRecord, Current, Copied, Exportable, PascalVoc!Exportable
    <3>6. /\ PascalVoc!StemOf(n) \in DOMAIN annotations'
          /\ annotations'[PascalVoc!StemOf(n)]
               = [filename |-> n, objects |-> PascalVoc!Labels(db'[r][i].rects)]
      BY <2>3, <3>1, <3>4 DEF Put, Current
    <3>7. DescribedBy(r, n, i)'
      BY <3>5, <3>6 DEF DescribedBy, PascalVoc!CopyOf
    <3>8. ASSUME NEW s \in Runs, NEW k \in DOMAIN imageSet'[s]
          PROVE  \E m, j : imageSet'[s][k] = m /\ DescribedBy(s, m, j)'
      <4>1. CASE s = r /\ k = Len(imageSet[r]) + 1
        <5>1. imageSet'[s][k] = n
          BY <1>5, <2>3, <3>1, <4>1
        <5> QED BY <3>7, <4>1, <5>1
      <4>2. CASE ~(s = r /\ k = Len(imageSet[r]) + 1)
        <5>1. k \in DOMAIN imageSet[s] /\ imageSet'[s][k] = imageSet[s][k]
          BY <1>5, <2>3, <3>1, <4>2
        <5> QED BY <2>1, <5>1
      <4> QED BY <4>1, <4>2
    <3> QED BY <3>8 DEF Described
  <2> QED BY <1>1, <2>2, <2>3, VocSteps
<1>8. ListsWritten'
  <2> DEFINE Latest(s) == s = NRuns \/ pc[s + 1] = "idle"
             LastThen(s) == s = NRuns \/ pc'[s + 1] = "idle"
  <2> SUFFICES ASSUME NEW s \in Runs, LastThen(s)
               PROVE  /\ pc'[s] \in {"val", "done"}
                           => sets'.train = PascalVoc!Stems(imageSet'[s])
                      /\ pc'[s] = "done" => sets'.val = PascalVoc!Stems(imageSet'[s])
    BY DEF ListsWritten, PascalVoc!Stems, PascalVoc!StemOf
  <2>1. s < NRuns => s + 1 \in Runs
    BY RunsAssumption DEF Runs
  <2>2. s = NRuns \/ s < NRuns
    BY RunsAssumption DEF Runs
  <2>3. CASE s # r
    <3>1. pc'[s] = pc[s]
      BY <1>3, <2>3
    <3>2. CASE s > r
      BY <1>4, <2>3, <3>1, <3>2, RunsAssumption DEF Runs
    <3>3. CASE s < r
      <4>1. s < NRuns
        BY <2>2, <3>3, RunsAssumption DEF Runs
      <4>2. pc'[s + 1] = "idle" /\ s + 1 # r
        BY <1>3, <4>1, RunsAssumption DEF Runs
      <4>3. pc[s + 1] = "idle" /\ s + 1 < r
        BY <1>3, <2>1, <3>3, <4>1, <4>2, RunsAssumption DEF Runs
      <4>4. Ended(s + 1)
        <5>1. ~(s + 1 > r)
          BY <4>3, RunsAssumption DEF Runs
        <5> QED BY <1>4, <2>1, <4>1, <4>2, <5>1
      <4> QED BY <4>3, <4>4 DEF Ended
    <3> QED BY <1>4, <2>3, <3>2, <3>3
  <2>4. CASE s = r
    <3>1. pc[r] = "val" => sets.train = PascalVoc!Stems(imageSet[r])
      <4>1. Latest(r)
        BY <1>3, <2>1, <2>2, <2>4, RunsAssumption DEF Runs
      <4> QED BY <1>1, <4>1 DEF ListsWritten
    <3>2. \/ pc'[r] \notin {"val", "done"}
          \/ /\ pc'[r] = "val"
             /\ sets'.train = PascalVoc!Stems(imageSet[r]) /\ UNCHANGED imageSet
          \/ /\ pc[r] = "val" /\ sets'.train = sets.train
             /\ sets'.val = PascalVoc!Stems(imageSet[r]) /\ UNCHANGED imageSet
      BY <1>1, VocSteps
    <3> QED BY <2>4, <3>1, <3>2
  <2> QED BY <2>3, <2>4
<1> QED BY <1>6, <1>7, <1>8

LEMMA VocInvariant == ASSUME ~Concurrent PROVE Spec => []VocInv
<1>1. Init => VocInv
  <2> SUFFICES ASSUME Init PROVE VocInv
    OBVIOUS
  <2>1. pc = [r \in Runs |-> "idle"] /\ imageSet = [r \in Runs |-> << >>]
    BY DEF Init, PascalVoc!Init, PascalVoc!CopyInit, PascalVoc!WalkInit, PascalVoc!Runs,
           Runs
  <2>2. FreshStem /\ Described /\ ListsWritten
    BY <2>1 DEF FreshStem, Described, ListsWritten
  <2> QED BY <2>2, TurnInit DEF VocInv
<1>2. VocInv /\ [Next]_vars => VocInv'
  <2> SUFFICES ASSUME VocInv, [Next]_vars PROVE VocInv'
    OBVIOUS
  <2>1. TurnInv' /\ UNCHANGED layout
    BY TurnStep, LibrarySteps DEF VocInv, TurnInv, LibInv
  <2>2. CASE layout # "PascalVOC"
    BY <2>1, <2>2 DEF VocInv
  <2>3. CASE UNCHANGED vars
    <3>1. UNCHANGED <<pc, db, dest, images, annotations, imageSet, sets>>
      BY <2>3 DEF vars, walk, copying, pascalVoc
    <3>2. \A r, n, i : DescribedBy(r, n, i) => DescribedBy(r, n, i)'
      BY <3>1 DEF DescribedBy, PascalVoc!CopyOf
    <3>3. FreshStem => FreshStem'
      BY <3>1 DEF FreshStem, PascalVoc!StemOf
    <3>4. Described => Described'
      BY <3>1, <3>2 DEF Described
    <3>5. ListsWritten => ListsWritten'
      BY <3>1 DEF ListsWritten, PascalVoc!Stems, PascalVoc!StemOf
    <3> QED BY <2>1, <3>3, <3>4, <3>5 DEF VocInv
  <2>4. ASSUME layout = "PascalVOC", NEW r \in Runs,
               PascalVoc!Begin(r) \/ PascalVoc!Step(r) \/ PascalVoc!Crash(r)
        PROVE  VocInv'
    BY <2>1, <2>4, VocMove DEF VocInv
  <2> QED BY <2>2, <2>3, <2>4 DEF Next, perform_export, export_db, NoExporter, Finished
<1> QED BY <1>1, <1>2, PTL DEF Spec

\* What the lists of a successful Pascal VOC export name is a complete copy with a
\* descriptor which names that very file and holds what its own record shows: in a
\* directory that is exported into again and again, one call after another, with
\* images of one stem, failures and deaths in between.
THEOREM ListsAreDescribed == ASSUME ~Concurrent PROVE Spec => []ListedImagesAreDescribed
<1>1. VocInv => ListedImagesAreDescribed
  <2> SUFFICES ASSUME VocInv, layout = "PascalVOC"
               PROVE  PascalVoc!ListsAgree /\ PascalVoc!AnnotationsDescribeImages
    BY DEF ListedImagesAreDescribed
  <2>1. PascalVoc!Runs = Runs
    BY DEF PascalVoc!Runs, Runs
  <2>2. PascalVoc!ListsAgree
    BY <2>1 DEF VocInv, ListsWritten, PascalVoc!ListsAgree, PascalVoc!Published,
       PascalVoc!IsLast
  <2>3. PascalVoc!AnnotationsDescribeImages
    <3> SUFFICES ASSUME NEW r \in Runs, NEW k \in DOMAIN imageSet[r]
                 PROVE  \E i \in DOMAIN db[r] : DescribedBy(r, imageSet[r][k], i)
      BY <2>1 DEF PascalVoc!AnnotationsDescribeImages, PascalVoc!Entered, DescribedBy
    <3>1. PICK n, i : imageSet[r][k] = n /\ DescribedBy(r, n, i)
      BY DEF VocInv, Described
    <3> QED BY <3>1 DEF DescribedBy
  <2> QED BY <2>2, <2>3
<1>2. Spec => []VocInv
  BY VocInvariant
<1> QED BY <1>1, <1>2, PTL

-----------------------------------------------------------------------------
(* The work of the user *)

\* The name a run has found for its crop is still free when it is written.
FreshCrop ==
  layout = "PyTorch" => \A r \in Runs :
    pc[r] = "write" => dest[r] \notin DOMAIN crops[PyTorch!Class(r)]

WorkInv == VocInv /\ CropsInv /\ FreshCrop

LEMMA FreshCropStep ==
  ASSUME ~Concurrent, WorkInv, layout = "PyTorch", UNCHANGED <<layout, images>>,
         NEW r \in Runs, PyTorch!Begin(r) \/ PyTorch!Step(r) \/ PyTorch!Crash(r)
  PROVE  FreshCrop'
<1>1. WalkOK /\ LibType /\ InTurn /\ pc \in [Runs -> PcLabels] /\ dest = [s \in Runs |-> dest[s]]
  BY DEF WorkInv, CropsInv, CropInv, VocInv, TurnInv, LibInv, WalkOK
<1>2. Passes(r)
  BY <1>1, PyTorchPasses
<1>3. \A s \in Runs \ {r} : pc'[s] # "write"
  BY <1>1, <1>2, MoversAlone, MovesKeepWalk DEF Ended
<1>4. pc'[r] = "write" => dest'[r] \notin DOMAIN crops'[PyTorch!Class(r)']
  <2>1. CASE PyTorch!Crop(r)
    <3>1. PyTorch!NextRect(r) => pc'[r] = "rect"
      BY <1>1 DEF PyTorch!NextRect, PyTorch!Goto
    <3>2. ASSUME NEW k, UNCHANGED rectAt,
                 PyTorch!free_png_path(SourceName[PyTorch!Current(r).img],
                                       DOMAIN crops[PyTorch!Class(r)], k),
                 dest' = [dest EXCEPT ![r] =
                            PyTorch!PngCandidate(SourceName[PyTorch!Current(r).img], k)]
          PROVE  dest'[r] \notin DOMAIN crops'[PyTorch!Class(r)']
      <4> DEFINE n == PyTorch!PngCandidate(SourceName[PyTorch!Current(r).img], k)
      <4>1. n \notin DOMAIN crops[PyTorch!Class(r)]
        BY <3>2 DEF PyTorch!free_png_path
      <4>2. dest'[r] = n
        BY <1>1, <3>2
      <4>3. PyTorch!Class(r)' = PyTorch!Class(r) /\ UNCHANGED crops
        BY <2>1, <3>2 DEF PyTorch!Crop, PyTorch!Class, PyTorch!Rect, PyTorch!Current
      <4> HIDE DEF n
      <4> QED BY <4>1, <4>2, <4>3
    <3> QED BY <2>1, <3>1, <3>2 DEF PyTorch!Crop
  <2>2. CASE ~PyTorch!Crop(r)
    <3>1. pc'[r] # "write"
      <4>1. \E l \in {"record", "rect", "mkdir", "crop", "done", "failed", "crashed"} :
              pc' = [pc EXCEPT ![r] = l]
        BY <2>2 DEF PyTorch!Begin, PyTorch!Start, PyTorch!Step, PyTorch!Crash,
           PyTorch!LoadImage, PyTorch!SkipRect, PyTorch!FindDirectory,
           PyTorch!CreateDirectory, PyTorch!WriteCrop, PyTorch!LastRect,
           PyTorch!LastRecord, PyTorch!NextRecord, PyTorch!NextRect, PyTorch!EndWalk,
           PyTorch!Kill, PyTorch!Goto
      <4> QED BY <1>1, <4>1
    <3> QED BY <3>1
  <2> QED BY <2>1, <2>2
<1> QED BY <1>3, <1>4 DEF FreshCrop

LEMMA WorkInvariant == ASSUME ~Concurrent PROVE Spec => []WorkInv
<1>1. Init => FreshCrop
  BY DEF Init, PyTorch!Init, PyTorch!WalkInit, PyTorch!Runs, Runs, FreshCrop
<1>2. WorkInv /\ VocInv' /\ CropsInv' /\ [Next]_vars => WorkInv'
  <2> SUFFICES ASSUME WorkInv, VocInv', CropsInv', [Next]_vars PROVE FreshCrop'
    BY DEF WorkInv
  <2>1. UNCHANGED layout
    BY LibrarySteps DEF WorkInv, CropsInv, LibInv
  <2>2. CASE UNCHANGED vars
    <3>1. \A r : PyTorch!Class(r)' = PyTorch!Class(r)
      BY <2>2 DEF PyTorch!Class, PyTorch!Rect, PyTorch!Current, vars, walk, pyTorch
    <3> QED BY <2>2, <3>1 DEF WorkInv, FreshCrop, vars, walk, copying, pyTorch
  <2>3. CASE layout # "PyTorch"
    BY <2>1, <2>3 DEF FreshCrop
  <2>4. ASSUME layout = "PyTorch", NEW r \in Runs, UNCHANGED images,
               PyTorch!Begin(r) \/ PyTorch!Step(r) \/ PyTorch!Crash(r)
        PROVE  FreshCrop'
    BY <2>1, <2>4, FreshCropStep
  <2> QED BY <2>2, <2>3, <2>4 DEF Next, perform_export, export_db, NoExporter, Finished
<1>3. Spec => []VocInv /\ []CropsInv
  BY VocInvariant, CropsInvariant, PTL
<1>4. VocInv /\ CropsInv /\ FreshCrop => WorkInv
  BY DEF WorkInv
<1> QED BY <1>1, <1>2, <1>3, <1>4, PTL DEF Spec

\* An export repeated into a directory writes over no descriptor of Pascal VOC and
\* over no crop of PyTorch Vision: what the user has corrected or sorted there since
\* the last export stays.
THEOREM UserWorkIsKept == ASSUME ~Concurrent PROVE Spec => WorkIsKept
<1> DEFINE Kept == \A s \in DOMAIN annotations :
                     s \in DOMAIN annotations' /\ annotations'[s] = annotations[s]
           KeptCrops == \A c \in Classes : \A n \in DOMAIN crops[c] :
                          n \in DOMAIN crops'[c] /\ crops'[c][n] = crops[c][n]
<1>1. WorkInv /\ [Next]_vars => Kept
  <2> SUFFICES ASSUME WorkInv, [Next]_vars PROVE Kept
    OBVIOUS
  <2>1. LibInv /\ ListsOK /\ UNCHANGED layout
    BY LibrarySteps DEF WorkInv, VocInv, TurnInv, LibInv
  <2>2. CASE UNCHANGED annotations
    BY <2>2
  <2>3. ASSUME layout = "PascalVOC", NEW r \in Runs,
               PascalVoc!Begin(r) \/ PascalVoc!Step(r) \/ PascalVoc!Crash(r)
        PROVE  Kept
    <3>1. CASE /\ pc[r] = "annotation"
               /\ \E a : annotations' = Put(annotations, PascalVoc!StemOf(dest[r]), a)
      <4>1. PascalVoc!StemOf(dest[r]) \notin DOMAIN annotations
        BY <2>3, <3>1 DEF WorkInv, VocInv, FreshStem
      <4> QED BY <3>1, <4>1 DEF Put
    <3> QED BY <2>1, <2>2, <2>3, <3>1, VocSteps
  <2> QED BY <2>2, <2>3 DEF Next, perform_export, export_db, NoExporter, Finished, vars,
             pascalVoc
<1>2. WorkInv /\ [Next]_vars => KeptCrops
  <2> SUFFICES ASSUME WorkInv, [Next]_vars PROVE KeptCrops
    OBVIOUS
  <2>1. CropInv /\ UNCHANGED layout
    BY LibrarySteps DEF WorkInv, CropsInv, LibInv
  <2>2. CASE UNCHANGED crops
    BY <2>2
  <2>3. ASSUME layout = "PyTorch", NEW r \in Runs, UNCHANGED images,
               PyTorch!Begin(r) \/ PyTorch!Step(r) \/ PyTorch!Crash(r)
        PROVE  KeptCrops
    <3>1. ASSUME NEW c \in Classes, NEW x, dest[r] \notin DOMAIN crops[c],
                 crops' = [crops EXCEPT ![c] = Put(@, dest[r], x)]
          PROVE  KeptCrops
      <4>1. crops = [d \in Classes |-> crops[d]]
        BY <2>1 DEF CropInv, CropsOK
      <4>2. /\ \A d \in Classes \ {c} : crops'[d] = crops[d]
            /\ crops'[c] = Put(crops[c], dest[r], x)
        BY <3>1, <4>1
      <4>3. \A n \in DOMAIN crops[c] : n \in DOMAIN crops'[c] /\ crops'[c][n] = crops[c][n]
        BY <3>1, <4>2 DEF Put
      <4> QED BY <4>2, <4>3
    <3>2. pc[r] = "write" => dest[r] \notin DOMAIN crops[PyTorch!Class(r)]
      BY <2>3 DEF WorkInv, FreshCrop
    <3>3. UNCHANGED <<layout, images>>
      BY <2>1, <2>3
    <3>4. ASSUME NEW c \in Classes, NEW w, pc[r] = "write", c = PyTorch!Class(r),
                 crops' = [crops EXCEPT ![c] = Put(@, dest[r],
                             [run |-> r, record |-> at[r], rect |-> rectAt[r],
                              whole |-> w])]
          PROVE  KeptCrops
      <4>1. dest[r] \notin DOMAIN crops[c]
        BY <3>2, <3>4
      <4> QED BY <3>1, <3>4, <4>1
    <3> HIDE DEF KeptCrops
    <3> QED BY <2>1, <2>2, <2>3, <3>3, <3>4, CropsOfStep
  <2> QED BY <2>2, <2>3 DEF Next, perform_export, export_db, NoExporter, Finished, vars,
             pyTorch
<1>3. WorkInv /\ [Next]_vars => [Kept]_PascalVoc!vars /\ [KeptCrops]_PyTorch!vars
  BY <1>1, <1>2
<1> QED BY <1>3, WorkInvariant, PTL DEF Spec, WorkIsKept, PascalVoc!AnnotationsKept,
           PyTorch!CropsKept
=============================================================================
