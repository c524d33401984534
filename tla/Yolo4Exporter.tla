--------------------------- MODULE Yolo4Exporter ---------------------------
(***************************************************************************)
(* Yolo42FolderExporter: the darknet YOLO v4 layout.                       *)
(*                                                                         *)
(* A run is one export_db call.  Every run writes into one export          *)
(* directory: a later run is an export repeated into the directory (after  *)
(* the user has edited the database, or after a crash) and, with           *)
(* Concurrent, one made by another process while the first still writes.   *)
(* A step is one file operation; opening, copying and loading may fail.    *)
(*                                                                         *)
(* disk is the data/ subdirectory, cfg the cfg/yolov4-obj.cfg file.        *)
(***************************************************************************)
EXTENDS ExportDirectory

Record == [img: Images, sized: BOOLEAN, rects: Seq(Classes)]

\* The extensions the exporter itself gives to what it writes into data/.
OwnExts == {"txt", "names", "data"}

ASSUME WordAssumption == OwnExts \cup {"obj", "train", "val"} \subseteq Words
ASSUME ExtAssumption  == \A i \in Images : SourceName[i].ext \notin OwnExts
ASSUME DBAssumption   == DBs \subseteq Seq(Record)

VARIABLES
  pc,       \* pc[r]: the next file operation of the run
  db,       \* db[r]: the records get_images_db gives the run
  at,       \* at[r]: the position of the record the loop is at
  aList,    \* aList[r]: the class names of the run
  dest,     \* dest[r]: newpath, the name chosen for the current image
  trainf,   \* trainf[r]: the lines written to the train.txt stream
  exportedImages,
  disk,     \* the files of data/: a function from file names to contents
  cfg       \* what the last written cfg/yolov4-obj.cfg was made for

vars == <<pc, db, at, aList, dest, trainf, exportedImages, disk, cfg>>

-----------------------------------------------------------------------------
(* File names and contents *)

ObjNames == Own("obj", "names")
ObjData  == Own("obj", "data")
TrainTxt == Own("train", "txt")
ValTxt   == Own("val", "txt")

\* The label file of an image: its stem with the txt extension.
LabelOf(n) == [n EXCEPT !.ext = "txt"]

ImageFile(i, whole)  == [kind |-> "image", of |-> i, whole |-> whole]
LabelFile(lines)     == [kind |-> "labels", lines |-> lines]
NamesFile(classes)   == [kind |-> "names", classes |-> classes]
DataFile(count)      == [kind |-> "data", count |-> count]
ListFile(r, lines)   == [kind |-> "list", by |-> r, lines |-> lines]
\* A list one stream has written into after somebody else truncated it.
MixedFile            == [kind |-> "mixed"]

IsContent(c) ==
  \/ c \in [kind: {"image"}, of: Images, whole: BOOLEAN]
  \/ /\ c.kind = "labels"
     /\ c = LabelFile(c.lines) /\ c.lines \in [DOMAIN c.lines -> Nat]
  \/ c \in [kind: {"names"}, classes: SUBSET Classes]
  \/ c \in [kind: {"data"}, count: Nat]
  \/ c \in [kind: {"list"}, by: Runs, lines: Seq(Filename)]
  \/ c = MixedFile

Files == DOMAIN disk

\* A line written by run r through a stream it has opened earlier.
Appended(files, r, n, line) ==
  Put(files, n,
      IF n \in DOMAIN files /\ files[n].kind = "list" /\ files[n].by = r
      THEN ListFile(r, Append(files[n].lines, line))
      ELSE MixedFile)

-----------------------------------------------------------------------------
(* The classes and the label lines *)

\* get_available_annotations: every name some rectangle of the database bears.
Annotations(records) ==
  UNION {{records[i].rects[j] : j \in DOMAIN records[i].rects}
           : i \in DOMAIN records}

\* The label lines of a record, each under the position of its rectangle: a
\* rectangle of an unknown class gets none.
Labels(classes, rec) ==
  [j \in {p \in DOMAIN rec.rects : rec.rects[p] \in classes} |->
     ClassIndex(classes, rec.rects[j])]

-----------------------------------------------------------------------------
(* The run *)

Ended(r) == pc[r] \in {"done", "failed", "crashed"}

NoCfg == [classes |-> 0, images |-> 0, made |-> FALSE]

Init ==
  /\ pc = [r \in Runs |-> "idle"]
  /\ db = [r \in Runs |-> << >>]
  /\ at = [r \in Runs |-> 1]
  /\ aList = [r \in Runs |-> {}]
  /\ dest = [r \in Runs |-> TrainTxt]
  /\ trainf = [r \in Runs |-> << >>]
  /\ exportedImages = [r \in Runs |-> 0]
  /\ disk = << >>
  /\ cfg = NoCfg

Goto(r, label) == pc' = [pc EXCEPT ![r] = label]

\* The record the loop is at, and the step past it.
Current(r)    == db[r][at[r]]
HasRecord(r)  == at[r] \in DOMAIN db[r]
NextRecord(r) == at' = [at EXCEPT ![r] = @ + 1] /\ Goto(r, "record")

\* LibMain makes an exporter for the call, create_subdirs makes the directories.
Begin(r) ==
  /\ pc[r] = "idle"
  /\ \A q \in 1..(r - 1) : pc[q] # "idle" /\ (Concurrent \/ Ended(q))
  /\ \E records \in DBs : db' = [db EXCEPT ![r] = records]
  /\ \E created \in BOOLEAN : Goto(r, IF created THEN "names" ELSE "failed")
  /\ UNCHANGED <<at, aList, dest, trainf, exportedImages, disk, cfg>>

ExpressObjNames(r) ==
  /\ pc[r] = "names"
  /\ \/ /\ aList' = [aList EXCEPT ![r] = Annotations(db[r])]
        /\ disk' = Put(disk, ObjNames, NamesFile(Annotations(db[r])))
        /\ Goto(r, "data")
     \/ Goto(r, "failed") /\ UNCHANGED <<aList, disk>>
  /\ UNCHANGED <<db, at, dest, trainf, exportedImages, cfg>>

ExpressObjData(r) ==
  /\ pc[r] = "data"
  /\ \/ /\ disk' = Put(disk, ObjData, DataFile(Cardinality(aList[r])))
        /\ Goto(r, "lists")
     \/ Goto(r, "failed") /\ UNCHANGED disk
  /\ UNCHANGED <<db, at, aList, dest, trainf, exportedImages, cfg>>

\* express_train_and_val opens, and so truncates, both lists before it looks
\* whether either of them is open.
OpenLists(r) ==
  /\ pc[r] = "lists"
  /\ \E opened \in SUBSET {TrainTxt, ValTxt} :
       /\ disk' = [n \in Files \cup opened |->
                     IF n \in opened THEN ListFile(r, << >>) ELSE disk[n]]
       /\ IF opened = {TrainTxt, ValTxt}
          THEN /\ exportedImages' = [exportedImages EXCEPT ![r] = 0]
               /\ Goto(r, "record")
          ELSE Goto(r, "failed") /\ UNCHANGED exportedImages
  /\ UNCHANGED <<db, at, aList, dest, trainf, cfg>>

SkipRecord(r) ==
  /\ pc[r] = "record" /\ HasRecord(r)
  /\ Current(r).rects = << >> \/ ~Current(r).sized
  /\ NextRecord(r)
  /\ UNCHANGED <<db, aList, dest, trainf, exportedImages, disk, cfg>>

Exportable(rec) == rec.rects # << >> /\ rec.sized

\* prepare_image up to get_new_filepath: the loader may give no image.  The
\* first candidate which is no regular file is taken; as no step removes a
\* file, probing the candidates one by one ends at the same name.
ChooseName(r) ==
  /\ pc[r] = "record" /\ HasRecord(r)
  /\ Exportable(Current(r))
  /\ \/ /\ \E k \in 0..Cardinality(Files) :
             LET n == SourceName[Current(r).img]
             IN  /\ Candidate(n, k) \notin Files
                 /\ \A j \in 0..(k - 1) : Candidate(n, j) \in Files
                 /\ dest' = [dest EXCEPT ![r] = Candidate(n, k)]
        /\ Goto(r, "copy")
        /\ UNCHANGED at
     \/ NextRecord(r) /\ UNCHANGED dest
  /\ UNCHANGED <<db, aList, trainf, exportedImages, disk, cfg>>

\* Mutants: a copy that stops half way is taken for a success; ...
CopyImagePartly(r) ==
  /\ pc[r] = "copy"
  /\ \/ /\ dest[r] \notin Files
        /\ \E whole \in BOOLEAN :
             disk' = Put(disk, dest[r], ImageFile(Current(r).img, whole))
        /\ Goto(r, "label")
        /\ UNCHANGED at
     \/ NextRecord(r) /\ UNCHANGED disk
  /\ UNCHANGED <<db, aList, dest, trainf, exportedImages, cfg>>

\* ... the copy overwrites what has come to exist; ...
CopyImageOverwriting(r) ==
  /\ pc[r] = "copy"
  /\ \/ /\ disk' = Put(disk, dest[r], ImageFile(Current(r).img, TRUE))
        /\ Goto(r, "label")
        /\ UNCHANGED at
     \/ /\ disk' = Put(disk, dest[r], ImageFile(Current(r).img, FALSE))
        /\ NextRecord(r)
  /\ UNCHANGED <<db, aList, dest, trainf, exportedImages, cfg>>

\* ... a refused copy is tried again with another name, for ever.
CopyImageRetrying(r) ==
  /\ pc[r] = "copy"
  /\ \/ /\ dest[r] \notin Files
        /\ disk' = Put(disk, dest[r], ImageFile(Current(r).img, TRUE))
        /\ Goto(r, "label")
     \/ Goto(r, "record") /\ UNCHANGED disk
  /\ UNCHANGED <<db, at, aList, dest, trainf, exportedImages, cfg>>

\* copy_file refuses a destination that has come to exist since the name was
\* chosen; a copy that fails on the way may leave a part of the image.
CopyImage(r) ==
  /\ pc[r] = "copy"
  /\ \/ /\ dest[r] \notin Files
        /\ disk' = Put(disk, dest[r], ImageFile(Current(r).img, TRUE))
        /\ Goto(r, "label")
        /\ UNCHANGED at
     \/ /\ dest[r] \notin Files
        /\ disk' = Put(disk, dest[r], ImageFile(Current(r).img, FALSE))
        /\ NextRecord(r)
     \/ NextRecord(r) /\ UNCHANGED disk
  /\ UNCHANGED <<db, aList, dest, trainf, exportedImages, cfg>>

\* Mutant: the label file is named after the source image, not after the copy.
ExpressAnnotationsOfSource(r) ==
  /\ pc[r] = "label"
  /\ \/ /\ disk' = Put(disk, LabelOf(SourceName[Current(r).img]),
                       LabelFile(Labels(aList[r], Current(r))))
        /\ Goto(r, "append")
        /\ UNCHANGED at
     \/ NextRecord(r) /\ UNCHANGED disk
  /\ UNCHANGED <<db, aList, dest, trainf, exportedImages, cfg>>

\* A label file that does not open costs the image its place in the lists, but
\* the copy stays.
ExpressImageAnnotations(r) ==
  /\ pc[r] = "label"
  /\ \/ /\ disk' = Put(disk, LabelOf(dest[r]),
                       LabelFile(Labels(aList[r], Current(r))))
        /\ Goto(r, "append")
        /\ UNCHANGED at
     \/ NextRecord(r) /\ UNCHANGED disk
  /\ UNCHANGED <<db, aList, dest, trainf, exportedImages, cfg>>

AppendToLists(r) ==
  /\ pc[r] = "append"
  /\ trainf' = [trainf EXCEPT ![r] = Append(@, dest[r])]
  /\ disk' = Appended(Appended(disk, r, TrainTxt, dest[r]),
                      r, ValTxt, dest[r])
  /\ exportedImages' = [exportedImages EXCEPT ![r] = @ + 1]
  /\ NextRecord(r)
  /\ UNCHANGED <<db, aList, dest, cfg>>

CloseLists(r) ==
  /\ pc[r] = "record" /\ ~HasRecord(r)
  /\ Goto(r, "cfg")
  /\ UNCHANGED <<db, at, aList, dest, trainf, exportedImages, disk, cfg>>

\* Mutant: the iterations are planned for all the records, skipped ones too.
ExpressYoloCfgOfAll(r) ==
  /\ pc[r] = "cfg"
  /\ \/ /\ cfg' = [classes |-> Cardinality(aList[r]),
                   images  |-> Len(db[r]),
                   made    |-> TRUE]
        /\ Goto(r, "done")
     \/ Goto(r, "failed") /\ UNCHANGED cfg
  /\ UNCHANGED <<db, at, aList, dest, trainf, exportedImages, disk>>

\* max_batches comes from the images the lists name, the rest from the classes.
ExpressYoloCfg(r) ==
  /\ pc[r] = "cfg"
  /\ \/ /\ cfg' = [classes |-> Cardinality(aList[r]),
                   images  |-> exportedImages[r],
                   made    |-> TRUE]
        /\ Goto(r, "done")
     \/ Goto(r, "failed") /\ UNCHANGED cfg
  /\ UNCHANGED <<db, at, aList, dest, trainf, exportedImages, disk>>

\* The process is killed between two file operations.
Crash(r) ==
  /\ pc[r] # "idle" /\ ~Ended(r)
  /\ Goto(r, "crashed")
  /\ UNCHANGED <<db, at, aList, dest, trainf, exportedImages, disk, cfg>>

Step(r) ==
  \/ ExpressObjNames(r) \/ ExpressObjData(r) \/ OpenLists(r)
  \/ SkipRecord(r) \/ ChooseName(r) \/ CopyImage(r)
  \/ ExpressImageAnnotations(r) \/ AppendToLists(r)
  \/ CloseLists(r) \/ ExpressYoloCfg(r)

Finished == (\A r \in Runs : Ended(r)) /\ UNCHANGED vars

Next == (\E r \in Runs : Begin(r) \/ Step(r) \/ Crash(r)) \/ Finished

Spec == Init /\ [][Next]_vars

\* A run is one synchronous call: the thread keeps executing it.
FairSpec == Spec /\ \A r \in Runs : WF_vars(Step(r))

-----------------------------------------------------------------------------
(* Properties *)

PCs == {"idle", "names", "data", "lists", "record", "copy", "label", "append",
        "cfg", "done", "failed", "crashed"}

\* The fields of a run.
FieldsOK ==
  /\ pc \in [Runs -> PCs]
  /\ db \in [Runs -> Seq(Record)]
  /\ at \in [Runs -> Nat \ {0}]
  /\ aList \in [Runs -> SUBSET Classes]
  /\ dest \in [Runs -> Filename]
  /\ trainf \in [Runs -> Seq(Filename)]
  /\ exportedImages \in [Runs -> Nat]
  /\ cfg \in [classes: Nat, images: Nat, made: BOOLEAN]

\* The files of the directory.
DiskOK ==
  /\ DOMAIN disk \subseteq Filename
  /\ disk = [n \in DOMAIN disk |-> disk[n]]
  /\ \A n \in DOMAIN disk : IsContent(disk[n])

\* The types of the variables: what every field of a run and every file of
\* the directory may hold.
TypeOK == FieldsOK /\ DiskOK

Lines(r)     == {trainf[r][i] : i \in DOMAIN trainf[r]}
IsImage(n)   == n \in Files /\ disk[n].kind = "image"
HasBegun(r)  == pc[r] # "idle"

\* Whatever runs write into the directory, and in whatever order, no step
\* overwrites, truncates or removes an image some run has copied there: the
\* name is chosen before the copy and another run may take it in between.
ImagesKept ==
  [][\A n \in Files : IsImage(n) => n \in DOMAIN disk' /\ disk'[n] = disk[n]]_vars

\* A name a run puts into its training list is a complete copy of an image of
\* that run's database, and stays one.
ListedImagesComplete ==
  \A r \in Runs : \A n \in Lines(r) :
    /\ IsImage(n)
    /\ disk[n].whole
    /\ \E i \in DOMAIN db[r] : db[r][i].img = disk[n].of /\ Exportable(db[r][i])

\* No image is named twice, by one training list or by two.
ListedOnce ==
  \A r, s \in Runs : \A i \in DOMAIN trainf[r], j \in DOMAIN trainf[s] :
    trainf[r][i] = trainf[s][j] => r = s /\ i = j

\* The run the directory belongs to: the last one that has begun.
IsLast(r) == HasBegun(r) /\ (r = NRuns \/ pc[r + 1] = "idle")

Published(r) == IsLast(r) /\ pc[r] = "done"

\* After a successful export train.txt and val.txt are both exactly what the
\* run wrote into them, and the descriptor was made for the listed images
\* and for the classes obj.names and obj.data give.
DescriptorsAgree ==
  \A r \in Runs : Published(r) =>
    /\ disk[TrainTxt] = ListFile(r, trainf[r])
    /\ disk[ValTxt]   = ListFile(r, trainf[r])
    /\ cfg.made
    /\ cfg.images = Len(trainf[r])
    /\ cfg.classes = Cardinality(disk[ObjNames].classes)
    /\ disk[ObjData].count = cfg.classes

\* After a successful export the label file of every listed image holds the
\* rectangles of that very image, by the indexes obj.names gives its classes,
\* whatever earlier, failed or crashed runs have left in the directory.
LabelsDescribeImages ==
  \A r \in Runs : Published(r) =>
    \A n \in Lines(r) : \E i \in DOMAIN db[r] :
      /\ db[r][i].img = disk[n].of
      /\ LabelOf(n) \in Files
      /\ disk[LabelOf(n)] = LabelFile(Labels(disk[ObjNames].classes, db[r][i]))

\* The label file of a listed image holds the rectangles of that very image, by
\* the class indexes of the run that lists it, from the moment it is listed
\* and whatever other runs write in the meantime.
LabelsOfListedImages ==
  \A r \in Runs : \A n \in Lines(r) : \E i \in DOMAIN db[r] :
    /\ db[r][i].img = disk[n].of
    /\ LabelOf(n) \in Files
    /\ disk[LabelOf(n)] = LabelFile(Labels(aList[r], db[r][i]))

\* Every export that begins comes to an end.
RunsEnd == \A r \in Runs : HasBegun(r) ~> Ended(r)

\* The directory seen as the store of copies all the exporters promise.
StorePhase(p) == CASE p = "idle" -> "idle"
                   [] p = "done" -> "done"
                   [] p \in {"failed", "crashed"} -> "stopped"
                   [] OTHER -> "running"

ImageFiles == {n \in Files : disk[n].kind = "image"}

Store == INSTANCE ImageStore WITH
           phase     <- [r \in Runs |-> StorePhase(pc[r])],
           copies    <- [n \in ImageFiles |->
                           [of |-> disk[n].of, whole |-> disk[n].whole]],
           kept      <- trainf,
           published <- cfg.images

\* The exporter implements the store: copies only grow, each is listed at most
\* once and only when complete, the published count is the listed count.
ImplementsStore == Store!Spec
=============================================================================
