-------------------------- MODULE ExportersLibrary --------------------------
(***************************************************************************)
(* LibMain::perform_export: the type of the caller's context is the layout *)
(* it wants, LibFactory::create_exporter makes the exporter of that layout *)
(* for this one call, and the call is its export_db.                       *)
(*                                                                         *)
(* The layout is chosen once and the export of it repeated: exports of two *)
(* layouts name no common file.  The YOLO v4 exporter has a specification  *)
(* of its own, Yolo4Exporter.                                              *)
(***************************************************************************)
EXTENDS CopyingExporter

CONSTANTS
  Layouts,     \* the layouts the callers may want
  Databases,   \* the databases exported to each of them
  Unnamed      \* the class whose name is empty

ASSUME DatabasesAssumption == \A l \in Layouts : Databases[l] \subseteq DBs

VARIABLES
  layout,                                        \* the type of the contexts
  annotations, imageSet, sets,                   \* Pascal VOC
  dataYaml, labels,                              \* Ultralytics
  imageId, annotationId, annotationsJson,
  instances,                                     \* COCO
  imagesJson,                                    \* COCO and Create ML
  document,                                      \* Create ML
  express_images, project,                       \* the darknetxx project
  rectAt, dirs, crops,                           \* PyTorch Vision
  todo, exFiles, files, loaded, refused          \* plain text

walk        == <<layout, pc, db, at>>
copying     == <<dest, images>>
pascalVoc   == <<annotations, imageSet, sets>>
ultralytics == <<dataYaml, labels>>
coco        == <<imageId, annotationId, annotationsJson, instances>>
darknetxx   == <<express_images, project>>
pyTorch     == <<rectAt, dirs, crops>>
plainTxt    == <<todo, exFiles, files, loaded, refused>>

vars == <<walk, copying, pascalVoc, ultralytics, coco, imagesJson, document,
          darknetxx, pyTorch, plainTxt>>

-----------------------------------------------------------------------------
(* The exporters *)

PascalVoc   == INSTANCE PascalVocExporter   WITH DBs <- Databases["PascalVOC"]
Ultralytics == INSTANCE UltralyticsExporter WITH DBs <- Databases["Ultralytics"]
Coco        == INSTANCE CocoExporter        WITH DBs <- Databases["COCO"]
CreateML    == INSTANCE CreateMLExporter    WITH DBs <- Databases["CreateML"]
Project     == INSTANCE ProjectExporter     WITH DBs <- Databases["Project"]
PyTorch     == INSTANCE PyTorchExporter     WITH DBs <- Databases["PyTorch"]
PlainTxt    == INSTANCE PlainTxtExporter    WITH DBs <- Databases["PlainTxt"]

Init ==
  /\ layout \in Layouts
  /\ PascalVoc!Init /\ Ultralytics!Init /\ Coco!Init
  /\ CreateML!Init /\ Project!Init /\ PyTorch!Init /\ PlainTxt!Init

\* The whole of export_db of the exporter of the layout, its end by a crash of
\* the process included.
export_db(r) ==
  \/ /\ layout = "PascalVOC"
     /\ PascalVoc!Begin(r) \/ PascalVoc!Step(r) \/ PascalVoc!Crash(r)
     /\ UNCHANGED <<ultralytics, coco, imagesJson, document, darknetxx, pyTorch, plainTxt>>
  \/ /\ layout = "Ultralytics"
     /\ Ultralytics!Begin(r) \/ Ultralytics!Step(r) \/ Ultralytics!Crash(r)
     /\ UNCHANGED <<pascalVoc, coco, imagesJson, document, darknetxx, pyTorch, plainTxt>>
  \/ /\ layout = "COCO"
     /\ Coco!Begin(r) \/ Coco!Step(r) \/ Coco!Crash(r)
     /\ UNCHANGED <<pascalVoc, ultralytics, document, darknetxx, pyTorch, plainTxt>>
  \/ /\ layout = "CreateML"
     /\ CreateML!Begin(r) \/ CreateML!Step(r) \/ CreateML!Crash(r)
     /\ UNCHANGED <<pascalVoc, ultralytics, coco, darknetxx, pyTorch, plainTxt>>
  \/ /\ layout = "Project"
     /\ Project!Begin(r) \/ Project!Step(r) \/ Project!Crash(r)
     /\ UNCHANGED <<pascalVoc, ultralytics, coco, imagesJson, document, pyTorch, plainTxt>>
  \/ /\ layout = "PyTorch"
     /\ PyTorch!Begin(r) \/ PyTorch!Step(r) \/ PyTorch!Crash(r)
     /\ UNCHANGED <<images, pascalVoc, ultralytics, coco, imagesJson, document,
                    darknetxx, plainTxt>>
  \/ /\ layout = "PlainTxt"
     /\ PlainTxt!Begin(r) \/ PlainTxt!Step(r) \/ PlainTxt!Crash(r)
     /\ UNCHANGED <<copying, pascalVoc, ultralytics, coco, imagesJson, document,
                    darknetxx, pyTorch>>

\* create_exporter knows no exporter for the context.
NoExporter(r) ==
  /\ layout = "unknown" /\ pc[r] = "idle"
  /\ Goto(r, "failed")
  /\ UNCHANGED <<db, at, copying, pascalVoc, ultralytics, coco, imagesJson, document,
                 darknetxx, pyTorch, plainTxt>>

perform_export(r) == (export_db(r) \/ NoExporter(r)) /\ UNCHANGED layout

Finished == AllEnded /\ UNCHANGED vars

Next == (\E r \in Runs : perform_export(r)) \/ Finished

Spec == Init /\ [][Next]_vars

\* A step of a call which is being made: neither its beginning nor its crash.
Step(r) == perform_export(r) /\ HasBegun(r) /\ pc'[r] # "crashed"

\* A run is one synchronous call: the thread keeps executing it.
FairSpec == Spec /\ \A r \in Runs : WF_vars(Step(r))

-----------------------------------------------------------------------------
(* Properties *)

\* Pascal VOC: the two lists of a successful export are the same, and what a
\* training run reads of an image they name is what the user has drawn.
ListedImagesAreDescribed ==
  layout = "PascalVOC" =>
    PascalVoc!ListsAgree /\ PascalVoc!AnnotationsDescribeImages

\* Ultralytics: every label file draws the record of a copy of its stem by the
\* names of its own export, and data.yaml has the names of the last export that
\* came to its images.
LabelsReadTrue == layout = "Ultralytics" => Ultralytics!LabelsReadTrue

\* Ultralytics: after successful exports the label files carry the indexes of
\* data.yaml.
LabelsFollowNames == layout = "Ultralytics" => Ultralytics!LabelsFollowNames

\* COCO, Create ML and the darknetxx project: the written document describes
\* complete copies by the rectangles of their own records; those of COCO by
\* identifiers which run without gaps, all references met, on an exporter that
\* has been used before as on a new one.
DescriptorReadsTrue ==
  /\ layout = "COCO" => Coco!IdentifiersRun /\ Coco!DescriptorReadsTrue
  /\ layout = "CreateML" => CreateML!DescriptorReadsTrue
  /\ layout = "Project" => Project!ProjectReadsTrue

\* PyTorch Vision: a rectangle is cropped into one file of its class at most.
OneCropPerRectangle == PyTorch!OneCropPerRectangle

\* Pascal VOC and PyTorch Vision: what the user may have worked on since the
\* last export is never overwritten, no descriptor of an image and no crop.
WorkIsKept == PascalVoc!AnnotationsKept /\ PyTorch!CropsKept

\* Plain text: the files hold the lines of the images gone by, in order.
OpenFilesFollowTheDatabase == PlainTxt!OpenFilesFollowTheDatabase

\* Every export that begins comes to an end.
RunsEnd == \A r \in Runs : HasBegun(r) ~> Ended(r)

\* The names of the copies a run has entered into what it will write at last.
Entries(r) == CASE layout = "PascalVOC" -> imageSet[r]
                [] layout = "COCO"      -> Coco!Entries(r)
                [] layout = "CreateML"  -> CreateML!Entries(r)
                [] layout = "Project"   -> Project!Entries(r)
                [] OTHER                -> << >>

\* Every copy some export enters is complete, and no two entries, of one export
\* or of two that interleave, are of one file: the name is chosen before the
\* copy and another run may take it in between.
EnteredOnce ==
  \A r, s \in Runs : \A j \in DOMAIN Entries(r), k \in DOMAIN Entries(s) :
    /\ Entries(r)[j] \in DOMAIN images /\ images[Entries(r)[j]].whole
    /\ Entries(r)[j] = Entries(s)[k] => r = s /\ j = k

-----------------------------------------------------------------------------
(* The abstract store *)

StorePhase(p) == CASE p = "idle" -> "idle"
                   [] p = "done" -> "done"
                   [] p \in {"failed", "crashed"} -> "stopped"
                   [] OTHER -> "running"

\* How many entries what is published on the disk has.
PublishedEntries ==
  CASE layout = "PascalVOC" -> Len(sets.val)
    [] layout = "COCO" /\ Coco!IsWritten -> Len(instances.images)
    [] layout = "CreateML" /\ CreateML!IsWritten -> Len(document.entries)
    [] layout = "Project" /\ Project!IsWritten -> Len(project.annotations)
    [] OTHER -> 0

Store == INSTANCE ImageStore WITH
           phase     <- [r \in Runs |-> StorePhase(pc[r])],
           copies    <- images,
           kept      <- [r \in Runs |-> Entries(r)],
           published <- PublishedEntries

\* Each exporter implements the store: copies only grow, each is entered at most
\* once and only when complete, and an export that succeeds publishes all it
\* has entered.
ImplementsStore == Store!Spec
=============================================================================
