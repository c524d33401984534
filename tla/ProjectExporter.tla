-------------------------- MODULE ProjectExporter --------------------------
(***************************************************************************)
(* Dxxwjz2pProjectExporter and its heir Dxxwjz3pProjectExporter: beside    *)
(* the copies of the images one gzip file holds the network, the class     *)
(* names and the annotations, built in memory while the images are copied  *)
(* and written at the end.  The heir differs by the extension of the file  *)
(* and by how the network text is spelled.                                 *)
(***************************************************************************)
EXTENDS CopyingExporter

VARIABLES
  express_images,   \* express_images[r]: the copies with their records
  project           \* the file yolov4-obj.dxxwjz2p

vars == <<pc, db, at, dest, images, express_images, project>>

-----------------------------------------------------------------------------

aList(r) == Annotations(db[r])

\* The file on the disk: there is none, it is opened and empty, its write ended
\* early, it is written, or what two exports have written is mixed up in it.
NoProject      == [state |-> "none"]
OpenProject(r) == [state |-> "empty", by |-> r]
CutProject     == [state |-> "cut"]
MixedProject   == [state |-> "mixed"]

Init ==
  /\ CopyInit
  /\ express_images = [r \in Runs |-> << >>]
  /\ project = NoProject

Begin(r) == Enter(r, "record") /\ UNCHANGED <<express_images, project>>

SkipRecord(r) == Skip(r) /\ UNCHANGED <<express_images, project>>

Taken == DOMAIN images

ChooseName(r) == Choose(r, Taken) /\ UNCHANGED <<express_images, project>>

CopyImage(r) == Copy(r, "entry") /\ UNCHANGED <<express_images, project>>

\* The name of the copy is kept with the record: its rectangles are read later.
AddImage(r) ==
  /\ pc[r] = "entry"
  /\ express_images' =
       [express_images EXCEPT ![r] = Append(@, [relPath |-> dest[r], record |-> at[r]])]
  /\ NextRecord(r)
  /\ UNCHANGED <<db, dest, images, project>>

EndOfRecords(r) ==
  LastRecord(r, "open") /\ UNCHANGED <<express_images, project>>

\* The element of "annotations" of an image: every rectangle of its record, the
\* ones outside of the image too.
Annotated(r, image) ==
  LET rects == db[r][image.record].rects
  IN  [rel_path |-> image.relPath,
       names    |-> [j \in DOMAIN rects |-> rects[j].class]]

\* The elements in the order of the database.
annotations(r) ==
  [k \in DOMAIN express_images[r] |-> Annotated(r, express_images[r][k])]

\* The cfg text, made for the classes and the copied images, and the class names
\* by their indexes.
Network(r) ==
  [cfg     |-> [classes |-> Cardinality(aList(r)),
                images  |-> Len(express_images[r])],
   classes |-> [c \in aList(r) |-> ClassIndex(aList(r), c)]]

Document(r) ==
  [state |-> "written", by |-> r, network |-> Network(r), annotations |-> annotations(r)]

\* create_file_writer truncates the project of an earlier export.
OpenFile(r) ==
  /\ pc[r] = "open"
  /\ \/ project' = OpenProject(r) /\ Goto(r, "write")
     \/ Goto(r, "failed") /\ UNCHANGED project
  /\ UNCHANGED <<db, at, dest, images, express_images>>

\* The gzip stream is written and closed; the close tells whether all of it has
\* reached the file, and the export with it.
WriteFile(r) ==
  /\ pc[r] = "write"
  /\ \E written \in BOOLEAN :
       /\ project' = IF project # OpenProject(r) THEN MixedProject
                     ELSE IF written THEN Document(r) ELSE CutProject
       /\ Goto(r, IF written THEN "done" ELSE "failed")
  /\ UNCHANGED <<db, at, dest, images, express_images>>

Crash(r) == Die(r) /\ UNCHANGED <<express_images, project>>

Step(r) ==
  \/ SkipRecord(r) \/ ChooseName(r) \/ CopyImage(r) \/ AddImage(r)
  \/ EndOfRecords(r) \/ OpenFile(r) \/ WriteFile(r)

Finished == AllEnded /\ UNCHANGED vars

Next == (\E r \in Runs : Begin(r) \/ Step(r) \/ Crash(r)) \/ Finished

Spec == Init /\ [][Next]_vars

-----------------------------------------------------------------------------
(* Properties *)

IsWritten == project.state = "written"

\* What the darknetxx trains of the project: every image of it is a complete
\* copy under a name of its own, its boxes are those of its record and of the
\* classes the network knows, each class at an index below the class count the
\* network is made for, and its iterations are planned for these very images;
\* this stays so while later exports copy into the same directory.
ProjectReadsTrue ==
  IsWritten =>
    LET known == DOMAIN project.network.classes
    IN  /\ project.network.cfg.images = Len(project.annotations)
        /\ {project.network.classes[c] : c \in known} = 0..(project.network.cfg.classes - 1)
        /\ \A k, l \in DOMAIN project.annotations :
             project.annotations[l].rel_path = project.annotations[k].rel_path => l = k
        /\ \A k \in DOMAIN project.annotations :
             LET image == project.annotations[k]
             IN  \E i \in DOMAIN db[project.by] :
                   /\ CopyOf(project.by, image.rel_path, i)
                   /\ DOMAIN image.names = DOMAIN db[project.by][i].rects
                   /\ \A j \in DOMAIN image.names :
                        /\ image.names[j] = db[project.by][i].rects[j].class
                        /\ image.names[j] \in known

\* The names of the copies the run has kept for the project.
Entries(r) == [k \in DOMAIN express_images[r] |-> express_images[r][k].relPath]
=============================================================================
