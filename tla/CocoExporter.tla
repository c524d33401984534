---------------------------- MODULE CocoExporter ----------------------------
(***************************************************************************)
(* Coco2FolderExporter: while the images are copied two JSON arrays with   *)
(* running identifiers are collected; at the end the one descriptor is     *)
(* opened, which truncates that of an earlier export, and written.         *)
(***************************************************************************)
EXTENDS CopyingExporter

VARIABLES
  imageId,           \* imageId[r]
  annotationId,      \* annotationId[r]
  imagesJson,        \* imagesJson[r]: the elements of "images"
  annotationsJson,   \* annotationsJson[r]: the elements of "annotations"
  instances          \* annotations/instances_default.json

vars == <<pc, db, at, dest, images,
          imageId, annotationId, imagesJson, annotationsJson, instances>>

collected == <<imageId, annotationId, imagesJson, annotationsJson>>

-----------------------------------------------------------------------------

aList(r) == Annotations(db[r])

\* The document as it is on the disk: there is none, it is opened and empty, it
\* is written, or what two exports have written is mixed up in it.
NoDocument       == [state |-> "none"]
EmptyDocument(r) == [state |-> "empty", by |-> r]
MixedDocument    == [state |-> "mixed"]

Init ==
  /\ CopyInit
  /\ imageId = [r \in Runs |-> 0]
  /\ annotationId = [r \in Runs |-> 0]
  /\ imagesJson = [r \in Runs |-> << >>]
  /\ annotationsJson = [r \in Runs |-> << >>]
  /\ instances = NoDocument

Members(r) == [annotationId    |-> annotationId[r],
               imagesJson      |-> imagesJson[r],
               annotationsJson |-> annotationsJson[r]]

\* Mutant: the annotations are numbered on from those of the object's last call.
cleared_but_numbers(m) == [m EXCEPT !.imagesJson = << >>, !.annotationsJson = << >>]

\* The head of express_images.
cleared(m) == [m EXCEPT !.annotationId = 0,
                        !.imagesJson = << >>, !.annotationsJson = << >>]

\* The call finds in its object what an earlier one has left there.
Begin(r) ==
  /\ Enter(r, "record")
  /\ \E o \in ObjectsOf(r) :
       LET m == cleared(Members(o))
       IN  /\ annotationId' = [annotationId EXCEPT ![r] = m.annotationId]
           /\ imagesJson' = [imagesJson EXCEPT ![r] = m.imagesJson]
           /\ annotationsJson' = [annotationsJson EXCEPT ![r] = m.annotationsJson]
  /\ UNCHANGED <<imageId, instances>>

SkipRecord(r) == Skip(r) /\ UNCHANGED <<collected, instances>>

Taken == DOMAIN images

ChooseName(r) ==
  Choose(r, Taken) /\ UNCHANGED <<collected, instances>>

\* Mutant: a copy that stops half way is taken for a success.
CopyImagePartly(r) == CopyPartly(r, "entry") /\ UNCHANGED <<collected, instances>>

CopyImage(r) == Copy(r, "entry") /\ UNCHANGED <<collected, instances>>

\* express_image, express_image_annotations: a rectangle without an area left
\* takes no id; the categories are numbered from 1.
ExpressImage(r) ==
  /\ pc[r] = "entry"
  /\ LET id    == imageId[r] + 1
         shown == Indexes(aList(r), Current(r).rects)
     IN  /\ imageId' = [imageId EXCEPT ![r] = id]
         /\ annotationId' = [annotationId EXCEPT ![r] = @ + Len(shown)]
         /\ imagesJson' =
              [imagesJson EXCEPT ![r] = Append(@, [id |-> id, file_name |-> dest[r]])]
         /\ annotationsJson' =
              [annotationsJson EXCEPT ![r] = @ \o
                 [j \in DOMAIN shown |-> [id          |-> annotationId[r] + j,
                                          image_id    |-> id,
                                          category_id |-> shown[j] + 1]]]
  /\ NextRecord(r)
  /\ UNCHANGED <<db, dest, images, instances>>

EndOfRecords(r) == LastRecord(r, "json") /\ UNCHANGED <<collected, instances>>

OpenInstancesJson(r) ==
  /\ pc[r] = "json"
  /\ \/ instances' = EmptyDocument(r) /\ Goto(r, "write")
     \/ Goto(r, "failed") /\ UNCHANGED instances
  /\ UNCHANGED <<db, at, dest, images, collected>>

\* The ids the names are given, in the order of the sorted set.
express_categories(classes) == [c \in classes |-> ClassIndex(classes, c) + 1]

WriteInstancesJson(r) ==
  /\ pc[r] = "write"
  /\ instances' = IF instances # EmptyDocument(r)
                  THEN MixedDocument
                  ELSE [state       |-> "written",
                        by          |-> r,
                        images      |-> imagesJson[r],
                        annotations |-> annotationsJson[r],
                        categories  |-> express_categories(aList(r))]
  /\ Goto(r, "done")
  /\ UNCHANGED <<db, at, dest, images, collected>>

Crash(r) == Die(r) /\ UNCHANGED <<collected, instances>>

Step(r) ==
  \/ SkipRecord(r) \/ ChooseName(r) \/ CopyImage(r) \/ ExpressImage(r)
  \/ EndOfRecords(r) \/ OpenInstancesJson(r) \/ WriteInstancesJson(r)

Finished == AllEnded /\ UNCHANGED vars

Next == (\E r \in Runs : Begin(r) \/ Step(r) \/ Crash(r)) \/ Finished

Spec == Init /\ [][Next]_vars

-----------------------------------------------------------------------------
(* Properties *)

IsWritten == instances.state = "written"

\* The identifiers of the written descriptor are running counters from 1 over
\* what was really exported, and every reference is to an element it holds.
IdentifiersRun ==
  IsWritten =>
    /\ \A k \in DOMAIN instances.images : instances.images[k].id = k
    /\ \A k \in DOMAIN instances.annotations :
         /\ instances.annotations[k].id = k
         /\ instances.annotations[k].image_id \in DOMAIN instances.images
         /\ \E c \in DOMAIN instances.categories :
              instances.categories[c] = instances.annotations[k].category_id
    /\ {instances.categories[c] : c \in DOMAIN instances.categories}
         = 1..Cardinality(DOMAIN instances.categories)

\* The names of the categories of an image's annotations, in their order.
CategoriesOf(id) ==
  LET own == Selected(instances.annotations,
                      {k \in DOMAIN instances.annotations :
                         instances.annotations[k].image_id = id})
  IN  [j \in DOMAIN own |-> CHOOSE c \in DOMAIN instances.categories :
                              instances.categories[c] = own[j].category_id]

\* Every image of the written descriptor is a complete copy of a record of the
\* export that has written it, under a name of its own, and its annotations
\* read back by their references name the visible rectangles of that record;
\* this stays so while later exports copy into the same directory.
DescriptorReadsTrue ==
  IsWritten =>
    \A k \in DOMAIN instances.images :
      /\ \E i \in DOMAIN db[instances.by] :
           /\ CopyOf(instances.by, instances.images[k].file_name, i)
           /\ CategoriesOf(instances.images[k].id)
                = Labels(db[instances.by][i].rects)
      /\ \A l \in DOMAIN instances.images :
           instances.images[l].file_name = instances.images[k].file_name => l = k

Entries(r) == [k \in DOMAIN imagesJson[r] |-> imagesJson[r][k].file_name]
=============================================================================
