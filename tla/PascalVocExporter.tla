------------------------- MODULE PascalVocExporter -------------------------
(***************************************************************************)
(* PascalVoc2FolderExporter: an XML descriptor for every image, keyed to   *)
(* its stem, and at the end two lists of the stems.                        *)
(***************************************************************************)
EXTENDS CopyingExporter

VARIABLES
  annotations,   \* Annotations/: what the .xml files say, by their stems
  imageSet,      \* imageSet[r]: the copies the run has entered, in order
  sets           \* ImageSets/Main/: the two lists of stems

vars == <<pc, db, at, dest, images, annotations, imageSet, sets>>

-----------------------------------------------------------------------------

\* annotation_filepath: the stem of the image.
StemOf(n) == [base |-> n.base, tail |-> n.tail]

Stems(names) == [i \in DOMAIN names |-> StemOf(names[i])]

\* Mutant: only the name of the image is looked at.
name_taken_by_image == DOMAIN images

\* The names of images, and every name of a stem that has a descriptor.
name_taken ==
  DOMAIN images \cup
    {[base |-> s.base, tail |-> s.tail, ext |-> e] : s \in DOMAIN annotations, e \in Words}

Init ==
  /\ CopyInit
  /\ annotations = << >>
  /\ imageSet = [r \in Runs |-> << >>]
  /\ sets = [train |-> << >>, val |-> << >>]

\* Mutant: the lists go on from those of the object's last call.
cleared_not(set) == set

\* The head of express_images.
cleared(set) == << >>

\* The call finds in its object what an earlier one has left there.
Begin(r) ==
  /\ Enter(r, "record")
  /\ \E o \in ObjectsOf(r) :
       imageSet' = [imageSet EXCEPT ![r] = cleared(imageSet[o])]
  /\ UNCHANGED <<annotations, sets>>

SkipRecord(r) == Skip(r) /\ UNCHANGED <<annotations, imageSet, sets>>

ChooseName(r) ==
  Choose(r, name_taken) /\ UNCHANGED <<annotations, imageSet, sets>>

\* Mutants: a copy that stops half way is taken for a success; a refused copy
\* is tried again with another name, for ever.
CopyImagePartly(r) ==
  CopyPartly(r, "annotation") /\ UNCHANGED <<annotations, imageSet, sets>>
CopyImageRetrying(r) ==
  /\ pc[r] = "copy"
  /\ \/ /\ dest[r] \notin DOMAIN images
        /\ images' = Put(images, dest[r], Copied(Current(r).img, TRUE))
        /\ Goto(r, "annotation")
     \/ Goto(r, "record") /\ UNCHANGED images
  /\ UNCHANGED <<db, at, dest, annotations, imageSet, sets>>

CopyImage(r) ==
  Copy(r, "annotation") /\ UNCHANGED <<annotations, imageSet, sets>>

\* A descriptor that does not open costs the image its place in the lists.
ExpressAnnotation(r) ==
  /\ pc[r] = "annotation"
  /\ \/ /\ annotations' = Put(annotations, StemOf(dest[r]),
                              [filename |-> dest[r],
                               objects |-> Labels(Current(r).rects)])
        /\ imageSet' = [imageSet EXCEPT ![r] = Append(@, dest[r])]
     \/ UNCHANGED <<annotations, imageSet>>
  /\ NextRecord(r)
  /\ UNCHANGED <<db, dest, images, sets>>

EndOfRecords(r) ==
  LastRecord(r, "train") /\ UNCHANGED <<annotations, imageSet, sets>>

ExpressTrainSet(r) ==
  /\ pc[r] = "train"
  /\ \/ /\ sets' = [sets EXCEPT !.train = Stems(imageSet[r])]
        /\ Goto(r, "val")
     \/ Goto(r, "failed") /\ UNCHANGED sets
  /\ UNCHANGED <<db, at, dest, images, annotations, imageSet>>

ExpressValSet(r) ==
  /\ pc[r] = "val"
  /\ \/ /\ sets' = [sets EXCEPT !.val = Stems(imageSet[r])]
        /\ Goto(r, "done")
     \/ Goto(r, "failed") /\ UNCHANGED sets
  /\ UNCHANGED <<db, at, dest, images, annotations, imageSet>>

Crash(r) == Die(r) /\ UNCHANGED <<annotations, imageSet, sets>>

Step(r) ==
  \/ SkipRecord(r) \/ ChooseName(r) \/ CopyImage(r) \/ ExpressAnnotation(r)
  \/ EndOfRecords(r) \/ ExpressTrainSet(r) \/ ExpressValSet(r)

Finished == AllEnded /\ UNCHANGED vars

Next == (\E r \in Runs : Begin(r) \/ Step(r) \/ Crash(r)) \/ Finished

Spec == Init /\ [][Next]_vars

-----------------------------------------------------------------------------
(* Properties *)

Entered(r) == {imageSet[r][i] : i \in DOMAIN imageSet[r]}

\* Every image a run has entered is a complete copy, the descriptor of its stem
\* names that very file and holds the visible rectangles of its record: at any
\* time, whatever stems are shared, whatever failed or died before or since.
AnnotationsDescribeImages ==
  \A r \in Runs : \A n \in Entered(r) : \E i \in DOMAIN db[r] :
    /\ CopyOf(r, n, i)
    /\ StemOf(n) \in DOMAIN annotations
    /\ annotations[StemOf(n)].filename = n
    /\ annotations[StemOf(n)].objects = Labels(db[r][i].rects)

\* The descriptors are the work of the user once they are written (the layout
\* is opened for correction in an annotator): an export repeated into the
\* directory writes over none of them.
AnnotationsKept ==
  [][\A s \in DOMAIN annotations :
       s \in DOMAIN annotations' /\ annotations'[s] = annotations[s]]_vars

\* The lists of a successful export have identical content: what it has entered.
ListsAgree ==
  \A r \in Runs : Published(r) =>
    sets.train = Stems(imageSet[r]) /\ sets.val = Stems(imageSet[r])
=============================================================================
