------------------------ MODULE UltralyticsExporter ------------------------
(***************************************************************************)
(* Ultralytics2FolderExporter: the descriptor with the names of the        *)
(* classes first, then every image in images/train with a label file of    *)
(* its stem in labels/train.  The three tasks differ in the line of a      *)
(* rectangle only.  There is no list: a training run takes every image of  *)
(* the directory and looks for its label file by the stem.                 *)
(*                                                                         *)
(* data.yaml and the label files are truncated when they are opened, so    *)
(* that an export which fails or is killed behind that leaves less than it *)
(* has found.                                                              *)
(***************************************************************************)
EXTENDS CopyingExporter

VARIABLES
  dataYaml,   \* data.yaml: the run whose names it is for, 0 when there is no
              \*   file yet, and whether it has all of them
  labels      \* labels/train: the class indexes of the label files, by stems

vars == <<pc, db, at, dest, images, dataYaml, labels>>

-----------------------------------------------------------------------------

StemOf(n) == [base |-> n.base, tail |-> n.tail]

aList(r) == Annotations(db[r])

NoYaml == [by |-> 0, whole |-> FALSE]

Init ==
  /\ CopyInit
  /\ dataYaml = NoYaml
  /\ labels = << >>

Begin(r) == Enter(r, "yaml") /\ UNCHANGED <<dataYaml, labels>>

\* express_data_yaml up to the path: the file is truncated, or does not open.
OpenDataYaml(r) ==
  /\ pc[r] = "yaml"
  /\ \/ dataYaml' = [by |-> r, whole |-> FALSE] /\ Goto(r, "names")
     \/ Goto(r, "failed") /\ UNCHANGED dataYaml
  /\ UNCHANGED <<db, at, dest, images, labels>>

\* The rest of it: fs::absolute may throw, and the file stays without names.
\* Exports that have it open at once write over each other's lines.
ExpressDataYaml(r) ==
  /\ pc[r] = "names"
  /\ \/ /\ \E whole \in BOOLEAN : /\ whole \/ dataYaml.by # r
                                  /\ dataYaml' = [by |-> r, whole |-> whole]
        /\ Goto(r, "record")
     \/ Goto(r, "failed") /\ UNCHANGED dataYaml
  /\ UNCHANGED <<db, at, dest, images, labels>>

SkipRecord(r) == Skip(r) /\ UNCHANGED <<dataYaml, labels>>

Taken == DOMAIN images

ChooseName(r) ==
  Choose(r, Taken) /\ UNCHANGED <<dataYaml, labels>>

CopyImage(r) == Copy(r, "label") /\ UNCHANGED <<dataYaml, labels>>

\* What the run writes of the rectangles of its record i.
Drawing(r, i) == Indexes(aList(r), db[r][i].rects)

\* Mutant: the label file keeps the stem of the source image.
ExpressImageAnnotationsOfSource(r) ==
  /\ pc[r] = "label"
  /\ \/ labels' = Put(labels, StemOf(SourceName[Current(r).img]), Drawing(r, at[r]))
     \/ UNCHANGED labels
  /\ NextRecord(r)
  /\ UNCHANGED <<db, dest, images, dataYaml>>

\* The copy stays even when its label file does not open.
ExpressImageAnnotations(r) ==
  /\ pc[r] = "label"
  /\ \/ labels' = Put(labels, StemOf(dest[r]), Drawing(r, at[r]))
     \/ UNCHANGED labels
  /\ NextRecord(r)
  /\ UNCHANGED <<db, dest, images, dataYaml>>

EndOfRecords(r) == LastRecord(r, "done") /\ UNCHANGED <<dataYaml, labels>>

\* A process killed while it writes a label file leaves the first lines of it.
Crash(r) ==
  /\ Die(r)
  /\ \/ UNCHANGED labels
     \/ /\ pc[r] = "label"
        /\ \E k \in 0..Len(Drawing(r, at[r])) :
             labels' = Put(labels, StemOf(dest[r]), SubSeq(Drawing(r, at[r]), 1, k))
  /\ UNCHANGED dataYaml

Step(r) ==
  \/ OpenDataYaml(r) \/ ExpressDataYaml(r) \/ SkipRecord(r) \/ ChooseName(r)
  \/ CopyImage(r) \/ ExpressImageAnnotations(r) \/ EndOfRecords(r)

Finished == AllEnded /\ UNCHANGED vars

Next == (\E r \in Runs : Begin(r) \/ Step(r) \/ Crash(r)) \/ Finished

Spec == Init /\ [][Next]_vars

-----------------------------------------------------------------------------
(* Properties *)

\* The label file of the stem s is what the run r draws of its record i, which
\* some image of that stem is a complete copy of, or as much of it as a kill has
\* let through.
Labelled(s, r, i) ==
  /\ \E n \in DOMAIN images : StemOf(n) = s /\ CopyOf(r, n, i)
  /\ \/ labels[s] = Drawing(r, i)
     \/ /\ pc[r] = "crashed"
        /\ \E k \in 0..Len(Drawing(r, i)) : labels[s] = SubSeq(Drawing(r, i), 1, k)

\* Every label file a training run may find by the stem of an image holds the
\* visible rectangles of a record that an image of this stem is a complete copy
\* of, by the indexes of the export that drew it, whatever fails, is killed, is
\* exported again with other classes or shares a stem; and once an export has
\* come to its images data.yaml names the classes of that export, until a later
\* one opens it.
LabelsReadTrue ==
  /\ \A s \in DOMAIN labels :
       \E r \in Runs : \E i \in DOMAIN db[r] : Labelled(s, r, i)
  /\ ~Concurrent =>
       \A r \in Runs : pc[r] \in {"record", "copy", "label", "done"} =>
         dataYaml = [by |-> r, whole |-> TRUE] \/ dataYaml.by > r

\* When all exports into the directory have succeeded the label file of an image
\* carries the indexes that data.yaml has for the names of the rectangles of its
\* record.
LabelsFollowNames ==
  (\A r \in Runs : pc[r] \in {"idle", "done"}) =>
    \A n \in DOMAIN images : StemOf(n) \in DOMAIN labels =>
      \E q \in Runs : \E i \in DOMAIN db[q] :
        /\ CopyOf(q, n, i)
        /\ labels[StemOf(n)] = Indexes(aList(dataYaml.by), db[q][i].rects)

=============================================================================
