-------------------------- MODULE CopyingExporter --------------------------
(***************************************************************************)
(* The walk over the database which the Ultralytics, COCO, Pascal VOC and  *)
(* Create ML exporters have in common: every annotated image is loaded,    *)
(* given a free name and copied into the directory of the images.  What    *)
(* each of them writes about a copy, and when, is its own module's.        *)
(* Loading and copying may fail.                                           *)
(***************************************************************************)
EXTENDS RecordWalk

VARIABLES
  dest,    \* dest[r]: newpath, the name chosen for the current image
  images   \* the directory of the images: copies by their file names

-----------------------------------------------------------------------------
(* Copies and records *)

Copied(i, whole) == [of |-> i, whole |-> whole]

Exportable(rec) == rec.rects # << >> /\ rec.sized

\* get_available_annotations: every name some rectangle of the database bears.
Annotations(records) ==
  UNION {{records[i].rects[j].class : j \in DOMAIN records[i].rects}
           : i \in DOMAIN records}

\* The rectangles that have an area left when they are cut down to the image.
Visible(rects) == Selected(rects, {j \in DOMAIN rects : rects[j].inside})

\* The names of the visible rectangles, in their order.
Labels(rects) == [j \in DOMAIN Visible(rects) |-> Visible(rects)[j].class]

Indexes(classes, rects) ==
  [j \in DOMAIN Visible(rects) |-> ClassIndex(classes, Visible(rects)[j].class)]

-----------------------------------------------------------------------------
(* The walk *)

\* newpath before it is given a value.
NoName == Own("none", "none")

CopyInit == WalkInit /\ dest = [r \in Runs |-> NoName] /\ images = << >>

\* The call: LibMain has made an exporter for it, the directories are created.
Enter(r, label) == Start(r, label) /\ UNCHANGED <<dest, images>>

Skip(r) ==
  /\ pc[r] = "record" /\ HasRecord(r)
  /\ ~Exportable(Current(r))
  /\ NextRecord(r)
  /\ UNCHANGED <<db, dest, images>>

\* prepare_image up to get_new_filepath: the loader may give no image.  The
\* first candidate which is not one of the taken names is chosen; no step frees
\* a name, so probing the candidates one by one ends at the same.
Choose(r, taken) ==
  /\ pc[r] = "record" /\ HasRecord(r)
  /\ Exportable(Current(r))
  /\ LET n == SourceName[Current(r).img]
     IN  \/ /\ \E k \in 0..Cardinality(taken) :
                 /\ Candidate(n, k) \notin taken
                 /\ \A j \in 0..(k - 1) : Candidate(n, j) \in taken
                 /\ dest' = [dest EXCEPT ![r] = Candidate(n, k)]
            /\ Goto(r, "copy")
            /\ UNCHANGED at
         \/ NextRecord(r) /\ UNCHANGED dest
  /\ UNCHANGED <<db, images>>

\* Mutant: a copy that stops half way is taken for a success.
CopyPartly(r, label) ==
  /\ pc[r] = "copy"
  /\ \/ /\ dest[r] \notin DOMAIN images
        /\ \E whole \in BOOLEAN :
             images' = Put(images, dest[r], Copied(Current(r).img, whole))
        /\ Goto(r, label)
        /\ UNCHANGED at
     \/ NextRecord(r) /\ UNCHANGED images
  /\ UNCHANGED <<db, dest>>

\* copy_file refuses a destination that has come to exist since the name was
\* chosen; a copy that fails on the way may leave a part of the image.
Copy(r, label) ==
  /\ pc[r] = "copy"
  /\ \/ /\ dest[r] \notin DOMAIN images
        /\ images' = Put(images, dest[r], Copied(Current(r).img, TRUE))
        /\ Goto(r, label)
        /\ UNCHANGED at
     \/ /\ dest[r] \notin DOMAIN images
        /\ images' = Put(images, dest[r], Copied(Current(r).img, FALSE))
        /\ NextRecord(r)
     \/ NextRecord(r) /\ UNCHANGED images
  /\ UNCHANGED <<db, dest>>

LastRecord(r, label) == EndWalk(r, label) /\ UNCHANGED <<dest, images>>

Die(r) == Kill(r) /\ UNCHANGED <<dest, images>>

-----------------------------------------------------------------------------
(* What is said of every such exporter *)

\* The copy named n is complete and of a record the run r had to export.
CopyOf(r, n, i) ==
  /\ n \in DOMAIN images
  /\ images[n].whole
  /\ i \in DOMAIN db[r] /\ db[r][i].img = images[n].of /\ Exportable(db[r][i])

\* No step takes away or changes a copy, whatever is written beside it.
ImagesKept ==
  [][\A n \in DOMAIN images :
       n \in DOMAIN images' /\ images'[n] = images[n]]_images
=============================================================================
