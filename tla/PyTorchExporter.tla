-------------------------- MODULE PyTorchExporter --------------------------
(***************************************************************************)
(* PyTorchVisionFolderExporter with the library's own cropper: a directory *)
(* for every class name and in it the crops of the rectangles of that      *)
(* name.  All rectangles of one name in one image are offered one and the  *)
(* same path; the cropper keeps them apart.                                *)
(*                                                                         *)
(* A step is one file operation; loading, decoding, making a directory and *)
(* writing may fail.                                                       *)
(***************************************************************************)
EXTENDS RecordWalk

CONSTANT Unnamed   \* the class whose name is empty

VARIABLES
  rectAt,  \* rectAt[r]: the position of its rectangle the loop is at
  dest,    \* dest[r]: tofpath, the name free_png_path has found
  dirs,    \* the classes which have a directory
  crops    \* crops[c]: the files of the directory of c

vars == <<pc, db, at, rectAt, dest, dirs, crops>>

-----------------------------------------------------------------------------

Init ==
  /\ WalkInit
  /\ rectAt = [r \in Runs |-> 1]
  /\ dest = [r \in Runs |-> Own("none", "none")]
  /\ dirs = {}
  /\ crops = [c \in Classes |-> << >>]

HasRect(r)  == rectAt[r] \in DOMAIN Current(r).rects
Rect(r)     == Current(r).rects[rectAt[r]]
Class(r)    == Rect(r).class
NextRect(r) == rectAt' = [rectAt EXCEPT ![r] = @ + 1] /\ Goto(r, "rect")

\* The call: without a cropper, the caller's or the library's, it fails.
Begin(r) == Start(r, "record") /\ UNCHANGED <<rectAt, dest, dirs, crops>>

\* The image is loaded whether it has rectangles or not.
LoadImage(r) ==
  /\ pc[r] = "record" /\ HasRecord(r)
  /\ \/ /\ Current(r).rects # << >>
        /\ rectAt' = [rectAt EXCEPT ![r] = 1]
        /\ Goto(r, "rect")
        /\ UNCHANGED at
     \/ NextRecord(r) /\ UNCHANGED rectAt
  /\ UNCHANGED <<db, dest, dirs, crops>>

SkipRect(r) ==
  /\ pc[r] = "rect" /\ HasRect(r)
  /\ Class(r) = Unnamed
  /\ NextRect(r)
  /\ UNCHANGED <<db, at, dest, dirs, crops>>

\* check_directory looks, ...
FindDirectory(r) ==
  /\ pc[r] = "rect" /\ HasRect(r)
  /\ Class(r) # Unnamed
  /\ Goto(r, IF Class(r) \in dirs THEN "crop" ELSE "mkdir")
  /\ UNCHANGED <<db, at, rectAt, dest, dirs, crops>>

\* ... and makes what it has not found: create_directory gives false, and the
\* rectangle is given up, when somebody else has made it by now.
CreateDirectory(r) ==
  /\ pc[r] = "mkdir"
  /\ \/ /\ Class(r) \notin dirs
        /\ dirs' = dirs \cup {Class(r)}
        /\ Goto(r, "crop")
        /\ UNCHANGED rectAt
     \/ NextRect(r) /\ UNCHANGED dirs
  /\ UNCHANGED <<db, at, dest, crops>>

\* The names free_png_path tries: the stem as a .png, then with -0, -1, ...
PngCandidate(n, k) ==
  IF k = 0 THEN [n EXCEPT !.ext = "png"]
           ELSE [n EXCEPT !.ext = "png", !.tail = Append(@, k - 1)]

\* Mutant: the offered name is taken as it is.
free_png_path_first(n, files, k) == k = 0

\* The k-th name is the first one that is free.
free_png_path(n, files, k) ==
  /\ PngCandidate(n, k) \notin files
  /\ \A j \in 0..(k - 1) : PngCandidate(n, j) \in files

\* crop_out_2_fs up to imwrite: the image may not decode, or nothing is left of
\* the rectangle when its start is moved into the image and its end cut off.
Crop(r) ==
  /\ pc[r] = "crop"
  /\ \/ /\ Rect(r).croppable
        /\ LET n     == SourceName[Current(r).img]
               files == DOMAIN crops[Class(r)]
           IN  \E k \in 0..Cardinality(files) :
                 /\ free_png_path(n, files, k)
                 /\ dest' = [dest EXCEPT ![r] = PngCandidate(n, k)]
        /\ Goto(r, "write")
        /\ UNCHANGED rectAt
     \/ NextRect(r) /\ UNCHANGED dest
  /\ UNCHANGED <<db, at, dirs, crops>>

\* Mutant: a crop that was not written is cropped again.
WriteCropAgain(r) ==
  /\ pc[r] = "write"
  /\ \E whole \in BOOLEAN :
       /\ crops' = [crops EXCEPT ![Class(r)] = Put(@, dest[r],
                      [run |-> r, record |-> at[r], rect |-> rectAt[r],
                       whole |-> whole])]
       /\ IF whole THEN NextRect(r) ELSE Goto(r, "crop") /\ UNCHANGED rectAt
  /\ UNCHANGED <<db, at, dest, dirs>>

\* imwrite opens the file whether it has come to exist or not; when it fails it
\* may leave a part of the crop.
WriteCrop(r) ==
  /\ pc[r] = "write"
  /\ \/ \E whole \in BOOLEAN :
          crops' = [crops EXCEPT ![Class(r)] = Put(@, dest[r],
                      [run |-> r, record |-> at[r], rect |-> rectAt[r],
                       whole |-> whole])]
     \/ UNCHANGED crops
  /\ NextRect(r)
  /\ UNCHANGED <<db, at, dest, dirs>>

LastRect(r) ==
  /\ pc[r] = "rect" /\ ~HasRect(r)
  /\ NextRecord(r)
  /\ UNCHANGED <<db, rectAt, dest, dirs, crops>>

LastRecord(r) == EndWalk(r, "done") /\ UNCHANGED <<rectAt, dest, dirs, crops>>

Crash(r) == Kill(r) /\ UNCHANGED <<rectAt, dest, dirs, crops>>

Step(r) ==
  \/ LoadImage(r) \/ SkipRect(r) \/ FindDirectory(r) \/ CreateDirectory(r)
  \/ Crop(r) \/ WriteCrop(r) \/ LastRect(r) \/ LastRecord(r)

Finished == AllEnded /\ UNCHANGED vars

Next == (\E r \in Runs : Begin(r) \/ Step(r) \/ Crash(r)) \/ Finished

Spec == Init /\ [][Next]_vars

-----------------------------------------------------------------------------
(* Properties *)

\* An existing crop is never overwritten, by a rectangle of the same name in
\* the same image, by an image of the same stem or by a repeated export.
CropsKept ==
  [][\A c \in Classes : \A n \in DOMAIN crops[c] :
       n \in DOMAIN crops'[c] /\ crops'[c][n] = crops[c][n]]_vars

\* A rectangle ends up in one file at most, cut or complete, and that file is
\* in the directory of its class, which the classifier takes for its label.
OneCropPerRectangle ==
  \A c, d \in Classes : \A n \in DOMAIN crops[c], m \in DOMAIN crops[d] :
    /\ db[crops[c][n].run][crops[c][n].record].rects[crops[c][n].rect].class = c
    /\ [crops[c][n] EXCEPT !.whole = TRUE] = [crops[d][m] EXCEPT !.whole = TRUE]
         => c = d /\ n = m
=============================================================================
