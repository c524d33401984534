------------------------- MODULE MCExportersLibrary -------------------------
(* Small databases, chosen for what is hard in each layout: image files of  *)
(* one name in two directories, a name that looks like a renamed copy, a    *)
(* stem two extensions share, the name of the descriptor, several           *)
(* rectangles of one class, databases that differ in their classes.         *)
EXTENDS ExportersLibrary, TLC

CONSTANTS a1, a2, b, t, u, r1, r2

MCWords == {"a", "annotations", "jpg", "png", "json"}

Name(base, tail, ext) == [base |-> base, tail |-> tail, ext |-> ext]

\* a1 and a2 are a.png of two directories, b is the image named a-1.png, t is
\* a.jpg and u a-1.jpg; r1 has the name of the Create ML descriptor and r2 the
\* one it would be renamed to.
MCImages == {a1, a2, b, t, u, r1, r2}
MCNames ==
  a1 :> Name("a", << >>, "png") @@ a2 :> Name("a", << >>, "png")
    @@ b :> Name("a", <<1>>, "png")
    @@ t :> Name("a", << >>, "jpg") @@ u :> Name("a", <<1>>, "jpg")
    @@ r1 :> Name("annotations", << >>, "json")
    @@ r2 :> Name("annotations", <<1>>, "json")

\* The class 0 is the one without a name.
MCClasses == 0..2
MCUnnamed == 0

\* Some of it inside the image; beyond its right or lower edge; wholly to the
\* left of it or above, which the cropper cuts something for.
In(c)     == [class |-> c, inside |-> TRUE,  croppable |-> TRUE]
Out(c)    == [class |-> c, inside |-> FALSE, croppable |-> FALSE]
Before(c) == [class |-> c, inside |-> FALSE, croppable |-> TRUE]

Rec(i, sized, rects) == [img |-> i, sized |-> sized, rects |-> rects]

\* The user renames the class 1 of the first database away for the second.
Renaming(i, j, k) ==
  {<<Rec(i, TRUE, <<In(2), Out(2), In(1)>>), Rec(k, TRUE, <<In(2)>>),
     Rec(j, TRUE, <<In(1)>>)>>,
   <<Rec(i, FALSE, <<In(2)>>), Rec(j, TRUE, <<In(2)>>), Rec(k, TRUE, <<Out(2)>>)>>}

\* Rectangles of one class in one image, and of images of one stem.
OneStem == {<<Rec(b, TRUE, <<In(1)>>), Rec(t, TRUE, <<In(1), In(0), In(1)>>)>>,
            <<Rec(a1, TRUE, <<Out(1), Before(1), In(1)>>), Rec(t, TRUE, << >>),
              Rec(b, TRUE, <<In(2)>>)>>}

\* Names that come back in several images, one of which has no rectangles.
ManyNames == {<<Rec(a1, TRUE, <<In(2), In(1), In(2)>>), Rec(b, TRUE, <<In(2)>>),
                Rec(t, TRUE, <<In(1), In(2)>>)>>,
              <<Rec(t, TRUE, <<In(1)>>), Rec(a1, TRUE, << >>),
                Rec(b, TRUE, <<In(1), In(2)>>)>>}

\* One short database, for runs that interleave.
Short(i, j) == {<<Rec(i, TRUE, <<In(2), In(1)>>), Rec(j, TRUE, <<In(1)>>)>>}

MCLayouts == {"PascalVOC", "Ultralytics", "COCO", "CreateML", "Project",
              "PyTorch", "PlainTxt", "unknown"}
MCUltralyticsOnly == {"Ultralytics"}

\* The layouts whose exports may meet: PlainTxt truncates what another export
\* has open, which its module does not follow.
MCInterleaved == {"PascalVOC", "Ultralytics", "COCO", "CreateML", "Project",
                  "PyTorch"}

MCDatabases == [PascalVOC   |-> Renaming(a1, t, u),
                Ultralytics |-> Renaming(a1, a2, t),
                COCO        |-> Renaming(a1, a2, b),
                CreateML    |-> Renaming(r1, a1, r2),
                Project     |-> Renaming(a1, a2, b),
                PyTorch     |-> OneStem,
                PlainTxt    |-> ManyNames,
                unknown     |-> {}]

MCShortDatabases == [PascalVOC   |-> Short(a1, t),
                     Ultralytics |-> Short(a1, a2),
                     COCO        |-> Short(a1, a2),
                     CreateML    |-> Short(r1, a1),
                     Project     |-> Short(a1, a2),
                     PyTorch     |-> {<<Rec(a1, TRUE, <<In(1), In(1)>>)>>},
                     PlainTxt    |-> Short(a1, a2),
                     unknown     |-> {}]

\* Changed classes, and no two images of one stem and two extensions.
MCApartDatabases == [MCDatabases EXCEPT !["Ultralytics"] = Renaming(a1, a2, b)]

MCDBs == UNION {MCDatabases[l] \cup MCShortDatabases[l] \cup MCApartDatabases[l]
                  : l \in MCLayouts}
=============================================================================
