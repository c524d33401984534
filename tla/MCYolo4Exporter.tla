-------------------------- MODULE MCYolo4Exporter --------------------------
(* Small instances of Yolo4Exporter: two directories holding an image of    *)
(* one and the same name, a name that looks like a renamed copy, and        *)
(* databases that differ in their classes.                                  *)
EXTENDS Yolo4Exporter, TLC

CONSTANTS i1, i2, i3

MCWords == {"a", "train", "val", "obj", "jpg", "png", "txt", "names", "data"}

Name(base, tail, ext) == [base |-> base, tail |-> tail, ext |-> ext]

\* i1 and i2 are a.png of two directories, i3 is the image named a-1.png.
MCImages == {i1, i2, i3}
MCNames  == i1 :> Name("a", << >>, "png") @@ i2 :> Name("a", << >>, "png")
              @@ i3 :> Name("a", <<1>>, "png")
MCClasses == 1..2

Rec(i, sized, rects) == [img |-> i, sized |-> sized, rects |-> rects]

\* The user renames the class 1 of the first database away for the second.
MCDBs == {<<Rec(i1, TRUE, <<2, 1>>), Rec(i3, TRUE, <<2>>),
            Rec(i2, TRUE, <<1>>)>>,
          <<Rec(i1, FALSE, <<2>>), Rec(i2, TRUE, <<2>>), Rec(i3, TRUE, << >>)>>}

\* One short database, for runs that interleave.
MCShortDBs == {<<Rec(i1, TRUE, <<2, 1>>), Rec(i3, FALSE, <<2>>), Rec(i2, TRUE, <<1>>)>>}

\* A stem shared by two images of different extensions.
MCTwins     == {i1, i2}
MCTwinNames == i1 :> Name("a", << >>, "jpg") @@ i2 :> Name("a", << >>, "png")
MCTwinDBs   == {<<Rec(i1, TRUE, <<2, 1>>), Rec(i2, TRUE, <<1>>)>>}
=============================================================================
