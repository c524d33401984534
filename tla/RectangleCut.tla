---------------------------- MODULE RectangleCut ----------------------------
(***************************************************************************)
(* What is left of a rectangle inside its image, along one of the axes:    *)
(* the cut the Ultralytics, COCO, Pascal VOC and Create ML exporters make  *)
(* before they write a rectangle, and the crop OpenCVImageCropper makes.   *)
(* The two axes never meet but in "both are left with some length".        *)
(*                                                                         *)
(* A rectangle is drawn from x over width pixels, to the left of x when    *)
(* width is negative.  Pixel p of an image is 0 <= p < side.               *)
(***************************************************************************)
EXTENDS Integers, FiniteSetsExt

CONSTANTS Positions, Widths, Sides

ASSUME AxisAssumption == /\ Positions \subseteq Int /\ Widths \subseteq Int
                         /\ Sides \subseteq Nat \ {0}

VARIABLES x, width, side

-----------------------------------------------------------------------------
(* The cut *)

clamp(value, low, high) == Max({low, Min({value, high})})

\* Mutant: the last pixel of the image is cut off.
clamp_into_image_to_last(at, length, limit) ==
  LET x1 == Min({at, at + length})
      x2 == Max({at, at + length})
  IN  [left      |-> clamp(x1, 0, limit - 1),
       right     |-> clamp(x2, 0, limit - 1),
       truncated |-> clamp(x1, 0, limit - 1) # x1 \/ clamp(x2, 0, limit - 1) # x2]

clamp_into_image(at, length, limit) ==
  LET x1 == Min({at, at + length})
      x2 == Max({at, at + length})
  IN  [left      |-> clamp(x1, 0, limit),
       right     |-> clamp(x2, 0, limit),
       truncated |-> clamp(x1, 0, limit) # x1 \/ clamp(x2, 0, limit) # x2]

-----------------------------------------------------------------------------
(* The crop *)

\* Mutant: the length is cut to the image, not to what follows the start.
crop_out_2_fs_to_side(at, length, limit) ==
  [start |-> Max({0, at}), length |-> Min({length, limit})]

crop_out_2_fs(at, length, limit) ==
  LET start == Max({0, at})
  IN  [start |-> start, length |-> Min({length, limit - start})]

-----------------------------------------------------------------------------
(* The rectangles, drawn one after another *)

Draw ==
  /\ x \in Positions
  /\ width \in Widths
  /\ side \in Sides

Redraw ==
  /\ x' \in Positions
  /\ width' \in Widths
  /\ UNCHANGED side

-----------------------------------------------------------------------------
(* Properties *)

\* The pixels the user has drawn over, from either side, and the image's.
Drawn == {p \in (x + Min({width, 0}))..(x + Max({width, 0})) :
            p # x + Max({width, 0})}
Image == 0..(side - 1)

\* The reference of the cut: exactly the drawn pixels the image has are left,
\* nothing is left of a rectangle outside of it, and the flag "truncated" of a
\* rectangle that is kept says that drawn pixels are missing from the image.
CutIsOverlap ==
  LET cut  == clamp_into_image(x, width, side)
      left == {p \in Image : cut.left <= p /\ p < cut.right}
  IN  /\ left = Drawn \cap Image
      /\ left # {} => (cut.truncated <=> ~(Drawn \subseteq Image))

\* A crop that is made never asks for pixels the image does not have, for which
\* cv::Mat throws, and holds every drawn pixel of the image.
CropIsInside ==
  LET crop == crop_out_2_fs(x, width, side)
      got  == crop.start..(crop.start + crop.length - 1)
  IN  crop.length > 0 => got \subseteq Image /\ Drawn \cap Image \subseteq got

\* No pixel of the image a user has drawn over is lost, by either code.
NoPixelIsLost == CutIsOverlap /\ CropIsInside

\* The crop of a rectangle reaching over an edge is the overlapping part.
CropIsOverlap ==
  LET crop == crop_out_2_fs(x, width, side)
  IN  crop.length > 0 =>
        crop.start..(crop.start + crop.length - 1) = Drawn \cap Image
=============================================================================
