--------------------------- MODULE MCPixelCache ---------------------------
(* Buckets of three by two pixels under a filter of radius one: the strips *)
(* down the sides are one pixel high, those along the top and the bottom   *)
(* meet nothing in between.  Images of at most 3 by 3 buckets whose last   *)
(* row and column are narrower.                                            *)
EXTENDS PixelCache

Window(xr, yr, x0, y0, x1, y1) ==
  [xRes |-> xr, yRes |-> yr, crop |-> Box(x0, y0, x1, y1)]

\* Every crop window of a 7 by 5 image that holds a pixel.
MCEveryCrop == {Window(7, 5, q.x0, q.y0, q.x1, q.y1) :
                  q \in {q \in [x0 : 0 .. 6, y0 : 0 .. 4, x1 : 1 .. 7, y1 : 1 .. 5] :
                           q.x0 < q.x1 /\ q.y0 < q.y1}}

\* Whole images of different sizes.
MCWholeImages == {Window(x, y, 0, 0, x, y) : x \in {2, 4, 7}, y \in {1, 3, 5}}

\* One cropped frame, or two whole ones in a row.
MCSessions == {<<w>> : w \in MCEveryCrop} \cup (MCWholeImages \X MCWholeImages)

\* Two crop windows of the same image, in any order.
MCTwoCrops == {Window(7, 5, 0, 0, 3, 5), Window(7, 5, 3, 2, 6, 4)}
MCCroppedSessions == MCTwoCrops \X MCTwoCrops
=============================================================================
