--------------------------- MODULE MCSurfaceFlow ---------------------------
(* Three by two buckets in the middle of a larger grid, two micropolygons: *)
(* one that touches a bucket of the second row left of where it ends in    *)
(* the first and hangs out of the region, one in the last bucket and out.  *)
EXTENDS SurfaceFlow, TLC

Rect(a, b, c, d) == [x0 |-> a, y0 |-> b, x1 |-> c, y1 |-> d]

CONSTANTS f1, f2

MCRegion == [xMin |-> 1, yMin |-> 1, xMax |-> 4, yMax |-> 3]

MCFrag == {f1, f2}

MCMPRect == (f1 :> Rect(0, 1, 2, 2)) @@ (f2 :> Rect(3, 2, 4, 2))

\* The bounds of the micropolygons, and one around both of them.
MCBounds == {Rect(0, 1, 2, 2), Rect(3, 2, 4, 2), Rect(0, 0, 4, 3)}
=============================================================================
