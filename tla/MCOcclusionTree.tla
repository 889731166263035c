-------------------------- MODULE MCOcclusionTree --------------------------
(* Two sample regions that are not powers of two, so that leaves without a *)
(* sample come up; the second has two samples in a pixel and is split in y *)
(* first.                                                                  *)
EXTENDS OcclusionTree, TLC

CONSTANTS m1, m2, m3

MCId == {m1, m2, m3}
MCSymmetry == Permutations(MCId)

MCSample == [x : 0 .. 2, y : 0 .. 0] \cup [x : 0 .. 1, y : 0 .. 2]
MCRegions == {[w |-> 3, h |-> 1, xSamps |-> 1, ySamps |-> 1],
              [w |-> 1, h |-> 3, xSamps |-> 2, ySamps |-> 1]}

\* The bounds of two micropolygons side by side, one over the edge and one
\* that ends between two samples, and of a surface with both.
MCRects == {[x0 |-> -1, y0 |-> 0, x1 |-> 2, y1 |-> 6], [x0 |-> 3, y0 |-> 1, x1 |-> 5, y1 |-> 3]}
MCExtents == MCRects \cup {[x0 |-> -1, y0 |-> 0, x1 |-> 5, y1 |-> 6]}

\* Three by five pixels and less, with up to three samples in a row.
MCShapes == [w : 1 .. 3, h : 1 .. 5, xSamps : 1 .. 3, ySamps : {1, 2}]
=============================================================================
