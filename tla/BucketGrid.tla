----------------------------- MODULE BucketGrid -----------------------------
(***************************************************************************)
(* The grid of buckets an image is divided into (CqImageBuffer::m_Buckets) *)
(* and the order in which RenderImage walks it.  A bucket is named by its  *)
(* column x and row y.  m_bucketRegion is a CqRegion: xMax and yMax are    *)
(* one past the last column and row.  A rectangle (CqBound in bucket       *)
(* units) has inclusive corners x0, y0 and x1, y1.                         *)
(***************************************************************************)
EXTENDS Integers

Regions == [xMin : Nat, yMin : Nat, xMax : Nat, yMax : Nat]

Cells == [x : Int, y : Int]

Rectangles == [x0 : Int, y0 : Int, x1 : Int, y1 : Int]

NonEmpty(r) == r.xMin < r.xMax /\ r.yMin < r.yMax

\* The buckets a region holds.
BucketsIn(r) == [x : r.xMin .. r.xMax - 1, y : r.yMin .. r.yMax - 1]

\* Row-major order: the order of the horizontal bucket order.
Before(a, b) == a.y < b.y \/ (a.y = b.y /\ a.x < b.x)

\* m_CurrentBucketCol and m_CurrentBucketRow as SetImage leaves them.
FirstCell(r) == [x |-> r.xMin, y |-> r.yMin]

\* Mutant: the row is not advanced at the end of it.
NextCell_SameRow(r, c) == IF c.x + 1 < r.xMax
                          THEN [x |-> c.x + 1, y |-> c.y]
                          ELSE [x |-> r.xMin, y |-> c.y]

\* CqImageBuffer::NextBucket.  After the last bucket the row is yMax, one
\* past the region, and NextBucket answers FALSE.
NextCell(r, c) == IF c.x + 1 < r.xMax
                  THEN [x |-> c.x + 1, y |-> c.y]
                  ELSE [x |-> r.xMin, y |-> c.y + 1]

\* Mutants: one row too few, one row too many.
HasNext_Short(r, c) == c.x + 1 < r.xMax \/ c.y + 2 < r.yMax
HasNext_Long(r, c) == c.x + 1 < r.xMax \/ c.y + 1 <= r.yMax

HasNext(r, c) == c.x + 1 < r.xMax \/ c.y + 1 < r.yMax

\* clamp(v, lo, hi) of aqsis/math: v forced into lo .. hi.
Clamp(v, lo, hi) == IF v < lo THEN lo ELSE IF v > hi THEN hi ELSE v

InRect(b, q) == b.x \in q.x0 .. q.x1 /\ b.y \in q.y0 .. q.y1

Encloses(q, p) == q.x0 <= p.x0 /\ q.y0 <= p.y0 /\ p.x1 <= q.x1 /\ p.y1 <= q.y1

\* Every corner of a rectangle clamped into the region, as PostSurface does.
ClampRect(r, q) == [x0 |-> Clamp(q.x0, r.xMin, r.xMax - 1),
                    y0 |-> Clamp(q.y0, r.yMin, r.yMax - 1),
                    x1 |-> Clamp(q.x1, r.xMin, r.xMax - 1),
                    y1 |-> Clamp(q.y1, r.yMin, r.yMax - 1)]

\* A rectangle no bucket of the region touches.
Misses(r, q) == q.x1 < r.xMin \/ q.y1 < r.yMin \/ q.x0 >= r.xMax \/ q.y0 >= r.yMax
=============================================================================
