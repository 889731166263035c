--------------------------- MODULE OcclusionTree ---------------------------
(***************************************************************************)
(* Rendering the surfaces of a bucket with occlusion culling               *)
(* (CqOcclusionTree, and RenderSurface, RenderMicroPoly, RenderWaitingMPs  *)
(* of CqBucketProcessor).  The tree holds the occluding depth of every     *)
(* sample point in a leaf and in every node above the greatest depth       *)
(* below it; a surface that is behind the depths of all leaves its bound   *)
(* touches is not rendered in this bucket.  That this changes no sample    *)
(* point is shown by the refinement of SamplePoint.                        *)
(*                                                                         *)
(* A sample point is the subpixel it lies in.  Raster positions are in     *)
(* half subpixels: subpixel x reaches from 2x to 2x + 2 and its sample is  *)
(* in the middle.                                                          *)
(***************************************************************************)
EXTENDS SampleHits

CONSTANTS Sample,     \* the subpixels of all regions
          Regions,    \* sample regions, in pixels, with the pixel samples
          Rects,      \* bounds of micropolygons
          Extents,    \* bounds of surfaces
          Shapes      \* more regions for the geometry alone

\* Regions are not empty and a pixel has samples (RiPixelSamples).
ASSUME RegionsAssumption ==
  /\ Shapes \subseteq [w : Nat \ {0}, h : Nat \ {0}, xSamps : Nat \ {0}, ySamps : Nat \ {0}]
  /\ Regions \subseteq Shapes
  /\ \A r \in Regions : [x : 0 .. r.w * r.xSamps - 1, y : 0 .. r.h * r.ySamps - 1] \subseteq Sample

\* CullSurface: a bound that reaches the eye is not cached, and a surface
\* without a cached bound is not asked for.
ASSUME BoundsAssumption ==
  /\ Rects \subseteq [x0 : Int, y0 : Int, x1 : Int, y1 : Int]
  /\ Extents \subseteq [x0 : Int, y0 : Int, x1 : Int, y1 : Int]
  /\ 0 \notin Depth

VARIABLES
  hider,        \* the depth filter
  region,       \* m_SampleRegion with xSamps and ySamps
  tree,         \* m_depthTree
  needsUpdate,  \* m_needsUpdate
  sample,       \* SqSampleData of every sample point
  waiting,      \* m_micropolygons of the bucket
  busy,         \* in RenderWaitingMPs
  offered       \* the hits that the scene had for every sample point

vars == <<hider, region, tree, needsUpdate, sample, waiting, busy, offered>>

Larger(a, b) == IF a > b THEN a ELSE b
Smaller(a, b) == IF a < b THEN a ELSE b

\* lceil(v / u)
CeilDiv(v, u) == -((-v) \div u)

-----------------------------------------------------------------------------
(* The shape of the tree: setupTree and treeIndexForPoint. *)

\* 1 << k
Pow2[k \in Nat] == IF k = 0 THEN 1 ELSE 2 * Pow2[k - 1]

NumX(r) == r.w * r.xSamps
NumY(r) == r.h * r.ySamps

\* lceil(log2(n))
CeilLog2(n) == CHOOSE k \in 0 .. n : Pow2[k] >= n /\ (k = 0 \/ Pow2[k - 1] < n)

\* The two directions are split in turn, so their depths differ by one at most.
DepthX(r) == Larger(CeilLog2(NumX(r)), CeilLog2(NumY(r)) - 1)
DepthY(r) == Larger(CeilLog2(NumY(r)), CeilLog2(NumX(r)) - 1)
SplitXFirst(r) == DepthX(r) >= DepthY(r)
TreeDepth(r) == DepthX(r) + DepthY(r)

Nodes(r) == 0 .. 2 * Pow2[TreeDepth(r)] - 2
FirstLeaf(r) == Pow2[TreeDepth(r)] - 1
Leaves(r) == {n \in Nodes(r) : n >= FirstLeaf(r)}
Parent(n) == (n - 1) \div 2

Points(r) == [x : 0 .. NumX(r) - 1, y : 0 .. NumY(r) - 1]

\* Every second bit from the first, starting with the lowest, the others from
\* the second.
Interlaced[c \in Nat \X Nat] ==
  IF c = <<0, 0>> THEN 0
  ELSE (c[1] % 2) + 2 * (c[2] % 2) + 4 * Interlaced[<<c[1] \div 2, c[2] \div 2>>]

\* treeIndexForPoint: the coordinate that is split last gives the lowest bit.
TreeIndex(r, p) ==
  FirstLeaf(r) + (IF SplitXFirst(r) = ((TreeDepth(r) + 1) % 2 = 1) THEN Interlaced[<<p.y, p.x>>]
                                                              ELSE Interlaced[<<p.x, p.y>>])

\* One half of an area; the next split is in the other direction.
Half(a, first) ==
  LET mx == (a.x0 + a.x1) \div 2
      my == (a.y0 + a.y1) \div 2
  IN  IF a.inX THEN [x0 |-> IF first THEN a.x0 ELSE mx, y0 |-> a.y0,
                     x1 |-> IF first THEN mx ELSE a.x1, y1 |-> a.y1, inX |-> FALSE]
               ELSE [x0 |-> a.x0, y0 |-> IF first THEN a.y0 ELSE my,
                     x1 |-> a.x1, y1 |-> IF first THEN my ELSE a.y1, inX |-> TRUE]

\* The areas of the nodes, halved in turn.
AreaFrom(r, inX) ==
  LET area[n \in Nodes(r)] ==
        IF n = 0 THEN [x0 |-> 0, y0 |-> 0, x1 |-> 2 * Pow2[DepthX(r)], y1 |-> 2 * Pow2[DepthY(r)],
                       inX |-> inX]
        ELSE Half(area[Parent(n)], n % 2 = 1)
  IN  area

\* Mutant: x is split first for every shape.
Area_XFirst(r) == AreaFrom(r, TRUE)

\* The area of every node as canCull computes it on its way down.
Area(r) == AreaFrom(r, SplitXFirst(r))

Meets(b, a) == ~(b.x0 > a.x1 \/ b.y0 > a.y1 \/ b.x1 < a.x0 \/ b.y1 < a.y0)

-----------------------------------------------------------------------------
(* The depths in the tree. *)

\* propagateDepths.
Propagated(r, t) ==
  LET depth[n \in Nodes(r)] == IF n >= FirstLeaf(r) THEN t[n]
                               ELSE Larger(depth[2 * n + 1], depth[2 * n + 2])
  IN  depth

\* Mutant: leaves without a sample are as far away as the others.
SetUp_AllFar(r) == [n \in Nodes(r) |-> Far]

\* setupTree: leaves that hold no sample must not keep a surface alive.
SetUp(r) ==
  LET leaves == {TreeIndex(r, p) : p \in Points(r)}
  IN  Propagated(r, [n \in Nodes(r) |-> IF n \in leaves THEN Far ELSE 0])

\* setSampleDepth for every sample that StoreSample changed; where it only
\* added to the other hits, the depth in the leaf is the same already.
WithDepths(r, t, d) ==
  LET changed == {p \in Points(r) : d[p] # sample[p]}
      leaf == [p \in changed |-> TreeIndex(r, p)]
  IN  [n \in Nodes(r) |-> IF \E p \in changed : leaf[p] = n
                          THEN d[CHOOSE p \in changed : leaf[p] = n].occlZ ELSE t[n]]

\* canCull: no leaf is reached.
CanCull(r, t, b) ==
  LET area == Area(r)
      reached[n \in Nodes(r)] == /\ n = 0 \/ reached[Parent(n)]
                                 /\ Meets(b, area[n])
                                 /\ t[n] >= b.z
  IN  \A n \in Leaves(r) : ~reached[n]

-----------------------------------------------------------------------------
(* Micropolygons. *)

\* Mutant: the last subpixel is rounded down.
Visited_Short(lo, hi, size, samps) ==
  LET unit == 2 * samps
      e == Smaller(CeilDiv(hi, unit), size)
      s == Larger(lo \div unit, 0)
      first == IF lo < s * unit THEN 0 ELSE (lo - s * unit) \div 2
      end == IF hi > e * unit THEN samps ELSE (hi - (e - 1) * unit) \div 2
  IN  {v \in 0 .. size * samps - 1 :
         /\ v \div samps \in s .. e - 1
         /\ v \div samps = s => v % samps >= first
         /\ v \div samps = e - 1 => v % samps < end}

\* RenderMPG_Static: the subpixels it visits in one direction, from the bound
\* lo .. hi, for size pixels of samps samples each.
Visited(lo, hi, size, samps) ==
  LET unit == 2 * samps
      e == Smaller(CeilDiv(hi, unit), size)
      s == Larger(lo \div unit, 0)
      first == IF lo < s * unit THEN 0 ELSE (lo - s * unit) \div 2
      end == IF hi > e * unit THEN samps ELSE CeilDiv(hi - (e - 1) * unit, 2)
  IN  {v \in 0 .. size * samps - 1 :
         /\ v \div samps \in s .. e - 1
         /\ v \div samps = s => v % samps >= first
         /\ v \div samps = e - 1 => v % samps < end}

Contains2D(b, p) == 2 * p.x + 1 \in b.x0 .. b.x1 /\ 2 * p.y + 1 \in b.y0 .. b.y1

\* A micropolygon hits every sample its bound contains.
MayHit(m) == {p \in Points(region) : Contains2D(m.bound, p)}
Tested(m) == {p \in MayHit(m) : /\ p.x \in Visited(m.bound.x0, m.bound.x1, region.w, region.xSamps)
                                /\ p.y \in Visited(m.bound.y0, m.bound.y1, region.h, region.ySamps)}

HitOf(m) == [id |-> m.id, z |-> m.z, kind |-> m.kind, csg |-> m.csg]

\* offered with the hits of the micropolygons M.
Offered(M) == [p \in Sample |-> offered[p] \cup {HitOf(m) : m \in {n \in M : p \in MayHit(n)}}]

\* What a surface is diced into: one or two micropolygons that do not overlap.
\* A matte micropolygon is stored as an opaque one is, a dense as a thin.
MicroPolygons == [id : Id, bound : Rects, z : Depth, kind : {"opaque", "thin"}, csg : BOOLEAN]
Overlap(m, n) == \E p \in Sample : Contains2D(m.bound, p) /\ Contains2D(n.bound, p)
Grids ==
  {M \in {{m, n} : m \in MicroPolygons, n \in MicroPolygons} :
     \A m, n \in M : m.csg = n.csg /\ (m # n => m.id # n.id /\ ~Overlap(m, n))}

\* The micropolygons lie in the bound of the surface, which knows its
\* nearest depth.
Bounds == {[x0 |-> b.x0, y0 |-> b.y0, x1 |-> b.x1, y1 |-> b.y1, z |-> z] : b \in Extents, z \in Depth}
Within(M, b) == \A m \in M : /\ b.x0 <= m.bound.x0 /\ m.bound.x1 <= b.x1
                             /\ b.y0 <= m.bound.y0 /\ m.bound.y1 <= b.y1
                             /\ b.z <= m.z

Free == Id \ ({h.id : h \in UNION {offered[p] : p \in Sample}} \cup {m.id : m \in waiting})
AreFree(M) == \A m \in M : m.id \in Free

-----------------------------------------------------------------------------
\* A bucket, which may have micropolygons from the surfaces of earlier ones.
Init == /\ hider \in Hiders
        /\ region \in Regions
        /\ tree = SetUp(region)
        /\ needsUpdate = FALSE
        /\ sample = [p \in Sample |-> Fresh]
        /\ waiting \in {{}} \cup Grids
        /\ busy = TRUE
        /\ offered = [p \in Sample |-> {}]

\* preProcess of the next bucket.  One that has micropolygons already is an
\* initial state.
PreProcess == /\ ~busy
              /\ region' \in Regions
              /\ tree' = SetUp(region')
              /\ needsUpdate' = FALSE
              /\ sample' = [p \in Sample |-> Fresh]
              /\ offered' = [p \in Sample |-> {}]
              /\ waiting' = {}
              /\ busy' = TRUE
              /\ UNCHANGED hider

\* RenderSurface: hidden in this bucket.
CullSurface(b) == /\ ~busy
                  /\ Cullable(hider, FALSE)
                  /\ CanCull(region, tree, b)
                  /\ \E M \in Grids : /\ AreFree(M) /\ Within(M, b) /\ \A m \in M : ~m.csg
                                      /\ offered' = Offered(M)
                  /\ UNCHANGED <<hider, region, tree, needsUpdate, sample, waiting, busy>>

\* RenderSurface: diced, and the grid busted into this bucket.  A surface
\* that could be culled comes here when it asks not to be (cull:hidden).
DiceSurface == /\ ~busy
               /\ \E M \in Grids : AreFree(M) /\ waiting' = M
               /\ busy' = TRUE
               /\ UNCHANGED <<hider, region, tree, needsUpdate, sample, offered>>

\* RenderMicroPoly for one of the waiting micropolygons, in any order.
RenderMicroPoly(m) ==
  LET hit == [p \in Sample |-> IF p \in Tested(m) THEN Stored(hider, sample[p], HitOf(m))
                                                         ELSE sample[p]]
  IN  /\ sample' = hit
      /\ tree' = WithDepths(region, tree, hit)
      /\ needsUpdate' = (needsUpdate \/ \E p \in Sample : \/ hit[p].occlZ # sample[p].occlZ
                                                         \/ hit[p].hit # sample[p].hit)
      /\ offered' = Offered({m})
      /\ waiting' = waiting \ {m}
      /\ UNCHANGED <<hider, region, busy>>

\* updateTree at the end of RenderWaitingMPs.
UpdateTree == /\ busy
              /\ waiting = {}
              /\ tree' = IF needsUpdate THEN Propagated(region, tree) ELSE tree
              /\ needsUpdate' = FALSE
              /\ busy' = FALSE
              /\ UNCHANGED <<hider, region, sample, waiting, offered>>

Next == \/ PreProcess
        \/ \E b \in Bounds : CullSurface(b)
        \/ DiceSurface
        \/ \E m \in waiting : RenderMicroPoly(m)
        \/ UpdateTree

Spec == Init /\ [][Next]_vars

-----------------------------------------------------------------------------
\* The types of the variables.
TypeOK == /\ hider \in Hiders
          /\ region \in Regions
          /\ tree \in [Nodes(region) -> Depth \cup {0, Far}]
          /\ needsUpdate \in BOOLEAN
          /\ sample \in [Sample -> SampleData]
          /\ waiting \subseteq MicroPolygons
          /\ busy \in BOOLEAN
          /\ offered \in [Sample -> SUBSET Hits]

Point(p) == INSTANCE SamplePoint WITH point <- sample[p], offered <- offered[p]

(***************************************************************************)
(* Nothing that the tree, the bounds of micropolygons and the stored       *)
(* depths cull matters: for every sample point rendering is what           *)
(* SamplePoint says, where each hit of the scene reaches StoreSample or    *)
(* is one that StoreSample would drop.                                     *)
(***************************************************************************)
IsSamplePoint ==
  /\ \A p \in Sample : Point(p)!Init
  /\ [][\A p \in Sample : [Point(p)!Next]_(Point(p)!vars)]_vars

Cell(p) == [x0 |-> 2 * p.x, y0 |-> 2 * p.y, x1 |-> 2 * p.x + 2, y1 |-> 2 * p.y + 2]

(***************************************************************************)
(* The descent through the tree culls a bound exactly if it is behind the  *)
(* occluding depth of every sample point whose subpixel it touches:        *)
(* neither stale inner depths nor the leaves of no sample keep a hidden    *)
(* surface from being culled.                                              *)
(***************************************************************************)
HiddenIsCulled ==
  ~busy => \A b \in Bounds :
             CanCull(region, tree, b) <=>
               \A p \in Points(region) : Meets(b, Cell(p)) => sample[p].occlZ < b.z

\* Regions in which a sample is kept in another place.
Misplaced ==
  {r \in Shapes :
     LET area == Area(r)
         Place(p) == LET a == area[TreeIndex(r, p)]
                     IN  [x0 |-> a.x0, y0 |-> a.y0, x1 |-> a.x1, y1 |-> a.y1]
     IN  \E p \in Points(r) : Place(p) # Cell(p)}

(***************************************************************************)
(* The leaf in which the depth of a sample is kept, found by interlacing   *)
(* the bits of its coordinates, is the one that canCull reaches by halving *)
(* the area around it, for every shape of region.                          *)
(***************************************************************************)
LeafInItsPlace == region \in Shapes /\ Misplaced = {}

\* Regions in which some bound reaches a subpixel that is not visited.
Skipping ==
  {r \in Shapes : \E lo, hi \in -3 .. 2 * NumX(r) + 3 :
     /\ lo < hi
     /\ \E v \in 0 .. NumX(r) - 1 : /\ 2 * v < hi /\ 2 * v + 2 > lo
                                   /\ v \notin Visited(lo, hi, r.w, r.xSamps)}

(***************************************************************************)
(* The loops over pixels and subpixels, clipped to the region, visit every *)
(* subpixel with a place that the bound reaches, wherever in the subpixel  *)
(* the sample has been jittered to.                                        *)
(***************************************************************************)
NoSubpixelSkipped == region \in Shapes /\ Skipping = {}
=============================================================================
