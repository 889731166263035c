------------------------- MODULE SurfaceFlow_proofs -------------------------
(***************************************************************************)
(* Theorems about the way of the surfaces through the buckets, for every   *)
(* crop region, every scene and every way the surfaces may split: nothing  *)
(* is left in the queues of a finished bucket, no visible micropolygon is  *)
(* missed, none is on two ways at once or sampled where it was hidden, and *)
(* the buckets are delivered as BucketDelivery promises.                   *)
(***************************************************************************)
EXTENDS SurfaceFlow, TLAPS

\* The first bucket in row-major order that is not finished.
Here == IF bucket = NoBucket THEN cell ELSE bucket

InOrder ==
  /\ processed = {a \in Buckets : Before(a, Here)}
  /\ bucket # NoBucket =>
       cell = NextCell(Region, bucket) /\ pending = HasNext(Region, bucket)
  /\ bucket = NoBucket => IF pending THEN cell \in Buckets ELSE processed = Buckets
  /\ pc \in {"process", "surfaces", "post"} => bucket \in Buckets
  /\ pc = "world" => bucket = NoBucket /\ pending /\ cell = FirstCell(Region)
  /\ pc = "loop" /\ ~quit => bucket = NoBucket

\* Once RenderSurface runs, the bucket's own micropolygons never wait.
Emptied ==
  /\ pc \in {"surfaces", "post"} => mps[bucket] = {}
  /\ pc = "post" => heap[bucket] = {}

\* A surface in a queue has a proper bound; one that spans the eye plane
\* stays in the first bucket.
WellPlaced ==
  \A b \in Buckets : \A s \in heap[b] :
    ProperBound(s) /\ (s.eye => b = FirstCell(Region))

Handled(f, a) == <<f, a>> \in rendered \cup hidden

\* A surface waiting in b is done with every bucket before b.
PastHandled ==
  \A b \in Buckets : \A s \in heap[b] : \A f \in s.frags : \A a \in Touched(f) :
    Before(a, b) => Handled(f, a)

\* The micropolygon will still come to the bucket: it waits there, or its
\* surface waits there or in an earlier one.
ToCome(f, a) ==
  \/ f \in mps[a]
  \/ \E b \in Buckets : \E s \in heap[b] : f \in s.frags /\ ~Before(a, b)

Covered ==
  \A f \in Frag \ (unposted \cup abandoned) : \A a \in Touched(f) :
    Handled(f, a) \/ ToCome(f, a)

IInv == /\ TypeOK /\ InOrder /\ Emptied /\ WellPlaced
        /\ NothingLeftBehind /\ PastHandled /\ Covered

-----------------------------------------------------------------------------
(* The region has a first bucket and every bucket lies in the region. *)
LEMMA RegionFacts ==
  /\ Region.xMin \in Nat /\ Region.yMin \in Nat /\ Region.xMax \in Nat /\ Region.yMax \in Nat
  /\ Region.xMin < Region.xMax /\ Region.yMin < Region.yMax
BY RegionAssumption DEF Regions, NonEmpty

LEMMA BucketFacts ==
  ASSUME NEW b
  PROVE  b \in Buckets <=>
           /\ b = [x |-> b.x, y |-> b.y] /\ b.x \in Int /\ b.y \in Int
           /\ Region.xMin <= b.x /\ b.x < Region.xMax
           /\ Region.yMin <= b.y /\ b.y < Region.yMax
BY RegionFacts DEF Buckets, BucketsIn

LEMMA FirstBucket ==
  /\ FirstCell(Region) \in Buckets
  /\ \A a \in Buckets : ~Before(a, FirstCell(Region))
  /\ NoBucket \notin Buckets
<1>1. FirstCell(Region) \in Buckets
  BY RegionFacts DEF FirstCell, Buckets, BucketsIn
<1>2. \A a \in Buckets : ~Before(a, FirstCell(Region))
  BY RegionFacts, BucketFacts DEF FirstCell, Before
<1>3. NoBucket \notin Buckets
  BY RegionFacts, BucketFacts DEF NoBucket
<1>. QED  BY <1>1, <1>2, <1>3

(* NextBucket goes on with the bucket that follows in row-major order, and *)
(* stops when there is none.                                               *)
LEMMA NextBucket ==
  ASSUME NEW b \in Buckets
  PROVE  /\ NextCell(Region, b) \in Cells
         /\ \A a \in Buckets : Before(a, NextCell(Region, b)) <=> a = b \/ Before(a, b)
         /\ HasNext(Region, b) => NextCell(Region, b) \in Buckets
         /\ ~HasNext(Region, b) => \A a \in Buckets : a = b \/ Before(a, b)
<1>1. NextCell(Region, b) \in Cells
  BY RegionFacts, BucketFacts DEF NextCell, Cells
<1>2. ASSUME NEW a \in Buckets
      PROVE  /\ Before(a, NextCell(Region, b)) <=> a = b \/ Before(a, b)
             /\ ~HasNext(Region, b) => a = b \/ Before(a, b)
  <2>1. a = b <=> a.x = b.x /\ a.y = b.y
    BY BucketFacts
  <2>. QED  BY <2>1, RegionFacts, BucketFacts DEF NextCell, HasNext, Before
<1>3. HasNext(Region, b) => NextCell(Region, b) \in Buckets
  BY RegionFacts, BucketFacts DEF HasNext, NextCell, Buckets, BucketsIn
<1>. QED  BY <1>1, <1>2, <1>3

(* Row-major order is a strict total order of the buckets. *)
LEMMA TotalOrder ==
  ASSUME NEW a \in Buckets, NEW b \in Buckets, NEW c \in Buckets
  PROVE  /\ ~Before(a, a)
         /\ a = b \/ Before(a, b) \/ Before(b, a)
         /\ ~(Before(a, b) /\ Before(b, a))
         /\ Before(a, b) /\ Before(b, c) => Before(a, c)
<1>1. a = b <=> a.x = b.x /\ a.y = b.y
  BY BucketFacts
<1>. QED  BY <1>1, BucketFacts DEF Before

(* Clamping a rectangle into the region keeps exactly the buckets of the   *)
(* region that are in it, unless it misses the region.                     *)
LEMMA ClampKeeps ==
  ASSUME NEW q \in Rectangles, ~Misses(Region, q), NEW b \in Buckets
  PROVE  InRect(b, ClampRect(Region, q)) <=> InRect(b, q)
<1>. DEFINE c == ClampRect(Region, q)
<1>1. q.x0 \in Int /\ q.y0 \in Int /\ q.x1 \in Int /\ q.y1 \in Int
  BY DEF Rectangles
<1>2. /\ c.x0 = Clamp(q.x0, Region.xMin, Region.xMax - 1)
      /\ c.y0 = Clamp(q.y0, Region.yMin, Region.yMax - 1)
      /\ c.x1 = Clamp(q.x1, Region.xMin, Region.xMax - 1)
      /\ c.y1 = Clamp(q.y1, Region.yMin, Region.yMax - 1)
  BY DEF ClampRect
<1>3. b.x \in c.x0 .. c.x1 <=> b.x \in q.x0 .. q.x1
  BY <1>1, <1>2, RegionFacts, BucketFacts DEF Clamp, Misses
<1>4. b.y \in c.y0 .. c.y1 <=> b.y \in q.y0 .. q.y1
  BY <1>1, <1>2, RegionFacts, BucketFacts DEF Clamp, Misses
<1>. QED  BY <1>3, <1>4 DEF InRect

(* Among the buckets of a clamped rectangle that do not come before b, if  *)
(* there are any, one comes first: the corner, or the first in b's row, or *)
(* the left one in the row below.                                          *)
LEMMA FirstInRect ==
  ASSUME NEW q \in Rectangles, NEW b \in Buckets, NEW c \in Buckets,
         InRect(c, ClampRect(Region, q)), ~Before(c, b)
  PROVE  \E a \in Buckets :
           /\ InRect(a, ClampRect(Region, q)) /\ ~Before(a, b)
           /\ \A d \in Buckets : InRect(d, ClampRect(Region, q)) /\ ~Before(d, b)
                                  => a = d \/ Before(a, d)
<1>. DEFINE r == ClampRect(Region, q)
<1>1. /\ r.x0 \in Int /\ Region.xMin <= r.x0 /\ r.x0 < Region.xMax
      /\ r.y0 \in Int /\ Region.yMin <= r.y0 /\ r.y0 < Region.yMax
      /\ r.x1 \in Int /\ Region.xMin <= r.x1 /\ r.x1 < Region.xMax
      /\ r.y1 \in Int /\ Region.yMin <= r.y1 /\ r.y1 < Region.yMax
  BY RegionFacts DEF ClampRect, Clamp, Rectangles
<1>2. b.x \in Int /\ b.y \in Int /\ c.x \in Int /\ c.y \in Int
  BY BucketFacts
<1>3. r.x0 <= c.x /\ c.x <= r.x1 /\ r.y0 <= c.y /\ c.y <= r.y1
  BY <1>1, <1>2 DEF InRect
<1>. DEFINE Sure(a) ==
       /\ a \in Buckets /\ InRect(a, r) /\ ~Before(a, b)
       /\ \A d \in Buckets : InRect(d, r) /\ ~Before(d, b) => a = d \/ Before(a, d)
<1>. HIDE DEF r
<1>4. ASSUME NEW x \in Int, NEW y \in Int, r.x0 <= x, x <= r.x1, r.y0 <= y, y <= r.y1,
             ~(y < b.y \/ (y = b.y /\ x < b.x)),
             \A u, v \in Int : /\ r.x0 <= u /\ u <= r.x1 /\ r.y0 <= v /\ v <= r.y1
                               /\ ~(v < b.y \/ (v = b.y /\ u < b.x))
                               => (u = x /\ v = y) \/ y < v \/ (y = v /\ x < u)
      PROVE  Sure([x |-> x, y |-> y])
  <2>. DEFINE a == [x |-> x, y |-> y]
  <2>1. a.x = x /\ a.y = y
    OBVIOUS
  <2>2. a \in Buckets
    BY <1>1, <1>4, RegionFacts DEF Buckets, BucketsIn
  <2>3. InRect(a, r) /\ ~Before(a, b)
    BY <1>1, <1>4, <2>1 DEF InRect, Before
  <2>4. ASSUME NEW d \in Buckets, InRect(d, r), ~Before(d, b)
        PROVE  a = d \/ Before(a, d)
    <3>1. d.x \in Int /\ d.y \in Int /\ d = [x |-> d.x, y |-> d.y]
      BY BucketFacts
    <3>2. (d.x = x /\ d.y = y) \/ y < d.y \/ (y = d.y /\ x < d.x)
      BY <1>1, <1>4, <2>4, <3>1 DEF InRect, Before
    <3>. QED  BY <2>1, <3>1, <3>2 DEF Before
  <2>. QED  BY <2>2, <2>3, <2>4
<1>5. CASE b.y < r.y0 \/ (b.y = r.y0 /\ b.x <= r.x0)
  <2>1. Sure([x |-> r.x0, y |-> r.y0])
    BY <1>1, <1>2, <1>3, <1>4, <1>5
  <2>. QED  BY <2>1 DEF r
<1>6. CASE r.y0 <= b.y /\ b.x <= r.x1 /\ ~(b.y = r.y0 /\ b.x <= r.x0)
  <2>1. b.y <= r.y1
    BY <1>1, <1>2, <1>3, <1>6 DEF Before
  <2>2. CASE b.x < r.x0
    <3>1. Sure([x |-> r.x0, y |-> b.y])
      BY <1>1, <1>2, <1>3, <1>4, <1>6, <2>1, <2>2
    <3>. QED  BY <3>1 DEF r
  <2>3. CASE ~(b.x < r.x0)
    <3>1. Sure([x |-> b.x, y |-> b.y])
      BY <1>1, <1>2, <1>3, <1>4, <1>6, <2>1, <2>3
    <3>. QED  BY <3>1 DEF r
  <2>. QED  BY <2>2, <2>3
<1>7. CASE r.y0 <= b.y /\ r.x1 < b.x
  <2>1. b.y + 1 <= r.y1
    BY <1>1, <1>2, <1>3, <1>7 DEF Before
  <2>2. Sure([x |-> r.x0, y |-> b.y + 1])
    BY <1>1, <1>2, <1>3, <1>4, <1>7, <2>1
  <2>. QED  BY <2>2 DEF r
<1>. QED  BY <1>1, <1>2, <1>5, <1>6, <1>7

-----------------------------------------------------------------------------
(* A bucket a micropolygon touches lies in its rectangle and in the bound  *)
(* of every surface that holds the micropolygon and has a usable bound.    *)
LEMMA TouchedFacts ==
  ASSUME NEW f \in Frag, NEW a \in Touched(f)
  PROVE  /\ a \in Buckets /\ InRect(a, MPRect[f])
         /\ \A s \in Surfaces : f \in s.frags /\ ProperBound(s) /\ ~s.eye =>
              /\ s.rect \in Rectangles /\ ~Misses(Region, s.rect)
              /\ InRect(a, s.rect) /\ InRect(a, ClampRect(Region, s.rect))
<1>1. MPRect[f] \in Rectangles /\ ~Misses(Region, MPRect[f]) /\ a \in Buckets
  BY FragAssumption DEF Touched
<1>2. InRect(a, MPRect[f])
  BY <1>1, ClampKeeps DEF Touched
<1>3. ASSUME NEW s \in Surfaces, f \in s.frags, ProperBound(s), ~s.eye
      PROVE  /\ s.rect \in Rectangles /\ ~Misses(Region, s.rect) /\ InRect(a, s.rect)
  <2>1. s.rect \in Rectangles
    BY BoundsAssumption DEF Surfaces, EyeRect, Rectangles
  <2>2. Encloses(s.rect, MPRect[f])
    BY <1>3 DEF ProperBound
  <2>3. InRect(a, s.rect)
    BY <1>1, <1>2, <2>1, <2>2, BucketFacts DEF Encloses, InRect, Rectangles
  <2>4. ~Misses(Region, s.rect)
    BY <1>1, <2>1, <2>2, RegionFacts DEF Encloses, Misses, Rectangles
  <2>. QED  BY <2>1, <2>3, <2>4
<1>. QED  BY <1>1, <1>2, <1>3, ClampKeeps

(* PostSurface finds a bucket for a surface: the first unfinished one of   *)
(* its bound, and that is never after a bucket of its micropolygons which  *)
(* is still to come.                                                       *)
LEMMA PostFinds ==
  ASSUME NEW b \in Buckets, processed = {a \in Buckets : Before(a, b)},
         NEW s \in Surfaces, ProperBound(s), ~TooManySplits(s),
         s.eye => b = FirstCell(Region),
         NEW f \in Frag, f \in s.frags, NEW a \in Touched(f), ~Before(a, b)
  PROVE  ~Culled(s) /\ \E c \in Buckets : FirstOpen(s, c) /\ ~Before(a, c)
<1>1. a \in Buckets
  BY TouchedFacts
<1>2. CASE s.eye
  <2>1. b \in Buckets \ processed /\ \A c \in Buckets : ~Before(c, b)
    BY <1>2, FirstBucket
  <2>2. s.rect = EyeRect
    BY <1>2 DEF ProperBound
  <2>3. \A c \in Buckets : InRect(c, ClampRect(Region, s.rect)) <=> c = b
    <3>1. /\ ClampRect(Region, s.rect).x0 = Region.xMin /\ ClampRect(Region, s.rect).x1 = Region.xMin
          /\ ClampRect(Region, s.rect).y0 = Region.yMin /\ ClampRect(Region, s.rect).y1 = Region.yMin
      BY <2>2, RegionFacts DEF ClampRect, Clamp, EyeRect
    <3>2. b.x = Region.xMin /\ b.y = Region.yMin
      BY <1>2 DEF FirstCell
    <3>. QED  BY <3>1, <3>2, BucketFacts, RegionFacts DEF InRect
  <2>4. FirstOpen(s, b)
    BY <2>1, <2>3 DEF FirstOpen, Open
  <2>. QED  BY <1>1, <1>2, <2>1, <2>4 DEF Culled
<1>3. CASE ~s.eye
  <2>1. s.rect \in Rectangles /\ ~Misses(Region, s.rect) /\ InRect(a, ClampRect(Region, s.rect))
    BY <1>3, TouchedFacts
  <2>2. PICK c \in Buckets :
          /\ InRect(c, ClampRect(Region, s.rect)) /\ ~Before(c, b)
          /\ \A d \in Buckets : InRect(d, ClampRect(Region, s.rect)) /\ ~Before(d, b)
                                 => c = d \/ Before(c, d)
    BY <1>1, <2>1, FirstInRect
  <2>3. FirstOpen(s, c)
    BY <2>2 DEF FirstOpen, Open
  <2>4. ~Before(a, c)
    BY <1>1, <2>1, <2>2, TotalOrder
  <2>. QED  BY <1>3, <2>1, <2>3, <2>4 DEF Culled
<1>. QED  BY <1>2, <1>3

(* PostSurface passes over a bucket only when it is finished, and an eye   *)
(* splitting surface goes to the first bucket.                             *)
LEMMA PostPasses ==
  ASSUME NEW s \in Surfaces, ProperBound(s), NEW b \in Buckets, FirstOpen(s, b)
  PROVE  /\ b \notin processed
         /\ s.eye => b = FirstCell(Region)
         /\ \A f \in s.frags : \A a \in Touched(f) : Before(a, b) => a \in processed
<1>1. b \notin processed /\ InRect(b, ClampRect(Region, s.rect))
  BY DEF FirstOpen, Open
<1>2. s.eye => b = FirstCell(Region)
  <2>1. SUFFICES ASSUME s.eye PROVE b = FirstCell(Region)
    OBVIOUS
  <2>2. s.rect = EyeRect
    BY <2>1 DEF ProperBound
  <2>3. b.x = Region.xMin /\ b.y = Region.yMin
    BY <1>1, <2>2, BucketFacts, RegionFacts DEF ClampRect, Clamp, EyeRect, InRect
  <2>. QED  BY <2>3, BucketFacts DEF FirstCell
<1>3. ASSUME NEW f \in s.frags, NEW a \in Touched(f), Before(a, b)
      PROVE  a \in processed
  <2>1. f \in Frag
    BY DEF Surfaces
  <2>2. a \in Buckets
    BY <2>1, TouchedFacts
  <2>3. ~s.eye
    BY <1>2, <1>3, <2>2, FirstBucket
  <2>4. InRect(a, ClampRect(Region, s.rect))
    BY <2>1, <2>3, TouchedFacts
  <2>5. a # b /\ ~Before(b, a)
    BY <1>3, <2>2, TotalOrder
  <2>. QED  BY <2>2, <2>4, <2>5 DEF FirstOpen, Open
<1>. QED  BY <1>1, <1>2, <1>3

(* RepostSurface goes to a later bucket and passes over none that a        *)
(* micropolygon of the surface touches; it gives up only when there is no  *)
(* such bucket left.                                                       *)
LEMMA RepostPasses ==
  ASSUME NEW s \in Surfaces, ProperBound(s), ~s.eye, NEW b \in Buckets
  PROVE  \/ \E c \in Buckets :
              /\ \A h \in [Buckets -> SUBSET Surfaces] :
                   Reposted(h, s, b) = [h EXCEPT ![c] = @ \cup {s}]
              /\ Before(b, c)
              /\ \A f \in s.frags : \A a \in Touched(f) : Before(a, c) => a = b \/ Before(a, b)
         \/ /\ \A h : Reposted(h, s, b) = h
            /\ \A f \in s.frags : \A a \in Touched(f) : a = b \/ Before(a, b)
<1>1. s.rect \in Rectangles /\ \A f \in s.frags : f \in Frag
  BY BoundsAssumption DEF Surfaces, EyeRect, Rectangles
<1>2. /\ s.rect.x0 \in Int /\ s.rect.y0 \in Int /\ s.rect.x1 \in Int /\ s.rect.y1 \in Int
      /\ b.x \in Int /\ b.y \in Int /\ Region.xMin <= b.x /\ b.x < Region.xMax
      /\ Region.yMin <= b.y /\ b.y < Region.yMax
  BY <1>1, BucketFacts DEF Rectangles
<1>3. ASSUME NEW f \in s.frags, NEW a \in Touched(f)
      PROVE  /\ a.x \in Int /\ a.y \in Int /\ a \in Buckets
             /\ Region.xMin <= a.x /\ a.x < Region.xMax /\ a.y < Region.yMax
             /\ s.rect.x0 <= a.x /\ a.x <= s.rect.x1 /\ a.y <= s.rect.y1
             /\ a = b <=> a.x = b.x /\ a.y = b.y
  <2>1. a \in Buckets /\ InRect(a, s.rect)
    BY <1>1, TouchedFacts
  <2>. QED  BY <1>2, <2>1, BucketFacts DEF InRect
<1>4. CASE RightOf(s, b)
  <2>. DEFINE c == [x |-> b.x + 1, y |-> b.y]
  <2>1. c \in Buckets
    BY <1>2, <1>4, RegionFacts DEF RightOf, Buckets, BucketsIn
  <2>2. \A h \in [Buckets -> SUBSET Surfaces] : Reposted(h, s, b) = [h EXCEPT ![c] = @ \cup {s}]
    BY <1>4 DEF Reposted
  <2>3. Before(b, c)
    BY <1>2 DEF Before
  <2>4. ASSUME NEW f \in s.frags, NEW a \in Touched(f), Before(a, c)
        PROVE  a = b \/ Before(a, b)
    BY <1>2, <1>3, <2>4 DEF Before
  <2>. QED  BY <2>1, <2>2, <2>3, <2>4
<1>5. CASE ~RightOf(s, b) /\ ReachesBelow(s, b)
  <2>. DEFINE c == BelowCell(s, b)
  <2>1. c \in Buckets
    BY <1>5 DEF ReachesBelow
  <2>2. \A h \in [Buckets -> SUBSET Surfaces] : Reposted(h, s, b) = [h EXCEPT ![c] = @ \cup {s}]
    BY <1>5 DEF Reposted
  <2>3. c.y = b.y + 1 /\ c.x = IF s.rect.x0 < Region.xMin THEN Region.xMin ELSE s.rect.x0
    BY DEF BelowCell
  <2>4. Before(b, c)
    BY <1>2, <2>3 DEF Before
  <2>5. ASSUME NEW f \in s.frags, NEW a \in Touched(f), Before(a, c)
        PROVE  a = b \/ Before(a, b)
    <3>. HIDE DEF c
    <3>1. a.y < b.y + 1
      BY <1>2, <1>3, <2>3, <2>5, RegionFacts DEF Before
    <3>2. ~(a.y = b.y /\ b.x < a.x)
      BY <1>2, <1>3, <1>5, RegionFacts DEF RightOf
    <3>. QED  BY <1>2, <1>3, <3>1, <3>2 DEF Before
  <2>. QED  BY <2>1, <2>2, <2>4, <2>5
<1>6. CASE ~RightOf(s, b) /\ ~ReachesBelow(s, b)
  <2>1. \A h : Reposted(h, s, b) = h
    BY <1>6 DEF Reposted
  <2>2. ASSUME NEW f \in s.frags, NEW a \in Touched(f)
        PROVE  a = b \/ Before(a, b)
    <3>1. ~(a.y = b.y /\ b.x < a.x)
      BY <1>2, <1>3, <1>6, RegionFacts DEF RightOf
    <3>2. ~(b.y < a.y)
      <4>1. SUFFICES ASSUME b.y < a.y PROVE FALSE
        OBVIOUS
      <4>2. s.rect.y1 > b.y
        BY <1>2, <1>3, <4>1
      <4>3. BelowCell(s, b) \in Buckets
        BY <1>2, <1>3, <4>1, RegionFacts DEF BelowCell, Buckets, BucketsIn
      <4>. QED  BY <1>6, <4>2, <4>3 DEF ReachesBelow
    <3>. QED  BY <1>2, <1>3, <3>1, <3>2 DEF Before
  <2>. QED  BY <2>1, <2>2
<1>. QED  BY <1>4, <1>5, <1>6

-----------------------------------------------------------------------------
(* While a bucket is rendered, the finished buckets are those before it. *)
LEMMA AtBucket ==
  ASSUME IInv, pc \in {"process", "surfaces", "post"}
  PROVE  /\ bucket \in Buckets /\ bucket # NoBucket /\ bucket \notin processed
         /\ processed = {a \in Buckets : Before(a, bucket)}
<1>1. bucket \in Buckets /\ bucket # NoBucket
  BY FirstBucket DEF IInv, InOrder
<1>2. processed = {a \in Buckets : Before(a, bucket)}
  BY <1>1 DEF IInv, InOrder, Here
<1>. QED  BY <1>1, <1>2, TotalOrder

(* RenderWaitingMPs empties the bucket's list and loses nothing. *)
LEMMA Sampling ==
  ASSUME TypeOK, bucket \in Buckets, NEW m \in [Buckets -> SUBSET Frag],
         RenderWaitingMPs(m), hidden \subseteq hidden'
  PROVE  /\ mps' \in [Buckets -> SUBSET Frag] /\ rendered' \subseteq Frag \X Buckets
         /\ mps'[bucket] = {}
         /\ \A b \in Buckets : b # bucket => mps'[b] = m[b]
         /\ \A f, a : Handled(f, a) => Handled(f, a)'
         /\ \A a \in Buckets : \A f \in m[a] : f \in mps'[a] \/ Handled(f, a)'
<1>1. /\ mps' \in [Buckets -> SUBSET Frag] /\ mps'[bucket] = {}
      /\ \A b \in Buckets : b # bucket => mps'[b] = m[b]
  BY DEF RenderWaitingMPs
<1>2. rendered' = rendered \cup {<<f, bucket>> : f \in m[bucket]}
  BY DEF RenderWaitingMPs
<1>3. rendered' \subseteq Frag \X Buckets
  BY <1>2 DEF TypeOK
<1>4. \A f, a : Handled(f, a) => Handled(f, a)'
  BY <1>2 DEF Handled
<1>5. ASSUME NEW a \in Buckets, NEW f \in m[a]
      PROVE  f \in mps'[a] \/ Handled(f, a)'
  BY <1>1, <1>2 DEF Handled
<1>. QED  BY <1>1, <1>3, <1>4, <1>5

(* A step of RenderSurface preserves the invariant if it leaves the other  *)
(* surfaces where they are, queues what it makes of s only in unfinished   *)
(* buckets and behind no bucket that is not handled, and lets every        *)
(* micropolygon of s that is not given up still come to its buckets.       *)
LEMMA SurfaceStep ==
  ASSUME IInv, pc = "surfaces", NEW s \in heap[bucket],
         NEW m \in [Buckets -> SUBSET Frag], RenderWaitingMPs(m),
         \A b \in Buckets : mps[b] \subseteq m[b],
         \A b \in processed : m[b] = mps[b],
         UNCHANGED <<pc, cell, pending, bucket, quit, processed, unposted>>,
         hidden \subseteq hidden', hidden' \subseteq Frag \X Buckets,
         abandoned \subseteq abandoned', abandoned' \subseteq Frag,
         heap' \in [Buckets -> SUBSET Surfaces],
         \A b \in Buckets : \A t \in heap[b] : t \in heap'[b] \/ (b = bucket /\ t = s),
         \A b \in Buckets : \A t \in heap'[b] :
           \/ t \in heap[b]
           \/ /\ b \notin processed /\ ProperBound(t) /\ (t.eye => b = FirstCell(Region))
              /\ t.frags \subseteq s.frags
              /\ \A f \in t.frags : \A a \in Touched(f) :
                   Before(a, b) => a \in processed \/ Handled(f, a)',
         \A f \in s.frags \ abandoned' : \A a \in Touched(f) :
           ~Before(a, bucket) => Handled(f, a)' \/ ToCome(f, a)'
  PROVE  IInv'
<1>. DEFINE New(t, b) ==
       /\ b \notin processed /\ ProperBound(t) /\ (t.eye => b = FirstCell(Region))
       /\ t.frags \subseteq s.frags
       /\ \A f \in t.frags : \A a \in Touched(f) :
            Before(a, b) => a \in processed \/ Handled(f, a)'
<1>1. /\ bucket \in Buckets /\ bucket \notin processed
      /\ processed = {a \in Buckets : Before(a, bucket)}
  BY AtBucket
<1>2. /\ mps' \in [Buckets -> SUBSET Frag] /\ rendered' \subseteq Frag \X Buckets
      /\ mps'[bucket] = {}
      /\ \A b \in Buckets : b # bucket => mps'[b] = m[b]
      /\ \A f, a : Handled(f, a) => Handled(f, a)'
      /\ \A a \in Buckets : \A f \in m[a] : f \in mps'[a] \/ Handled(f, a)'
  BY <1>1, Sampling DEF IInv
<1>3. \A b \in Buckets : \A t \in heap'[b] : t \in heap[b] \/ New(t, b)
  OBVIOUS
<1>4. TypeOK'
  BY <1>2 DEF IInv, TypeOK
<1>5. InOrder'
  BY DEF IInv, InOrder, Here
<1>6. Emptied'
  BY <1>2 DEF IInv, Emptied
<1>7. WellPlaced'
  BY <1>3 DEF IInv, WellPlaced, ProperBound
<1>8. NothingLeftBehind'
  <2>1. SUFFICES ASSUME NEW b \in processed PROVE heap'[b] = {} /\ mps'[b] = {}
    BY DEF NothingLeftBehind
  <2>2. b \in Buckets /\ b # bucket /\ heap[b] = {} /\ mps[b] = {}
    BY <1>1 DEF IInv, NothingLeftBehind
  <2>3. heap'[b] = {}
    BY <1>3, <2>2
  <2>. QED  BY <1>2, <2>2, <2>3
<1>9. PastHandled'
  <2>1. SUFFICES ASSUME NEW b \in Buckets, NEW t \in heap'[b], NEW f \in t.frags,
                        NEW a \in Touched(f), Before(a, b)
                 PROVE  Handled(f, a)'
    BY DEF PastHandled, Touched
  <2>2. CASE t \in heap[b]
    BY <1>2, <2>1, <2>2 DEF IInv, PastHandled
  <2>3. CASE New(t, b)
    <3>1. f \in s.frags /\ (a \in processed \/ Handled(f, a)')
      BY <2>1, <2>3
    <3>2. a \in processed => Handled(f, a)
      BY <1>1, <3>1 DEF IInv, PastHandled
    <3>. QED  BY <1>2, <3>1, <3>2
  <2>. QED  BY <1>3, <2>2, <2>3
<1>10. Covered'
  <2>1. SUFFICES ASSUME NEW f \in Frag, f \notin unposted, f \notin abandoned',
                        NEW a \in Touched(f)
                 PROVE  Handled(f, a)' \/ ToCome(f, a)'
    BY DEF Covered, Touched
  <2>2. a \in Buckets /\ f \notin abandoned
    BY <2>1, TouchedFacts
  <2>3. Handled(f, a) \/ ToCome(f, a)
    BY <2>1, <2>2 DEF IInv, Covered
  <2>4. CASE Handled(f, a)
    BY <1>2, <2>4
  <2>5. CASE f \in mps[a]
    BY <1>2, <2>2, <2>5 DEF ToCome
  <2>6. ASSUME NEW b \in Buckets, NEW t \in heap[b], f \in t.frags, ~Before(a, b)
        PROVE  Handled(f, a)' \/ ToCome(f, a)'
    <3>1. CASE t \in heap'[b]
      BY <2>6, <3>1 DEF ToCome
    <3>2. CASE b = bucket /\ t = s
      BY <2>1, <2>6, <3>2
    <3>. QED  BY <3>1, <3>2
  <2>. QED  BY <2>3, <2>4, <2>5, <2>6 DEF ToCome
<1>. QED  BY <1>4, <1>5, <1>6, <1>7, <1>8, <1>9, <1>10 DEF IInv

(* A surface in a queue has the type of a surface. *)
LEMMA QueuedSurface ==
  ASSUME IInv, NEW b \in Buckets, NEW s \in heap[b]
  PROVE  s \in Surfaces /\ s.frags \subseteq Frag /\ ProperBound(s)
<1>1. s \in Surfaces
  BY DEF IInv, TypeOK
<1>. QED  BY <1>1 DEF IInv, WellPlaced, Surfaces

(* What Posted puts in the queues. *)
LEMMA PostedFacts ==
  ASSUME NEW h \in [Buckets -> SUBSET Surfaces], NEW S \in SUBSET Surfaces
  PROVE  /\ Posted(h, S) \in [Buckets -> SUBSET Surfaces]
         /\ \A b \in Buckets : \A t : t \in Posted(h, S)[b] <=>
              t \in h[b] \/ (t \in S /\ ~Culled(t) /\ FirstOpen(t, b))
<1>1. \A b \in Buckets : Posted(h, S)[b] = h[b] \cup {s \in S : ~Culled(s) /\ FirstOpen(s, b)}
  BY DEF Posted
<1>2. Posted(h, S) \in [Buckets -> SUBSET Surfaces]
  BY DEF Posted
<1>. QED  BY <1>1, <1>2

LEMMA GivenUpFacts ==
  ASSUME NEW S \in SUBSET Surfaces
  PROVE  /\ GivenUp(S) \subseteq Frag
         /\ \A t \in S : TooManySplits(t) => t.frags \subseteq GivenUp(S)
BY DEF GivenUp, Surfaces

(* A surface the occlusion tree hides in the bucket goes to the next bucket *)
(* of its bound.                                                            *)
LEMMA HiddenIInv ==
  ASSUME IInv, pc = "surfaces", NEW s \in heap[bucket], RenderSurfaceHidden(s)
  PROVE  IInv'
<1>1. /\ bucket \in Buckets /\ bucket \notin processed
      /\ processed = {a \in Buckets : Before(a, bucket)}
  BY AtBucket
<1>2. s \in Surfaces /\ s.frags \subseteq Frag /\ ProperBound(s) /\ ~s.eye
  BY <1>1, QueuedSurface DEF RenderSurfaceHidden
<1>. DEFINE h == Popped(s)
<1>3. /\ h \in [Buckets -> SUBSET Surfaces] /\ h[bucket] = heap[bucket] \ {s}
      /\ \A b \in Buckets : b # bucket => h[b] = heap[b]
  BY <1>1 DEF Popped, IInv, TypeOK
<1>4. /\ heap' = Reposted(h, s, bucket) /\ RenderWaitingMPs(mps)
      /\ hidden' = hidden \cup {<<f, bucket>> : f \in s.frags}
      /\ UNCHANGED <<pc, cell, pending, bucket, quit, processed, unposted, abandoned>>
  BY DEF RenderSurfaceHidden
<1>5. hidden' \subseteq Frag \X Buckets /\ \A f \in s.frags : \A a : a = bucket => Handled(f, a)'
  BY <1>1, <1>2, <1>4 DEF IInv, TypeOK, Handled
<1>6. \A f \in s.frags : \A a \in Touched(f) : a \in Buckets
  BY <1>2, TouchedFacts
<1>7. mps \in [Buckets -> SUBSET Frag] /\ abandoned \subseteq Frag
  BY DEF IInv, TypeOK
<1>. HIDE DEF h
<1>8. CASE \E c \in Buckets :
             /\ Reposted(h, s, bucket) = [h EXCEPT ![c] = @ \cup {s}]
             /\ Before(bucket, c)
             /\ \A f \in s.frags : \A a \in Touched(f) :
                  Before(a, c) => a = bucket \/ Before(a, bucket)
  <2>1. PICK c \in Buckets :
             /\ heap' = [h EXCEPT ![c] = @ \cup {s}]
             /\ Before(bucket, c)
             /\ \A f \in s.frags : \A a \in Touched(f) :
                  Before(a, c) => a = bucket \/ Before(a, bucket)
    BY <1>4, <1>8
  <2>2. heap' \in [Buckets -> SUBSET Surfaces] /\ s \in heap'[c]
    BY <1>2, <1>3, <2>1
  <2>3. \A b \in Buckets : \A t \in heap[b] : t \in heap'[b] \/ (b = bucket /\ t = s)
    BY <1>3, <2>1
  <2>4. \A b \in Buckets : \A t \in heap'[b] : t \in heap[b] \/ (b = c /\ t = s)
    BY <1>3, <2>1
  <2>5. c \notin processed
    BY <1>1, <2>1, TotalOrder
  <2>6. \A f \in s.frags : \A a \in Touched(f) :
           Before(a, c) => a \in processed \/ Handled(f, a)'
    BY <1>1, <1>5, <1>6, <2>1
  <2>7. \A f \in s.frags : \A a \in Touched(f) :
           ~Before(a, bucket) => Handled(f, a)' \/ ToCome(f, a)'
    <3>1. SUFFICES ASSUME NEW f \in s.frags, NEW a \in Touched(f), ~Before(a, bucket), a # bucket
                   PROVE  ToCome(f, a)'
      BY <1>5
    <3>2. ~Before(a, c)
      BY <2>1, <3>1
    <3>. QED  BY <2>1, <2>2, <3>2 DEF ToCome
  <2>. QED  BY <1>2, <1>4, <1>5, <1>7, <2>2, <2>3, <2>4, <2>5, <2>6, <2>7, SurfaceStep
<1>9. CASE /\ Reposted(h, s, bucket) = h
           /\ \A f \in s.frags : \A a \in Touched(f) : a = bucket \/ Before(a, bucket)
  <2>1. \A b \in Buckets : \A t \in heap[b] : t \in heap'[b] \/ (b = bucket /\ t = s)
    BY <1>3, <1>4, <1>9
  <2>2. \A b \in Buckets : \A t \in heap'[b] : t \in heap[b]
    BY <1>3, <1>4, <1>9
  <2>3. \A f \in s.frags : \A a \in Touched(f) : ~Before(a, bucket) => Handled(f, a)'
    BY <1>5, <1>9
  <2>. QED  BY <1>3, <1>4, <1>5, <1>7, <1>9, <2>1, <2>2, <2>3, SurfaceStep
<1>. QED  BY <1>1, <1>2, <1>3, <1>8, <1>9, RepostPasses

(* A surface that is diced leaves its micropolygons in every unfinished     *)
(* bucket they touch.                                                       *)
LEMMA DicedIInv ==
  ASSUME IInv, pc = "surfaces", NEW s \in heap[bucket], RenderSurfaceDiced(s)
  PROVE  IInv'
<1>1. /\ bucket \in Buckets /\ bucket \notin processed
      /\ processed = {a \in Buckets : Before(a, bucket)}
  BY AtBucket
<1>2. s.frags \subseteq Frag
  BY <1>1, QueuedSurface
<1>. DEFINE m == Queued(s.frags)
<1>3. /\ RenderWaitingMPs(m) /\ heap' = Popped(s)
      /\ UNCHANGED <<pc, cell, pending, bucket, quit, processed, unposted, hidden, abandoned>>
  BY DEF RenderSurfaceDiced
<1>4. /\ m \in [Buckets -> SUBSET Frag]
      /\ \A b \in Buckets : mps[b] \subseteq m[b]
      /\ \A b \in processed : m[b] = mps[b]
      /\ \A b \in Buckets \ processed : \A f \in s.frags : b \in Touched(f) => f \in m[b]
  BY <1>1, <1>2 DEF Queued, IInv, TypeOK
<1>5. /\ heap' \in [Buckets -> SUBSET Surfaces]
      /\ \A b \in Buckets : \A t \in heap[b] : t \in heap'[b] \/ (b = bucket /\ t = s)
      /\ \A b \in Buckets : \A t \in heap'[b] : t \in heap[b]
  BY <1>1, <1>3 DEF Popped, IInv, TypeOK
<1>6. hidden \subseteq Frag \X Buckets /\ abandoned \subseteq Frag
  BY DEF IInv, TypeOK
<1>. HIDE DEF m
<1>7. ASSUME NEW f \in s.frags, NEW a \in Touched(f), ~Before(a, bucket)
      PROVE  Handled(f, a)' \/ ToCome(f, a)'
  <2>1. a \in Buckets \ processed
    BY <1>1, <1>2, <1>7, TouchedFacts
  <2>2. f \in m[a]
    BY <1>4, <2>1
  <2>3. f \in mps'[a] \/ Handled(f, a)'
    BY <1>1, <1>3, <1>4, <2>1, <2>2, Sampling DEF IInv
  <2>. QED  BY <2>3 DEF ToCome
<1>. QED  BY <1>3, <1>4, <1>5, <1>6, <1>7, SurfaceStep

(* A discarded surface is given up with all it holds. *)
LEMMA DiscardedIInv ==
  ASSUME IInv, pc = "surfaces", NEW s \in heap[bucket], RenderSurfaceDiscarded(s)
  PROVE  IInv'
<1>1. bucket \in Buckets /\ s.frags \subseteq Frag
  BY AtBucket, QueuedSurface
<1>2. /\ RenderWaitingMPs(mps) /\ heap' = Popped(s) /\ abandoned' = abandoned \cup s.frags
      /\ UNCHANGED <<pc, cell, pending, bucket, quit, processed, unposted, hidden>>
  BY DEF RenderSurfaceDiscarded
<1>3. /\ heap' \in [Buckets -> SUBSET Surfaces]
      /\ \A b \in Buckets : \A t \in heap[b] : t \in heap'[b] \/ (b = bucket /\ t = s)
      /\ \A b \in Buckets : \A t \in heap'[b] : t \in heap[b]
  BY <1>1, <1>2 DEF Popped, IInv, TypeOK
<1>4. /\ hidden \subseteq Frag \X Buckets /\ abandoned' \subseteq Frag
      /\ mps \in [Buckets -> SUBSET Frag] /\ s.frags \ abandoned' = {}
  BY <1>1, <1>2 DEF IInv, TypeOK
<1>. QED  BY <1>2, <1>3, <1>4, SurfaceStep

(* A surface that is split goes on in its pieces, each posted anew. *)
LEMMA SplitIInv ==
  ASSUME IInv, pc = "surfaces", NEW s \in heap[bucket], RenderSurfaceSplit(s)
  PROVE  IInv'
<1>1. /\ bucket \in Buckets /\ bucket \notin processed
      /\ processed = {a \in Buckets : Before(a, bucket)}
  BY AtBucket
<1>2. /\ s \in Surfaces /\ s.frags \subseteq Frag
      /\ s.eye => bucket = FirstCell(Region)
  BY <1>1, QueuedSurface DEF IInv, WellPlaced
<1>3. PICK c \in Pieces(s), d \in Pieces(s) :
        /\ IsSplit(c, d, s)
        /\ heap' = Posted(Popped(s), {c, d})
        /\ abandoned' = abandoned \cup GivenUp({c, d})
  BY DEF RenderSurfaceSplit
<1>4. /\ RenderWaitingMPs(mps)
      /\ UNCHANGED <<pc, cell, pending, bucket, quit, processed, unposted, hidden>>
  BY DEF RenderSurfaceSplit
<1>5. ASSUME NEW t \in {c, d}
      PROVE  t \in Surfaces /\ ProperBound(t) /\ t.frags \subseteq s.frags /\ (t.eye => s.eye)
  <2>1. t \in Pieces(s)
    OBVIOUS
  <2>2. /\ t.frags \in SUBSET s.frags /\ t.rect \in Bounds \cup {EyeRect}
        /\ t.eye \in BOOLEAN /\ (t.eye => s.eye)
        /\ t.splits \in SplitCounts(s)
        /\ t = [frags |-> t.frags, rect |-> t.rect, eye |-> t.eye,
                splits |-> t.splits, cullable |-> s.cullable]
        /\ ProperBound(t)
    <3>. DEFINE E == IF s.eye THEN BOOLEAN ELSE {FALSE}  N == SplitCounts(s)
    <3>1. E \subseteq BOOLEAN /\ \A e \in E : e => s.eye
      OBVIOUS
    <3>. HIDE DEF E, N
    <3>. QED  BY <2>1, <3>1 DEF Pieces, E, N
  <2>3. SplitCounts(s) \subseteq Nat /\ s.cullable \in BOOLEAN
    BY <1>2 DEF Surfaces, SplitCounts
  <2>. QED  BY <1>2, <2>2, <2>3 DEF Surfaces
<1>6. \A f \in s.frags : \E t \in {c, d} : f \in t.frags
  BY <1>3 DEF IsSplit
<1>. DEFINE h == Popped(s)  S == {c, d}
<1>7. /\ h \in [Buckets -> SUBSET Surfaces] /\ h[bucket] = heap[bucket] \ {s}
      /\ \A b \in Buckets : b # bucket => h[b] = heap[b]
  BY <1>1 DEF Popped, IInv, TypeOK
<1>8. S \in SUBSET Surfaces /\ heap' = Posted(h, S)
  BY <1>3, <1>5
<1>. HIDE DEF h, S
<1>9. /\ heap' \in [Buckets -> SUBSET Surfaces]
      /\ \A b \in Buckets : \A t : t \in heap'[b] <=>
              t \in h[b] \/ (t \in S /\ ~Culled(t) /\ FirstOpen(t, b))
  BY <1>7, <1>8, PostedFacts
<1>10. \A b \in Buckets : \A t \in heap[b] : t \in heap'[b] \/ (b = bucket /\ t = s)
  BY <1>7, <1>9
<1>11. ASSUME NEW b \in Buckets, NEW t \in heap'[b], t \notin heap[b]
       PROVE  /\ b \notin processed /\ ProperBound(t) /\ (t.eye => b = FirstCell(Region))
              /\ t.frags \subseteq s.frags
              /\ \A f \in t.frags : \A a \in Touched(f) :
                   Before(a, b) => a \in processed \/ Handled(f, a)'
  <2>1. t \in S /\ FirstOpen(t, b)
    BY <1>7, <1>9, <1>11
  <2>2. t \in Surfaces /\ ProperBound(t) /\ t.frags \subseteq s.frags
    BY <1>5, <2>1 DEF S
  <2>. QED  BY <2>1, <2>2, PostPasses
<1>12. abandoned \subseteq abandoned' /\ abandoned' \subseteq Frag
  BY <1>3, <1>8, GivenUpFacts DEF IInv, TypeOK, S
<1>13. ASSUME NEW f \in s.frags \ abandoned', NEW a \in Touched(f), ~Before(a, bucket)
       PROVE  ToCome(f, a)'
  <2>1. PICK t \in S : f \in t.frags
    BY <1>6 DEF S
  <2>2. t \in Surfaces /\ ProperBound(t) /\ (t.eye => s.eye) /\ f \in Frag
    BY <1>2, <1>5, <2>1 DEF S
  <2>3. ~TooManySplits(t)
    BY <1>3, <1>8, <1>13, <2>1, GivenUpFacts DEF S
  <2>4. PICK b \in Buckets : FirstOpen(t, b) /\ ~Culled(t) /\ ~Before(a, b)
    BY <1>1, <1>2, <1>13, <2>1, <2>2, <2>3, PostFinds
  <2>5. t \in heap'[b]
    BY <1>9, <2>1, <2>4
  <2>. QED  BY <2>1, <2>4, <2>5 DEF ToCome
<1>14. hidden \subseteq Frag \X Buckets /\ mps \in [Buckets -> SUBSET Frag]
  BY DEF IInv, TypeOK
<1>. QED  BY <1>4, <1>9, <1>10, <1>11, <1>12, <1>13, <1>14, SurfaceStep

-----------------------------------------------------------------------------
(* The initial state satisfies the invariant. *)
LEMMA InitIInv == Init => IInv
<1>. SUFFICES ASSUME Init PROVE IInv
  OBVIOUS
<1>1. FirstCell(Region) \in Buckets /\ FirstCell(Region) \in Cells
  BY FirstBucket, BucketFacts DEF Cells
<1>2. TypeOK
  BY <1>1 DEF Init, TypeOK
<1>3. processed = {a \in Buckets : Before(a, FirstCell(Region))}
  BY FirstBucket DEF Init
<1>4. InOrder
  BY <1>1, <1>3 DEF Init, InOrder, Here
<1>5. Emptied /\ WellPlaced /\ NothingLeftBehind /\ PastHandled /\ Covered
  BY DEF Init, Emptied, WellPlaced, NothingLeftBehind, PastHandled, Covered
<1>. QED  BY <1>2, <1>4, <1>5 DEF IInv

(* Posting a primitive of the world: nothing is finished yet. *)
LEMMA StoreIInv == IInv /\ StorePrimitive => IInv'
<1>. SUFFICES ASSUME IInv, StorePrimitive PROVE IInv'
  OBVIOUS
<1>1. PICK F \in SUBSET unposted, q \in Bounds \cup {EyeRect}, e \in BOOLEAN, c \in BOOLEAN :
        LET s == [frags |-> F, rect |-> q, eye |-> e, splits |-> 0, cullable |-> c]
        IN  /\ ProperBound(s)
            /\ heap' = Posted(heap, {s})
            /\ unposted' = unposted \ F
            /\ abandoned' = abandoned \cup GivenUp({s})
  BY DEF StorePrimitive
<1>. DEFINE s == [frags |-> F, rect |-> q, eye |-> e, splits |-> 0, cullable |-> c]  S == {s}
<1>2. /\ ProperBound(s) /\ heap' = Posted(heap, S) /\ unposted' = unposted \ s.frags
      /\ abandoned' = abandoned \cup GivenUp(S)
  BY <1>1
<1>3. /\ pc = "world"
      /\ UNCHANGED <<pc, cell, pending, bucket, quit, processed, mps, rendered, hidden>>
  BY DEF StorePrimitive
<1>4. s \in Surfaces /\ s.frags \subseteq Frag
  BY DEF Surfaces, IInv, TypeOK
<1>. HIDE DEF s
<1>5. /\ FirstCell(Region) \in Buckets /\ processed = {}
      /\ processed = {a \in Buckets : Before(a, FirstCell(Region))}
  BY <1>3, FirstBucket DEF IInv, InOrder, Here
<1>6. heap \in [Buckets -> SUBSET Surfaces] /\ S \in SUBSET Surfaces
  BY <1>4 DEF IInv, TypeOK
<1>7. /\ heap' \in [Buckets -> SUBSET Surfaces]
      /\ \A b \in Buckets : \A t : t \in heap'[b] <=>
           t \in heap[b] \/ (t = s /\ ~Culled(t) /\ FirstOpen(t, b))
  BY <1>2, <1>6, PostedFacts
<1>8. abandoned' \in SUBSET Frag
  BY <1>2, <1>6, GivenUpFacts DEF IInv, TypeOK
<1>9. \A b \in Buckets : FirstOpen(s, b) =>
        /\ s.eye => b = FirstCell(Region)
        /\ \A f \in s.frags : \A a \in Touched(f) : ~Before(a, b)
  BY <1>2, <1>4, <1>5, PostPasses
<1>10. TypeOK'
  BY <1>2, <1>3, <1>7, <1>8 DEF IInv, TypeOK
<1>11. InOrder' /\ Emptied' /\ NothingLeftBehind'
  BY <1>3, <1>5 DEF IInv, InOrder, Here, Emptied, NothingLeftBehind
<1>12. WellPlaced'
  BY <1>2, <1>7, <1>9 DEF IInv, WellPlaced, ProperBound
<1>13. PastHandled'
  <2>1. SUFFICES ASSUME NEW b \in Buckets, NEW t \in heap'[b], NEW f \in t.frags,
                        NEW a \in Touched(f), Before(a, b)
                 PROVE  Handled(f, a)
    BY <1>3 DEF PastHandled, Touched, Handled
  <2>2. t \in heap[b]
    BY <1>7, <1>9, <2>1
  <2>. QED  BY <2>1, <2>2 DEF IInv, PastHandled
<1>14. Covered'
  <2>1. SUFFICES ASSUME NEW f \in Frag, f \notin unposted', f \notin abandoned',
                        NEW a \in Touched(f)
                 PROVE  Handled(f, a)' \/ ToCome(f, a)'
    BY DEF Covered, Touched
  <2>2. CASE f \in s.frags
    <3>1. ~TooManySplits(s)
      BY <1>2, <1>6, <2>1, <2>2, GivenUpFacts
    <3>2. PICK b \in Buckets : FirstOpen(s, b) /\ ~Culled(s) /\ ~Before(a, b)
      <4>1. a \in Buckets /\ ~Before(a, FirstCell(Region))
        BY <2>1, TouchedFacts, FirstBucket
      <4>2. CASE s.eye
        BY <1>2, <1>4, <1>5, <2>1, <2>2, <3>1, <4>1, PostFinds
      <4>3. CASE ~s.eye
        BY <1>2, <1>4, <1>5, <2>1, <2>2, <3>1, <4>1, <4>3, PostFinds
      <4>. QED  BY <4>2, <4>3
    <3>3. s \in heap'[b]
      BY <1>7, <3>2
    <3>. QED  BY <2>2, <3>2, <3>3 DEF ToCome
  <2>3. CASE f \notin s.frags
    <3>1. Handled(f, a) \/ ToCome(f, a)
      BY <1>2, <2>1, <2>3 DEF IInv, Covered
    <3>2. Handled(f, a) => Handled(f, a)'
      BY <1>3 DEF Handled
    <3>3. ToCome(f, a) => ToCome(f, a)'
      BY <1>3, <1>7 DEF ToCome
    <3>. QED  BY <3>1, <3>2, <3>3
  <2>. QED  BY <2>2, <2>3
<1>. QED  BY <1>10, <1>11, <1>12, <1>13, <1>14 DEF IInv

(* Steps that leave the queues alone and finish no bucket. *)
LEMMA ControlIInv ==
  ASSUME IInv,
         RenderImage \/ Assign \/ LoopExit \/ EndProcess \/ SkipPostProcess \/ Quit \/ UNCHANGED vars
  PROVE  IInv'
<1>1. UNCHANGED <<processed, heap, mps, unposted, rendered, hidden, abandoned>>
  BY DEF RenderImage, Assign, LoopExit, EndProcess, SkipPostProcess, Quit, vars
<1>2. WellPlaced' /\ NothingLeftBehind' /\ PastHandled' /\ Covered'
  BY <1>1 DEF IInv, WellPlaced, ProperBound, NothingLeftBehind, PastHandled, Covered,
              Handled, ToCome, Touched
<1>3. Emptied'
  BY <1>1 DEF RenderImage, Assign, LoopExit, EndProcess, SkipPostProcess, Quit, vars, IInv, Emptied
<1>4. TypeOK' /\ InOrder'
  <2>1. CASE Assign
    <3>1. bucket = NoBucket /\ cell \in Buckets /\ cell # NoBucket
      BY <2>1, FirstBucket DEF Assign, IInv, InOrder
    <3>2. bucket' = cell /\ cell' = NextCell(Region, cell) /\ pending' = HasNext(Region, cell)
          /\ pc' = "process" /\ quit' = quit /\ processed' = processed
      BY <2>1 DEF Assign
    <3>3. cell' \in Cells /\ pending' \in BOOLEAN
      BY <3>1, <3>2, NextBucket DEF HasNext
    <3>4. Here' = cell /\ Here = cell
      BY <3>1, <3>2 DEF Here
    <3>5. InOrder'
      BY <3>1, <3>2, <3>4 DEF IInv, InOrder
    <3>. QED  BY <1>1, <3>1, <3>2, <3>3, <3>5 DEF IInv, TypeOK
  <2>2. CASE RenderImage
    BY <2>2 DEF RenderImage, IInv, TypeOK, InOrder, Here
  <2>3. CASE LoopExit
    BY <2>3 DEF LoopExit, IInv, TypeOK, InOrder, Here
  <2>4. CASE EndProcess
    BY <2>4 DEF EndProcess, IInv, TypeOK, InOrder, Here
  <2>5. CASE SkipPostProcess
    BY <2>5 DEF SkipPostProcess, IInv, TypeOK, InOrder, Here
  <2>6. CASE Quit
    BY <2>6 DEF Quit, IInv, TypeOK, InOrder, Here
  <2>7. CASE UNCHANGED vars
    BY <2>7 DEF vars, IInv, TypeOK, InOrder, Here
  <2>. QED  BY <2>1, <2>2, <2>3, <2>4, <2>5, <2>6, <2>7
<1>. QED  BY <1>2, <1>3, <1>4 DEF IInv

(* The micropolygons that earlier buckets left here are sampled. *)
LEMMA BeginIInv == IInv /\ BeginProcess => IInv'
<1>. SUFFICES ASSUME IInv, BeginProcess PROVE IInv'
  OBVIOUS
<1>1. /\ RenderWaitingMPs(mps) /\ pc' = "surfaces" /\ pc = "process"
      /\ UNCHANGED <<cell, pending, bucket, quit, processed, heap, unposted, hidden, abandoned>>
  BY DEF BeginProcess
<1>2. bucket \in Buckets /\ mps \in [Buckets -> SUBSET Frag]
  BY <1>1, AtBucket DEF IInv, TypeOK
<1>3. /\ mps' \in [Buckets -> SUBSET Frag] /\ rendered' \subseteq Frag \X Buckets
      /\ mps'[bucket] = {}
      /\ \A b \in Buckets : b # bucket => mps'[b] = mps[b]
      /\ \A f, a : Handled(f, a) => Handled(f, a)'
      /\ \A a \in Buckets : \A f \in mps[a] : f \in mps'[a] \/ Handled(f, a)'
  BY <1>1, <1>2, Sampling DEF IInv
<1>4. TypeOK' /\ InOrder' /\ Emptied'
  BY <1>1, <1>3 DEF IInv, TypeOK, InOrder, Here, Emptied
<1>5. WellPlaced'
  BY <1>1 DEF IInv, WellPlaced, ProperBound
<1>6. NothingLeftBehind'
  BY <1>1, <1>3 DEF IInv, TypeOK, NothingLeftBehind
<1>7. PastHandled'
  <2>1. SUFFICES ASSUME NEW b \in Buckets, NEW s \in heap[b], NEW f \in s.frags,
                        NEW a \in Touched(f), Before(a, b)
                 PROVE  Handled(f, a)'
    BY <1>1 DEF PastHandled, Touched
  <2>. QED  BY <1>3, <2>1 DEF IInv, PastHandled
<1>8. Covered'
  <2>1. SUFFICES ASSUME NEW f \in Frag \ (unposted \cup abandoned), NEW a \in Touched(f)
                 PROVE  Handled(f, a)' \/ ToCome(f, a)'
    BY <1>1 DEF Covered, Touched
  <2>2. a \in Buckets /\ (Handled(f, a) \/ ToCome(f, a))
    BY <2>1, TouchedFacts DEF IInv, Covered
  <2>3. CASE Handled(f, a)
    BY <1>3, <2>3
  <2>4. CASE f \in mps[a]
    BY <1>3, <2>2, <2>4 DEF ToCome
  <2>5. CASE \E b \in Buckets : \E s \in heap[b] : f \in s.frags /\ ~Before(a, b)
    BY <1>1, <2>5 DEF ToCome
  <2>. QED  BY <2>2, <2>3, <2>4, <2>5 DEF ToCome
<1>. QED  BY <1>4, <1>5, <1>6, <1>7, <1>8 DEF IInv

(* Finishing a bucket: its queues are empty, so nothing is thrown away. *)
LEMMA PostIInv == IInv /\ PostProcess => IInv'
<1>. SUFFICES ASSUME IInv, PostProcess PROVE IInv'
  OBVIOUS
<1>1. /\ pc = "post" /\ pc' = "loop" /\ processed' = processed \cup {bucket} /\ bucket' = NoBucket
      /\ heap' = [heap EXCEPT ![bucket] = {}] /\ mps' = [mps EXCEPT ![bucket] = {}]
      /\ UNCHANGED <<cell, pending, quit, unposted, rendered, hidden, abandoned>>
  BY DEF PostProcess
<1>2. /\ bucket \in Buckets /\ bucket # NoBucket
      /\ processed = {a \in Buckets : Before(a, bucket)}
  BY <1>1, AtBucket
<1>3. heap' = heap /\ mps' = mps /\ heap[bucket] = {} /\ mps[bucket] = {}
  BY <1>1, <1>2 DEF IInv, TypeOK, Emptied
<1>4. TypeOK'
  BY <1>1, <1>2, <1>3 DEF IInv, TypeOK
<1>5. InOrder'
  <2>1. cell = NextCell(Region, bucket) /\ pending = HasNext(Region, bucket)
    BY <1>2 DEF IInv, InOrder
  <2>2. processed' = {a \in Buckets : Before(a, cell)}
    BY <1>1, <1>2, <2>1, NextBucket
  <2>3. IF pending THEN cell \in Buckets ELSE processed' = Buckets
    BY <1>1, <1>2, <2>1, NextBucket
  <2>4. Here' = cell
    BY <1>1 DEF Here
  <2>. QED  BY <1>1, <2>2, <2>3, <2>4 DEF InOrder
<1>6. Emptied' /\ NothingLeftBehind'
  BY <1>1, <1>3 DEF IInv, Emptied, NothingLeftBehind
<1>7. WellPlaced' /\ PastHandled' /\ Covered'
  BY <1>1, <1>3 DEF IInv, WellPlaced, ProperBound, PastHandled, Covered, Handled, ToCome, Touched
<1>. QED  BY <1>4, <1>5, <1>6, <1>7 DEF IInv

(* IInv is an invariant of the flow of surfaces. *)
LEMMA Invariance == Spec => []IInv
<1>1. IInv /\ RenderSurface => IInv'
  BY HiddenIInv, DicedIInv, SplitIInv, DiscardedIInv DEF RenderSurface
<1>2. IInv /\ [Next]_vars => IInv'
  BY <1>1, StoreIInv, ControlIInv, BeginIInv, PostIInv DEF Next, Render
<1>. QED  BY InitIInv, <1>2, PTL DEF Spec

(* The queues, the cursor and the bookkeeping keep their types. *)
THEOREM TypeCorrect == Spec => []TypeOK
BY Invariance, PTL DEF IInv

(* No surface and no micropolygon is ever left in the queues of a bucket    *)
(* that is finished, although RepostSurface does not look whether the       *)
(* bucket it chooses is.                                                    *)
THEOREM QueuesStayEmpty == Spec => []NothingLeftBehind
BY Invariance, PTL DEF IInv

(* No visible micropolygon is missed: for every crop region, every scene    *)
(* and every way the surfaces split, each finished bucket has sampled every *)
(* micropolygon that touches it, unless it was hidden there or given up.    *)
THEOREM NoneMissed == Spec => []NothingMissed
<1>1. ASSUME IInv, NEW f \in Frag \ (unposted \cup abandoned), NEW b \in processed \cap Touched(f)
      PROVE  Handled(f, b)
  <2>1. b \in Buckets /\ heap[b] = {} /\ mps[b] = {}
    BY <1>1 DEF IInv, TypeOK, NothingLeftBehind
  <2>2. Handled(f, b) \/ ToCome(f, b)
    BY <1>1 DEF IInv, Covered
  <2>3. ASSUME NEW c \in Buckets, heap[c] # {}, ~Before(b, c)
        PROVE  FALSE
    <3>1. b # c /\ c \notin processed
      BY <1>1, <2>1, <2>3 DEF IInv, NothingLeftBehind
    <3>2. Before(c, b)
      BY <2>1, <2>3, <3>1, TotalOrder
    <3>3. processed = {a \in Buckets : Before(a, Here)}
      BY <1>1 DEF IInv, InOrder
    <3>4. Before(c, Here)
      BY <1>1, <2>1, <2>3, <3>2, <3>3, BucketFacts DEF Before, IInv, TypeOK, Here, Cells, NoBucket
    <3>. QED  BY <2>3, <3>1, <3>3, <3>4
  <2>. QED  BY <2>1, <2>2, <2>3 DEF ToCome
<1>2. IInv => NothingMissed
  BY <1>1 DEF NothingMissed, Handled
<1>. QED  BY Invariance, <1>2, PTL

-----------------------------------------------------------------------------
(* Who holds a micropolygon.  One the world has not given yet is nowhere; a *)
(* surface that was hidden in a bucket is behind it now.                    *)

Fresh ==
  \A f \in unposted : \A b \in Buckets :
    /\ f \notin mps[b] /\ <<f, b>> \notin rendered \cup hidden
    /\ \A s \in heap[b] : f \notin s.frags

HiddenBehind ==
  \A f \in Frag : \A a \in Buckets : <<f, a>> \in hidden =>
    /\ f \notin mps[a] /\ <<f, a>> \notin rendered
    /\ \A b \in Buckets : \A s \in heap[b] : f \in s.frags => Before(a, b)

OwnInv == IInv /\ OneOwner /\ Fresh /\ HiddenBehind

(* A step of RenderSurface keeps the owners apart if the surfaces it makes  *)
(* of s share out the micropolygons of s, none goes to a finished bucket,   *)
(* only a surface that is gone leaves micropolygons in the queues, and one  *)
(* that is hidden goes on to a later bucket.  N has the new surfaces with   *)
(* their buckets.                                                           *)
LEMMA OwnerStep ==
  ASSUME OwnInv, IInv', pc = "surfaces", NEW s \in heap[bucket],
         NEW m \in [Buckets -> SUBSET Frag], RenderWaitingMPs(m), NEW N,
         UNCHANGED <<bucket, unposted>>,
         \A b \in Buckets : \A t \in heap'[b] :
           (t \in heap[b] /\ ~(b = bucket /\ t = s)) \/ <<t, b>> \in N,
         \A b \in Buckets : \A t : <<t, b>> \in N =>
           t.frags \subseteq s.frags /\ ~Before(b, bucket),
         \A a, b \in Buckets : \A t, u : \A f \in t.frags :
           <<t, a>> \in N /\ <<u, b>> \in N /\ f \in u.frags => a = b /\ t = u,
         \A b \in Buckets : \A f \in m[b] :
           f \in mps[b] \/ (f \in s.frags /\ ~Before(b, bucket) /\ N = {}),
         \A f : \A a : <<f, a>> \in hidden' =>
           \/ <<f, a>> \in hidden
           \/ /\ f \in s.frags /\ a = bucket /\ m = mps
              /\ \A b \in Buckets : \A t : <<t, b>> \in N => Before(bucket, b)
  PROVE  OwnInv'
<1>1. bucket \in Buckets
  BY AtBucket DEF OwnInv
<1>2. s.frags \subseteq Frag
  BY <1>1, QueuedSurface DEF OwnInv
<1>3. /\ \A b \in Buckets : mps'[b] \subseteq m[b]
      /\ \A f, b : <<f, b>> \in rendered' => <<f, b>> \in rendered \/ (b = bucket /\ f \in m[b])
  BY <1>1 DEF RenderWaitingMPs
<1>4. ASSUME NEW f \in s.frags, NEW b \in Buckets
      PROVE  /\ f \notin mps[b] /\ <<f, b>> \notin rendered
             /\ \A t \in heap[b] : f \in t.frags => b = bucket /\ t = s
  BY <1>1 DEF OwnInv, OneOwner
<1>5. OneOwner'
  <2>1. SUFFICES ASSUME NEW a \in Buckets, NEW b \in Buckets, NEW t \in heap'[a], NEW f \in t.frags
                 PROVE  /\ f \notin mps'[b] /\ <<f, b>> \notin rendered'
                        /\ \A u \in heap'[b] : f \in u.frags => a = b /\ t = u
    BY DEF OneOwner
  <2>2. CASE t \in heap[a] /\ ~(a = bucket /\ t = s)
    <3>1. f \notin s.frags
      BY <1>4, <2>2
    <3>2. /\ f \notin mps[b] /\ <<f, b>> \notin rendered
          /\ \A u \in heap[b] : f \in u.frags => a = b /\ t = u
      BY <2>2 DEF OwnInv, OneOwner
    <3>3. f \notin m[b]
      BY <3>1, <3>2
    <3>4. \A u \in heap'[b] : f \in u.frags => u \in heap[b]
      BY <3>1
    <3>. QED  BY <1>3, <3>2, <3>3, <3>4
  <2>3. CASE <<t, a>> \in N
    <3>1. f \in s.frags /\ N # {}
      BY <2>3
    <3>2. f \notin mps[b] /\ <<f, b>> \notin rendered
      BY <1>4, <3>1
    <3>3. f \notin m[b]
      BY <3>1, <3>2
    <3>4. \A u \in heap'[b] : f \in u.frags => <<u, b>> \in N
      BY <1>4, <3>1
    <3>. QED  BY <1>3, <2>3, <3>2, <3>3, <3>4
  <2>. QED  BY <2>2, <2>3
<1>6. Fresh'
  <2>1. SUFFICES ASSUME NEW f \in unposted, NEW b \in Buckets
                 PROVE  /\ f \notin mps'[b] /\ <<f, b>> \notin rendered' /\ <<f, b>> \notin hidden'
                        /\ \A t \in heap'[b] : f \notin t.frags
    BY DEF Fresh
  <2>2. /\ f \notin mps[b] /\ <<f, b>> \notin rendered /\ <<f, b>> \notin hidden
        /\ \A t \in heap[b] : f \notin t.frags
    BY DEF OwnInv, Fresh
  <2>3. f \notin s.frags
    BY <1>1 DEF OwnInv, Fresh
  <2>. QED  BY <1>3, <2>2, <2>3
<1>7. HiddenBehind'
  <2>1. SUFFICES ASSUME NEW f \in Frag, NEW a \in Buckets, <<f, a>> \in hidden'
                 PROVE  /\ f \notin mps'[a] /\ <<f, a>> \notin rendered'
                        /\ \A b \in Buckets : \A t \in heap'[b] : f \in t.frags => Before(a, b)
    BY DEF HiddenBehind
  <2>2. CASE <<f, a>> \in hidden
    <3>1. /\ f \notin mps[a] /\ <<f, a>> \notin rendered
          /\ \A b \in Buckets : \A t \in heap[b] : f \in t.frags => Before(a, b)
      BY <2>2 DEF OwnInv, HiddenBehind
    <3>2. f \in s.frags => Before(a, bucket)
      BY <1>1, <3>1
    <3>3. f \notin m[a]
      BY <3>1, <3>2
    <3>4. ASSUME NEW b \in Buckets, NEW t \in heap'[b], f \in t.frags
          PROVE  Before(a, b)
      <4>1. CASE t \in heap[b]
        BY <3>1, <3>4, <4>1
      <4>2. CASE <<t, b>> \in N
        <5>1. Before(a, bucket) /\ ~Before(b, bucket)
          BY <3>2, <3>4, <4>2
        <5>. QED  BY <1>1, <5>1, TotalOrder
      <4>. QED  BY <4>1, <4>2
    <3>. QED  BY <1>3, <3>1, <3>3, <3>4
  <2>3. CASE /\ f \in s.frags /\ a = bucket /\ m = mps
             /\ \A b \in Buckets : \A t : <<t, b>> \in N => Before(bucket, b)
    <3>1. f \notin mps[a] /\ <<f, a>> \notin rendered
      BY <1>4, <2>3
    <3>2. \A b \in Buckets : \A t \in heap'[b] : f \in t.frags => <<t, b>> \in N
      BY <1>4, <2>3
    <3>. QED  BY <1>3, <2>3, <3>1, <3>2
  <2>. QED  BY <2>1, <2>2, <2>3
<1>. QED  BY <1>5, <1>6, <1>7 DEF OwnInv

(* A hidden surface goes to one later bucket. *)
LEMMA HiddenOwn ==
  ASSUME OwnInv, pc = "surfaces", NEW s \in heap[bucket], RenderSurfaceHidden(s)
  PROVE  OwnInv'
<1>1. /\ bucket \in Buckets
      /\ processed = {a \in Buckets : Before(a, bucket)}
  BY AtBucket DEF OwnInv
<1>2. s \in Surfaces /\ s.frags \subseteq Frag /\ ProperBound(s) /\ ~s.eye
  BY <1>1, QueuedSurface DEF RenderSurfaceHidden, OwnInv
<1>. DEFINE h == Popped(s)
<1>3. /\ h \in [Buckets -> SUBSET Surfaces] /\ h[bucket] = heap[bucket] \ {s}
      /\ \A b \in Buckets : b # bucket => h[b] = heap[b]
  BY <1>1 DEF Popped, OwnInv, IInv, TypeOK
<1>4. /\ heap' = Reposted(h, s, bucket) /\ RenderWaitingMPs(mps)
      /\ hidden' = hidden \cup {<<f, bucket>> : f \in s.frags}
      /\ UNCHANGED <<bucket, unposted>>
      /\ mps \in [Buckets -> SUBSET Frag]
  BY DEF RenderSurfaceHidden, OwnInv, IInv, TypeOK
<1>5. IInv'
  BY HiddenIInv DEF OwnInv
<1>. HIDE DEF h
<1>6. \A f : \A a : <<f, a>> \in hidden' => <<f, a>> \in hidden \/ (f \in s.frags /\ a = bucket)
  BY <1>4
<1>7. CASE \E c \in Buckets :
             Reposted(h, s, bucket) = [h EXCEPT ![c] = @ \cup {s}] /\ Before(bucket, c)
  <2>1. PICK c \in Buckets : heap' = [h EXCEPT ![c] = @ \cup {s}] /\ Before(bucket, c)
    BY <1>4, <1>7
  <2>. DEFINE N == {<<s, c>>}
  <2>2. \A b \in Buckets : \A t \in heap'[b] :
          (t \in heap[b] /\ ~(b = bucket /\ t = s)) \/ <<t, b>> \in N
    BY <1>3, <2>1
  <2>3. \A b : \A t : <<t, b>> \in N <=> t = s /\ b = c
    OBVIOUS
  <2>4. ~Before(c, bucket)
    BY <1>1, <2>1, TotalOrder
  <2>. HIDE DEF N
  <2>. QED  BY <1>4, <1>5, <1>6, <2>1, <2>2, <2>3, <2>4, OwnerStep
<1>8. CASE Reposted(h, s, bucket) = h
  <2>1. \A b \in Buckets : \A t \in heap'[b] : t \in heap[b] /\ ~(b = bucket /\ t = s)
    BY <1>3, <1>4, <1>8
  <2>. DEFINE N == {}
  <2>2. \A b : \A t : <<t, b>> \notin N
    OBVIOUS
  <2>. HIDE DEF N
  <2>. QED  BY <1>4, <1>5, <1>6, <2>1, <2>2, OwnerStep
<1>. QED  BY <1>1, <1>2, <1>3, <1>7, <1>8, RepostPasses

(* A diced surface is gone, and its micropolygons wait in unfinished buckets. *)
LEMMA DicedOwn ==
  ASSUME OwnInv, pc = "surfaces", NEW s \in heap[bucket], RenderSurfaceDiced(s)
  PROVE  OwnInv'
<1>1. /\ bucket \in Buckets
      /\ processed = {a \in Buckets : Before(a, bucket)}
  BY AtBucket DEF OwnInv
<1>2. s.frags \subseteq Frag
  BY <1>1, QueuedSurface DEF OwnInv
<1>. DEFINE m == Queued(s.frags)
<1>3. /\ RenderWaitingMPs(m) /\ heap' = Popped(s)
      /\ UNCHANGED <<bucket, unposted, hidden>>
  BY DEF RenderSurfaceDiced
<1>4. IInv'
  BY DicedIInv DEF OwnInv
<1>5. /\ m \in [Buckets -> SUBSET Frag]
      /\ \A b \in Buckets : \A f \in m[b] :
           f \in mps[b] \/ (f \in s.frags /\ ~Before(b, bucket))
  BY <1>1, <1>2 DEF Queued, OwnInv, IInv, TypeOK
<1>6. \A b \in Buckets : \A t \in heap'[b] : t \in heap[b] /\ ~(b = bucket /\ t = s)
  BY <1>1, <1>3 DEF Popped, OwnInv, IInv, TypeOK
<1>. HIDE DEF m
<1>. QED  BY <1>3, <1>4, <1>5, <1>6, OwnerStep

(* A discarded surface is gone. *)
LEMMA DiscardedOwn ==
  ASSUME OwnInv, pc = "surfaces", NEW s \in heap[bucket], RenderSurfaceDiscarded(s)
  PROVE  OwnInv'
<1>1. bucket \in Buckets
  BY AtBucket DEF OwnInv
<1>2. /\ RenderWaitingMPs(mps) /\ heap' = Popped(s)
      /\ UNCHANGED <<bucket, unposted, hidden>>
      /\ mps \in [Buckets -> SUBSET Frag]
  BY DEF RenderSurfaceDiscarded, OwnInv, IInv, TypeOK
<1>3. IInv'
  BY DiscardedIInv DEF OwnInv
<1>4. \A b \in Buckets : \A t \in heap'[b] : t \in heap[b] /\ ~(b = bucket /\ t = s)
  BY <1>1, <1>2 DEF Popped, OwnInv, IInv, TypeOK
<1>. DEFINE N == {}
<1>5. \A b : \A t : <<t, b>> \notin N
  OBVIOUS
<1>. HIDE DEF N
<1>. QED  BY <1>2, <1>3, <1>4, <1>5, OwnerStep

(* The pieces of a surface share out its micropolygons, and each goes to    *)
(* one bucket.                                                              *)
LEMMA SplitOwn ==
  ASSUME OwnInv, pc = "surfaces", NEW s \in heap[bucket], RenderSurfaceSplit(s)
  PROVE  OwnInv'
<1>1. /\ bucket \in Buckets
      /\ processed = {a \in Buckets : Before(a, bucket)}
  BY AtBucket DEF OwnInv
<1>2. PICK c \in Pieces(s), d \in Pieces(s) :
        IsSplit(c, d, s) /\ heap' = Posted(Popped(s), {c, d})
  BY DEF RenderSurfaceSplit
<1>3. /\ RenderWaitingMPs(mps)
      /\ UNCHANGED <<bucket, unposted, hidden>>
      /\ mps \in [Buckets -> SUBSET Frag]
  BY DEF RenderSurfaceSplit, OwnInv, IInv, TypeOK
<1>4. IInv'
  BY SplitIInv DEF OwnInv
<1>. DEFINE h == Popped(s)
            N == {n \in {c, d} \X Buckets : FirstOpen(n[1], n[2])}
<1>5. /\ h[bucket] = heap[bucket] \ {s}
      /\ \A b \in Buckets : b # bucket => h[b] = heap[b]
  BY <1>1 DEF Popped, OwnInv, IInv, TypeOK
<1>6. \A b \in Buckets : heap'[b] = h[b] \cup {t \in {c, d} : ~Culled(t) /\ FirstOpen(t, b)}
  BY <1>2 DEF Posted
<1>7. \A b \in Buckets : \A t \in heap'[b] :
        (t \in heap[b] /\ ~(b = bucket /\ t = s)) \/ <<t, b>> \in N
  BY <1>5, <1>6
<1>8. \A b \in Buckets : \A t : <<t, b>> \in N <=> (t = c \/ t = d) /\ FirstOpen(t, b)
  OBVIOUS
<1>. HIDE DEF h, N
<1>9. c.frags \cup d.frags = s.frags /\ (c = d \/ c.frags \cap d.frags = {})
  BY <1>2 DEF IsSplit
<1>10. ASSUME NEW a \in Buckets, NEW b \in Buckets, NEW t, FirstOpen(t, a), FirstOpen(t, b)
       PROVE  a = b
  BY <1>10, TotalOrder DEF FirstOpen, Open
<1>11. \A a, b \in Buckets : \A t, u : \A f \in t.frags :
         <<t, a>> \in N /\ <<u, b>> \in N /\ f \in u.frags => a = b /\ t = u
  BY <1>8, <1>9, <1>10
<1>12. \A b \in Buckets : \A t : <<t, b>> \in N => t.frags \subseteq s.frags /\ ~Before(b, bucket)
  BY <1>1, <1>8, <1>9 DEF FirstOpen, Open
<1>. QED  BY <1>3, <1>4, <1>7, <1>11, <1>12, OwnerStep

(* A primitive of the world brings micropolygons that were nowhere yet. *)
LEMMA StoreOwn == OwnInv /\ StorePrimitive => OwnInv'
<1>. SUFFICES ASSUME OwnInv, StorePrimitive PROVE OwnInv'
  OBVIOUS
<1>1. PICK s : /\ s.frags \subseteq unposted
               /\ heap' = Posted(heap, {s}) /\ unposted' = unposted \ s.frags
  <2>1. PICK F \in SUBSET unposted, q \in Bounds \cup {EyeRect}, e \in BOOLEAN, c \in BOOLEAN :
          LET s == [frags |-> F, rect |-> q, eye |-> e, splits |-> 0, cullable |-> c]
          IN  heap' = Posted(heap, {s}) /\ unposted' = unposted \ F
    BY DEF StorePrimitive
  <2>. WITNESS [frags |-> F, rect |-> q, eye |-> e, splits |-> 0, cullable |-> c]
  <2>. QED  BY <2>1
<1>2. UNCHANGED <<mps, rendered, hidden>> /\ IInv'
  BY StoreIInv DEF StorePrimitive, OwnInv
<1>3. \A b \in Buckets : \A t \in heap'[b] : t \in heap[b] \/ (t = s /\ FirstOpen(s, b))
  BY <1>1 DEF Posted
<1>4. \A a, b \in Buckets : FirstOpen(s, a) /\ FirstOpen(s, b) => a = b
  BY TotalOrder DEF FirstOpen, Open
<1>5. \A f \in s.frags : \A b \in Buckets :
        /\ f \notin mps[b] /\ <<f, b>> \notin rendered \cup hidden
        /\ \A t \in heap[b] : f \notin t.frags
  BY <1>1 DEF OwnInv, Fresh
<1>6. OneOwner'
  <2>1. SUFFICES ASSUME NEW a \in Buckets, NEW b \in Buckets, NEW t \in heap'[a], NEW f \in t.frags
                 PROVE  /\ f \notin mps[b] /\ <<f, b>> \notin rendered
                        /\ \A u \in heap'[b] : f \in u.frags => a = b /\ t = u
    BY <1>2 DEF OneOwner
  <2>2. CASE t \in heap[a]
    <3>1. /\ f \notin mps[b] /\ <<f, b>> \notin rendered
          /\ \A u \in heap[b] : f \in u.frags => a = b /\ t = u
      BY <2>2 DEF OwnInv, OneOwner
    <3>2. f \notin s.frags
      BY <1>5, <2>2
    <3>. QED  BY <1>3, <3>1, <3>2
  <2>3. CASE t = s /\ FirstOpen(s, a)
    BY <1>3, <1>4, <1>5, <2>3
  <2>. QED  BY <1>3, <2>2, <2>3
<1>7. Fresh'
  BY <1>1, <1>2, <1>3 DEF OwnInv, Fresh
<1>8. HiddenBehind'
  BY <1>2, <1>3, <1>5 DEF OwnInv, HiddenBehind
<1>. QED  BY <1>2, <1>6, <1>7, <1>8 DEF OwnInv

(* The other steps leave the surfaces where they are. *)
LEMMA OtherOwn ==
  ASSUME OwnInv, IInv',
         \/ RenderImage \/ Assign \/ LoopExit \/ EndProcess \/ SkipPostProcess \/ Quit
         \/ UNCHANGED vars \/ BeginProcess \/ PostProcess
  PROVE  OwnInv'
<1>1. CASE BeginProcess
  <2>1. /\ RenderWaitingMPs(mps) /\ UNCHANGED <<heap, unposted, hidden>>
        /\ bucket \in Buckets /\ mps \in [Buckets -> SUBSET Frag]
    BY <1>1, AtBucket DEF BeginProcess, OwnInv, IInv, TypeOK
  <2>2. /\ \A b \in Buckets : mps'[b] \subseteq mps[b]
        /\ \A f, b : <<f, b>> \in rendered' => <<f, b>> \in rendered \/ (b = bucket /\ f \in mps[b])
    BY <2>1 DEF RenderWaitingMPs
  <2>3. OneOwner'
    <3>1. SUFFICES ASSUME NEW a \in Buckets, NEW b \in Buckets, NEW s \in heap'[a], NEW f \in s.frags
                   PROVE  /\ f \notin mps'[b] /\ <<f, b>> \notin rendered'
                          /\ \A t \in heap'[b] : f \in t.frags => a = b /\ s = t
      BY DEF OneOwner
    <3>2. heap' = heap
      BY <2>1
    <3>3. /\ f \notin mps[b] /\ <<f, b>> \notin rendered
          /\ \A t \in heap[b] : f \in t.frags => a = b /\ s = t
      BY <3>2 DEF OwnInv, OneOwner
    <3>. QED  BY <2>2, <3>2, <3>3
  <2>4. Fresh'
    BY <2>1, <2>2 DEF OwnInv, Fresh
  <2>5. HiddenBehind'
    BY <2>1, <2>2 DEF OwnInv, HiddenBehind
  <2>. QED  BY <2>3, <2>4, <2>5 DEF OwnInv
<1>2. CASE PostProcess
  <2>1. /\ UNCHANGED <<unposted, rendered, hidden>> /\ bucket \in Buckets
        /\ \A b \in Buckets : heap'[b] \subseteq heap[b] /\ mps'[b] \subseteq mps[b]
    BY <1>2, AtBucket DEF PostProcess, OwnInv, IInv, TypeOK
  <2>. QED  BY <2>1 DEF OwnInv, OneOwner, Fresh, HiddenBehind
<1>3. CASE UNCHANGED <<heap, mps, unposted, rendered, hidden>>
  BY <1>3 DEF OwnInv, OneOwner, Fresh, HiddenBehind
<1>. QED  BY <1>1, <1>2, <1>3 DEF RenderImage, Assign, LoopExit, EndProcess, SkipPostProcess, Quit, vars

LEMMA OwnInvariance == Spec => []OwnInv
<1>1. Init => OwnInv
  BY InitIInv DEF Init, OwnInv, OneOwner, Fresh, HiddenBehind
<1>2. OwnInv /\ RenderSurface => OwnInv'
  BY HiddenOwn, DicedOwn, SplitOwn, DiscardedOwn DEF RenderSurface
<1>3. OwnInv /\ [Next]_vars => IInv'
  <2>1. IInv /\ RenderSurface => IInv'
    BY HiddenIInv, DicedIInv, SplitIInv, DiscardedIInv DEF RenderSurface
  <2>. QED  BY <2>1, StoreIInv, ControlIInv, BeginIInv, PostIInv DEF Next, Render, OwnInv
<1>4. OwnInv /\ [Next]_vars => OwnInv'
  BY <1>2, <1>3, StoreOwn, OtherOwn DEF Next, Render
<1>. QED  BY <1>1, <1>4, PTL DEF Spec

(* A micropolygon is on one way only: at most one waiting surface holds it, *)
(* and none once it was diced, for every way the surfaces split.            *)
THEOREM EachHasOneOwner == Spec => []OneOwner
BY OwnInvariance, PTL DEF OwnInv

(* What the occlusion tree hid in a bucket is never sampled there. *)
THEOREM HiddenIsNeverSampled == Spec => []HiddenStaysHidden
<1>1. OwnInv => HiddenStaysHidden
  BY DEF OwnInv, IInv, TypeOK, HiddenBehind, HiddenStaysHidden
<1>. QED  BY <1>1, OwnInvariance, PTL

-----------------------------------------------------------------------------
(* The render loop implements BucketDelivery: buckets are delivered in      *)
(* row-major order, none twice, none left out unless a quit was asked for.  *)
THEOREM ImplementsDelivery == Spec => DeliversInOrder
<1>1. Init => Delivery!Init
  BY DEF Init, Delivery!Init
<1>2. /\ Delivery!BucketsIn(Region) = Buckets
      /\ \A a, b : Delivery!Before(a, b) <=> Before(a, b)
  BY DEF Delivery!BucketsIn, BucketsIn, Buckets, Delivery!Before, Before
<1>3. ASSUME IInv, [Next]_vars
      PROVE  [Delivery!Next]_(Delivery!vars)
  <2>1. CASE PostProcess
    <3>1. /\ bucket \in Buckets /\ bucket \notin processed
          /\ processed = {a \in Buckets : Before(a, bucket)}
      BY <1>3, <2>1, AtBucket DEF PostProcess
    <3>2. Delivery!Deliver(bucket)
      BY <1>2, <2>1, <3>1 DEF PostProcess, Delivery!Deliver
    <3>. QED  BY <1>2, <3>1, <3>2 DEF Delivery!Next
  <2>2. CASE Quit
    <3>1. Delivery!Cancel
      BY <2>2 DEF Quit, Delivery!Cancel
    <3>. QED  BY <3>1 DEF Delivery!Next
  <2>3. CASE LoopExit
    <3>1. quit \/ processed = Buckets
      BY <1>3, <2>3 DEF LoopExit, IInv, InOrder
    <3>2. Delivery!Finish
      BY <1>2, <2>3, <3>1 DEF LoopExit, Delivery!Finish
    <3>. QED  BY <3>2 DEF Delivery!Next
  <2>4. CASE StorePrimitive
    BY <2>4 DEF StorePrimitive, Delivery!vars
  <2>5. CASE RenderImage \/ Assign \/ BeginProcess \/ EndProcess \/ SkipPostProcess
    BY <2>5 DEF RenderImage, Assign, BeginProcess, EndProcess, SkipPostProcess, Delivery!vars
  <2>6. CASE RenderSurface
    BY <2>6 DEF RenderSurface, RenderSurfaceHidden, RenderSurfaceDiced, RenderSurfaceSplit,
                RenderSurfaceDiscarded, Delivery!vars
  <2>7. CASE UNCHANGED vars
    BY <2>7 DEF vars, Delivery!vars
  <2>. QED  BY <1>3, <2>1, <2>2, <2>3, <2>4, <2>5, <2>6, <2>7 DEF Next, Render
<1>. QED  BY Invariance, <1>1, <1>3, PTL DEF Spec, DeliversInOrder, Delivery!Spec
=============================================================================
