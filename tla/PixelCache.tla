----------------------------- MODULE PixelCache -----------------------------
(***************************************************************************)
(* The pixels of CqBucketProcessor and the strips of finished pixels that  *)
(* a bucket leaves for its neighbours (SqBucketCacheSegment).  The filter  *)
(* of a bucket needs pixels up to half its width outside the bucket; the   *)
(* bucket that is rendered first samples them, and the others take them    *)
(* over instead of sampling them again.                                    *)
(*                                                                         *)
(* Pixels are objects behind reference counted pointers, so they are named *)
(* here and may be referred to from several places; a name is the sweep    *)
(* that allocated it and its place in the sweep.  What a pixel holds is    *)
(* the frame and raster position it was sampled for and how often it was   *)
(* combined since.                                                         *)
(***************************************************************************)
EXTENDS BucketGrid, Functions, Sequences

CONSTANTS XBucketSize, YBucketSize,   \* limits:bucketsize
          ShiftX, ShiftY,             \* m_DiscreteShiftX, m_DiscreteShiftY
          Sessions                    \* frames rendered one after the other, each
                                      \* a resolution and a crop window

ASSUME SizeAssumption ==
  /\ XBucketSize \in Nat \ {0} /\ YBucketSize \in Nat \ {0}
  /\ ShiftX \in Nat /\ ShiftY \in Nat
  /\ 2 * ShiftX <= XBucketSize /\ 2 * ShiftY <= YBucketSize

\* initialiseCropWindow clamps the crop window to the image.  An empty one is
\* left out: it has no buckets.
Windows == {w \in [xRes : Nat \ {0}, yRes : Nat \ {0}, crop : Regions] :
              NonEmpty(w.crop) /\ w.crop.xMax <= w.xRes /\ w.crop.yMax <= w.yRes}

ASSUME SessionsAssumption == Sessions \subseteq Seq(Windows) \ {<<>>}

VARIABLES
  pc,
  session,    \* the frames to render
  frame,      \* frames begun so far
  cell, pending, bucket, processed,   \* as in SurfaceFlow
  cache,      \* m_cacheSegments of every bucket of the image buffer
  aie,        \* m_aieImage: the pixel at each place of the data region
  pixel,      \* what the pixels hold that anything refers to
  sweep,      \* allocation sweeps so far
  samples,    \* m_SampleRegion
  sampled     \* the raster positions sampled in this frame

vars == <<pc, session, frame, cell, pending, bucket, processed, cache, aie,
          pixel, sweep, samples, sampled>>

NoBucket == [x |-> -1, y |-> -1]

\* The frame's resolution and crop window.
window == session[IF frame = 0 THEN 1 ELSE frame]

Sides == {"top_left", "top", "top_right", "left", "right",
          "bottom_left", "bottom", "bottom_right"}
Corners == {"top_left", "top_right", "bottom_left", "bottom_right"}

\* A CqRegion of pixels and the positions in it.
Box(x0, y0, x1, y1) == [xMin |-> x0, yMin |-> y0, xMax |-> x1, yMax |-> y1]
Positions(r) == BucketsIn(r)
Moved(p, dx, dy) == [x |-> p.x + dx, y |-> p.y + dy]

\* The data region, relative to its own corner.
Width == XBucketSize + 2 * ShiftX
Height == YBucketSize + 2 * ShiftY
Data == Positions(Box(0, 0, Width, Height))

\* setupCacheInformation: m_cacheRegions.
CacheRegion ==
  LET ox == 2 * ShiftX  oy == 2 * ShiftY
  IN  [s \in Sides |->
        CASE s = "top_left"     -> Box(0, 0, ox, oy)
          [] s = "top"          -> Box(ox, 0, Width - ox, oy)
          [] s = "top_right"    -> Box(Width - ox, 0, Width, oy)
          [] s = "left"         -> Box(0, oy, ox, Height - oy)
          [] s = "right"        -> Box(Width - ox, oy, Width, Height - oy)
          [] s = "bottom_left"  -> Box(0, Height - oy, ox, Height)
          [] s = "bottom"       -> Box(ox, Height - oy, Width - ox, Height)
          [] s = "bottom_right" -> Box(Width - ox, Height - oy, Width, Height)]

\* SetImage: the buckets of the image and those the crop window touches.
XBuckets(w) == (w.xRes - 1) \div XBucketSize + 1
YBuckets(w) == (w.yRes - 1) \div YBucketSize + 1
Grid(w) == BucketsIn(Box(0, 0, XBuckets(w), YBuckets(w)))
\* Mutant: a bucket the crop window touches only in part is left out.
Region_Truncated(w) == Box(w.crop.xMin \div XBucketSize, w.crop.yMin \div YBucketSize,
                           w.crop.xMax \div XBucketSize, w.crop.yMax \div YBucketSize)
Region(w) == Box(w.crop.xMin \div XBucketSize, w.crop.yMin \div YBucketSize,
                 (w.crop.xMax - 1) \div XBucketSize + 1,
                 (w.crop.yMax - 1) \div YBucketSize + 1)

\* All buckets the image buffer ever holds.
AllBuckets == UNION {Grid(w) : w \in UNION {Range(s) : s \in Sessions}}

\* The display region: buckets at the right and bottom edge are smaller.
Smaller(a, b) == IF a < b THEN a ELSE b
Larger(a, b) == IF a > b THEN a ELSE b
Display(w, b) ==
  Box(b.x * XBucketSize, b.y * YBucketSize,
      Smaller((b.x + 1) * XBucketSize, w.xRes), Smaller((b.y + 1) * YBucketSize, w.yRes))

\* A raster position as a place in the data region of bucket b.
PlaceOf(b, p) == Moved(p, ShiftX - b.x * XBucketSize, ShiftY - b.y * YBucketSize)

\* axialNeighbours.
Neighbour(b, dir) ==
  CASE dir = "left"  -> Moved(b, -1, 0)
    [] dir = "right" -> Moved(b, 1, 0)
    [] dir = "above" -> Moved(b, 0, -1)
    [] dir = "below" -> Moved(b, 0, 1)

\* The segments of a bucket are a function on the sides that have one.
Has(b, side) == side \in DOMAIN cache[b]
NoSegments == [side \in {} |-> {}]

\* A pixel as clear leaves it, and as setSamples leaves it.
Cleared == [frame |-> 0, at |-> [x |-> 0, y |-> 0], combined |-> 0]
SampledFor(p) == [frame |-> frame, at |-> p, combined |-> 0]

\* The pixels an image a and the segments c refer to.  Pixels nothing refers
\* to go back to the pool or are freed; CqPixelPool::allocate clears the one
\* it returns, so a new pixel is a new name that holds nothing.
Referred(a, c) == Range(a) \cup
  UNION {UNION {Range(c[b][side]) : side \in DOMAIN c[b]} : b \in DOMAIN c}
\* Mutant: nothing ever goes back to the pool.
Holding_Leaking(px, names) ==
  [i \in names \cup DOMAIN px |-> IF i \in DOMAIN px THEN px[i] ELSE Cleared]
Holding(px, names) == [i \in names |-> IF i \in DOMAIN px THEN px[i] ELSE Cleared]

\* The names of the pixels that sweep n allocates for a set of places.
Allocate(n, places) == [p \in places |-> [sweep |-> n, place |-> p]]

-----------------------------------------------------------------------------
\* preProcess: the sample region, clipped by the crop window and shrunk by
\* the strips that other buckets have sampled.
\* Mutant: shrunk by the part of the strip outside the bucket only.
Shrunk_Half(b, side, by) == IF Has(b, side) THEN by ELSE 0
Shrunk(b, side, by) == IF Has(b, side) THEN 2 * by ELSE 0

SampleRegion(w, b) ==
  LET d == Display(w, b)
  IN  Box(Larger(d.xMin, w.crop.xMin) - ShiftX + Shrunk(b, "left", ShiftX),
          Larger(d.yMin, w.crop.yMin) - ShiftY + Shrunk(b, "top", ShiftY),
          Smaller(d.xMax, w.crop.xMax) + ShiftX - Shrunk(b, "right", ShiftX),
          Smaller(d.yMax, w.crop.yMax) + ShiftY - Shrunk(b, "bottom", ShiftY))

\* applyCacheSegment for every segment of b: the image refers to the pixels of
\* the segments afterwards.  The regions of the sides do not overlap, so that
\* the order in which preProcess applies them makes no difference.
CornerOf(side) == [x |-> CacheRegion[side].xMin, y |-> CacheRegion[side].yMin]
WithSegments(image, b) ==
  LET SidesAt(p) == {side \in DOMAIN cache[b] : p \in Positions(CacheRegion[side])}
      Lent(p) == LET side == CHOOSE side \in SidesAt(p) : TRUE
                 IN  cache[b][side][Moved(p, -CornerOf(side).x, -CornerOf(side).y)]
  IN  [p \in Data |-> IF SidesAt(p) # {} THEN Lent(p) ELSE image[p]]

\* postProcess: which strip goes to which neighbour, in order.  A corner goes
\* only to a neighbour that has none there yet, and is taken out of the image
\* once, to be shared by the neighbours.
Gift(nb, from, to) == [nb |-> nb, from |-> from, to |-> to]
Gifts == << Gift("left", "left", "right"),
            Gift("left", "top_left", "top_right"),
            Gift("left", "bottom_left", "bottom_right"),
            Gift("right", "right", "left"),
            Gift("right", "top_right", "top_left"),
            Gift("right", "bottom_right", "bottom_left"),
            Gift("above", "top", "bottom"),
            Gift("above", "top_left", "bottom_left"),
            Gift("above", "top_right", "bottom_right"),
            Gift("below", "bottom", "top"),
            Gift("below", "bottom_left", "top_left"),
            Gift("below", "bottom_right", "top_right") >>

\* A neighbour in the image, not only in the crop region, that is not done.
Receives(b, g) == /\ Neighbour(b, g.nb) \in Grid(window)
                  /\ Neighbour(b, g.nb) \notin processed

\* buildCacheSegment: the pixels leave the image, new ones take their place.
Built(st, side) ==
  LET region == CacheRegion[side]
      local == Positions(Box(0, 0, region.xMax - region.xMin, region.yMax - region.yMin))
      new == Allocate(st.sweep, Positions(region))
  IN  [st EXCEPT !.made = [t \in DOMAIN @ \cup {side} |->
                             IF t = side THEN [p \in local |->
                                 st.aie[Moved(p, region.xMin, region.yMin)]]
                             ELSE @[t]],
                 !.aie = [p \in Data |-> IF p \in DOMAIN new THEN new[p] ELSE @[p]],
                 !.sweep = @ + 1]

\* setCacheSegment.
Set(st, nb, side, seg) ==
  [st EXCEPT !.cache[nb] = [t \in DOMAIN @ \cup {side} |-> IF t = side THEN seg ELSE @[t]]]

\* Mutant: a corner that was taken out for one neighbour already is taken out
\* again for the next.
Give_Again(st, b, g) ==
  LET nb == Neighbour(b, g.nb)
      have == Built(st, g.from)
  IN  IF ~Receives(b, g) \/ (g.from \in Corners /\ g.to \in DOMAIN st.cache[nb])
      THEN st
      ELSE Set(have, nb, g.to, have.made[g.from])

Give(st, b, g) ==
  LET nb == Neighbour(b, g.nb)
      have == IF g.from \in DOMAIN st.made THEN st ELSE Built(st, g.from)
  IN  IF ~Receives(b, g) \/ (g.from \in Corners /\ g.to \in DOMAIN st.cache[nb])
      THEN st
      ELSE Set(have, nb, g.to, have.made[g.from])

\* Mutant: the image keeps the pixels of the segments it was lent.
Dropped_Not(st, b) == st

\* dropSegment for every side that had a segment applied.
Dropped(st, b) ==
  LET gone == UNION {Positions(CacheRegion[side]) : side \in DOMAIN cache[b]}
      new == Allocate(st.sweep, gone)
  IN  [st EXCEPT !.aie = [p \in Data |-> IF p \in gone THEN new[p] ELSE @[p]],
                 !.sweep = @ + 1]

\* clearCache of the finished bucket, and a mutant without it.
ClearCache_Not(c, b) == c
ClearCache(c, b) == [c EXCEPT ![b] = NoSegments]

\* What one neighbour gets: the entry i of Gifts and the two that follow.
GiveThree(st, b, i) == Give(Give(Give(st, b, Gifts[i]), b, Gifts[i + 1]), b, Gifts[i + 2])

HandedOver(b) ==
  LET start == [aie |-> aie, cache |-> cache, sweep |-> sweep, made |-> NoSegments]
      left == GiveThree(start, b, 1)
      right == GiveThree(left, b, 4)
      above == GiveThree(right, b, 7)
      below == GiveThree(above, b, 10)
  IN  Dropped(below, b)

-----------------------------------------------------------------------------
Init == /\ pc = "idle"
        /\ session \in Sessions /\ frame = 0
        /\ cell = FirstCell(Region(window)) /\ pending = FALSE
        /\ bucket = NoBucket /\ processed = {}
        /\ cache = [b \in AllBuckets |-> NoSegments]
        /\ aie = NoSegments /\ pixel = NoSegments /\ sweep = 0
        /\ samples = {} /\ sampled = {}

\* RenderWorld: SetImage, then RenderImage with a new bucket processor.  The
\* grid is resized and marked unprocessed; the segments of its buckets stay.
RenderWorld ==
  /\ pc = "idle" /\ frame < Len(session)
  /\ frame' = frame + 1
  /\ cell' = FirstCell(Region(session[frame'])) /\ pending' = TRUE
  /\ processed' = {}
  /\ cache' = [b \in AllBuckets |->
                 IF b \in Grid(session[frame']) THEN cache[b] ELSE NoSegments]
  /\ aie' = NoSegments
  /\ pixel' = Holding(pixel, Referred(aie', cache'))
  /\ sampled' = {}
  /\ pc' = "loop"
  /\ UNCHANGED <<session, bucket, sweep, samples>>

\* setBucket and preProcess, then NextBucket.
PreProcess ==
  LET image == IF aie = NoSegments THEN Allocate(sweep, Data) ELSE aie
      S == Positions(SampleRegion(window, cell))
      at == [p \in S |-> image[PlaceOf(cell, p)]]
      cleaned == [i \in Range(image) \cup DOMAIN pixel |->
                    IF \E p \in S : at[p] = i
                    THEN SampledFor(CHOOSE p \in S : at[p] = i)
                    ELSE IF i \in DOMAIN pixel THEN pixel[i] ELSE Cleared]
  IN  /\ pc = "loop" /\ pending
      /\ bucket' = cell
      /\ cell' = NextCell(Region(window), cell)
      /\ pending' = HasNext(Region(window), cell)
      /\ samples' = S
      /\ sampled' = sampled \cup S
      /\ sweep' = IF aie = NoSegments THEN sweep + 1 ELSE sweep
      /\ aie' = WithSegments(image, cell)
      /\ pixel' = Holding(cleaned, Referred(aie', cache))
      /\ pc' = "combine"
      /\ UNCHANGED <<session, frame, processed, cache>>

\* postProcess up to FilterBucket: CombineElements over the sample region.
Combine ==
  LET hit == {aie[PlaceOf(bucket, p)] : p \in samples}
  IN  /\ pc = "combine"
      /\ pixel' = [i \in DOMAIN pixel |->
                     IF i \in hit THEN [pixel[i] EXCEPT !.combined = @ + 1] ELSE pixel[i]]
      /\ pc' = "filter"
      /\ UNCHANGED <<session, frame, cell, pending, bucket, processed, cache, aie,
                     sweep, samples, sampled>>

\* The rest of postProcess, DisplayBucket, reset.
HandOver ==
  LET st == HandedOver(bucket)
  IN  /\ pc = "filter"
      /\ aie' = st.aie
      /\ cache' = ClearCache(st.cache, bucket)
      /\ sweep' = st.sweep
      /\ pixel' = Holding(pixel, Referred(aie', cache'))
      /\ processed' = processed \cup {bucket}
      /\ bucket' = NoBucket
      /\ samples' = {}
      /\ pc' = "loop"
      /\ UNCHANGED <<session, frame, cell, pending, sampled>>

EndImage ==
  /\ pc = "loop" /\ ~pending
  /\ pc' = "idle"
  /\ UNCHANGED <<session, frame, cell, pending, bucket, processed, cache, aie,
                 pixel, sweep, samples, sampled>>

Next == RenderWorld \/ PreProcess \/ Combine \/ HandOver \/ EndImage

Spec == Init /\ [][Next]_vars /\ WF_vars(PreProcess \/ Combine \/ HandOver \/ EndImage)

-----------------------------------------------------------------------------
TypeOK ==
  /\ pc \in {"idle", "loop", "combine", "filter"}
  /\ session \in Sessions /\ frame \in 0 .. Len(session)
  /\ bucket \in AllBuckets \cup {NoBucket} /\ processed \subseteq Grid(window)
  /\ aie # NoSegments => DOMAIN aie = Data
  /\ DOMAIN pixel = Referred(aie, cache)
  /\ \A b \in AllBuckets : DOMAIN cache[b] \subseteq Sides

\* The raster positions the filter reads for the part of a bucket that lies
\* in the crop window.
Support(w, b) ==
  LET d == Display(w, b)
  IN  Positions(Box(Larger(d.xMin, w.crop.xMin) - ShiftX, Larger(d.yMin, w.crop.yMin) - ShiftY,
                    Smaller(d.xMax, w.crop.xMax) + ShiftX, Smaller(d.yMax, w.crop.yMax) + ShiftY))

(***************************************************************************)
(* When a bucket is filtered, every pixel the filter reads for a visible   *)
(* output pixel was sampled in this frame for exactly that raster position *)
(* and combined exactly once, whichever bucket did it: its own, or a       *)
(* neighbour whose strips and corners arrived here, possibly through a     *)
(* third bucket.                                                           *)
(***************************************************************************)
FilterInputsReady ==
  pc = "filter" =>
    \A p \in Support(window, bucket) :
      pixel[aie[PlaceOf(bucket, p)]] = [SampledFor(p) EXCEPT !.combined = 1]

(***************************************************************************)
(* Between two buckets the processor's image shares no pixel with itself   *)
(* or with any segment that waits for a neighbour: preProcess clears the   *)
(* pixels of the image before it applies the segments, and would wipe what *)
(* the neighbour is to receive.                                            *)
(***************************************************************************)
ImageIsPrivate ==
  pc = "loop" /\ aie # NoSegments =>
    /\ IsInjective(aie)
    /\ \A b \in AllBuckets : \A side \in DOMAIN cache[b] :
         Range(aie) \cap Range(cache[b][side]) = {}

(***************************************************************************)
(* setCacheSegment, as its comment and assertion say, never finds a        *)
(* segment already in place.                                               *)
(***************************************************************************)
SlotIsFree ==
  pc = "filter" =>
    \A i \in DOMAIN Gifts :
      Gifts[i].from \notin Corners /\ Receives(bucket, Gifts[i]) =>
        ~Has(Neighbour(bucket, Gifts[i].nb), Gifts[i].to)

(***************************************************************************)
(* No raster position is sampled by two buckets of a frame: the strips     *)
(* would not match at the seam if it were.                                 *)
(***************************************************************************)
SampledByOneBucket == [][pc = "loop" => samples' \cap sampled = {}]_vars

(***************************************************************************)
(* A finished image has sampled every position its filter reaches.         *)
(***************************************************************************)
WholeImageSampled ==
  pc = "idle" /\ frame > 0 =>
    sampled = Positions(Box(window.crop.xMin - ShiftX, window.crop.yMin - ShiftY,
                            window.crop.xMax + ShiftX, window.crop.yMax + ShiftY))
=============================================================================
