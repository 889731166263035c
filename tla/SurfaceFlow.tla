---------------------------- MODULE SurfaceFlow ----------------------------
(***************************************************************************)
(* The way of the surfaces through the buckets of one image:               *)
(* CqImageBuffer (PostSurface, RepostSurface, AddMPG, RenderImage) and the *)
(* part of CqBucketProcessor that empties a bucket's queue (process,       *)
(* RenderSurface, RenderWaitingMPs).                                       *)
(*                                                                         *)
(* A surface stands for the micropolygons that dicing it, or its splits,   *)
(* will make: its "frags".  Each micropolygon touches the buckets of       *)
(* MPRect[f], its bound grown by half the filter; the bound of a surface   *)
(* encloses those of its frags but may be larger.  What geometry decides   *)
(* (how a surface splits, whether it is small enough to dice, whether the  *)
(* occlusion tree hides it) is a nondeterministic choice.  There is one    *)
(* bucket processor: MULTIPROCESSING_NBUCKETS is 1.                        *)
(***************************************************************************)
EXTENDS BucketGrid

CONSTANTS Region,        \* m_bucketRegion
          Frag,          \* the micropolygons of the scene
          MPRect,        \* the buckets each of them touches
          Bounds,        \* the bounds a surface may have, in bucket units
          Degenerate,    \* frags of surfaces with no extent (fDiscard)
          MaxEyeSplits   \* limits:eyesplits

ASSUME RegionAssumption == Region \in Regions /\ NonEmpty(Region)
ASSUME FragAssumption == MPRect \in [Frag -> Rectangles] /\ Degenerate \subseteq Frag
ASSUME BoundsAssumption == Bounds \subseteq Rectangles
ASSUME EyeSplitsAssumption == MaxEyeSplits \in Nat

VARIABLES
  pc,         \* where RenderImage stands
  cell,       \* m_CurrentBucketCol, m_CurrentBucketRow
  pending,    \* pendingBuckets
  bucket,     \* the processor's m_bucket; NoBucket for null
  quit,       \* m_fQuit
  processed,  \* the buckets whose m_bProcessed is set
  heap,       \* m_gPrims of every bucket
  mps,        \* m_micropolygons of every bucket
  unposted,   \* frags of primitives the world has not given yet
  rendered,   \* <<f, b>> : f was sampled in b
  hidden,     \* <<f, b>> : f was in a surface the occlusion tree culled in b
  abandoned   \* frags of surfaces given up (eye splits, discarded)

vars == <<pc, cell, pending, bucket, quit, processed, heap, mps,
          unposted, rendered, hidden, abandoned>>

Buckets == BucketsIn(Region)

NoBucket == [x |-> -1, y |-> -1]

EyeRect == [x0 |-> 0, y0 |-> 0, x1 |-> 0, y1 |-> 0]

\* eye: spans the epsilon plane and is ForceUndiceable; splits: m_SplitCount;
\* cullable: no CSG node, no max/average depth filter, cull:hidden is 1.
Surfaces == [frags : SUBSET Frag, rect : Bounds \cup {EyeRect},
             eye : BOOLEAN, splits : Nat, cullable : BOOLEAN]

\* The surfaces a scene can hold: a bound that encloses the frags, or no
\* usable bound at all when the surface spans the eye plane.
ProperBound(s) == IF s.eye THEN s.rect = EyeRect
                  ELSE \A f \in s.frags : Encloses(s.rect, MPRect[f])

\* CullSurface: outside the crop window (here in buckets), or split too often
\* at the eye plane.  A surface out of the clipping range has no frags.
TooManySplits(s) == s.eye /\ s.splits > MaxEyeSplits
Culled(s) == TooManySplits(s) \/ (~s.eye /\ Misses(Region, s.rect))

\* The buckets PostSurface looks at that can still take a surface.
Open(s) == {b \in Buckets \ processed : InRect(b, ClampRect(Region, s.rect))}

\* Mutant: only the corner of the bound is considered.
FirstOpen_Corner(s, b) == /\ b \in Open(s)
                          /\ b.x = ClampRect(Region, s.rect).x0
                          /\ b.y = ClampRect(Region, s.rect).y0

\* The bucket PostSurface chooses: the corner of the bound, or the first one
\* after it, row by row, that is not processed.
FirstOpen(s, b) == b \in Open(s) /\ \A a \in Open(s) : a = b \/ Before(b, a)

\* The queues after PostSurface of every surface of a set: one that is culled
\* or has no open bucket left goes nowhere.
Posted(h, S) == [b \in Buckets |->
                   h[b] \cup {s \in S : ~Culled(s) /\ FirstOpen(s, b)}]

GivenUp(S) == UNION {s.frags : s \in {t \in S : TooManySplits(t)}}

\* RepostSurface: the bucket to the right, else the one below that holds the
\* left side of the bound.  rect.x1 > b.x says the bound reaches past b.
RightOf(s, b) == b.x + 1 < Region.xMax /\ s.rect.x1 > b.x
BelowCell(s, b) == [x |-> IF s.rect.x0 < Region.xMin THEN Region.xMin ELSE s.rect.x0,
                    y |-> b.y + 1]
ReachesBelow(s, b) == BelowCell(s, b) \in Buckets /\ s.rect.y1 > b.y

\* Mutants: to the right and below; back into the same bucket.
Reposted_Both(h, s, b) ==
  [c \in Buckets |->
     IF \/ RightOf(s, b) /\ c = [x |-> b.x + 1, y |-> b.y]
        \/ ReachesBelow(s, b) /\ c = BelowCell(s, b)
     THEN h[c] \cup {s} ELSE h[c]]
Reposted_Same(h, s, b) ==
  IF RightOf(s, b) THEN [h EXCEPT ![b] = @ \cup {s}] ELSE h

Reposted(h, s, b) ==
  IF RightOf(s, b)
    THEN [h EXCEPT ![[x |-> b.x + 1, y |-> b.y]] = @ \cup {s}]
  ELSE IF ReachesBelow(s, b)
    THEN [h EXCEPT ![BelowCell(s, b)] = @ \cup {s}]
  ELSE h

\* AddMPG: the buckets of the region a micropolygon touches.
Touched(f) == IF Misses(Region, MPRect[f]) THEN {}
              ELSE {b \in Buckets : InRect(b, ClampRect(Region, MPRect[f]))}

\* Mutant: does not ask whether the bucket is processed.
Queued_Anywhere(F) == [b \in Buckets |-> mps[b] \cup {f \in F : b \in Touched(f)}]

Queued(F) == [b \in Buckets |->
                IF b \in processed THEN mps[b]
                ELSE mps[b] \cup {f \in F : b \in Touched(f)}]

-----------------------------------------------------------------------------
Init == /\ pc = "world"
        /\ cell = FirstCell(Region)
        /\ pending = TRUE
        /\ bucket = NoBucket
        /\ quit = FALSE
        /\ processed = {}
        /\ heap = [b \in Buckets |-> {}]
        /\ mps = [b \in Buckets |-> {}]
        /\ unposted = Frag
        /\ rendered = {}
        /\ hidden = {}
        /\ abandoned = {}

\* CqRenderer::StorePrimitive and PostWorld: a primitive of the world is
\* posted before the image is rendered.
StorePrimitive ==
  /\ pc = "world"
  /\ \E F \in SUBSET unposted, q \in Bounds \cup {EyeRect}, e, c \in BOOLEAN :
       LET s == [frags |-> F, rect |-> q, eye |-> e, splits |-> 0, cullable |-> c]
       IN  /\ F # {}
           /\ ProperBound(s)
           /\ heap' = Posted(heap, {s})
           /\ unposted' = unposted \ F
           /\ abandoned' = abandoned \cup GivenUp({s})
  /\ UNCHANGED <<pc, cell, pending, bucket, quit, processed, mps, rendered, hidden>>

\* RenderWorld calls RenderImage.
RenderImage ==
  /\ pc = "world"
  /\ pc' = "loop"
  /\ UNCHANGED <<cell, pending, bucket, quit, processed, heap, mps,
                 unposted, rendered, hidden, abandoned>>

\* The body of RenderImage's loop up to joinAll: setBucket, preProcess,
\* addWorkUnit, NextBucket.
Assign ==
  /\ pc = "loop" /\ pending /\ ~quit
  /\ bucket' = cell
  /\ cell' = NextCell(Region, cell)
  /\ pending' = HasNext(Region, cell)
  /\ pc' = "process"
  /\ UNCHANGED <<quit, processed, heap, mps, unposted, rendered, hidden, abandoned>>

LoopExit ==
  /\ pc = "loop" /\ (quit \/ ~pending)
  /\ pc' = "done"
  /\ UNCHANGED <<cell, pending, bucket, quit, processed, heap, mps,
                 unposted, rendered, hidden, abandoned>>

\* RenderWaitingMPs, on the lists m: samples and clears the bucket's own.
RenderWaitingMPs(m) ==
  /\ rendered' = rendered \cup {<<f, bucket>> : f \in m[bucket]}
  /\ mps' = [m EXCEPT ![bucket] = {}]

\* process: the micropolygons earlier buckets left for this one.
BeginProcess ==
  /\ pc = "process"
  /\ RenderWaitingMPs(mps)
  /\ pc' = "surfaces"
  /\ UNCHANGED <<cell, pending, bucket, quit, processed, heap, unposted, hidden, abandoned>>

\* popSurface: which surface is nearest is geometry.
Popped(s) == [heap EXCEPT ![bucket] = @ \ {s}]

\* RenderSurface, when the occlusion tree hides the surface in this bucket.
RenderSurfaceHidden(s) ==
  /\ ~s.eye /\ s.cullable
  /\ heap' = Reposted(Popped(s), s, bucket)
  /\ hidden' = hidden \cup {<<f, bucket>> : f \in s.frags}
  /\ RenderWaitingMPs(mps)
  /\ UNCHANGED <<pc, cell, pending, bucket, quit, processed, unposted, abandoned>>

\* RenderSurface of a diceable surface: Dice, Shade, and AddMPG for each
\* micropolygon the grid is busted into.  A surface at the eye plane may be
\* diced as well: CqPoints::Diceable does not ask for ForceUndiceable.
RenderSurfaceDiced(s) ==
  /\ heap' = Popped(s)
  /\ RenderWaitingMPs(Queued(s.frags))
  /\ UNCHANGED <<pc, cell, pending, bucket, quit, processed, unposted, hidden, abandoned>>

\* CqSurface::Split splits the pieces of an undiceable surface once more; a
\* cloud of points or a subdivision patch starts the count of its pieces anew.
SplitCounts(s) == IF s.eye THEN {0, s.splits + 1, s.splits + 2} ELSE {s.splits + 1}

\* The surfaces Split may make of s: each has some of its frags, fewer if the
\* count starts anew, and reaches the eye plane only if s does.
Pieces(s) == {c \in [frags : (SUBSET s.frags) \ {{}}, rect : Bounds \cup {EyeRect},
                     eye : IF s.eye THEN BOOLEAN ELSE {FALSE},
                     splits : SplitCounts(s), cullable : {s.cullable}] :
                /\ ProperBound(c)
                /\ c.splits > s.splits \/ c.frags # s.frags}

\* The pieces share out the frags of s (more than two are made by splitting
\* again).  All of them may go to one piece only at the eye plane, where the
\* rest of the surface lies behind the camera.
IsSplit(c, d, s) ==
  /\ c.frags \cup d.frags = s.frags
  /\ c = d \/ c.frags \cap d.frags = {}
  /\ c = d => s.eye

\* RenderSurface of a surface that is not diceable: every piece is posted.
RenderSurfaceSplit(s) ==
  /\ \E c, d \in Pieces(s) :
       /\ IsSplit(c, d, s)
       /\ heap' = Posted(Popped(s), {c, d})
       /\ abandoned' = abandoned \cup GivenUp({c, d})
  /\ RenderWaitingMPs(mps)
  /\ UNCHANGED <<pc, cell, pending, bucket, quit, processed, unposted, hidden>>

\* RenderSurface of a surface that Diceable marked to be discarded.
RenderSurfaceDiscarded(s) ==
  /\ s.frags \subseteq Degenerate
  /\ heap' = Popped(s)
  /\ abandoned' = abandoned \cup s.frags
  /\ RenderWaitingMPs(mps)
  /\ UNCHANGED <<pc, cell, pending, bucket, quit, processed, unposted, hidden>>

RenderSurface ==
  /\ pc = "surfaces"
  /\ \E s \in heap[bucket] :
       \/ RenderSurfaceHidden(s)
       \/ RenderSurfaceDiced(s)
       \/ RenderSurfaceSplit(s)
       \/ RenderSurfaceDiscarded(s)

\* The queue is empty: the work unit returns and joinAll with it.
EndProcess ==
  /\ pc = "surfaces" /\ heap[bucket] = {}
  /\ pc' = "post"
  /\ UNCHANGED <<cell, pending, bucket, quit, processed, heap, mps,
                 unposted, rendered, hidden, abandoned>>

\* postProcess with SetProcessed, DisplayBucket, reset.
PostProcess ==
  /\ pc = "post" /\ ~quit
  /\ processed' = processed \cup {bucket}
  /\ heap' = [heap EXCEPT ![bucket] = {}]
  /\ mps' = [mps EXCEPT ![bucket] = {}]
  /\ bucket' = NoBucket
  /\ pc' = "loop"
  /\ UNCHANGED <<cell, pending, quit, unposted, rendered, hidden, abandoned>>

\* After a quit the loop over the processors is not entered.
SkipPostProcess ==
  /\ pc = "post" /\ quit
  /\ pc' = "loop"
  /\ UNCHANGED <<cell, pending, bucket, quit, processed, heap, mps,
                 unposted, rendered, hidden, abandoned>>

\* CqRenderer::Quit, from the application, at any time.
Quit ==
  /\ ~quit
  /\ quit' = TRUE
  /\ UNCHANGED <<pc, cell, pending, bucket, processed, heap, mps,
                 unposted, rendered, hidden, abandoned>>

Render == \/ Assign \/ LoopExit \/ BeginProcess \/ RenderSurface
          \/ EndProcess \/ PostProcess \/ SkipPostProcess

Next == StorePrimitive \/ RenderImage \/ Render \/ Quit

Spec == Init /\ [][Next]_vars /\ WF_vars(Render)

-----------------------------------------------------------------------------
TypeOK ==
  /\ pc \in {"world", "loop", "process", "surfaces", "post", "done"}
  /\ cell \in Cells /\ bucket \in Buckets \cup {NoBucket}
  /\ pending \in BOOLEAN /\ quit \in BOOLEAN
  /\ processed \subseteq Buckets
  /\ heap \in [Buckets -> SUBSET Surfaces]
  /\ mps \in [Buckets -> SUBSET Frag]
  /\ unposted \subseteq Frag /\ abandoned \subseteq Frag
  /\ rendered \subseteq Frag \X Buckets /\ hidden \subseteq Frag \X Buckets

(***************************************************************************)
(* No visible micropolygon is lost.  Whatever was split, reposted, clamped *)
(* or skipped on the way: when a bucket is finished, every micropolygon    *)
(* that touches it was sampled in it, or was part of a surface the         *)
(* occlusion tree culled in that very bucket, unless the renderer gave its *)
(* surface up on purpose.                                                  *)
(***************************************************************************)
NothingMissed ==
  \A f \in Frag \ (unposted \cup abandoned) :
    \A b \in processed \cap Touched(f) : <<f, b>> \in rendered \cup hidden

(***************************************************************************)
(* Nothing is queued where nobody looks any more: the queues of a finished *)
(* bucket stay empty, although RepostSurface adds to the next buckets      *)
(* without asking whether they are processed.                              *)
(***************************************************************************)
NothingLeftBehind == \A b \in processed : heap[b] = {} /\ mps[b] = {}

(***************************************************************************)
(* A micropolygon is on one way only: it belongs to at most one waiting    *)
(* surface, and once a grid holding it was diced no surface holds it.  A   *)
(* surface queued twice would be sampled twice, which shows wherever it is *)
(* not opaque.                                                             *)
(***************************************************************************)
OneOwner ==
  \A a, b \in Buckets : \A s \in heap[a] : \A f \in s.frags :
    /\ f \notin mps[b] /\ <<f, b>> \notin rendered
    /\ \A t \in heap[b] : f \in t.frags => a = b /\ s = t

(***************************************************************************)
(* A micropolygon culled in a bucket is not sampled there afterwards: the  *)
(* surface comes back into the pipeline in a later bucket, and AddMPG must *)
(* not let its micropolygons leak into an earlier one (the note in AddMPG).*)
(***************************************************************************)
HiddenStaysHidden == rendered \cap hidden = {}

(***************************************************************************)
(* RenderImage ends: eye splitting stops at MaxEyeSplits, every other      *)
(* split shrinks the surface, no surface is reposted backwards and         *)
(* NextBucket reaches the end of the region.                               *)
(***************************************************************************)
Terminates == (pc = "loop") ~> (pc = "done")

Delivery == INSTANCE BucketDelivery
              WITH delivered <- processed, cancelled <- quit, finished <- (pc = "done")

(***************************************************************************)
(* The buckets reach the display manager as BucketDelivery promises: row   *)
(* by row, none twice, none left out unless a quit was asked for.          *)
(***************************************************************************)
DeliversInOrder == Delivery!Spec
=============================================================================
