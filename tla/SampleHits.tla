---------------------------- MODULE SampleHits ----------------------------
(***************************************************************************)
(* What one sample point keeps of the micropolygons that hit it            *)
(* (SqSampleData): CqBucketProcessor::StoreSample, which decides while the *)
(* bucket is rendered, and the depth CqImagePixel::Combine makes of it     *)
(* afterwards.  Colours are left out; a depth is a number below Far, which *)
(* stands for FLT_MAX.                                                     *)
(***************************************************************************)
EXTENDS Integers, FiniteSets

CONSTANTS Depth,    \* the depths hits may have
          Far,      \* FLT_MAX
          Id        \* names of micropolygons

ASSUME DepthAssumption == Depth \subseteq Nat /\ Far \in Nat /\ \A d \in Depth : d < Far

\* An opaque micropolygon occludes, as does any of a MatteAlpha object, here
\* one with less opacity than limits:zthreshold asks for; a dense one is
\* transparent but meets the threshold; a thin one does not.
Kinds == {"opaque", "matte", "dense", "thin"}

Hits == [id : Id, z : Depth, kind : Kinds, csg : BOOLEAN]

NoHit == [z |-> -1]

\* The depth filter.  "max" stands for "average" too, which keeps the same
\* hits; without a display of depth (DMode_Z) hits are kept as for "min".
Hiders == {"min", "max", "midpoint"}

SampleData == [occlZ : Depth \cup {Far}, hit : Hits \cup {NoHit}, data : SUBSET Hits]

\* CqImagePixel::clear.
Fresh == [occlZ |-> Far, hit |-> NoHit, data |-> {}]

\* isCullable of RenderMicroPoly.
Cullable(o, csg) == ~csg /\ o # "max"

MidPoint(o) == o = "midpoint"

\* The test of StoreSample, and before it that of RenderMPG_Static with the
\* bound of the micropolygon, which is not behind its hits.
Culled(o, d, h) == Cullable(o, h.csg) /\ d.occlZ <= h.z

\* The occluding hit in the midpoint mode, where occlZ is the depth of the
\* second nearest opaque hit.
PreviousZ(d) == IF d.hit = NoHit THEN Far ELSE d.hit.z

\* Mutants: the depth of the new hit replaces occlZ in any case; the previous
\* hit is taken for valid.
StoredMidPoint_Nearest(d, h) == [d EXCEPT !.occlZ = h.z, !.hit = h]
StoredMidPoint_Unchecked(d, h) ==
  IF d.hit.z < h.z /\ d.hit # NoHit THEN [d EXCEPT !.occlZ = h.z]
  ELSE [d EXCEPT !.occlZ = d.hit.z, !.hit = h]

StoredMidPoint(d, h) ==
  IF PreviousZ(d) < h.z
  THEN [d EXCEPT !.occlZ = h.z]
  ELSE [d EXCEPT !.occlZ = PreviousZ(d), !.hit = h]

Occluding(o, h) == h.kind \in {"opaque", "matte"} /\ Cullable(o, h.csg)

\* Mutant: does not ask whether the hit is cullable.
Stored_AnyCulled(o, d, h) ==
  IF d.occlZ <= h.z THEN d
  ELSE IF ~Occluding(o, h) THEN [d EXCEPT !.data = @ \cup {h}]
  ELSE IF MidPoint(o) THEN StoredMidPoint(d, h)
  ELSE [d EXCEPT !.occlZ = h.z, !.hit = h]

\* StoreSample.
Stored(o, d, h) ==
  IF Culled(o, d, h) THEN d
  ELSE IF ~Occluding(o, h) THEN [d EXCEPT !.data = @ \cup {h}]
  ELSE IF MidPoint(o) THEN StoredMidPoint(d, h)
  ELSE [d EXCEPT !.occlZ = h.z, !.hit = h]

-----------------------------------------------------------------------------
\* What Combine sorts: the occluding hit joins the others, if there are any.
Combined(d) == IF d.hit = NoHit \/ d.data = {} THEN d.data ELSE d.data \cup {d.hit}

\* Hits within the threshold.
Solid(H) == {h \in H : h.kind \in {"opaque", "dense"}}

Nearest(H) == CHOOSE h \in H : \A g \in H : h.z <= g.z
Furthest(H) == CHOOSE h \in H : \A g \in H : h.z >= g.z

\* Mutant: the loop runs from the nearest hit to the furthest.
OpaqueDepths_Forwards(d, V) ==
  LET S == Solid(V)
  IN  IF S = {} THEN <<d.occlZ, Far>>
      ELSE LET f == Furthest(S)
           IN  <<f.z, IF S = {f} THEN d.occlZ ELSE Furthest(S \ {f}).z>>

\* opaqueDepths after the loop over the hits V that the solids have left,
\* from the furthest to the nearest: each solid hit moves the first entry to
\* the second.
OpaqueDepths(d, V) ==
  LET S == Solid(V)
  IN  IF S = {} THEN <<d.occlZ, Far>>
      ELSE LET n == Nearest(S)
           IN  <<n.z, IF S = {n} THEN d.occlZ ELSE Nearest(S \ {n}).z>>

\* Twice the depth Combine records for a sample with something to see.
DoubleDepth(o, d, V) ==
  LET D == OpaqueDepths(d, V)
      S == Solid(V)
  IN  IF d.data = {}
        THEN IF o = "midpoint" THEN d.hit.z + d.occlZ ELSE 2 * d.hit.z
      ELSE IF o = "min" THEN 2 * D[1]
      ELSE IF o = "max" THEN 2 * (IF S = {} THEN Far ELSE Furthest(S).z)
      ELSE IF Cardinality(V) > 1 THEN D[1] + D[2]
      ELSE 2 * Far
=============================================================================
