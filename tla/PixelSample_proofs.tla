------------------------- MODULE PixelSample_proofs -------------------------
(***************************************************************************)
(* Theorems about a sample point, for any depths, micropolygons, trees of  *)
(* solid blocks and orders.  SampleInv carries what StoreSample promises;  *)
(* without the second nearest depth that occlZ is (Limits) a hit that is   *)
(* culled could not be shown to have an opaque one before it, and without  *)
(* the kinds of the stored hits the one replaced as occluding hit could be *)
(* one that must stay.  PixelInv adds the shape of the trees and of the    *)
(* hits; it says nothing of the lists in Combine, whose loops are over     *)
(* within one step.  They are taken apart by induction: along the list for *)
(* one node (PassedTo), over its children (BelowTo), from the leaves of a  *)
(* tree to its root (ProcessKeepsWalls) and over the trees (AfterTrees).   *)
(* The hits of StoreSample and those of the scene are then compared: what  *)
(* was never stored is of no solid, so that a ray has passed the same      *)
(* walls of solids at every stored hit (WallsAgree).                       *)
(***************************************************************************)
EXTENDS PixelSample, RecursiveFunctions, TLAPS

-----------------------------------------------------------------------------
(* What is stored. *)

\* The occluding hit occludes, no other stored hit does, and all were offered.
StoredByKind == /\ point.data \subseteq offered
                /\ \A h \in point.data : ~Occluding(hider, h)
                /\ point.hit # NoHit => point.hit \in offered

SampleInv == TypeOK /\ StoredByKind /\ OccludingHitIsNearest /\ NoVisibleHitLost

-----------------------------------------------------------------------------
LEMMA HitFacts ==
  ASSUME NEW h \in Hits
  PROVE  h.z \in Nat /\ h.z < Far /\ h # NoHit /\ Far \in Nat
  <1>1. h.z \in Depth /\ Far \in Nat
    BY DepthAssumption DEF Hits
  <1>2. h.z \in Nat /\ h.z < Far
    BY <1>1, DepthAssumption
  <1>3. h.z # NoHit.z
    BY <1>2 DEF NoHit
  <1> QED
    BY <1>1, <1>2, <1>3

LEMMA InitInv == Init => SampleInv
  <1> SUFFICES ASSUME Init PROVE SampleInv
    OBVIOUS
  <1>1. hider \in Hiders /\ point.occlZ = Far /\ point.hit = NoHit /\ point.data = {} /\ offered = {}
    BY DEF Init, Fresh
  <1>2. TypeOK
    BY DEF Init, TypeOK, Fresh, SampleData
  <1>3. Opaque = {} /\ Behind = {} /\ Limits = {}
    BY <1>1 DEF Opaque, Behind, Limits
  <1>4. StoredByKind /\ NoVisibleHitLost
    BY <1>1 DEF StoredByKind, NoVisibleHitLost
  <1>5. OccludingHitIsNearest
    BY <1>1, <1>3 DEF OccludingHitIsNearest
  <1> QED
    BY <1>2, <1>4, <1>5 DEF SampleInv

-----------------------------------------------------------------------------
(* The five ways in which StoreSample ends. *)

Drops(h) == Culled(hider, point, h) /\ point' = point

Adds(h) == /\ ~Occluding(hider, h)
           /\ point'.data = point.data \cup {h}
           /\ point'.occlZ = point.occlZ
           /\ point'.hit = point.hit

Replaces(h) == /\ ~MidPoint(hider)
               /\ Occluding(hider, h)
               /\ h.z < point.occlZ
               /\ point'.data = point.data
               /\ point'.occlZ = h.z
               /\ point'.hit = h

\* Behind the nearest opaque hit, before the second nearest.
Narrows(h) == /\ MidPoint(hider)
              /\ Occluding(hider, h)
              /\ PreviousZ(point) < h.z
              /\ h.z < point.occlZ
              /\ point'.data = point.data
              /\ point'.occlZ = h.z
              /\ point'.hit = point.hit

\* The nearest becomes the second nearest.
Shifts(h) == /\ MidPoint(hider)
             /\ Occluding(hider, h)
             /\ h.z <= PreviousZ(point)
             /\ point'.data = point.data
             /\ point'.occlZ = PreviousZ(point)
             /\ point'.hit = h

LEMMA PreviousZType ==
  ASSUME TypeOK
  PROVE  /\ PreviousZ(point) \in Depth \cup {Far}
         /\ PreviousZ(point) \in Nat
         /\ point.occlZ \in Nat
  <1>1. point.hit = NoHit \/ point.hit \in Hits
    BY DEF TypeOK, SampleData
  <1>2. CASE point.hit = NoHit
    BY <1>2, DepthAssumption DEF PreviousZ, TypeOK, SampleData
  <1>3. CASE point.hit \in Hits
    BY <1>3, HitFacts, DepthAssumption DEF PreviousZ, TypeOK, SampleData, Hits
  <1> QED
    BY <1>1, <1>2, <1>3

LEMMA StoreCases ==
  ASSUME TypeOK, NEW h \in Hits, Offer(h)
  PROVE  Drops(h) \/ Adds(h) \/ Replaces(h) \/ Narrows(h) \/ Shifts(h)
  <1>1. point' = Stored(hider, point, h)
    BY DEF Offer
  <1>2. point.occlZ \in Nat /\ PreviousZ(point) \in Nat /\ h.z \in Nat
    BY PreviousZType, HitFacts
  <1>3. CASE Culled(hider, point, h)
    BY <1>1, <1>3 DEF Stored, Drops
  <1>4. CASE ~Culled(hider, point, h) /\ ~Occluding(hider, h)
    <2>1. point' = [point EXCEPT !.data = point.data \cup {h}]
      BY <1>1, <1>4 DEF Stored
    <2> QED
      BY <1>4, <2>1 DEF Adds, TypeOK, SampleData
  <1>5. CASE ~Culled(hider, point, h) /\ Occluding(hider, h)
    <2>1. h.z < point.occlZ
      BY <1>2, <1>5 DEF Culled, Occluding
    <2>2. CASE ~MidPoint(hider)
      <3>1. point' = [point EXCEPT !.occlZ = h.z, !.hit = h]
        BY <1>1, <1>5, <2>2 DEF Stored
      <3> QED
        BY <1>5, <2>1, <2>2, <3>1 DEF Replaces, TypeOK, SampleData
    <2>3. CASE MidPoint(hider) /\ PreviousZ(point) < h.z
      <3>1. point' = [point EXCEPT !.occlZ = h.z]
        BY <1>1, <1>5, <2>3 DEF Stored, StoredMidPoint
      <3> QED
        BY <1>5, <2>1, <2>3, <3>1 DEF Narrows, TypeOK, SampleData
    <2>4. CASE MidPoint(hider) /\ h.z <= PreviousZ(point)
      <3>1. point' = [point EXCEPT !.occlZ = PreviousZ(point), !.hit = h]
        BY <1>1, <1>2, <1>5, <2>4 DEF Stored, StoredMidPoint
      <3> QED
        BY <1>5, <2>4, <3>1 DEF Shifts, TypeOK, SampleData
    <2> QED
      BY <1>2, <2>2, <2>3, <2>4
  <1> QED
    BY <1>3, <1>4, <1>5

LEMMA OfferType ==
  ASSUME TypeOK, NEW h \in Hits, Offer(h)
  PROVE  TypeOK'
  <1>1. hider' = hider /\ offered' = offered \cup {h}
    BY DEF Offer
  <1>2. h.z \in Depth
    BY DEF Hits
  <1>3. point' = Stored(hider, point, h)
    BY DEF Offer
  <1>4. point' \in SampleData
    BY <1>2, <1>3, PreviousZType DEF Stored, StoredMidPoint, TypeOK, SampleData
  <1> QED
    BY <1>1, <1>4 DEF TypeOK

-----------------------------------------------------------------------------
(* What an offered hit leaves of the invariant. *)

LEMMA OfferStored ==
  ASSUME SampleInv, NEW h \in Hits, Offer(h)
  PROVE  StoredByKind'
  <1> USE DEF StoredByKind, SampleInv
  <1>1. hider' = hider /\ offered' = offered \cup {h} /\ TypeOK
    BY DEF Offer
  <1>2. \A o \in Hiders, g \in Hits : Occluding(o, g)' = Occluding(o, g)
    OBVIOUS
  <1>3. CASE Drops(h)
    BY <1>1, <1>3 DEF Drops
  <1>4. CASE Adds(h)
    BY <1>1, <1>4 DEF Adds
  <1>5. CASE Replaces(h)
    BY <1>1, <1>5 DEF Replaces
  <1>6. CASE Narrows(h)
    BY <1>1, <1>6 DEF Narrows
  <1>7. CASE Shifts(h)
    BY <1>1, <1>7 DEF Shifts
  <1> QED
    BY <1>1, <1>3, <1>4, <1>5, <1>6, <1>7, StoreCases

\* The opaque hits that are limits for what is culled, and those of before.
LEMMA OpaqueHits ==
  ASSUME SampleInv, NEW h \in Hits, Offer(h)
  PROVE  /\ Opaque \subseteq Hits
         /\ h \notin Opaque
         /\ h \notin offered
         /\ Opaque' = IF Occluding(hider, h) THEN Opaque \cup {h} ELSE Opaque
  <1>1. hider' = hider /\ offered' = offered \cup {h} /\ h \notin offered
    BY DEF Offer
  <1> QED
    BY <1>1 DEF Opaque, SampleInv, TypeOK

\* Only hits that are nowhere before an opaque one are culled, and occlZ is
\* the depth of an opaque hit.
LEMMA OccludedBy ==
  ASSUME SampleInv, NEW h \in Hits, point.occlZ <= h.z
  PROVE  \E o \in Limits : o.z = point.occlZ /\ o \in Opaque
  <1>1. point.occlZ # Far
    BY HitFacts
  <1> QED
    BY <1>1 DEF SampleInv, OccludingHitIsNearest, Limits, Behind

LEMMA OfferNearest ==
  ASSUME SampleInv, NEW h \in Hits, Offer(h)
  PROVE  OccludingHitIsNearest'
  <1> DEFINE n == point.hit
  <1>1. /\ TypeOK
        /\ hider' = hider
        /\ n = NoHit <=> Opaque = {}
        /\ n # NoHit => n \in Opaque /\ \A g \in Behind : n.z <= g.z
        /\ \A g \in Limits : point.occlZ <= g.z
        /\ point.occlZ = Far \/ \E g \in Limits : point.occlZ = g.z
    BY DEF Offer, SampleInv, OccludingHitIsNearest
  <1>2. \A g \in Hits : g.z \in Nat /\ g.z < Far /\ g # NoHit
    BY HitFacts
  <1>3. point.occlZ \in Nat /\ PreviousZ(point) \in Nat /\ Far \in Nat
    BY <1>1, PreviousZType, DepthAssumption
  <1>4. /\ Opaque \subseteq Hits
        /\ h \notin Opaque
        /\ Opaque' = IF Occluding(hider, h) THEN Opaque \cup {h} ELSE Opaque
    BY OpaqueHits
  <1>5. MidPoint(hider)' = MidPoint(hider)
    BY <1>1
  <1>6. CASE Drops(h) \/ Adds(h)
    <2>1. point'.hit = n /\ point'.occlZ = point.occlZ
      BY <1>6 DEF Drops, Adds
    <2>2. CASE ~Occluding(hider, h)
      <3>1. Opaque' = Opaque /\ Behind' = Behind /\ Limits' = Limits
        BY <1>4, <1>5, <2>1, <2>2 DEF Behind, Limits
      <3> QED
        BY <1>1, <2>1, <3>1 DEF OccludingHitIsNearest
    <2>3. CASE Occluding(hider, h)
      <3>1. point.occlZ <= h.z
        BY <1>6, <2>3 DEF Drops, Adds, Culled
      <3>2. PICK o \in Limits : o.z = point.occlZ /\ o \in Opaque
        BY <3>1, OccludedBy
      <3>3. n \in Opaque /\ n # NoHit /\ n.z <= o.z
        BY <1>1, <1>2, <1>4, <3>2 DEF Behind
      <3>4. n.z <= h.z
        BY <1>2, <1>3, <1>4, <3>1, <3>2, <3>3
      <3>5. Opaque' = Opaque \cup {h} /\ Behind' = Behind \cup {h} /\ Limits' = Limits \cup {h}
        BY <1>4, <1>5, <2>1, <2>3, <3>3 DEF Behind, Limits
      <3> QED
        BY <1>1, <2>1, <3>1, <3>3, <3>4, <3>5 DEF OccludingHitIsNearest
    <2> QED
      BY <2>2, <2>3
  <1>7. CASE Replaces(h)
    <2>1. Limits = Opaque /\ Limits' = Opaque' /\ Opaque' = Opaque \cup {h} /\ Behind' = Opaque
      BY <1>4, <1>5, <1>7 DEF Replaces, Limits, Behind
    <2>2. \A g \in Opaque : h.z <= g.z
      BY <1>1, <1>2, <1>3, <1>4, <1>7, <2>1 DEF Replaces
    <2> QED
      BY <1>2, <1>7, <2>1, <2>2 DEF Replaces, OccludingHitIsNearest
  <1>8. CASE Narrows(h)
    <2>1. n # NoHit /\ n \in Opaque /\ n.z < h.z
      BY <1>1, <1>2, <1>3, <1>8 DEF Narrows, PreviousZ
    <2>2. Opaque' = Opaque \cup {h} /\ Behind' = Behind \cup {h} /\ Limits = Behind /\ Limits' = Behind'
      BY <1>4, <1>5, <1>8, <2>1 DEF Narrows, Limits, Behind
    <2>3. \A g \in Limits' : h.z <= g.z
      BY <1>1, <1>2, <1>3, <1>4, <1>8, <2>2 DEF Narrows, Behind
    <2>4. point'.hit = n /\ point'.occlZ = h.z
      BY <1>8 DEF Narrows
    <2>5. \A g \in Behind' : n.z <= g.z
      BY <1>1, <1>2, <1>4, <2>1, <2>2
    <2>6. n \in Opaque' /\ Opaque' # {} /\ h \in Limits'
      BY <2>1, <2>2
    <2> QED
      BY <2>1, <2>3, <2>4, <2>5, <2>6 DEF OccludingHitIsNearest
  <1>9. CASE Shifts(h)
    <2>1. Opaque' = Opaque \cup {h} /\ Behind' = Opaque /\ Limits' = Opaque
      BY <1>4, <1>5, <1>9 DEF Shifts, Limits, Behind
    <2>2. CASE n = NoHit
      BY <1>1, <1>2, <1>9, <2>1, <2>2 DEF Shifts, PreviousZ, OccludingHitIsNearest
    <2>3. CASE n # NoHit
      <3>1. n \in Opaque /\ PreviousZ(point) = n.z /\ \A g \in Opaque : n.z <= g.z
        BY <1>1, <1>2, <1>4, <2>3 DEF PreviousZ, Behind
      <3>2. \A g \in Opaque : h.z <= g.z
        BY <1>2, <1>4, <1>9, <3>1 DEF Shifts
      <3> QED
        BY <1>2, <1>9, <2>1, <3>1, <3>2 DEF Shifts, OccludingHitIsNearest
    <2> QED
      BY <2>2, <2>3
  <1> QED
    BY <1>1, <1>6, <1>7, <1>8, <1>9, StoreCases

LEMMA OfferNothingLost ==
  ASSUME SampleInv, NEW h \in Hits, Offer(h)
  PROVE  NoVisibleHitLost'
  <1>1. TypeOK /\ StoredByKind /\ hider' = hider /\ offered' = offered \cup {h}
    BY DEF Offer, SampleInv
  <1>2. /\ Opaque \subseteq Hits
        /\ h \notin Opaque
        /\ h \notin offered
        /\ Opaque' = IF Occluding(hider, h) THEN Opaque \cup {h} ELSE Opaque
    BY OpaqueHits
  <1>3. \A g \in offered \ Kept : Cullable(hider, g.csg) /\ \E o \in Opaque \ {g} : o.z <= g.z
    BY DEF SampleInv, NoVisibleHitLost
  <1>4. \A g \in Hits : g.z \in Nat /\ g.z < Far /\ g # NoHit
    BY HitFacts
  <1>5. point.occlZ \in Nat /\ PreviousZ(point) \in Nat
    BY <1>1, PreviousZType
  <1>6. SUFFICES ASSUME NEW g \in offered' \ Kept'
                 PROVE  Cullable(hider, g.csg) /\ \E o \in Opaque' \ {g} : o.z <= g.z
    BY <1>1 DEF NoVisibleHitLost
  <1>7. CASE g \in offered \ Kept
    BY <1>2, <1>3, <1>7
  <1>8. CASE g = h
    <2>1. CASE Drops(h)
      <3>1. Cullable(hider, h.csg) /\ point.occlZ <= h.z
        BY <2>1 DEF Drops, Culled
      <3>2. PICK o \in Limits : o.z = point.occlZ /\ o \in Opaque
        BY <3>1, OccludedBy
      <3>3. o \in Opaque' \ {h} /\ o.z <= h.z
        BY <1>2, <3>1, <3>2
      <3> QED
        BY <1>8, <3>1, <3>3
    <2>2. CASE Narrows(h)
      <3>1. point.hit # NoHit /\ point.hit.z < h.z
        BY <1>4, <1>5, <2>2, DepthAssumption DEF Narrows, PreviousZ
      <3>2. point.hit \in Opaque
        BY <3>1 DEF SampleInv, OccludingHitIsNearest
      <3>3. point.hit \in Opaque' \ {h} /\ point.hit.z <= h.z /\ Cullable(hider, h.csg)
        BY <1>2, <1>4, <2>2, <3>1, <3>2 DEF Narrows, Occluding
      <3> QED
        BY <1>8, <3>3
    <2>3. CASE Adds(h) \/ Replaces(h) \/ Shifts(h)
      BY <1>4, <1>6, <1>8, <2>3 DEF Adds, Replaces, Shifts, Kept
    <2> QED
      BY <2>1, <2>2, <2>3, <1>1, StoreCases
  <1>9. CASE g \in Kept /\ g # h
    <2>1. point'.data # point.data \/ point'.hit # point.hit
      BY <1>6, <1>9 DEF Kept
    <2>2. Replaces(h) \/ Shifts(h)
      BY <1>1, <1>6, <1>9, <2>1, StoreCases DEF Drops, Adds, Narrows, Kept
    <2>3. g = point.hit /\ g # NoHit
      BY <1>6, <1>9, <2>2 DEF Replaces, Shifts, Kept
    <2>4. g \in Opaque
      BY <2>3 DEF SampleInv, OccludingHitIsNearest
    <2>5. h.z <= g.z
      <3>1. CASE Replaces(h)
        <4>1. point.occlZ <= g.z
          BY <2>4, <3>1 DEF SampleInv, OccludingHitIsNearest, Limits, Replaces
        <4> QED
          BY <1>2, <1>4, <1>5, <2>4, <3>1, <4>1 DEF Replaces
      <3>2. CASE Shifts(h)
        BY <2>3, <3>2 DEF Shifts, PreviousZ
      <3> QED
        BY <2>2, <3>1, <3>2
    <2>6. h \in Opaque' \ {g} /\ Cullable(hider, g.csg)
      BY <1>2, <1>9, <2>2, <2>4 DEF Replaces, Shifts, Opaque, Occluding
    <2> QED
      BY <2>5, <2>6
  <1> QED
    BY <1>1, <1>6, <1>7, <1>8, <1>9

-----------------------------------------------------------------------------
LEMMA NextInv == SampleInv /\ [Next]_vars => SampleInv'
  <1> SUFFICES ASSUME SampleInv, [Next]_vars PROVE SampleInv'
    OBVIOUS
  <1>1. CASE Clear
    <2>1. Init'
      BY <1>1 DEF Clear, Init, SampleInv, TypeOK
    <2> QED
      BY <2>1, InitInv, PTL
  <1>2. ASSUME NEW h \in Hits, Offer(h)
        PROVE  SampleInv'
    BY <1>2, OfferType, OfferStored, OfferNearest, OfferNothingLost DEF SampleInv
  <1>3. CASE UNCHANGED vars
    BY <1>3 DEF vars, SampleInv, TypeOK, StoredByKind, OccludingHitIsNearest, NoVisibleHitLost,
                Opaque, Kept, Behind, Limits
  <1> QED
    BY <1>1, <1>2, <1>3 DEF Next

LEMMA Inductive == Spec => []SampleInv
  BY InitInv, NextInv, PTL DEF Spec

(***************************************************************************)
(* A sample point's data stay what CqImagePixel declares, for any hits.    *)
(***************************************************************************)
THEOREM TypeCorrect == Spec => []TypeOK
  BY Inductive, PTL DEF SampleInv

(***************************************************************************)
(* In any order and number of micropolygons, StoreSample drops or replaces *)
(* a hit only when an opaque one is not behind it.                         *)
(***************************************************************************)
THEOREM NothingVisibleIsLost == Spec => []NoVisibleHitLost
  BY Inductive, PTL DEF SampleInv

(***************************************************************************)
(* occludingHit and occlZ are what imagepixel.h says of them: the nearest  *)
(* opaque hit and its depth, or the second nearest depth for the midpoint. *)
(***************************************************************************)
THEOREM NearestOccludes == Spec => []OccludingHitIsNearest
  BY Inductive, PTL DEF SampleInv

-----------------------------------------------------------------------------
(* The trees of solid blocks. *)

Nodes == DOMAIN tree
Children(n) == {tree[n].children[i] : i \in DOMAIN tree[n].children}

NodeRecord == [type : NodeTypes, parent : Nat, children : Seq(Nat)]

\* A parent comes before its children, and each holds the other.
TreeShape ==
  /\ tree \in Seq(NodeRecord)
  /\ \A n \in Nodes : tree[n].parent < n
  /\ \A n \in Nodes : \A i \in DOMAIN tree[n].children :
       tree[n].children[i] \in Nodes /\ tree[tree[n].children[i]].parent = n
  /\ \A n \in Nodes : tree[n].parent # None => n \in Children(tree[n].parent)
  /\ \A n \in Nodes : \A i, j \in DOMAIN tree[n].children :
       tree[n].children[i] = tree[n].children[j] => i = j
  /\ \A n \in Nodes : tree[n].type = "primitive" => tree[n].children = <<>>

LEMMA TreeFacts ==
  ASSUME TreeShape
  PROVE  /\ Len(tree) \in Nat /\ Nodes = 1 .. Len(tree) /\ None \notin Nodes
         /\ \A n \in Nodes :
              /\ n \in Nat /\ tree[n] \in NodeRecord /\ tree[n].type \in NodeTypes
              /\ tree[n].parent = None \/ tree[n].parent \in Nodes
              /\ tree[n].parent \in Nat /\ tree[n].parent < n
              /\ tree[n].children \in Seq(Nodes)
              /\ Children(n) \subseteq Nodes
              /\ \A c \in Children(n) : tree[c].parent = n /\ n < c
              /\ \A i \in DOMAIN tree[n].children : tree[n].children[i] \in Children(n)
<1>1. Len(tree) \in Nat /\ Nodes = 1 .. Len(tree) /\ None \notin Nodes
  BY DEF TreeShape, Nodes, None
<1>2. ASSUME NEW n \in Nodes
      PROVE  /\ n \in Nat /\ tree[n] \in NodeRecord /\ tree[n].type \in NodeTypes
             /\ tree[n].parent \in Nat /\ tree[n].parent < n /\ tree[n].children \in Seq(Nat)
             /\ tree[n].parent = None \/ tree[n].parent \in Nodes
  <2>1. n \in Nat /\ tree[n] \in NodeRecord /\ n <= Len(tree)
    BY <1>1 DEF TreeShape, Nodes
  <2>2. tree[n].type \in NodeTypes /\ tree[n].parent \in Nat /\ tree[n].children \in Seq(Nat)
    BY <2>1 DEF NodeRecord
  <2>3. tree[n].parent < n
    BY DEF TreeShape
  <2>. QED  BY <1>1, <2>1, <2>2, <2>3 DEF None
<1>3. ASSUME NEW n \in Nodes
      PROVE  /\ Children(n) \subseteq Nodes
             /\ \A c \in Children(n) : tree[c].parent = n /\ n < c
             /\ \A i \in DOMAIN tree[n].children : tree[n].children[i] \in Children(n)
             /\ tree[n].children \in Seq(Nodes)
  <2>1. \A i \in DOMAIN tree[n].children :
          tree[n].children[i] \in Nodes /\ tree[tree[n].children[i]].parent = n
    BY DEF TreeShape
  <2>2. \A c \in Nodes : tree[c].parent < c
    BY DEF TreeShape
  <2>3. tree[n].children \in Seq(Nat)
    BY <1>2
  <2>4. tree[n].children \in Seq(Nodes)
    BY <2>1, <2>3
  <2>. QED  BY <2>1, <2>2, <2>4 DEF Children
<1>. QED  BY <1>1, <1>2, <1>3

-----------------------------------------------------------------------------
(* The functions that are defined by recursion over the tree. *)

\* A function that a node's parent determines.
OnParent(g, top, next) ==
  \A n \in Nodes : g[n] = IF tree[n].parent = None THEN top[n] ELSE next[<<g[tree[n].parent], n>>]

LEMMA FromParent ==
  ASSUME TreeShape, NEW V, NEW v0 \in V, NEW top \in [Nodes -> V], NEW next \in [V \X Nodes -> V]
  PROVE  \E g \in [Nodes -> V] : OnParent(g, top, next)
<1>. DEFINE D == Nodes
            P(n) == tree[n].parent
            F == [gn \in [D -> V] \X D |->
                    IF P(gn[2]) = None THEN top[gn[2]] ELSE next[<<gn[1][P(gn[2])], gn[2]>>]]
            rank == [n \in D |-> n]
<1>0. \A n \in D : n \in Nat /\ (P(n) = None \/ (P(n) \in D /\ P(n) < n))
  BY TreeFacts
<1>. HIDE DEF P
<1>1. rank \in [D -> Nat]
  BY <1>0
<1>2. ASSUME NEW g \in [D -> V], NEW n \in D
      PROVE  /\ F[<<g, n>>] = IF P(n) = None THEN top[n] ELSE next[<<g[P(n)], n>>]
             /\ F[<<g, n>>] \in V
  <2>1. F[<<g, n>>] = IF P(n) = None THEN top[n] ELSE next[<<g[P(n)], n>>]
    OBVIOUS
  <2>. HIDE DEF F, D
  <2>. QED  BY <1>0, <2>1 DEF D
<1>3. F \in [[D -> V] \X D -> V]
  <2>1. \A gn \in [D -> V] \X D : F[gn] \in V
    BY <1>2
  <2>2. F = [gn \in [D -> V] \X D |-> F[gn]]
    OBVIOUS
  <2>. HIDE DEF F, D
  <2>. QED  BY <2>1, <2>2
<1>4. ASSUME NEW g \in [D -> V], NEW h \in [D -> V], NEW n \in D,
             \A y \in D : rank[y] < rank[n] => g[y] = h[y]
      PROVE  F[<<g, n>>] = F[<<h, n>>]
  <2>1. P(n) # None => g[P(n)] = h[P(n)]
    BY <1>0, <1>4
  <2>. HIDE DEF F, D, rank
  <2>. QED  BY <1>2, <2>1
<1>5. PICK g \in [D -> V] : Solves(g, F, D)
  <2>. HIDE DEF F, rank, D
  <2>1. FromLower(F, rank, D, V)
    BY <1>4 DEF FromLower
  <2>. QED  BY <1>1, <1>3, <2>1, Recursion
<1>6. \A n \in D : g[n] = IF P(n) = None THEN top[n] ELSE next[<<g[P(n)], n>>]
  <2>. HIDE DEF F, D
  <2>. QED  BY <1>2, <1>5 DEF Solves
<1>. QED  BY <1>6 DEF P, OnParent

LEMMA RootsDef ==
  ASSUME TreeShape
  PROVE  /\ Roots(tree) \in [Nodes -> Nodes]
         /\ \A n \in Nodes : Roots(tree)[n] = IF tree[n].parent = None THEN n ELSE Roots(tree)[tree[n].parent]
<1>. DEFINE top == [n \in Nodes |-> n]
            next == [vn \in Nodes \X Nodes |-> vn[1]]
            Root(g) == [n \in Nodes |-> IF tree[n].parent = None THEN n ELSE g[tree[n].parent]]
<1>1. CASE Nodes = {}
  <2>1. Root([n \in Nodes |-> n]) = [n \in Nodes |-> n]
    BY <1>1
  <2>2. \E g : g = Root(g)
    BY <2>1
  <2>3. Roots(tree) = CHOOSE g : g = Root(g)
    BY DEF Roots, Nodes
  <2>4. Roots(tree) = Root(Roots(tree))
    <3>. HIDE DEF Root
    <3>. QED  BY <2>2, <2>3
  <2>. QED  BY <1>1, <2>4
<1>2. CASE Nodes # {}
  <2>1. PICK v0 \in Nodes : TRUE
    BY <1>2
  <2>2. top \in [Nodes -> Nodes] /\ next \in [Nodes \X Nodes -> Nodes]
    OBVIOUS
  <2>3. PICK g \in [Nodes -> Nodes] : OnParent(g, top, next)
    <3>. HIDE DEF top, next
    <3>. QED  BY <2>1, <2>2, FromParent
  <2>4. \A n \in Nodes : g[n] = Root(g)[n]
    BY <2>3, TreeFacts DEF OnParent
  <2>5. g = Root(g)
    BY <2>4
  <2>6. Roots(tree) = CHOOSE f : f = Root(f)
    BY DEF Roots, Nodes
  <2>7. Roots(tree) = Root(Roots(tree))
    <3>. HIDE DEF Root
    <3>. QED  BY <2>5, <2>6
  <2>8. \A n \in Nodes : Roots(tree)[n] = IF tree[n].parent = None THEN n ELSE Roots(tree)[tree[n].parent]
    BY <2>7
  <2>. DEFINE S == {n \in Nodes : Roots(tree)[n] \in Nodes}
              rank == [n \in Nodes |-> n]
  <2>9. rank \in [Nodes -> Nat]
    BY TreeFacts
  <2>10. ASSUME NEW n \in Nodes, \A y \in Nodes : rank[y] < rank[n] => y \in S
         PROVE  n \in S
    BY <2>8, <2>10, TreeFacts
  <2>11. \A n \in Nodes : n \in S
    <3>. HIDE DEF S, rank
    <3>. QED  BY <2>9, <2>10, Descent
  <2>12. Roots(tree) = [n \in Nodes |-> Roots(tree)[n]]
    BY <2>7
  <2>. QED  BY <2>8, <2>11, <2>12
<1>. QED  BY <1>1, <1>2

\* A node and what it lies in.
Above == CHOOSE above : above =
  [n \in Nodes |-> IF tree[n].parent = None THEN {n} ELSE {n} \cup above[tree[n].parent]]

LEMMA AboveDef ==
  ASSUME TreeShape
  PROVE  \A n \in Nodes : Above[n] = IF tree[n].parent = None THEN {n} ELSE {n} \cup Above[tree[n].parent]
<1>. DEFINE V == SUBSET Nodes
            top == [n \in Nodes |-> {n}]
            next == [vn \in V \X Nodes |-> {vn[2]} \cup vn[1]]
            Up(g) == [n \in Nodes |-> IF tree[n].parent = None THEN {n} ELSE {n} \cup g[tree[n].parent]]
<1>1. top \in [Nodes -> V] /\ next \in [V \X Nodes -> V] /\ {} \in V
  OBVIOUS
<1>2. PICK g \in [Nodes -> V] : OnParent(g, top, next)
  <2>. HIDE DEF V, top, next
  <2>. QED  BY <1>1, FromParent
<1>3. \A n \in Nodes : g[n] = Up(g)[n]
  BY <1>2, TreeFacts DEF OnParent
<1>4. g = Up(g)
  BY <1>3
<1>5. Above = Up(Above)
  <2>1. Above = CHOOSE f : f = Up(f)
    BY DEF Above
  <2>. HIDE DEF Up
  <2>. QED  BY <1>4, <2>1
<1>. QED  BY <1>5

\* F asks for the values of the children alone.
FromBelow(F, V) ==
  \A g, h \in [Nodes -> V] : \A n \in Nodes :
    (\A c \in Children(n) : g[c] = h[c]) => F[<<g, n>>] = F[<<h, n>>]

\* Counts from the last node to the first.
FromLast == [n \in Nodes |-> Len(tree) - n]

LEMMA FromLastFacts ==
  ASSUME TreeShape
  PROVE  /\ FromLast \in [Nodes -> Nat]
         /\ \A n \in Nodes : \A c \in Children(n) : c \in Nodes /\ FromLast[c] < FromLast[n]
<1>1. ASSUME NEW n \in Nodes  PROVE Len(tree) - n \in Nat /\ n \in Nat
  BY TreeFacts
<1>2. ASSUME NEW n \in Nodes, NEW c \in Children(n)  PROVE c \in Nodes /\ FromLast[c] < FromLast[n]
  <2>1. c \in Nodes /\ n < c /\ n \in Nat /\ c \in Nat /\ Len(tree) \in Nat
    BY TreeFacts
  <2>. QED  BY <2>1 DEF FromLast
<1>. QED  BY <1>1, <1>2 DEF FromLast

LEMMA FromChildren ==
  ASSUME TreeShape, NEW V, NEW v0 \in V, NEW F \in [[Nodes -> V] \X Nodes -> V], FromBelow(F, V)
  PROVE  \E g \in [Nodes -> V] : Solves(g, F, Nodes)
<1>1. ASSUME NEW g \in [Nodes -> V], NEW h \in [Nodes -> V], NEW n \in Nodes,
             \A y \in Nodes : FromLast[y] < FromLast[n] => g[y] = h[y]
      PROVE  F[<<g, n>>] = F[<<h, n>>]
  <2>1. \A c \in Children(n) : g[c] = h[c]
    BY <1>1, FromLastFacts
  <2>. QED  BY <2>1 DEF FromBelow
<1>2. FromLower(F, FromLast, Nodes, V)
  BY <1>1 DEF FromLower
<1>. QED  BY <1>2, FromLastFacts, Recursion

WithinOf(s, k, within, n) ==
  LET children == tree[n].children
  IN  \/ tree[n].type = "primitive" /\ Cardinality({i \in 1 .. k : owner[s[i].id] = n}) % 2 = 1
      \/ tree[n].type = "union" /\ \E i \in DOMAIN children : within[children[i]]
      \/ /\ tree[n].type = "intersection" /\ children # <<>>
         /\ \A i \in DOMAIN children : within[children[i]]
      \/ /\ tree[n].type = "difference" /\ children # <<>>
         /\ \A i \in DOMAIN children : within[children[i]] = (i = 1)

LEMMA WithinDef ==
  ASSUME TreeShape, NEW s, NEW k
  PROVE  /\ Within(s, k) \in [Nodes -> BOOLEAN]
         /\ \A n \in Nodes : Within(s, k)[n] = WithinOf(s, k, Within(s, k), n)
<1>. DEFINE V == BOOLEAN
            F == [gn \in [Nodes -> V] \X Nodes |-> WithinOf(s, k, gn[1], gn[2])]
            Eq(g) == [n \in Nodes |-> WithinOf(s, k, g, n)]
<1>1. \A g, n : WithinOf(s, k, g, n) \in BOOLEAN
  BY DEF WithinOf
<1>2. F \in [[Nodes -> V] \X Nodes -> V] /\ FALSE \in V
  BY <1>1
<1>3. ASSUME NEW g \in [Nodes -> V], NEW h \in [Nodes -> V], NEW n \in Nodes,
             \A c \in Children(n) : g[c] = h[c]
      PROVE  F[<<g, n>>] = F[<<h, n>>]
  <2>1. \A i \in DOMAIN tree[n].children : g[tree[n].children[i]] = h[tree[n].children[i]]
    BY <1>3, TreeFacts
  <2>2. WithinOf(s, k, g, n) = WithinOf(s, k, h, n)
    BY <2>1 DEF WithinOf
  <2>. QED  BY <2>2
<1>4. PICK g \in [Nodes -> V] : Solves(g, F, Nodes)
  <2>1. FromBelow(F, V)
    <3>. HIDE DEF F, V
    <3>. QED  BY <1>3 DEF FromBelow
  <2>. HIDE DEF F, V
  <2>. QED  BY <1>2, <2>1, FromChildren
<1>5. g = Eq(g)
  <2>1. \A n \in Nodes : g[n] = WithinOf(s, k, g, n)
    BY <1>4 DEF Solves
  <2>. QED  BY <2>1
<1>6. Within(s, k) = Eq(Within(s, k))
  <2>1. Within(s, k) = CHOOSE f : f = Eq(f)
    BY DEF Within, WithinOf, Nodes
  <2>. HIDE DEF Eq
  <2>. QED  BY <1>5, <2>1
<1>7. \A n \in Nodes : Within(s, k)[n] = WithinOf(s, k, Within(s, k), n)
  BY <1>6
<1>8. Within(s, k) \in [Nodes -> BOOLEAN]
  BY <1>1, <1>6
<1>. QED  BY <1>7, <1>8

-----------------------------------------------------------------------------
(* The loops over the samples. *)

SampleLists == Seq(Listed(tree))
ChildStates(n) == [DOMAIN tree[n].children -> BOOLEAN]
Pass(n) == [states : ChildStates(n), state : BOOLEAN, samples : SampleLists]

Outside(n) == [i \in DOMAIN tree[n].children |-> FALSE]
PassStart(n) == [states |-> Outside(n), state |-> EvaluateState(tree[n].type, Outside(n)), samples |-> <<>>]

LEMMA EvaluateStateType == \A type, states : EvaluateState(type, states) \in BOOLEAN
BY DEF EvaluateState

LEMMA PassedType ==
  ASSUME TreeShape, NEW n \in Nodes, NEW acc \in Pass(n), NEW s \in Listed(tree)
  PROVE  Passed(tree, n, acc, s) \in Pass(n)
<1>. DEFINE children == tree[n].children
            states == [i \in DOMAIN children |-> IF children[i] = s.node THEN ~acc.states[i] ELSE acc.states[i]]
            state == EvaluateState(tree[n].type, states)
            promoted == [hit |-> s.hit, node |-> IF tree[n].parent = None THEN None ELSE n]
<1>1. acc.states \in ChildStates(n) /\ acc.state \in BOOLEAN /\ acc.samples \in SampleLists
  BY DEF Pass
<1>2. states \in ChildStates(n) /\ state \in BOOLEAN
  BY <1>1, EvaluateStateType DEF ChildStates
<1>3. promoted \in Listed(tree)
  BY DEF Listed, Nodes
<1>4. Append(acc.samples, s) \in SampleLists /\ Append(acc.samples, promoted) \in SampleLists
  <2>. HIDE DEF promoted
  <2>. QED  BY <1>1, <1>3 DEF SampleLists
<1>5. Passed(tree, n, acc, s) =
        IF \A i \in DOMAIN children : children[i] # s.node
        THEN [states |-> acc.states, state |-> acc.state, samples |-> Append(acc.samples, s)]
        ELSE [states |-> states, state |-> state,
              samples |-> IF state = acc.state THEN acc.samples ELSE Append(acc.samples, promoted)]
  BY DEF Passed
<1>. HIDE DEF states, state, promoted, children
<1>. QED  BY <1>1, <1>2, <1>4, <1>5 DEF Pass

\* What PassNode does, sample by sample.
PassesTo(pass, n, samples) ==
  /\ pass[0] = PassStart(n)
  /\ \A i \in 1 .. Len(samples) : pass[i] = Passed(tree, n, pass[i - 1], samples[i])
  /\ PassNode(tree, n, samples) = pass[Len(samples)].samples

LEMMA PassNodeDef ==
  ASSUME TreeShape, NEW n \in Nodes, NEW samples \in SampleLists
  PROVE  \E pass \in [0 .. Len(samples) -> Pass(n)] : PassesTo(pass, n, samples)
<1>. DEFINE K == Len(samples)
            V == Pass(n)
            step == [vi \in V \X (1 .. K) |-> Passed(tree, n, vi[1], samples[vi[2]])]
            Eq(g) == [i \in 0 .. K |-> IF i = 0 THEN PassStart(n) ELSE Passed(tree, n, g[i - 1], samples[i])]
<1>1. K \in Nat /\ \A i \in 1 .. K : samples[i] \in Listed(tree)
  BY DEF SampleLists
<1>2. PassStart(n) \in V
  BY EvaluateStateType DEF PassStart, Outside, Pass, ChildStates, SampleLists
<1>3. \A v \in V : \A i \in 1 .. K : Passed(tree, n, v, samples[i]) \in V
  BY <1>1, PassedType
<1>4. step \in [V \X (1 .. K) -> V]
  <2>. HIDE DEF V, K
  <2>. QED  BY <1>3
<1>5. PICK g \in [0 .. K -> V] : Turns(g, K, PassStart(n), step)
  <2>. HIDE DEF step, V, K
  <2>. QED  BY <1>1, <1>2, <1>4, Iteration
<1>6. \A i \in 0 .. K : g[i] = IF i = 0 THEN PassStart(n) ELSE Passed(tree, n, g[i - 1], samples[i])
  <2>1. ASSUME NEW i \in 1 .. K, NEW v \in V  PROVE step[<<v, i>>] = Passed(tree, n, v, samples[i])
    OBVIOUS
  <2>2. \A i \in 0 .. K : g[i] = IF i = 0 THEN PassStart(n) ELSE step[<<g[i - 1], i>>]
    BY <1>5 DEF Turns
  <2>3. ASSUME NEW i \in 1 .. K  PROVE g[i] = Passed(tree, n, g[i - 1], samples[i])
    <3>1. i \in 0 .. K /\ i # 0 /\ i - 1 \in 0 .. K
      BY <1>1
    <3>2. g[i - 1] \in V
      <4>. HIDE DEF V, K
      <4>. QED  BY <3>1
    <3>. HIDE DEF step, V, K
    <3>. QED  BY <2>1, <2>2, <3>1, <3>2
  <2>4. \A i \in 0 .. K : i = 0 \/ i \in 1 .. K
    BY <1>1
  <2>. HIDE DEF step, V, K
  <2>. QED  BY <2>2, <2>3, <2>4
<1>7. g = Eq(g)
  <2>. HIDE DEF V, K
  <2>. QED  BY <1>6
<1>. DEFINE pass == CHOOSE f : f = Eq(f)
<1>8. PassNode(tree, n, samples) = pass[K].samples
  BY DEF PassNode, PassStart, Outside
<1>9. pass = Eq(pass)
  <2>. HIDE DEF Eq
  <2>. QED  BY <1>7
<1>. HIDE DEF pass
<1>10. pass[0] = PassStart(n) /\ \A i \in 1 .. K : pass[i] = Passed(tree, n, pass[i - 1], samples[i])
  <2>. HIDE DEF K
  <2>. QED  BY <1>1, <1>9
<1>11. \A i \in 0 .. K : pass[i] \in V
  <2>. DEFINE S == {j \in Nat : j <= K => pass[j] \in V}
  <2>1. 0 \in S
    BY <1>2, <1>10
  <2>2. ASSUME NEW j \in Nat, j \in S  PROVE j + 1 \in S
    <3>1. CASE j + 1 <= K
      <4>1. j + 1 \in 1 .. K /\ j + 1 - 1 = j /\ j <= K
        BY <1>1, <3>1
      <4>. HIDE DEF V, K
      <4>. QED  BY <1>3, <1>10, <2>2, <4>1
    <3>. QED  BY <3>1
  <2>3. \A j \in Nat : j \in S
    <3>. HIDE DEF S
    <3>. QED  BY <2>1, <2>2, Steps
  <2>4. \A j \in 0 .. K : j \in Nat /\ j <= K
    BY <1>1
  <2>. HIDE DEF V, K
  <2>. QED  BY <2>3, <2>4
<1>12. pass \in [0 .. K -> V]
  <2>. HIDE DEF V, K
  <2>. QED  BY <1>1, <1>9, <1>11
<1>. QED  BY <1>8, <1>10, <1>12 DEF PassesTo

LEMMA PassNodeType ==
  ASSUME TreeShape, NEW n \in Nodes, NEW samples \in SampleLists
  PROVE  PassNode(tree, n, samples) \in SampleLists
<1>1. PICK pass \in [0 .. Len(samples) -> Pass(n)] : PassesTo(pass, n, samples)
  BY PassNodeDef
<1>2. Len(samples) \in 0 .. Len(samples)
  BY DEF SampleLists
<1>. QED  BY <1>1, <1>2 DEF PassesTo, Pass

Processes == [Nodes -> [SampleLists -> SampleLists]]

Childless(n) == tree[n].children = <<>>

\* What Below does, child by child.
GoesBelow(below, n, process, samples) ==
  /\ below[0] = samples
  /\ \A k \in 1 .. Len(tree[n].children) :
       LET c == tree[n].children[k]
       IN  below[k] = IF Childless(c) THEN below[k - 1] ELSE process[c][below[k - 1]]
  /\ Below(tree, n, process, samples) = below[Len(tree[n].children)]

LEMMA BelowDef ==
  ASSUME TreeShape, NEW n \in Nodes, NEW samples \in SampleLists, NEW process \in Processes
  PROVE  \E below \in [0 .. Len(tree[n].children) -> SampleLists] : GoesBelow(below, n, process, samples)
<1>. DEFINE children == tree[n].children
            K == Len(children)
            V == SampleLists
            Turn(v, k) == IF Childless(children[k]) THEN v ELSE process[children[k]][v]
            step == [vi \in V \X (1 .. K) |-> Turn(vi[1], vi[2])]
            Eq(g) == [i \in 0 .. K |-> IF i = 0 THEN samples ELSE Turn(g[i - 1], i)]
<1>1. K \in Nat /\ \A i \in 1 .. K : children[i] \in Nodes
  BY TreeFacts
<1>2. samples \in V
  OBVIOUS
<1>. HIDE DEF children
<1>3. \A v \in V : \A i \in 1 .. K : Turn(v, i) \in V
  BY <1>1 DEF Processes
<1>. HIDE DEF Turn
<1>4. step \in [V \X (1 .. K) -> V]
  <2>. HIDE DEF V, K
  <2>. QED  BY <1>3
<1>5. PICK g \in [0 .. K -> V] : Turns(g, K, samples, step)
  <2>. HIDE DEF step, V, K
  <2>. QED  BY <1>1, <1>2, <1>4, Iteration
<1>6. \A i \in 0 .. K : g[i] = IF i = 0 THEN samples ELSE Turn(g[i - 1], i)
  <2>1. ASSUME NEW i \in 1 .. K, NEW v \in V  PROVE step[<<v, i>>] = Turn(v, i)
    OBVIOUS
  <2>2. \A i \in 0 .. K : g[i] = IF i = 0 THEN samples ELSE step[<<g[i - 1], i>>]
    BY <1>5 DEF Turns
  <2>3. ASSUME NEW i \in 1 .. K  PROVE g[i] = Turn(g[i - 1], i)
    <3>1. i \in 0 .. K /\ i # 0 /\ i - 1 \in 0 .. K
      BY <1>1
    <3>2. g[i - 1] \in V
      <4>. HIDE DEF V, K
      <4>. QED  BY <3>1
    <3>. HIDE DEF step, V, K
    <3>. QED  BY <2>1, <2>2, <3>1, <3>2
  <2>4. \A i \in 0 .. K : i = 0 \/ i \in 1 .. K
    BY <1>1
  <2>. HIDE DEF step, V, K
  <2>. QED  BY <2>2, <2>3, <2>4
<1>7. g = Eq(g)
  <2>. HIDE DEF V, K
  <2>. QED  BY <1>6
<1>. DEFINE below == CHOOSE f : f = Eq(f)
<1>8. Below(tree, n, process, samples) = below[K]
  BY DEF Below, Turn, children, Childless
<1>9. below = Eq(below)
  <2>. HIDE DEF Eq
  <2>. QED  BY <1>7
<1>. HIDE DEF below
<1>10. below[0] = samples /\ \A i \in 1 .. K : below[i] = Turn(below[i - 1], i)
  <2>. HIDE DEF K
  <2>. QED  BY <1>1, <1>9
<1>11. \A i \in 0 .. K : below[i] \in V
  <2>. DEFINE S == {j \in Nat : j <= K => below[j] \in V}
  <2>1. 0 \in S
    BY <1>2, <1>10
  <2>2. ASSUME NEW j \in Nat, j \in S  PROVE j + 1 \in S
    <3>1. CASE j + 1 <= K
      <4>1. j + 1 \in 1 .. K /\ j + 1 - 1 = j /\ j <= K
        BY <1>1, <3>1
      <4>. HIDE DEF V, K
      <4>. QED  BY <1>3, <1>10, <2>2, <4>1
    <3>. QED  BY <3>1
  <2>3. \A j \in Nat : j \in S
    <3>. HIDE DEF S
    <3>. QED  BY <2>1, <2>2, Steps
  <2>4. \A j \in 0 .. K : j \in Nat /\ j <= K
    BY <1>1
  <2>. HIDE DEF V, K
  <2>. QED  BY <2>3, <2>4
<1>12. below \in [0 .. K -> V]
  <2>. HIDE DEF V, K
  <2>. QED  BY <1>1, <1>9, <1>11
<1>. QED  BY <1>8, <1>10, <1>12 DEF GoesBelow, Turn, children

LEMMA BelowType ==
  ASSUME TreeShape, NEW n \in Nodes, NEW samples \in SampleLists, NEW process \in Processes
  PROVE  Below(tree, n, process, samples) \in SampleLists
<1>1. PICK below \in [0 .. Len(tree[n].children) -> SampleLists] : GoesBelow(below, n, process, samples)
  BY BelowDef
<1>2. Len(tree[n].children) \in 0 .. Len(tree[n].children)
  BY TreeFacts
<1>. QED  BY <1>1, <1>2 DEF GoesBelow

LEMMA BelowAsksChildren ==
  ASSUME TreeShape, NEW n \in Nodes, NEW samples, NEW g, NEW h,
         \A c \in Children(n) : g[c] = h[c]
  PROVE  Below(tree, n, g, samples) = Below(tree, n, h, samples)
<1>. DEFINE children == tree[n].children
            K == Len(children)
            Turn(p, v, k) == IF Childless(children[k]) THEN v ELSE p[children[k]][v]
            Eq(p, f) == [i \in 0 .. K |-> IF i = 0 THEN samples ELSE Turn(p, f[i - 1], i)]
<1>1. \A p : Below(tree, n, p, samples) = (CHOOSE f : f = Eq(p, f))[K]
  BY DEF Below, Childless
<1>2. K \in Nat /\ \A i \in 1 .. K : g[children[i]] = h[children[i]]
  BY TreeFacts
<1>. HIDE DEF children, K
<1>3. \A f : \A i \in 0 .. K : i = 0 \/ Turn(g, f[i - 1], i) = Turn(h, f[i - 1], i)
  BY <1>2
<1>. HIDE DEF Turn
<1>4. \A f : Eq(g, f) = Eq(h, f)
  BY <1>3
<1>. HIDE DEF Eq
<1>5. (CHOOSE f : f = Eq(g, f)) = (CHOOSE f : f = Eq(h, f))
  BY <1>4
<1>. QED  BY <1>1, <1>5

LEMMA ProcessDef ==
  ASSUME TreeShape
  PROVE  /\ ProcessSampleList(tree) \in Processes
         /\ \A n \in Nodes : \A samples \in SampleLists :
              ProcessSampleList(tree)[n][samples]
                = PassNode(tree, n, Below(tree, n, ProcessSampleList(tree), samples))
<1>. DEFINE V == [SampleLists -> SampleLists]
            At(g, n) == [samples \in SampleLists |-> PassNode(tree, n, Below(tree, n, g, samples))]
            F == [gn \in [Nodes -> V] \X Nodes |-> At(gn[1], gn[2])]
            Eq(g) == [n \in Nodes |-> At(g, n)]
<1>1. ASSUME NEW g \in [Nodes -> V], NEW n \in Nodes  PROVE At(g, n) \in V
  BY BelowType, PassNodeType DEF Processes
<1>2. F \in [[Nodes -> V] \X Nodes -> V]
  <2>. HIDE DEF V, At
  <2>. QED  BY <1>1
<1>3. [samples \in SampleLists |-> samples] \in V
  OBVIOUS
<1>4. ASSUME NEW g \in [Nodes -> V], NEW h \in [Nodes -> V], NEW n \in Nodes,
             \A c \in Children(n) : g[c] = h[c]
      PROVE  F[<<g, n>>] = F[<<h, n>>]
  <2>1. \A samples : Below(tree, n, g, samples) = Below(tree, n, h, samples)
    <3>. HIDE DEF V
    <3>. QED  BY <1>4, BelowAsksChildren
  <2>2. At(g, n) = At(h, n)
    BY <2>1
  <2>. HIDE DEF At, V
  <2>. QED  BY <2>2
<1>5. PICK g \in [Nodes -> V] : Solves(g, F, Nodes)
  <2>1. FromBelow(F, V)
    <3>. HIDE DEF F, V
    <3>. QED  BY <1>4 DEF FromBelow
  <2>. HIDE DEF F, V
  <2>. QED  BY <1>2, <1>3, <2>1, FromChildren
<1>6. g = Eq(g)
  <2>1. \A n \in Nodes : g[n] = At(g, n)
    <3>. HIDE DEF At, V
    <3>. QED  BY <1>5 DEF Solves
  <2>. HIDE DEF At, V
  <2>. QED  BY <2>1
<1>. DEFINE P == ProcessSampleList(tree)
<1>7. P = Eq(P)
  <2>1. P = CHOOSE f : f = Eq(f)
    BY DEF ProcessSampleList, Nodes, SampleLists
  <2>. HIDE DEF Eq, P
  <2>. QED  BY <1>6, <2>1
<1>. HIDE DEF P
<1>8. \A n \in Nodes : P[n] = At(P, n)
  <2>. HIDE DEF At
  <2>. QED  BY <1>7
<1>. DEFINE S == {n \in Nodes : P[n] \in V}
<1>9. ASSUME NEW n \in Nodes, \A y \in Nodes : FromLast[y] < FromLast[n] => y \in S
      PROVE  n \in S
  <2>. DEFINE q == [m \in Nodes |-> IF P[m] \in V THEN P[m] ELSE [samples \in SampleLists |-> samples]]
  <2>1. q \in [Nodes -> V]
    <3>. HIDE DEF V
    <3>. QED  BY <1>3
  <2>2. \A c \in Children(n) : q[c] = P[c]
    <3>1. \A c \in Children(n) : c \in Nodes /\ FromLast[c] < FromLast[n]
      BY FromLastFacts
    <3>. HIDE DEF V
    <3>. QED  BY <1>9, <3>1
  <2>. HIDE DEF q
  <2>3. \A samples : Below(tree, n, q, samples) = Below(tree, n, P, samples)
    BY <2>2, BelowAsksChildren
  <2>4. At(P, n) = At(q, n)
    BY <2>3
  <2>. HIDE DEF At, V
  <2>. QED  BY <1>1, <1>8, <2>1, <2>4
<1>10. \A n \in Nodes : n \in S
  <2>. HIDE DEF S
  <2>. QED  BY <1>9, FromLastFacts, Descent
<1>11. P \in [Nodes -> V]
  <2>1. P = [n \in Nodes |-> P[n]]
    BY <1>7
  <2>. HIDE DEF V
  <2>. QED  BY <1>10, <2>1
<1>12. \A n \in Nodes : \A samples \in SampleLists : P[n][samples] = PassNode(tree, n, Below(tree, n, P, samples))
  BY <1>8
<1>. QED  BY <1>11, <1>12 DEF P, Processes

-----------------------------------------------------------------------------
(* What lies in a node. *)

Under(n) == {d \in Nodes : d # n /\ n \in Above[d]}

\* A property of nodes that they have if their parents have it.
LEMMA FromTop ==
  ASSUME TreeShape, NEW S,
         \A d \in Nodes : (tree[d].parent # None => tree[d].parent \in S) => d \in S
  PROVE  \A d \in Nodes : d \in S
<1>. DEFINE rank == [n \in Nodes |-> n]
<1>1. rank \in [Nodes -> Nat]
  BY TreeFacts
<1>2. ASSUME NEW d \in Nodes, \A y \in Nodes : rank[y] < rank[d] => y \in S
      PROVE  d \in S
  BY <1>2, TreeFacts
<1>. HIDE DEF rank
<1>. QED  BY <1>1, <1>2, Descent

LEMMA AboveFacts ==
  ASSUME TreeShape
  PROVE  \A d \in Nodes : /\ Above[d] \subseteq Nodes
                          /\ d \in Above[d]
                          /\ \A n \in Above[d] : n <= d
<1>. DEFINE S == {d \in Nodes : Above[d] \subseteq Nodes /\ d \in Above[d] /\ \A n \in Above[d] : n <= d}
<1>1. ASSUME NEW d \in Nodes, tree[d].parent # None => tree[d].parent \in S
      PROVE  d \in S
  <2>1. CASE tree[d].parent = None
    <3>1. Above[d] = {d} /\ d \in Nat
      BY <2>1, AboveDef, TreeFacts
    <3>. QED  BY <3>1
  <2>2. CASE tree[d].parent # None
    <3>. DEFINE p == tree[d].parent
    <3>1. Above[d] = {d} \cup Above[p] /\ p \in S /\ p < d /\ p \in Nat /\ d \in Nat
      BY <1>1, <2>2, AboveDef, TreeFacts
    <3>2. \A n \in Above[p] : n \in Nodes /\ n \in Nat /\ n <= p
      BY <3>1, TreeFacts
    <3>. HIDE DEF p
    <3>3. \A n \in Above[d] : n <= d
      BY <3>1, <3>2
    <3>. QED  BY <3>1, <3>2, <3>3
  <2>. QED  BY <2>1, <2>2
<1>2. \A d \in Nodes : d \in S
  <2>. HIDE DEF S
  <2>. QED  BY <1>1, FromTop
<1>. QED  BY <1>2

LEMMA UnderFacts ==
  ASSUME TreeShape, NEW n \in Nodes
  PROVE  \A d \in Under(n) : /\ d \in Nodes /\ n < d
                             /\ tree[d].parent = n \/ tree[d].parent \in Under(n)
<1>1. ASSUME NEW d \in Under(n)
      PROVE  /\ d \in Nodes /\ n < d
             /\ tree[d].parent = n \/ tree[d].parent \in Under(n)
  <2>1. d \in Nodes /\ d # n /\ n \in Above[d] /\ n <= d /\ n \in Nat /\ d \in Nat
    BY AboveFacts, TreeFacts DEF Under
  <2>2. tree[d].parent # None /\ n \in Above[tree[d].parent] /\ tree[d].parent \in Nodes
    <3>1. Above[d] = IF tree[d].parent = None THEN {d} ELSE {d} \cup Above[tree[d].parent]
      BY <2>1, AboveDef
    <3>2. tree[d].parent # None
      BY <2>1, <3>1
    <3>. QED  BY <2>1, <3>1, <3>2, TreeFacts
  <2>. QED  BY <2>1, <2>2 DEF Under
<1>. QED  BY <1>1

\* What lies in a node are its children and what lies in these.
LEMMA UnderChildren ==
  ASSUME TreeShape, NEW n \in Nodes
  PROVE  \A d : d \in Under(n) <=> d \in Children(n) \/ \E c \in Children(n) : d \in Under(c)
<1>. DEFINE Rest(d) == d \in Children(n) \/ \E c \in Children(n) : d \in Under(c)
            S == {d \in Nodes : d \in Under(n) => Rest(d)}
<1>1. ASSUME NEW d \in Nodes, tree[d].parent # None => tree[d].parent \in S
      PROVE  d \in S
  <2>. SUFFICES ASSUME d \in Under(n)  PROVE Rest(d)
    OBVIOUS
  <2>. DEFINE p == tree[d].parent
  <2>1. p # None /\ p \in Nodes /\ p < d /\ p \in Nat /\ d \in Nat
    BY UnderFacts, TreeFacts
  <2>2. CASE p = n
    <3>1. d \in Children(n)
      BY <2>1, <2>2 DEF TreeShape
    <3>. QED  BY <3>1
  <2>3. CASE p \in Under(n)
    <3>1. Rest(p)
      BY <1>1, <2>1, <2>3
    <3>2. d \in Children(p)
      BY <2>1 DEF TreeShape
    <3>3. Above[d] = {d} \cup Above[p] /\ p \in Above[p]
      BY <2>1, AboveDef, AboveFacts
    <3>4. CASE p \in Children(n)
      <4>1. d \in Under(p)
        BY <2>1, <3>3 DEF Under
      <4>. QED  BY <3>4, <4>1
    <3>5. ASSUME NEW c \in Children(n), p \in Under(c)  PROVE Rest(d)
      <4>1. c \in Nodes /\ c < p /\ c \in Nat
        BY <3>5, UnderFacts, TreeFacts
      <4>2. d # c
        BY <2>1, <4>1
      <4>3. d \in Under(c)
        BY <3>3, <3>5, <4>2 DEF Under
      <4>. QED  BY <4>3
    <3>. QED  BY <3>1, <3>4, <3>5
  <2>. QED  BY <2>2, <2>3, UnderFacts
<1>2. \A d \in Nodes : d \in S
  <2>. HIDE DEF S
  <2>. QED  BY <1>1, FromTop
<1>3. ASSUME NEW d, d \in Under(n)  PROVE Rest(d)
  BY <1>2, <1>3 DEF Under
<1>4. ASSUME NEW c \in Children(n)  PROVE c \in Under(n)
  <2>1. c \in Nodes /\ tree[c].parent = n /\ n < c /\ n \in Nat /\ c \in Nat /\ n # None
    BY TreeFacts
  <2>2. n \in Above[n] /\ Above[c] = {c} \cup Above[n]
    BY <2>1, AboveDef, AboveFacts
  <2>. QED  BY <2>1, <2>2 DEF Under
<1>5. ASSUME NEW c \in Children(n)  PROVE \A d \in Under(c) : d \in Under(n)
  <2>. DEFINE T == {d \in Nodes : d \in Under(c) => n \in Above[d]}
  <2>1. c \in Nodes /\ n \in Above[c] /\ n < c /\ n \in Nat /\ c \in Nat
    BY <1>4, TreeFacts DEF Under
  <2>2. ASSUME NEW d \in Nodes, tree[d].parent # None => tree[d].parent \in T
        PROVE  d \in T
    <3>. SUFFICES ASSUME d \in Under(c)  PROVE n \in Above[d]
      OBVIOUS
    <3>1. tree[d].parent # None /\ (tree[d].parent = c \/ tree[d].parent \in Under(c))
      BY <2>1, UnderFacts, TreeFacts
    <3>2. n \in Above[tree[d].parent]
      BY <2>1, <2>2, <3>1
    <3>. QED  BY <3>1, <3>2, AboveDef
  <2>3. \A d \in Nodes : d \in T
    <3>. HIDE DEF T
    <3>. QED  BY <2>2, FromTop
  <2>4. ASSUME NEW d \in Under(c)  PROVE d \in Under(n)
    <3>1. d \in Nodes /\ c < d /\ d \in Nat
      BY <2>1, UnderFacts, TreeFacts
    <3>2. d # n
      BY <2>1, <3>1
    <3>. QED  BY <2>3, <3>1, <3>2 DEF Under
  <2>. QED  BY <2>4
<1>. QED  BY <1>3, <1>4, <1>5

\* No node lies in two siblings, or in one of them and is one of them.
LEMMA SiblingsApart ==
  ASSUME TreeShape, NEW n \in Nodes, NEW a \in Children(n), NEW b \in Children(n)
  PROVE  /\ a \notin Under(b)
         /\ a # b => \A d \in Under(a) : d \notin Under(b)
<1>0. a \in Nodes /\ b \in Nodes /\ tree[a].parent = n /\ tree[b].parent = n /\ n < a /\ n < b
      /\ n \in Nat /\ a \in Nat /\ b \in Nat /\ n # None
  BY TreeFacts
<1>1. ASSUME NEW c \in Children(n), NEW e \in Children(n), c \in Under(e)  PROVE FALSE
  <2>1. c \in Nodes /\ e \in Nodes /\ tree[c].parent = n /\ n < e /\ e \in Nat
    BY TreeFacts
  <2>2. n = e \/ n \in Under(e)
    BY <1>1, <2>1, UnderFacts
  <2>3. n # e
    BY <1>0, <2>1
  <2>4. e < n
    BY <2>1, <2>2, <2>3, UnderFacts
  <2>. QED  BY <1>0, <2>1, <2>4
<1>2. ASSUME a # b  PROVE \A d \in Under(a) : d \notin Under(b)
  <2>. DEFINE S == {d \in Nodes : ~(d \in Under(a) /\ d \in Under(b))}
  <2>1. ASSUME NEW d \in Nodes, tree[d].parent # None => tree[d].parent \in S
        PROVE  d \in S
    <3>. SUFFICES ASSUME d \in Under(a), d \in Under(b)  PROVE FALSE
      OBVIOUS
    <3>. DEFINE p == tree[d].parent
    <3>1. p = a \/ p \in Under(a)
      BY <1>0, UnderFacts
    <3>2. p = b \/ p \in Under(b)
      BY <1>0, UnderFacts
    <3>3. p # None
      BY <1>0, <3>1, UnderFacts, TreeFacts
    <3>4. ~(p = a /\ p \in Under(b)) /\ ~(p = b /\ p \in Under(a)) /\ ~(p = a /\ p = b)
      BY <1>1, <1>2
    <3>. QED  BY <2>1, <3>1, <3>2, <3>3, <3>4
  <2>2. \A d \in Nodes : d \in S
    <3>. HIDE DEF S
    <3>. QED  BY <2>1, FromTop
  <2>. QED  BY <1>0, <2>2, UnderFacts
<1>. QED  BY <1>1, <1>2

\* The tree of a root.
LEMMA UnderRoot ==
  ASSUME TreeShape, NEW r \in Nodes, tree[r].parent = None
  PROVE  \A d \in Nodes : d = r \/ d \in Under(r) <=> Roots(tree)[d] = r
<1>. DEFINE S == {d \in Nodes : r \in Above[d] <=> Roots(tree)[d] = r}
<1>1. ASSUME NEW d \in Nodes, tree[d].parent # None => tree[d].parent \in S
      PROVE  d \in S
  <2>1. CASE tree[d].parent = None
    BY <2>1, AboveDef, RootsDef
  <2>2. CASE tree[d].parent # None
    <3>1. d # r
      BY <2>2
    <3>2. Above[d] = {d} \cup Above[tree[d].parent] /\ Roots(tree)[d] = Roots(tree)[tree[d].parent]
      BY <2>2, AboveDef, RootsDef
    <3>. QED  BY <1>1, <2>2, <3>1, <3>2
  <2>. QED  BY <2>1, <2>2
<1>2. \A d \in Nodes : d \in S
  <2>. HIDE DEF S
  <2>. QED  BY <1>1, FromTop
<1>3. \A d \in Nodes : d = r \/ d \in Under(r) <=> r \in Above[d]
  BY AboveFacts DEF Under
<1>. QED  BY <1>2, <1>3

LEMMA RootFacts ==
  ASSUME TreeShape
  PROVE  \A d \in Nodes : /\ Roots(tree)[d] \in Nodes
                          /\ tree[Roots(tree)[d]].parent = None
                          /\ Childless(Roots(tree)[d]) => Roots(tree)[d] = d
<1>. DEFINE S == {d \in Nodes : tree[Roots(tree)[d]].parent = None}
<1>1. ASSUME NEW d \in Nodes, tree[d].parent # None => tree[d].parent \in S
      PROVE  d \in S
  BY <1>1, RootsDef
<1>2. \A d \in Nodes : d \in S
  <2>. HIDE DEF S
  <2>. QED  BY <1>1, FromTop
<1>3. ASSUME NEW d \in Nodes, Childless(Roots(tree)[d])  PROVE Roots(tree)[d] = d
  <2>. DEFINE r == Roots(tree)[d]
  <2>1. r \in Nodes /\ tree[r].parent = None
    BY <1>2, RootsDef
  <2>2. Children(r) = {}
    BY <1>3 DEF Childless, Children
  <2>3. d = r \/ d \in Under(r)
    <3>. HIDE DEF r
    <3>1. d = r \/ d \in Under(r) <=> Roots(tree)[d] = r
      BY <2>1, UnderRoot
    <3>. QED  BY <3>1 DEF r
  <2>. QED  BY <2>1, <2>2, <2>3, UnderChildren
<1>. QED  BY <1>2, <1>3, RootsDef

-----------------------------------------------------------------------------
(* Where the ray is within a node, wall by wall of the hits s. *)

Walked(s) == s \in Seq(Hits)

\* The walls of the primitives themselves, and those of a node.
Own(s, n) == {m \in 1 .. Len(s) : owner[s[m].id] = n}
Flips(s, n) == {m \in 1 .. Len(s) : Within(s, m)[n] # Within(s, m - 1)[n]}

WithinChildren(s, n, m) == [i \in DOMAIN tree[n].children |-> Within(s, m)[tree[n].children[i]]]

Operation(n) == n \in Nodes /\ tree[n].type # "primitive" /\ ~Childless(n)

LEMMA WithinMeans ==
  ASSUME TreeShape, NEW s, NEW m, NEW n \in Nodes
  PROVE  /\ Within(s, m)[n] \in BOOLEAN
         /\ Within(s, m)[n] <=> WithinOf(s, m, Within(s, m), n)
BY WithinDef

\* An operation asks for its children as EvaluateState does.
LEMMA WithinOperation ==
  ASSUME TreeShape, NEW s, NEW m, NEW n, Operation(n)
  PROVE  /\ WithinChildren(s, n, m) \in ChildStates(n)
         /\ Within(s, m)[n] = EvaluateState(tree[n].type, WithinChildren(s, n, m))
<1>. DEFINE states == WithinChildren(s, n, m)
            children == tree[n].children
            type == tree[n].type
<1>1. n \in Nodes /\ type \in Operations /\ children # <<>>
  BY TreeFacts DEF Operation, Childless, NodeTypes
<1>2. states \in ChildStates(n) /\ \A i \in DOMAIN children : /\ states[i] = Within(s, m)[children[i]]
                                                             /\ states[i] \in BOOLEAN
  BY <1>1, WithinDef, TreeFacts DEF WithinChildren, ChildStates
<1>3. 1 \in DOMAIN children /\ DOMAIN states = DOMAIN children
  BY <1>1, TreeFacts DEF WithinChildren
<1>4. Within(s, m)[n] \in BOOLEAN /\ (Within(s, m)[n] <=> WithinOf(s, m, Within(s, m), n))
  BY <1>1, WithinMeans
<1>5. EvaluateState(type, states) \in BOOLEAN
  BY EvaluateStateType
<1>. DEFINE w == Within(s, m)
<1>. HIDE DEF states, w
<1>6. ASSUME type = "union"
      PROVE  WithinOf(s, m, w, n) <=> EvaluateState(type, states)
  <2>1. WithinOf(s, m, w, n) <=> \E i \in DOMAIN children : w[children[i]]
    BY <1>6 DEF WithinOf
  <2>2. EvaluateState(type, states) <=> \E i \in DOMAIN states : states[i]
    BY <1>6 DEF EvaluateState
  <2>. QED  BY <1>2, <1>3, <2>1, <2>2 DEF w
<1>7. ASSUME type = "intersection"
      PROVE  WithinOf(s, m, w, n) <=> EvaluateState(type, states)
  <2>1. WithinOf(s, m, w, n) <=> \A i \in DOMAIN children : w[children[i]]
    BY <1>1, <1>7 DEF WithinOf
  <2>2. EvaluateState(type, states) <=> \A i \in DOMAIN states : states[i]
    BY <1>7 DEF EvaluateState
  <2>. QED  BY <1>2, <1>3, <2>1, <2>2 DEF w
<1>8. ASSUME type = "difference"
      PROVE  WithinOf(s, m, w, n) <=> EvaluateState(type, states)
  <2>1. WithinOf(s, m, w, n) <=> \A i \in DOMAIN children : w[children[i]] = (i = 1)
    BY <1>1, <1>8 DEF WithinOf
  <2>2. EvaluateState(type, states) <=> states[1] /\ \A i \in DOMAIN states \ {1} : ~states[i]
    BY <1>8 DEF EvaluateState
  <2>3. \A i \in DOMAIN children : (w[children[i]] = (i = 1)) <=> (IF i = 1 THEN states[i] ELSE ~states[i])
    BY <1>2 DEF w
  <2>. QED  BY <1>3, <2>1, <2>2, <2>3
<1>9. WithinOf(s, m, w, n) <=> EvaluateState(type, states)
  BY <1>1, <1>6, <1>7, <1>8 DEF Operations
<1>10. Within(s, m)[n] = EvaluateState(type, states)
  <2>. HIDE DEF type
  <2>. QED  BY <1>4, <1>5, <1>9 DEF w
<1>. QED  BY <1>2, <1>10 DEF states

LEMMA WithinPrimitive ==
  ASSUME TreeShape, NEW s, NEW m, NEW n \in Nodes, tree[n].type = "primitive"
  PROVE  Within(s, m)[n] <=> Cardinality({i \in 1 .. m : owner[s[i].id] = n}) % 2 = 1
<1>1. WithinOf(s, m, Within(s, m), n) <=> Cardinality({i \in 1 .. m : owner[s[i].id] = n}) % 2 = 1
  BY DEF WithinOf
<1>. QED  BY <1>1, WithinMeans

\* Nothing is within an operation without children.
LEMMA WithinNothing ==
  ASSUME TreeShape, NEW s, NEW m, NEW n \in Nodes, tree[n].type # "primitive", Childless(n)
  PROVE  Within(s, m)[n] = FALSE
<1>1. ~WithinOf(s, m, Within(s, m), n)
  BY DEF WithinOf, Childless
<1>. QED  BY <1>1, WithinMeans

\* The ray begins outside of everything.
LEMMA WithinAtFirst ==
  ASSUME TreeShape, NEW s
  PROVE  \A n \in Nodes : Within(s, 0)[n] = FALSE
<1>. DEFINE S == {n \in Nodes : Within(s, 0)[n] = FALSE}
<1>1. ASSUME NEW n \in Nodes, \A y \in Nodes : FromLast[y] < FromLast[n] => y \in S
      PROVE  n \in S
  <2>1. CASE tree[n].type = "primitive"
    <3>1. {i \in 1 .. 0 : owner[s[i].id] = n} = {}
      OBVIOUS
    <3>2. Cardinality({}) % 2 # 1
      BY FS_EmptySet
    <3>3. ~(Within(s, 0)[n])
      BY <2>1, <3>1, <3>2, WithinPrimitive
    <3>. QED  BY <3>3, WithinMeans
  <2>2. CASE Operation(n)
    <3>1. \A i \in DOMAIN tree[n].children : WithinChildren(s, n, 0)[i] = FALSE
      BY <1>1, FromLastFacts, TreeFacts DEF WithinChildren
    <3>2. 1 \in DOMAIN tree[n].children /\ DOMAIN WithinChildren(s, n, 0) = DOMAIN tree[n].children
      BY <2>2, TreeFacts DEF WithinChildren, Operation, Childless
    <3>3. EvaluateState(tree[n].type, WithinChildren(s, n, 0)) = FALSE
      BY <3>1, <3>2, EvaluateStateType DEF EvaluateState
    <3>. QED  BY <2>2, <3>3, WithinOperation
  <2>3. CASE tree[n].type # "primitive" /\ Childless(n)
    BY <2>3, WithinNothing
  <2>. QED  BY <2>1, <2>2, <2>3 DEF Operation
<1>2. \A n \in Nodes : n \in S
  <2>. HIDE DEF S
  <2>. QED  BY <1>1, FromLastFacts, Descent
<1>. QED  BY <1>2

\* Between two walls of a node nothing changes.
LEMMA WithinBetween ==
  ASSUME TreeShape, NEW s, Walked(s), NEW n \in Nodes, NEW i \in Nat, NEW j \in Nat, i <= j, j <= Len(s),
         \A m \in Flips(s, n) : ~(i < m /\ m <= j)
  PROVE  Within(s, j)[n] = Within(s, i)[n]
<1>. DEFINE S == {k \in Nat : i <= k /\ k <= j => Within(s, k)[n] = Within(s, i)[n]}
<1>0. Len(s) \in Nat
  BY DEF Walked
<1>1. 0 \in S
  OBVIOUS
<1>2. ASSUME NEW k \in Nat, k \in S  PROVE k + 1 \in S
  <2>. SUFFICES ASSUME i <= k + 1, k + 1 <= j  PROVE Within(s, k + 1)[n] = Within(s, i)[n]
    OBVIOUS
  <2>1. CASE i = k + 1
    BY <2>1
  <2>2. CASE i <= k
    <3>1. k + 1 \in 1 .. Len(s) /\ i < k + 1 /\ k + 1 - 1 = k
      BY <1>0, <2>2
    <3>2. k + 1 \notin Flips(s, n)
      BY <3>1
    <3>3. Within(s, k + 1)[n] = Within(s, k + 1 - 1)[n]
      BY <3>1, <3>2 DEF Flips
    <3>. QED  BY <1>2, <2>2, <3>1, <3>3
  <2>. QED  BY <2>1, <2>2
<1>3. \A k \in Nat : k \in S
  <2>. HIDE DEF S
  <2>. QED  BY <1>1, <1>2, Steps
<1>. QED  BY <1>3

LEMMA FlipsOfPrimitive ==
  ASSUME TreeShape, NEW s, Walked(s), NEW n \in Nodes, tree[n].type = "primitive"
  PROVE  Flips(s, n) = Own(s, n)
<1>. DEFINE C(m) == {i \in 1 .. m : owner[s[i].id] = n}
<1>0. Len(s) \in Nat
  BY DEF Walked
<1>1. ASSUME NEW m \in 1 .. Len(s)  PROVE (Within(s, m)[n] # Within(s, m - 1)[n]) <=> owner[s[m].id] = n
  <2>0. m \in Nat /\ m >= 1 /\ m - 1 \in Nat
    BY <1>0
  <2>1. IsFiniteSet(C(m - 1)) /\ Cardinality(C(m - 1)) \in Nat
    <3>1. IsFiniteSet(1 .. m - 1)
      BY <2>0, FS_Interval
    <3>2. C(m - 1) \subseteq 1 .. m - 1
      OBVIOUS
    <3>. HIDE DEF C
    <3>. QED  BY <3>1, <3>2, FS_Subset, FS_CardinalityType
  <2>2. /\ Within(s, m)[n] = (Cardinality(C(m)) % 2 = 1)
        /\ Within(s, m - 1)[n] = (Cardinality(C(m - 1)) % 2 = 1)
    <3>1. \A k : Within(s, k)[n] \in BOOLEAN /\ (Within(s, k)[n] <=> Cardinality(C(k)) % 2 = 1)
      BY WithinMeans, WithinPrimitive
    <3>. HIDE DEF C
    <3>. QED  BY <3>1
  <2>3. CASE owner[s[m].id] = n
    <3>1. C(m) = C(m - 1) \cup {m} /\ m \notin C(m - 1)
      BY <2>0, <2>3
    <3>2. Cardinality(C(m)) = Cardinality(C(m - 1)) + 1
      <4>. HIDE DEF C
      <4>. QED  BY <2>1, <3>1, FS_AddElement
    <3>3. (Cardinality(C(m)) % 2 = 1) # (Cardinality(C(m - 1)) % 2 = 1)
      <4>. DEFINE x == Cardinality(C(m - 1))
                  y == Cardinality(C(m))
      <4>1. x \in Nat /\ y = x + 1
        BY <2>1, <3>2
      <4>. HIDE DEF x, y
      <4>2. (y % 2 = 1) # (x % 2 = 1)
        BY <4>1
      <4>. QED  BY <4>2 DEF x, y
    <3>. QED  BY <2>3, <2>2, <3>3
  <2>4. CASE owner[s[m].id] # n
    <3>1. C(m) = C(m - 1)
      BY <2>0, <2>4
    <3>. QED  BY <2>4, <2>2, <3>1
  <2>. QED  BY <2>3, <2>4
<1>. QED  BY <1>1 DEF Flips, Own

LEMMA FlipsOfNothing ==
  ASSUME TreeShape, NEW s, NEW n \in Nodes, tree[n].type # "primitive", Childless(n)
  PROVE  Flips(s, n) = {}
BY WithinNothing DEF Flips

\* A wall of an operation is one of a child.
LEMMA FlipsOfOperation ==
  ASSUME TreeShape, NEW s, NEW n, Operation(n)
  PROVE  \A m \in Flips(s, n) : \E c \in Children(n) : m \in Flips(s, c)
<1>. SUFFICES ASSUME NEW m \in 1 .. Len(s), \A c \in Children(n) : m \notin Flips(s, c)
              PROVE  Within(s, m)[n] = Within(s, m - 1)[n]
  BY DEF Flips
<1>1. \A c \in Children(n) : Within(s, m)[c] = Within(s, m - 1)[c]
  BY DEF Flips
<1>2. WithinChildren(s, n, m) = WithinChildren(s, n, m - 1)
  BY <1>1, TreeFacts DEF WithinChildren, Operation
<1>. QED  BY <1>2, WithinOperation

-----------------------------------------------------------------------------
(* Lists of samples along the ray. *)

\* Hits along the ray, and the place of one of them.
Along(s) == Walked(s) /\ \A i, j \in DOMAIN s : s[i] = s[j] => i = j
Place(s, h) == CHOOSE i \in DOMAIN s : s[i] = h

\* A list of samples of some of these hits, in their order.
InPlaces(s, L) ==
  /\ L \in SampleLists
  /\ \A k \in DOMAIN L : L[k].hit \in Range(s)
  /\ \A j, k \in DOMAIN L : j < k => Place(s, L[j].hit) < Place(s, L[k].hit)

Of(L, c) == {e \in Range(L) : e.node = c}
Marked(s, M, x) == {[hit |-> s[m], node |-> x] : m \in M}

LEMMA PlaceFacts ==
  ASSUME NEW s, Along(s)
  PROVE  /\ DOMAIN s = 1 .. Len(s) /\ Len(s) \in Nat
         /\ \A i \in DOMAIN s : Place(s, s[i]) = i /\ s[i] \in Hits
         /\ \A h \in Range(s) : Place(s, h) \in DOMAIN s /\ s[Place(s, h)] = h
<1>1. DOMAIN s = 1 .. Len(s) /\ Len(s) \in Nat /\ \A i \in DOMAIN s : s[i] \in Hits
  BY DEF Along, Walked
<1>2. ASSUME NEW h, NEW i \in DOMAIN s, s[i] = h  PROVE Place(s, h) \in DOMAIN s /\ s[Place(s, h)] = h
  BY <1>2 DEF Place
<1>3. \A i \in DOMAIN s : Place(s, s[i]) = i
  BY <1>2 DEF Along
<1>4. \A h \in Range(s) : \E i \in DOMAIN s : s[i] = h
  BY DEF Range
<1>. QED  BY <1>1, <1>2, <1>3, <1>4

LEMMA ListFacts ==
  ASSUME NEW s, Along(s), NEW L, InPlaces(s, L)
  PROVE  /\ DOMAIN L = 1 .. Len(L) /\ Len(L) \in Nat
         /\ \A k \in DOMAIN L : /\ L[k] \in Listed(tree) /\ L[k] \in Range(L)
                                /\ L[k] = [hit |-> L[k].hit, node |-> L[k].node]
                                /\ Place(s, L[k].hit) \in 1 .. Len(s)
                                /\ s[Place(s, L[k].hit)] = L[k].hit
         /\ \A j, k \in DOMAIN L : Place(s, L[j].hit) < Place(s, L[k].hit) <=> j < k
<1>1. DOMAIN L = 1 .. Len(L) /\ Len(L) \in Nat /\ \A k \in DOMAIN L : L[k] \in Listed(tree) /\ L[k] \in Range(L)
  BY DEF InPlaces, SampleLists, Range
<1>2. \A e \in Listed(tree) : e = [hit |-> e.hit, node |-> e.node]
  BY DEF Listed
<1>3. \A k \in DOMAIN L : Place(s, L[k].hit) \in 1 .. Len(s) /\ s[Place(s, L[k].hit)] = L[k].hit
  BY PlaceFacts DEF InPlaces
<1>4. ASSUME NEW j \in DOMAIN L, NEW k \in DOMAIN L
      PROVE  Place(s, L[j].hit) < Place(s, L[k].hit) <=> j < k
  <2>. DEFINE x == Place(s, L[j].hit)
              y == Place(s, L[k].hit)
  <2>1. x \in Nat /\ y \in Nat /\ j \in Nat /\ k \in Nat
    BY <1>1, <1>3, PlaceFacts
  <2>2. (j < k => x < y) /\ (k < j => y < x) /\ (j = k => x = y)
    BY DEF InPlaces
  <2>. HIDE DEF x, y
  <2>3. x < y <=> j < k
    BY <2>1, <2>2
  <2>. QED  BY <2>3 DEF x, y
<1>. QED  BY <1>1, <1>2, <1>3, <1>4

LEMMA AppendInPlace ==
  ASSUME NEW s, NEW A, InPlaces(s, A), NEW x \in Listed(tree), x.hit \in Range(s),
         \A j \in DOMAIN A : Place(s, A[j].hit) < Place(s, x.hit)
  PROVE  /\ InPlaces(s, Append(A, x))
         /\ Range(Append(A, x)) = Range(A) \cup {x}
         /\ \A j \in DOMAIN Append(A, x) : Append(A, x)[j].hit = x.hit \/ \E k \in DOMAIN A : Append(A, x)[j] = A[k]
<1>. DEFINE B == Append(A, x)
            N == Len(A)
<1>1. A \in Seq(Listed(tree)) /\ N \in Nat /\ DOMAIN A = 1 .. N
  BY DEF InPlaces, SampleLists
<1>2. B \in Seq(Listed(tree)) /\ DOMAIN B = 1 .. N + 1 /\ B[N + 1] = x /\ \A j \in 1 .. N : B[j] = A[j]
  BY <1>1
<1>3. \A j \in DOMAIN B : j = N + 1 \/ j \in DOMAIN A
  BY <1>1, <1>2
<1>. HIDE DEF B
<1>4. \A k \in DOMAIN B : B[k].hit \in Range(s)
  BY <1>1, <1>2, <1>3 DEF InPlaces
<1>5. ASSUME NEW j \in DOMAIN B, NEW k \in DOMAIN B, j < k
      PROVE  Place(s, B[j].hit) < Place(s, B[k].hit)
  <2>1. j \in DOMAIN A
    BY <1>1, <1>2, <1>3, <1>5
  <2>2. CASE k = N + 1
    BY <1>1, <1>2, <2>1, <2>2
  <2>3. CASE k \in DOMAIN A
    BY <1>1, <1>2, <1>5, <2>1, <2>3 DEF InPlaces
  <2>. QED  BY <1>3, <2>2, <2>3
<1>6. InPlaces(s, B)
  BY <1>2, <1>4, <1>5 DEF InPlaces, SampleLists
<1>7. Range(B) = Range(A) \cup {x}
  <2>1. \A y : y \in Range(B) <=> \E j \in DOMAIN B : y = B[j]
    BY DEF Range
  <2>2. \A y : y \in Range(A) <=> \E j \in DOMAIN A : y = A[j]
    BY DEF Range
  <2>3. N + 1 \in DOMAIN B /\ \A j \in DOMAIN A : j \in DOMAIN B /\ B[j] = A[j]
    BY <1>1, <1>2
  <2>. QED  BY <1>2, <1>3, <2>1, <2>2, <2>3
<1>8. \A j \in DOMAIN B : B[j].hit = x.hit \/ \E k \in DOMAIN A : B[j] = A[k]
  BY <1>1, <1>2, <1>3
<1>. QED  BY <1>6, <1>7, <1>8 DEF B

-----------------------------------------------------------------------------
(* A pass over the samples of the children. *)

\* The list holds the walls of every child.
Ready(s, n, L) ==
  /\ Along(s) /\ Operation(n) /\ InPlaces(s, L)
  /\ \A c \in Children(n) : Of(L, c) = Marked(s, Flips(s, c), c)

\* How far along the ray the first k samples of L are.
Reached(s, L, k) == IF k = 0 THEN 0 ELSE Place(s, L[k].hit)

LEMMA ReachedFacts ==
  ASSUME NEW s, Along(s), NEW L, InPlaces(s, L), NEW k \in 1 .. Len(L)
  PROVE  /\ Reached(s, L, k) \in 1 .. Len(s) /\ Reached(s, L, k) = Place(s, L[k].hit)
         /\ Reached(s, L, k - 1) \in 0 .. Len(s) /\ Reached(s, L, k - 1) < Reached(s, L, k)
         /\ Reached(s, L, 0) = 0
         /\ k \in DOMAIN L /\ k - 1 \in Nat /\ Len(s) \in Nat /\ k # 0
<1>1. k \in DOMAIN L /\ k \in Nat /\ k # 0 /\ k - 1 \in Nat /\ Len(s) \in Nat
  BY ListFacts, PlaceFacts
<1>2. Place(s, L[k].hit) \in 1 .. Len(s)
  BY <1>1, ListFacts
<1>3. CASE k - 1 = 0
  BY <1>1, <1>2, <1>3 DEF Reached
<1>4. CASE k - 1 # 0
  <2>1. k - 1 \in DOMAIN L /\ k - 1 < k
    BY <1>1, <1>4, ListFacts
  <2>2. Place(s, L[k - 1].hit) \in 1 .. Len(s) /\ Place(s, L[k - 1].hit) < Place(s, L[k].hit)
    BY <1>1, <2>1, ListFacts
  <2>. QED  BY <1>1, <1>2, <1>4, <2>2 DEF Reached
<1>. QED  BY <1>3, <1>4

\* A sample of a child is a wall of it, and a wall of it is a sample.
LEMMA PassFlips ==
  ASSUME TreeShape, NEW s, NEW n, NEW L, Ready(s, n, L), NEW k \in 1 .. Len(L), NEW c \in Children(n)
  PROVE  /\ Reached(s, L, k) \in Flips(s, c) <=> L[k].node = c
         /\ \A m \in Flips(s, c) : ~(Reached(s, L, k - 1) < m /\ m < Reached(s, L, k))
<1>. DEFINE p == Place(s, L[k].hit)
<1>0. Along(s) /\ InPlaces(s, L) /\ Of(L, c) = Marked(s, Flips(s, c), c)
  BY DEF Ready
<1>1. k \in DOMAIN L /\ p \in 1 .. Len(s) /\ s[p] = L[k].hit /\ Reached(s, L, k) = p
  BY <1>0, ReachedFacts, ListFacts
<1>2. ASSUME NEW m \in Flips(s, c)
      PROVE  \E j \in DOMAIN L : L[j].node = c /\ Place(s, L[j].hit) = m
  <2>1. m \in DOMAIN s
    BY <1>0, PlaceFacts DEF Flips
  <2>2. [hit |-> s[m], node |-> c] \in Of(L, c)
    BY <1>0 DEF Marked
  <2>3. PICK j \in DOMAIN L : L[j] = [hit |-> s[m], node |-> c]
    BY <2>2 DEF Of, Range
  <2>. QED  BY <1>0, <2>1, <2>3, PlaceFacts
<1>3. ASSUME p \in Flips(s, c)  PROVE L[k].node = c
  <2>1. PICK j \in DOMAIN L : L[j].node = c /\ Place(s, L[j].hit) = p
    BY <1>2, <1>3
  <2>2. ~(j < k) /\ ~(k < j) /\ j \in Nat /\ k \in Nat
    <3>1. p \in Nat
      BY <1>1, <1>0, PlaceFacts
    <3>2. ~(Place(s, L[j].hit) < p) /\ ~(p < Place(s, L[j].hit))
      BY <2>1, <3>1
    <3>. QED  BY <1>0, <1>1, <3>2, ListFacts
  <2>3. j = k
    BY <2>2
  <2>. QED  BY <2>1, <2>3
<1>4. ASSUME L[k].node = c  PROVE p \in Flips(s, c)
  <2>1. L[k] \in Of(L, c)
    BY <1>0, <1>1, <1>4, ListFacts DEF Of
  <2>2. PICK m \in Flips(s, c) : L[k] = [hit |-> s[m], node |-> c]
    BY <1>0, <2>1 DEF Marked
  <2>3. m \in DOMAIN s /\ L[k].hit = s[m]
    BY <1>0, <2>2, PlaceFacts DEF Flips
  <2>4. p = m
    BY <1>0, <2>3, PlaceFacts
  <2>. QED  BY <2>4
<1>5. ASSUME NEW m \in Flips(s, c), Reached(s, L, k - 1) < m, m < p  PROVE FALSE
  <2>1. PICK j \in DOMAIN L : Place(s, L[j].hit) = m
    BY <1>2
  <2>2. j < k /\ j \in Nat /\ k \in Nat /\ j >= 1
    BY <1>0, <1>1, <1>5, <2>1, ListFacts
  <2>3. k - 1 \in DOMAIN L /\ k - 1 # 0 /\ j <= k - 1
    BY <1>0, <2>2, ListFacts
  <2>4. Place(s, L[k - 1].hit) < Place(s, L[j].hit)
    BY <1>5, <2>1, <2>3 DEF Reached
  <2>5. k - 1 < j
    BY <1>0, <2>3, <2>4, ListFacts
  <2>. QED  BY <2>2, <2>3, <2>5
<1>. QED  BY <1>1, <1>3, <1>4, <1>5

\* Where the ray is within the children and the node, sample by sample.
LEMMA PassWithin ==
  ASSUME TreeShape, NEW s, NEW n, NEW L, Ready(s, n, L), NEW k \in 1 .. Len(L)
  PROVE  /\ \A c \in Children(n) :
              Within(s, Reached(s, L, k))[c] =
                IF L[k].node = c THEN ~(Within(s, Reached(s, L, k - 1))[c]) ELSE Within(s, Reached(s, L, k - 1))[c]
         /\ Reached(s, L, k) \in Flips(s, n)
              <=> Within(s, Reached(s, L, k))[n] # Within(s, Reached(s, L, k - 1))[n]
<1>. DEFINE p == Reached(s, L, k)
            q == Reached(s, L, k - 1)
<1>0. Along(s) /\ InPlaces(s, L) /\ Operation(n) /\ Walked(s)
  BY DEF Ready, Along
<1>1. p \in 1 .. Len(s) /\ q \in 0 .. Len(s) /\ q < p /\ Len(s) \in Nat
  BY <1>0, ReachedFacts
<1>2. p \in Nat /\ p - 1 \in Nat /\ q \in Nat /\ q <= p - 1 /\ p - 1 <= Len(s)
  BY <1>1
<1>3. ASSUME NEW c \in Children(n)
      PROVE  /\ Within(s, p - 1)[c] = Within(s, q)[c]
             /\ p \in Flips(s, c) <=> L[k].node = c
             /\ Within(s, p)[c] \in BOOLEAN /\ Within(s, q)[c] \in BOOLEAN
             /\ c \in Nodes
  <2>1. c \in Nodes
    BY <1>0, TreeFacts DEF Operation
  <2>2. \A m \in Flips(s, c) : m \in Nat /\ ~(q < m /\ m < p)
    BY <1>1, PassFlips DEF Flips
  <2>3. \A m \in Flips(s, c) : ~(q < m /\ m <= p - 1)
    BY <1>2, <2>2
  <2>4. Within(s, p - 1)[c] = Within(s, q)[c]
    <3>. HIDE DEF p, q
    <3>. QED  BY <1>0, <1>2, <2>1, <2>3, WithinBetween
  <2>. QED  BY <2>1, <2>4, PassFlips, WithinMeans
<1>. HIDE DEF p, q
<1>4. ASSUME NEW c \in Children(n)
      PROVE  Within(s, p)[c] = IF L[k].node = c THEN ~(Within(s, q)[c]) ELSE Within(s, q)[c]
  <2>1. p \in Flips(s, c) <=> Within(s, p)[c] # Within(s, p - 1)[c]
    BY <1>1 DEF Flips
  <2>. QED  BY <1>3, <2>1
<1>5. WithinChildren(s, n, p - 1) = WithinChildren(s, n, q)
  BY <1>0, <1>3, TreeFacts DEF WithinChildren, Operation
<1>6. Within(s, p - 1)[n] = Within(s, q)[n]
  BY <1>0, <1>5, WithinOperation
<1>7. p \in Flips(s, n) <=> Within(s, p)[n] # Within(s, q)[n]
  BY <1>1, <1>6 DEF Flips
<1>. QED  BY <1>4, <1>7 DEF p, q

Label(n) == IF tree[n].parent = None THEN None ELSE n
Promoted(n, e) == [hit |-> e.hit, node |-> Label(n)]

\* What is left of the sample k: others pass, those of the children where the
\* node has a wall are promoted to it.
Remains(s, n, L, k) ==
  IF L[k].node \notin Children(n) THEN {L[k]}
  ELSE IF Reached(s, L, k) \in Flips(s, n) THEN {Promoted(n, L[k])}
  ELSE {}

PassedTo(s, n, L, k, acc) ==
  /\ acc.states = WithinChildren(s, n, Reached(s, L, k))
  /\ acc.state = Within(s, Reached(s, L, k))[n]
  /\ InPlaces(s, acc.samples)
  /\ \A j \in DOMAIN acc.samples : Place(s, acc.samples[j].hit) <= Reached(s, L, k)
  /\ \A e : e \in Range(acc.samples) <=> \E i \in 1 .. k : e \in Remains(s, n, L, i)

LEMMA PassBegins ==
  ASSUME TreeShape, NEW s, NEW n, NEW L, Ready(s, n, L)
  PROVE  PassedTo(s, n, L, 0, PassStart(n))
<1>. DEFINE acc == PassStart(n)
<1>0. Operation(n) /\ n \in Nodes
  BY DEF Ready, Operation
<1>1. acc.states = Outside(n) /\ acc.state = EvaluateState(tree[n].type, Outside(n)) /\ acc.samples = <<>>
  BY DEF PassStart
<1>. HIDE DEF acc
<1>2. Reached(s, L, 0) = 0
  BY DEF Reached
<1>3. Outside(n) = WithinChildren(s, n, 0)
  <2>1. \A i \in DOMAIN tree[n].children : tree[n].children[i] \in Nodes
    BY <1>0, TreeFacts
  <2>. QED  BY <2>1, WithinAtFirst DEF Outside, WithinChildren
<1>4. acc.state = Within(s, 0)[n]
  BY <1>0, <1>1, <1>3, WithinOperation
<1>5. InPlaces(s, <<>>) /\ DOMAIN <<>> = {} /\ Range(<<>>) = {}
  BY DEF InPlaces, SampleLists, Range
<1>6. 1 .. 0 = {}
  OBVIOUS
<1>. QED  BY <1>1, <1>2, <1>3, <1>4, <1>5, <1>6 DEF PassedTo, acc

LEMMA PassGoesOn ==
  ASSUME TreeShape, NEW s, NEW n, NEW L, Ready(s, n, L), NEW k \in 1 .. Len(L),
         NEW acc \in Pass(n), PassedTo(s, n, L, k - 1, acc)
  PROVE  PassedTo(s, n, L, k, Passed(tree, n, acc, L[k]))
<1>. DEFINE children == tree[n].children
            x == L[k]
            states == [i \in DOMAIN children |-> IF children[i] = x.node THEN ~acc.states[i] ELSE acc.states[i]]
            state == EvaluateState(tree[n].type, states)
            promoted == Promoted(n, x)
            new == Passed(tree, n, acc, x)
            p == Reached(s, L, k)
            q == Reached(s, L, k - 1)
<1>0. Along(s) /\ InPlaces(s, L) /\ Operation(n) /\ n \in Nodes
  BY DEF Ready, Operation
<1>1. /\ p \in 1 .. Len(s) /\ q \in 0 .. Len(s) /\ q < p /\ Len(s) \in Nat /\ k \in Nat /\ k - 1 \in Nat
      /\ p = Place(s, x.hit) /\ k \in DOMAIN L
  BY <1>0, ReachedFacts
<1>2. x \in Listed(tree) /\ x.hit \in Range(s)
  BY <1>0, <1>1, ListFacts DEF InPlaces
<1>3. x.node \in Children(n) <=> ~(\A i \in DOMAIN children : children[i] # x.node)
  BY DEF Children
<1>4. ASSUME x.node \notin Children(n)
      PROVE  new = [states |-> acc.states, state |-> acc.state, samples |-> Append(acc.samples, x)]
  BY <1>3, <1>4 DEF Passed
<1>5. ASSUME x.node \in Children(n)
      PROVE  new = [states |-> states, state |-> state,
                    samples |-> IF state = acc.state THEN acc.samples ELSE Append(acc.samples, promoted)]
  BY <1>3, <1>5 DEF Passed, Promoted, Label
<1>6. /\ acc.states = WithinChildren(s, n, q)
      /\ acc.state = Within(s, q)[n]
      /\ InPlaces(s, acc.samples)
      /\ \A j \in DOMAIN acc.samples : Place(s, acc.samples[j].hit) <= q
      /\ \A e : e \in Range(acc.samples) <=> \E i \in 1 .. k - 1 : e \in Remains(s, n, L, i)
  BY DEF PassedTo
<1>7. states = WithinChildren(s, n, p)
  <2>1. ASSUME NEW i \in DOMAIN children
        PROVE  states[i] = Within(s, p)[children[i]]
    <3>1. children[i] \in Children(n)
      BY DEF Children
    <3>2. acc.states[i] = Within(s, q)[children[i]]
      BY <1>6 DEF WithinChildren
    <3>. HIDE DEF children, p, q, x
    <3>. QED  BY <3>1, <3>2, PassWithin DEF p, q, x
  <2>. HIDE DEF p
  <2>. QED  BY <2>1 DEF WithinChildren
<1>8. state = Within(s, p)[n]
  <2>. HIDE DEF states, p
  <2>. QED  BY <1>0, <1>7, WithinOperation
<1>9. p \in Flips(s, n) <=> state # acc.state
  BY <1>6, <1>8, PassWithin
<1>10. promoted \in Listed(tree) /\ promoted.hit = x.hit
  BY <1>0, <1>2 DEF Promoted, Label, Listed, Nodes
<1>11. \A j \in DOMAIN acc.samples : Place(s, acc.samples[j].hit) < p /\ Place(s, acc.samples[j].hit) <= p
  <2>1. \A j \in DOMAIN acc.samples : Place(s, acc.samples[j].hit) \in Nat
    BY <1>0, <1>6, ListFacts
  <2>. HIDE DEF p, q
  <2>. QED  BY <1>1, <1>6, <2>1
<1>12. \A e : (\E i \in 1 .. k : e \in Remains(s, n, L, i))
                <=> (\E i \in 1 .. k - 1 : e \in Remains(s, n, L, i)) \/ e \in Remains(s, n, L, k)
  <2>1. 1 .. k = (1 .. k - 1) \cup {k}
    BY <1>1
  <2>. QED  BY <2>1
<1>13. ASSUME NEW y \in Listed(tree), y.hit = x.hit
       PROVE  LET B == Append(acc.samples, y)
              IN  /\ InPlaces(s, B)
                  /\ Range(B) = Range(acc.samples) \cup {y}
                  /\ \A j \in DOMAIN B : Place(s, B[j].hit) <= p
  <2>. DEFINE B == Append(acc.samples, y)
  <2>1. /\ InPlaces(s, B) /\ Range(B) = Range(acc.samples) \cup {y}
        /\ \A j \in DOMAIN B : B[j].hit = y.hit \/ \E i \in DOMAIN acc.samples : B[j] = acc.samples[i]
    <3>1. \A j \in DOMAIN acc.samples : Place(s, acc.samples[j].hit) < Place(s, y.hit)
      BY <1>1, <1>11, <1>13
    <3>. QED  BY <1>2, <1>6, <1>13, <3>1, AppendInPlace
  <2>. HIDE DEF B
  <2>2. p <= p
    BY <1>1
  <2>3. \A j \in DOMAIN B : Place(s, B[j].hit) <= p
    BY <1>1, <1>11, <1>13, <2>1, <2>2
  <2>. QED  BY <2>1, <2>3 DEF B
<1>. DEFINE Left(B) == \A e : e \in Range(B) <=> \E i \in 1 .. k : e \in Remains(s, n, L, i)
<1>14. CASE x.node \notin Children(n)
  <2>1. Remains(s, n, L, k) = {x}
    BY <1>14 DEF Remains
  <2>. DEFINE B == Append(acc.samples, x)
  <2>2. InPlaces(s, B) /\ (\A j \in DOMAIN B : Place(s, B[j].hit) <= p) /\ Range(B) = Range(acc.samples) \cup {x}
    BY <1>2, <1>13
  <2>3. Left(B)
    <3>. HIDE DEF B, x
    <3>. QED  BY <1>6, <1>12, <2>1, <2>2
  <2>4. states = acc.states
    <3>1. \A i \in DOMAIN children : children[i] # x.node
      BY <1>3, <1>14
    <3>2. acc.states = [i \in DOMAIN children |-> acc.states[i]]
      BY DEF Pass, ChildStates
    <3>. QED  BY <3>1, <3>2
  <2>5. state = acc.state
    <3>1. WithinChildren(s, n, p) = WithinChildren(s, n, q)
      BY <1>6, <1>7, <2>4
    <3>2. Within(s, p)[n] = Within(s, q)[n]
      BY <1>0, <3>1, WithinOperation
    <3>. QED  BY <1>6, <1>8, <3>2
  <2>6. new.states = states /\ new.state = state /\ new.samples = B
    BY <1>4, <1>14, <2>4, <2>5
  <2>. HIDE DEF new, states, state, p, B, x
  <2>. QED  BY <1>7, <1>8, <2>2, <2>3, <2>6 DEF PassedTo, p, x, new
<1>15. CASE x.node \in Children(n) /\ p \in Flips(s, n)
  <2>1. Remains(s, n, L, k) = {promoted}
    BY <1>15 DEF Remains
  <2>. DEFINE B == Append(acc.samples, promoted)
  <2>2. InPlaces(s, B) /\ (\A j \in DOMAIN B : Place(s, B[j].hit) <= p) /\ Range(B) = Range(acc.samples) \cup {promoted}
    <3>. HIDE DEF promoted, x, p
    <3>. QED  BY <1>10, <1>13
  <2>3. Left(B)
    <3>. HIDE DEF B, x, promoted
    <3>. QED  BY <1>6, <1>12, <2>1, <2>2
  <2>4. new.states = states /\ new.state = state /\ new.samples = B
    <3>. HIDE DEF states, state, promoted, x
    <3>. QED  BY <1>5, <1>9, <1>15
  <2>. HIDE DEF new, states, state, p, B, x
  <2>. QED  BY <1>7, <1>8, <2>2, <2>3, <2>4 DEF PassedTo, p, x, new
<1>16. CASE x.node \in Children(n) /\ p \notin Flips(s, n)
  <2>1. Remains(s, n, L, k) = {}
    BY <1>16 DEF Remains
  <2>. DEFINE B == acc.samples
  <2>2. InPlaces(s, B) /\ (\A j \in DOMAIN B : Place(s, B[j].hit) <= p)
    BY <1>6, <1>11
  <2>3. Left(B)
    BY <1>6, <1>12, <2>1
  <2>4. new.states = states /\ new.state = state /\ new.samples = B
    <3>. HIDE DEF states, state, promoted, x
    <3>. QED  BY <1>5, <1>9, <1>16
  <2>. HIDE DEF new, states, state, p, B, x
  <2>. QED  BY <1>7, <1>8, <2>2, <2>3, <2>4 DEF PassedTo, p, x, new
<1>. QED  BY <1>14, <1>15, <1>16

LEMMA PassEnds ==
  ASSUME TreeShape, NEW s, NEW n, NEW L, Ready(s, n, L)
  PROVE  /\ InPlaces(s, PassNode(tree, n, L))
         /\ \A e : e \in Range(PassNode(tree, n, L)) <=> \E k \in 1 .. Len(L) : e \in Remains(s, n, L, k)
<1>. DEFINE K == Len(L)
<1>0. n \in Nodes /\ L \in SampleLists /\ K \in Nat
  BY DEF Ready, Operation, InPlaces, SampleLists
<1>1. PICK pass \in [0 .. K -> Pass(n)] : PassesTo(pass, n, L)
  BY <1>0, PassNodeDef
<1>. DEFINE S == {k \in Nat : k <= K => PassedTo(s, n, L, k, pass[k])}
<1>2. 0 \in S
  BY <1>1, PassBegins DEF PassesTo
<1>3. ASSUME NEW k \in Nat, k \in S  PROVE k + 1 \in S
  <2>1. CASE k + 1 <= K
    <3>1. k + 1 \in 1 .. K /\ k + 1 - 1 = k /\ k <= K /\ k \in 0 .. K
      BY <1>0, <2>1
    <3>2. pass[k] \in Pass(n) /\ pass[k + 1] = Passed(tree, n, pass[k], L[k + 1]) /\ PassedTo(s, n, L, k, pass[k])
      <4>. HIDE DEF K
      <4>1. \A i \in 1 .. K : pass[i] = Passed(tree, n, pass[i - 1], L[i])
        BY <1>1 DEF PassesTo, K
      <4>. QED  BY <1>1, <1>3, <3>1, <4>1
    <3>3. PassedTo(s, n, L, k + 1, pass[k + 1])
      BY <3>1, <3>2, PassGoesOn
    <3>. QED  BY <3>3
  <2>. QED  BY <2>1
<1>4. K \in S
  <2>1. \A k \in Nat : k \in S
    <3>. HIDE DEF S
    <3>. QED  BY <1>2, <1>3, Steps
  <2>. QED  BY <1>0, <2>1
<1>5. PassedTo(s, n, L, K, pass[K])
  BY <1>0, <1>4
<1>. QED  BY <1>1, <1>5 DEF PassedTo, PassesTo

\* A pass leaves the walls of the node.
LEMMA PassLeaves ==
  ASSUME TreeShape, NEW s, NEW n, NEW L, Ready(s, n, L)
  PROVE  /\ InPlaces(s, PassNode(tree, n, L))
         /\ Range(PassNode(tree, n, L)) =
              {e \in Range(L) : e.node \notin Children(n)} \cup Marked(s, Flips(s, n), Label(n))
<1>. DEFINE R == Range(PassNode(tree, n, L))
            Others == {e \in Range(L) : e.node \notin Children(n)}
            New == Marked(s, Flips(s, n), Label(n))
<1>0. Along(s) /\ InPlaces(s, L) /\ Operation(n)
  BY DEF Ready
<1>1. InPlaces(s, PassNode(tree, n, L)) /\ \A e : e \in R <=> \E k \in 1 .. Len(L) : e \in Remains(s, n, L, k)
  BY PassEnds
<1>. HIDE DEF R
<1>2. DOMAIN L = 1 .. Len(L) /\ \A k \in DOMAIN L : s[Reached(s, L, k)] = L[k].hit
  BY <1>0, ListFacts, ReachedFacts
<1>3. ASSUME NEW k \in 1 .. Len(L), NEW e \in Remains(s, n, L, k)  PROVE e \in Others \cup New
  <2>1. CASE L[k].node \notin Children(n)
    <3>1. e = L[k] /\ e \in Range(L)
      BY <1>2, <1>3, <2>1 DEF Remains, Range
    <3>. QED  BY <2>1, <3>1
  <2>2. CASE L[k].node \in Children(n) /\ Reached(s, L, k) \in Flips(s, n)
    <3>1. e = [hit |-> s[Reached(s, L, k)], node |-> Label(n)]
      BY <1>2, <1>3, <2>2 DEF Remains, Promoted
    <3>2. e \in New
      BY <2>2, <3>1 DEF Marked
    <3>. QED  BY <3>2
  <2>. QED  BY <2>1, <2>2 DEF Remains
<1>4. ASSUME NEW e \in Others  PROVE \E k \in 1 .. Len(L) : e \in Remains(s, n, L, k)
  <2>1. PICK k \in DOMAIN L : e = L[k]
    BY DEF Range
  <2>. QED  BY <1>2, <2>1 DEF Remains
<1>5. ASSUME NEW e \in New  PROVE \E k \in 1 .. Len(L) : e \in Remains(s, n, L, k)
  <2>1. PICK m \in Flips(s, n) : e = [hit |-> s[m], node |-> Label(n)]
    BY DEF Marked
  <2>2. PICK c \in Children(n) : m \in Flips(s, c)
    BY <1>0, FlipsOfOperation
  <2>3. [hit |-> s[m], node |-> c] \in Range(L)
    BY <2>2 DEF Ready, Of, Marked
  <2>4. PICK k \in DOMAIN L : L[k] = [hit |-> s[m], node |-> c]
    BY <2>3 DEF Range
  <2>5. k \in 1 .. Len(L) /\ L[k].hit = s[m] /\ L[k].node = c
    BY <1>2, <2>4
  <2>6. Reached(s, L, k) = m
    <3>1. m \in DOMAIN s
      BY <1>0, PlaceFacts DEF Flips
    <3>. QED  BY <1>0, <2>5, <3>1, PlaceFacts, ReachedFacts
  <2>7. e \in Remains(s, n, L, k)
    BY <2>1, <2>2, <2>5, <2>6 DEF Remains, Promoted
  <2>. QED  BY <2>5, <2>7
<1>. HIDE DEF Others, New
<1>6. R = Others \cup New
  BY <1>1, <1>3, <1>4, <1>5
<1>. QED  BY <1>1, <1>6 DEF R, Others, New

-----------------------------------------------------------------------------
(* From the leaves of a tree to its root. *)

\* Surfaces are in no solid or in primitives.
Owned(s) == \A m \in DOMAIN s : \/ owner[s[m].id] = None
                                \/ owner[s[m].id] \in Nodes /\ tree[owner[s[m].id]].type = "primitive"

\* Nothing in n has been processed yet.
Unprocessed(s, n, L) == \A d \in Under(n) : Of(L, d) = Marked(s, Own(s, d), d)

\* All that was in n is gone but the walls of n.
OnlyWallsLeft(s, n, L, M) ==
  /\ InPlaces(s, M)
  /\ Range(M) = {e \in Range(L) : e.node \notin Under(n)} \cup Marked(s, Flips(s, n), Label(n))

Scene(s, n, L) == Along(s) /\ Owned(s) /\ Operation(n) /\ InPlaces(s, L) /\ Unprocessed(s, n, L)

ProcessKeepsWalls(s, n) ==
  Operation(n) =>
    \A L : Scene(s, n, L) => OnlyWallsLeft(s, n, L, ProcessSampleList(tree)[n][L])

\* After the first k children.
BelowTo(s, n, L, k, B) ==
  LET children == tree[n].children
  IN  /\ InPlaces(s, B)
      /\ \A e : e \in Range(B) <=>
           \/ e \in Range(L) /\ \A i \in 1 .. k : e.node \notin Under(children[i])
           \/ \E i \in 1 .. k : ~Childless(children[i]) /\ e \in Marked(s, Flips(s, children[i]), children[i])

LEMMA UnderNothing ==
  ASSUME TreeShape, NEW c \in Nodes, Childless(c)
  PROVE  Under(c) = {}
<1>1. Children(c) = {}
  BY DEF Children, Childless
<1>. QED  BY <1>1, UnderChildren

LEMMA BelowGoesOn ==
  ASSUME TreeShape, NEW s, NEW n, NEW L, Scene(s, n, L), NEW k \in 1 .. Len(tree[n].children),
         ProcessKeepsWalls(s, tree[n].children[k]),
         NEW B, BelowTo(s, n, L, k - 1, B),
         NEW C, C = IF Childless(tree[n].children[k]) THEN B ELSE ProcessSampleList(tree)[tree[n].children[k]][B]
  PROVE  BelowTo(s, n, L, k, C)
<1>. DEFINE children == tree[n].children
            c == children[k]
            Mine(i, e) == ~Childless(children[i]) /\ e \in Marked(s, Flips(s, children[i]), children[i])
            In(X, j) == \A e : e \in Range(X) <=>
                          \/ e \in Range(L) /\ \A i \in 1 .. j : e.node \notin Under(children[i])
                          \/ \E i \in 1 .. j : Mine(i, e)
<1>0. n \in Nodes /\ Along(s) /\ Owned(s) /\ Operation(n) /\ InPlaces(s, L) /\ Unprocessed(s, n, L)
  BY DEF Scene, Operation
<1>1. /\ Len(children) \in Nat /\ DOMAIN children = 1 .. Len(children) /\ k \in Nat /\ k >= 1
      /\ \A i \in 1 .. Len(children) : children[i] \in Children(n) /\ children[i] \in Nodes
      /\ c \in Children(n) /\ c \in Nodes /\ tree[c].parent = n /\ n # None
  <2>1. children \in Seq(Nodes) /\ \A i \in DOMAIN children : children[i] \in Children(n)
    BY <1>0, TreeFacts
  <2>2. Len(children) \in Nat /\ DOMAIN children = 1 .. Len(children)
    BY <2>1
  <2>3. \A d \in Children(n) : d \in Nodes /\ tree[d].parent = n
    BY <1>0, TreeFacts
  <2>4. n # None
    BY <1>0, TreeFacts
  <2>5. k \in 1 .. Len(children)
    OBVIOUS
  <2>. HIDE DEF children
  <2>6. \A i \in 1 .. Len(children) : children[i] \in Children(n) /\ children[i] \in Nodes
    BY <2>1, <2>2, <2>3
  <2>. QED  BY <2>2, <2>3, <2>4, <2>6, <2>5
<1>2. 1 .. k = (1 .. k - 1) \cup {k} /\ \A i \in 1 .. k - 1 : i \in 1 .. Len(children) /\ i # k
  BY <1>1
<1>3. InPlaces(s, B) /\ In(B, k - 1)
  BY DEF BelowTo
<1>4. \A X : InPlaces(s, X) /\ In(X, k) => BelowTo(s, n, L, k, X)
  BY DEF BelowTo
<1>5. \A i \in 1 .. Len(children) : \A e : Mine(i, e) => e.node = children[i]
  BY DEF Marked
<1>6. \A i \in 1 .. k - 1 : children[i] \notin Under(c) /\ \A d \in Under(c) : d \notin Under(children[i])
  <2>1. ASSUME NEW i \in 1 .. k - 1
        PROVE  children[i] \notin Under(c) /\ \A d \in Under(c) : d \notin Under(children[i])
    <3>1. children[i] # c
      BY <1>0, <1>1, <1>2 DEF TreeShape
    <3>. HIDE DEF c, children
    <3>. QED  BY <1>0, <1>1, <1>2, <3>1, SiblingsApart
  <2>. QED  BY <2>1
<1>. HIDE DEF Mine
<1>7. CASE Childless(c)
  <2>1. Under(c) = {} /\ C = B
    BY <1>1, <1>7, UnderNothing
  <2>2. \A e : ~Mine(k, e)
    BY <1>7 DEF Mine
  <2>3. In(C, k)
    <3>. HIDE DEF children
    <3>. QED  BY <1>2, <1>3, <2>1, <2>2 DEF c
  <2>. QED  BY <1>3, <1>4, <2>1, <2>3
<1>8. CASE ~Childless(c)
  <2>0. Operation(c)
    <3>1. tree[c].type # "primitive"
      BY <1>1, <1>8 DEF TreeShape, Childless
    <3>. QED  BY <1>1, <1>8, <3>1 DEF Operation
  <2>1. ASSUME NEW d \in Under(c)  PROVE Of(B, d) = Marked(s, Own(s, d), d)
    <3>1. d \in Under(n)
      BY <1>0, <1>1, <2>1, UnderChildren
    <3>2. Of(L, d) = Marked(s, Own(s, d), d)
      BY <1>0, <3>1 DEF Unprocessed
    <3>3. ASSUME NEW e, e.node = d  PROVE e \in Range(B) <=> e \in Range(L)
      <4>1. \A i \in 1 .. k - 1 : e.node \notin Under(children[i]) /\ ~Mine(i, e)
        <5>. HIDE DEF children, c
        <5>. QED  BY <1>2, <1>5, <1>6, <3>3
      <4>. HIDE DEF children
      <4>. QED  BY <1>3, <4>1
    <3>4. Of(B, d) = Of(L, d)
      BY <3>3 DEF Of
    <3>. QED  BY <3>2, <3>4
  <2>2. Scene(s, c, B)
    <3>. HIDE DEF c
    <3>. QED  BY <1>0, <1>3, <2>0, <2>1 DEF Scene, Unprocessed
  <2>3. C = ProcessSampleList(tree)[c][B]
    BY <1>8
  <2>4. OnlyWallsLeft(s, c, B, C)
    <3>. HIDE DEF c
    <3>1. ProcessKeepsWalls(s, c)
      BY DEF c
    <3>. QED  BY <2>0, <2>2, <2>3, <3>1 DEF ProcessKeepsWalls
  <2>5. Label(c) = c
    BY <1>1 DEF Label
  <2>6. InPlaces(s, C) /\ \A e : e \in Range(C) <=> (e \in Range(B) /\ e.node \notin Under(c)) \/ Mine(k, e)
    <3>1. \A e : Mine(k, e) <=> e \in Marked(s, Flips(s, c), Label(c))
      BY <1>8, <2>5 DEF Mine
    <3>. HIDE DEF c
    <3>. QED  BY <2>4, <3>1 DEF OnlyWallsLeft
  <2>7. In(C, k)
    <3>1. ASSUME NEW e
          PROVE  e \in Range(C) <=>
                   \/ e \in Range(L) /\ \A i \in 1 .. k : e.node \notin Under(children[i])
                   \/ \E i \in 1 .. k : Mine(i, e)
      <4>1. \A i \in 1 .. k - 1 : Mine(i, e) => e.node \notin Under(c)
        <5>. HIDE DEF children, c
        <5>. QED  BY <1>2, <1>5, <1>6
      <4>2. e \in Range(B) <=> \/ e \in Range(L) /\ \A i \in 1 .. k - 1 : e.node \notin Under(children[i])
                               \/ \E i \in 1 .. k - 1 : Mine(i, e)
        BY <1>3
      <4>3. (\A i \in 1 .. k : e.node \notin Under(children[i]))
              <=> (\A i \in 1 .. k - 1 : e.node \notin Under(children[i])) /\ e.node \notin Under(c)
        <5>. HIDE DEF children
        <5>. QED  BY <1>2 DEF c
      <4>4. (\E i \in 1 .. k : Mine(i, e)) <=> (\E i \in 1 .. k - 1 : Mine(i, e)) \/ Mine(k, e)
        BY <1>2
      <4>5. e \in Range(C) <=> (e \in Range(B) /\ e.node \notin Under(c)) \/ Mine(k, e)
        BY <2>6
      <4>. HIDE DEF c, children
      <4>. QED  BY <4>1, <4>2, <4>3, <4>4, <4>5
    <3>. QED  BY <3>1
  <2>. QED  BY <1>4, <2>6, <2>7
<1>. QED  BY <1>7, <1>8

LEMMA BelowEnds ==
  ASSUME TreeShape, NEW s, NEW n, NEW L, Scene(s, n, L),
         \A c \in Children(n) : ProcessKeepsWalls(s, c)
  PROVE  BelowTo(s, n, L, Len(tree[n].children), Below(tree, n, ProcessSampleList(tree), L))
<1>. DEFINE P == ProcessSampleList(tree)
            K == Len(tree[n].children)
<1>0. n \in Nodes /\ L \in SampleLists /\ InPlaces(s, L)
  BY DEF Scene, Operation, InPlaces
<1>1. K \in Nat /\ \A i \in 1 .. K : tree[n].children[i] \in Children(n)
  BY <1>0, TreeFacts
<1>2. PICK below \in [0 .. K -> SampleLists] : GoesBelow(below, n, P, L)
  <2>1. P \in Processes
    BY ProcessDef
  <2>. HIDE DEF P
  <2>. QED  BY <1>0, <2>1, BelowDef
<1>. DEFINE S == {k \in Nat : k <= K => BelowTo(s, n, L, k, below[k])}
<1>3. 0 \in S
  <2>1. 1 .. 0 = {}
    OBVIOUS
  <2>2. below[0] = L
    BY <1>2 DEF GoesBelow
  <2>3. BelowTo(s, n, L, 0, L)
    BY <1>0, <2>1 DEF BelowTo
  <2>. QED  BY <2>2, <2>3
<1>4. ASSUME NEW k \in Nat, k \in S  PROVE k + 1 \in S
  <2>1. CASE k + 1 <= K
    <3>1. k + 1 \in 1 .. K /\ k + 1 - 1 = k /\ k <= K
      BY <1>1, <2>1
    <3>2. ASSUME NEW j \in 1 .. Len(tree[n].children), BelowTo(s, n, L, j - 1, below[j - 1])
          PROVE  BelowTo(s, n, L, j, below[j])
      <4>1. ProcessKeepsWalls(s, tree[n].children[j])
        BY <1>1
      <4>2. below[j] = IF Childless(tree[n].children[j]) THEN below[j - 1]
                       ELSE ProcessSampleList(tree)[tree[n].children[j]][below[j - 1]]
        BY <1>2 DEF GoesBelow
      <4>. QED  BY <3>2, <4>1, <4>2, BelowGoesOn
    <3>3. BelowTo(s, n, L, k + 1 - 1, below[k + 1 - 1])
      BY <1>4, <3>1
    <3>4. BelowTo(s, n, L, k + 1, below[k + 1])
      BY <3>1, <3>2, <3>3
    <3>. QED  BY <3>4
  <2>. QED  BY <2>1
<1>5. K \in S
  <2>1. \A k \in Nat : k \in S
    <3>. HIDE DEF S
    <3>. QED  BY <1>3, <1>4, Steps
  <2>. QED  BY <1>1, <2>1
<1>6. BelowTo(s, n, L, K, below[K])
  BY <1>1, <1>5
<1>. QED  BY <1>2, <1>6 DEF GoesBelow

\* Then the samples of the children are their walls.
LEMMA BelowReady ==
  ASSUME TreeShape, NEW s, NEW n, NEW L, Scene(s, n, L),
         NEW B, BelowTo(s, n, L, Len(tree[n].children), B)
  PROVE  /\ Ready(s, n, B)
         /\ \A e : e \in Range(B) /\ e.node \notin Children(n) <=> e \in Range(L) /\ e.node \notin Under(n)
<1>. DEFINE children == tree[n].children
            K == Len(children)
            Mine(i, e) == ~Childless(children[i]) /\ e \in Marked(s, Flips(s, children[i]), children[i])
<1>0. n \in Nodes /\ Along(s) /\ Owned(s) /\ Operation(n) /\ InPlaces(s, L) /\ Unprocessed(s, n, L)
  BY DEF Scene, Operation
<1>1. InPlaces(s, B) /\ \A e : e \in Range(B) <=>
           \/ e \in Range(L) /\ \A i \in 1 .. K : e.node \notin Under(children[i])
           \/ \E i \in 1 .. K : Mine(i, e)
  BY DEF BelowTo
<1>2. \A i \in 1 .. K : children[i] \in Children(n)
  BY <1>0, TreeFacts
<1>3. \A c \in Children(n) : c \in Nodes /\ \E i \in 1 .. K : children[i] = c
  <2>1. DOMAIN children = 1 .. K /\ \A c \in Children(n) : c \in Nodes
    BY <1>0, TreeFacts
  <2>2. \A c \in Children(n) : \E i \in DOMAIN children : children[i] = c
    BY DEF Children
  <2>. HIDE DEF children, K
  <2>. QED  BY <2>1, <2>2
<1>4. \A i \in 1 .. K : \A e : Mine(i, e) => e.node = children[i]
  BY DEF Marked
<1>5. \A i \in 1 .. K : \A e : Mine(i, e) <=> ~Childless(children[i]) /\ e \in Marked(s, Flips(s, children[i]), children[i])
  OBVIOUS
<1>. HIDE DEF Mine, children, K
<1>6. ASSUME NEW c \in Children(n)  PROVE Of(B, c) = Marked(s, Flips(s, c), c)
  <2>0. c \in Nodes
    BY <1>3
  <2>1. \A i \in 1 .. K : c \notin Under(children[i])
    BY <1>0, <1>2, SiblingsApart
  <2>2. Of(L, c) = Marked(s, Own(s, c), c)
    BY <1>0, UnderChildren DEF Unprocessed
  <2>3. PICK i \in 1 .. K : children[i] = c
    BY <1>3
  <2>4. ASSUME NEW e, e.node = c
        PROVE  e \in Range(B) <=> e \in Range(L) \/ (~Childless(c) /\ e \in Marked(s, Flips(s, c), c))
    BY <1>1, <1>4, <1>5, <2>1, <2>3, <2>4
  <2>5. \A e \in Marked(s, Flips(s, c), c) : e.node = c
    BY DEF Marked
  <2>6. CASE tree[c].type = "primitive"
    <3>1. Flips(s, c) = Own(s, c) /\ Childless(c)
      BY <1>0, <2>0, <2>6, FlipsOfPrimitive DEF Along, TreeShape, Childless
    <3>2. Of(B, c) = Of(L, c)
      BY <2>4, <3>1 DEF Of
    <3>. QED  BY <2>2, <3>1, <3>2
  <2>7. CASE tree[c].type # "primitive"
    <3>1. Own(s, c) = {}
      <4>1. \A m \in 1 .. Len(s) : owner[s[m].id] # c
        <5>1. DOMAIN s = 1 .. Len(s) /\ c # None
          BY <1>0, <2>0, PlaceFacts, TreeFacts
        <5>. QED  BY <1>0, <2>7, <5>1 DEF Owned
      <4>. QED  BY <4>1 DEF Own
    <3>2. Of(L, c) = {}
      BY <2>2, <3>1 DEF Marked
    <3>3. CASE Childless(c)
      <4>1. Flips(s, c) = {}
        BY <2>0, <2>7, <3>3, FlipsOfNothing
      <4>2. Of(B, c) = {}
        BY <2>4, <3>2, <3>3 DEF Of
      <4>. QED  BY <4>1, <4>2 DEF Marked
    <3>4. CASE ~Childless(c)
      BY <2>4, <2>5, <3>2, <3>4 DEF Of
    <3>. QED  BY <3>3, <3>4
  <2>. QED  BY <2>6, <2>7
<1>7. Ready(s, n, B)
  BY <1>0, <1>1, <1>6 DEF Ready
<1>8. ASSUME NEW e
      PROVE  e \in Range(B) /\ e.node \notin Children(n) <=> e \in Range(L) /\ e.node \notin Under(n)
  <2>1. e.node \in Under(n) <=> e.node \in Children(n) \/ \E c \in Children(n) : e.node \in Under(c)
    BY <1>0, UnderChildren
  <2>2. (\E c \in Children(n) : e.node \in Under(c)) <=> \E i \in 1 .. K : e.node \in Under(children[i])
    BY <1>2, <1>3
  <2>3. e.node \notin Children(n) => \A i \in 1 .. K : ~Mine(i, e)
    BY <1>2, <1>4
  <2>. QED  BY <1>1, <2>1, <2>2, <2>3
<1>. QED  BY <1>7, <1>8

\* ProcessSampleList leaves the walls of the node, whatever lies in it.
LEMMA ProcessLeaves ==
  ASSUME TreeShape, NEW s
  PROVE  \A n \in Nodes : ProcessKeepsWalls(s, n)
<1>. DEFINE S == {n \in Nodes : ProcessKeepsWalls(s, n)}
            P == ProcessSampleList(tree)
<1>1. ASSUME NEW n \in Nodes, \A y \in Nodes : FromLast[y] < FromLast[n] => y \in S
      PROVE  n \in S
  <2>. SUFFICES ASSUME NEW L, Scene(s, n, L)  PROVE OnlyWallsLeft(s, n, L, P[n][L])
    BY DEF ProcessKeepsWalls
  <2>1. \A c \in Children(n) : ProcessKeepsWalls(s, c)
    BY <1>1, FromLastFacts
  <2>. DEFINE B == Below(tree, n, P, L)
  <2>2. BelowTo(s, n, L, Len(tree[n].children), B)
    BY <2>1, BelowEnds
  <2>3. L \in SampleLists
    BY DEF Scene, InPlaces
  <2>4. P[n][L] = PassNode(tree, n, B)
    BY <2>3, ProcessDef
  <2>. HIDE DEF B, P
  <2>5. Ready(s, n, B) /\ \A e : e \in Range(B) /\ e.node \notin Children(n) <=> e \in Range(L) /\ e.node \notin Under(n)
    BY <2>2, BelowReady
  <2>6. /\ InPlaces(s, PassNode(tree, n, B))
        /\ Range(PassNode(tree, n, B)) = {e \in Range(B) : e.node \notin Children(n)} \cup Marked(s, Flips(s, n), Label(n))
    BY <2>5, PassLeaves
  <2>7. {e \in Range(B) : e.node \notin Children(n)} = {e \in Range(L) : e.node \notin Under(n)}
    BY <2>5
  <2>. QED  BY <2>4, <2>6, <2>7 DEF OnlyWallsLeft
<1>2. \A n \in Nodes : n \in S
  <2>. HIDE DEF S
  <2>. QED  BY <1>1, FromLastFacts, Descent
<1>. QED  BY <1>2

-----------------------------------------------------------------------------
(* The loop of Combine. *)

\* A wall of a node is one of a surface in it.
LEMMA FlipsInside ==
  ASSUME TreeShape, NEW s, Walked(s)
  PROVE  \A n \in Nodes : \A m \in Flips(s, n) : owner[s[m].id] = n \/ owner[s[m].id] \in Under(n)
<1>. DEFINE S == {n \in Nodes : \A m \in Flips(s, n) : owner[s[m].id] = n \/ owner[s[m].id] \in Under(n)}
<1>1. ASSUME NEW n \in Nodes, \A y \in Nodes : FromLast[y] < FromLast[n] => y \in S
      PROVE  n \in S
  <2>1. CASE tree[n].type = "primitive"
    <3>1. Flips(s, n) = Own(s, n)
      BY <2>1, FlipsOfPrimitive
    <3>. QED  BY <3>1 DEF Own
  <2>2. CASE tree[n].type # "primitive" /\ Childless(n)
    <3>1. Flips(s, n) = {}
      BY <2>2, FlipsOfNothing
    <3>. QED  BY <3>1
  <2>3. CASE Operation(n)
    <3>1. ASSUME NEW m \in Flips(s, n)  PROVE owner[s[m].id] \in Under(n)
      <4>1. PICK c \in Children(n) : m \in Flips(s, c)
        BY <2>3, FlipsOfOperation
      <4>2. owner[s[m].id] = c \/ owner[s[m].id] \in Under(c)
        BY <1>1, <4>1, FromLastFacts
      <4>. QED  BY <4>1, <4>2, UnderChildren
    <3>. QED  BY <3>1
  <2>. QED  BY <2>1, <2>2, <2>3 DEF Operation
<1>2. \A n \in Nodes : n \in S
  <2>. HIDE DEF S
  <2>. QED  BY <1>1, FromLastFacts, Descent
<1>. QED  BY <1>2

AllDone(L) == \A i \in DOMAIN L : L[i].node = None

First(L) == CHOOSE i \in DOMAIN L : L[i].node # None /\ \A j \in 1 .. i - 1 : L[j].node = None

LEMMA FirstFacts ==
  ASSUME TreeShape, NEW L \in SampleLists, ~AllDone(L)
  PROVE  First(L) \in DOMAIN L /\ L[First(L)].node \in Nodes
<1>. DEFINE T == {i \in DOMAIN L : L[i].node # None}
<1>0. DOMAIN L = 1 .. Len(L) /\ Len(L) \in Nat /\ \A i \in DOMAIN L : L[i] \in Listed(tree)
  BY DEF SampleLists
<1>1. T # {} /\ T \subseteq Nat
  BY <1>0 DEF AllDone
<1>2. PICK m \in T : \A k \in T : m <= k
  <2>. HIDE DEF T
  <2>. QED  BY <1>1, LeastNumber
<1>3. \A j \in 1 .. m - 1 : L[j].node = None
  <2>1. ASSUME NEW j \in 1 .. m - 1  PROVE j \in DOMAIN L /\ ~(m <= j)
    BY <1>0
  <2>. QED  BY <1>2, <2>1
<1>4. First(L) \in DOMAIN L /\ L[First(L)].node # None
  BY <1>3 DEF First
<1>. QED  BY <1>0, <1>4 DEF Listed, Nodes

LEMMA TurnedDef ==
  ASSUME TreeShape, NEW L \in SampleLists
  PROVE  /\ Turned(tree, L) = IF AllDone(L) THEN L ELSE ProcessTree(tree, L[First(L)].node, L)
         /\ Turned(tree, L) \in SampleLists
<1>1. Turned(tree, L) = IF AllDone(L) THEN L ELSE ProcessTree(tree, L[First(L)].node, L)
  BY DEF Turned, AllDone, First
<1>2. ASSUME ~AllDone(L)  PROVE ProcessTree(tree, L[First(L)].node, L) \in SampleLists
  <2>. DEFINE n == L[First(L)].node
              top == Roots(tree)[n]
  <2>1. n \in Nodes /\ top \in Nodes
    BY <1>2, FirstFacts, RootsDef
  <2>2. \A i \in DOMAIN L : L[i] \in Listed(tree)
    BY DEF SampleLists
  <2>3. Nullified(top, L) \in SampleLists
    <3>1. \A i \in DOMAIN L : [hit |-> L[i].hit, node |-> IF L[i].node = top THEN None ELSE L[i].node] \in Listed(tree)
      BY <2>2 DEF Listed, None
    <3>2. DOMAIN L = 1 .. Len(L) /\ Len(L) \in Nat
      BY DEF SampleLists
    <3>. HIDE DEF top
    <3>. QED  BY <3>1, <3>2 DEF Nullified, SampleLists
  <2>4. ProcessSampleList(tree)[top][L] \in SampleLists
    <3>. HIDE DEF top
    <3>. QED  BY <2>1, ProcessDef DEF Processes
  <2>5. ProcessTree(tree, n, L) = IF IsPrimitive(tree, top) THEN Nullified(top, L) ELSE ProcessSampleList(tree)[top][L]
    BY DEF ProcessTree
  <2>. HIDE DEF n, top
  <2>. QED  BY <2>3, <2>4, <2>5 DEF n
<1>. QED  BY <1>1, <1>2

\* What Processed does, turn by turn.
Takes(turns, L) ==
  /\ turns[0] = L
  /\ \A k \in 1 .. Len(L) : turns[k] = Turned(tree, turns[k - 1])
  /\ Processed(tree, L) = turns[Len(L)]

LEMMA ProcessedDef ==
  ASSUME TreeShape, NEW L \in SampleLists
  PROVE  \E turns \in [0 .. Len(L) -> SampleLists] : Takes(turns, L)
<1>. DEFINE K == Len(L)
            V == SampleLists
            step == [vi \in V \X (1 .. K) |-> Turned(tree, vi[1])]
            Eq(g) == [i \in 0 .. K |-> IF i = 0 THEN L ELSE Turned(tree, g[i - 1])]
<1>1. K \in Nat /\ L \in V
  BY DEF SampleLists
<1>2. \A v \in V : Turned(tree, v) \in V
  BY TurnedDef
<1>3. step \in [V \X (1 .. K) -> V]
  <2>. HIDE DEF V, K
  <2>. QED  BY <1>2
<1>4. PICK g \in [0 .. K -> V] : Turns(g, K, L, step)
  <2>. HIDE DEF step, V, K
  <2>. QED  BY <1>1, <1>3, Iteration
<1>5. \A i \in 0 .. K : g[i] = IF i = 0 THEN L ELSE Turned(tree, g[i - 1])
  <2>1. ASSUME NEW i \in 1 .. K, NEW v \in V  PROVE step[<<v, i>>] = Turned(tree, v)
    OBVIOUS
  <2>2. \A i \in 0 .. K : g[i] = IF i = 0 THEN L ELSE step[<<g[i - 1], i>>]
    BY <1>4 DEF Turns
  <2>3. ASSUME NEW i \in 1 .. K  PROVE g[i] = Turned(tree, g[i - 1])
    <3>1. i \in 0 .. K /\ i # 0 /\ i - 1 \in 0 .. K
      BY <1>1
    <3>2. g[i - 1] \in V
      <4>. HIDE DEF V, K
      <4>. QED  BY <3>1
    <3>. HIDE DEF step, V, K
    <3>. QED  BY <2>1, <2>2, <3>1, <3>2
  <2>4. \A i \in 0 .. K : i = 0 \/ i \in 1 .. K
    BY <1>1
  <2>. HIDE DEF step, V, K
  <2>. QED  BY <2>2, <2>3, <2>4
<1>6. g = Eq(g)
  <2>. HIDE DEF V, K
  <2>. QED  BY <1>5
<1>. DEFINE turns == CHOOSE f : f = Eq(f)
<1>7. Processed(tree, L) = turns[K]
  BY DEF Processed
<1>8. turns = Eq(turns)
  <2>. HIDE DEF Eq
  <2>. QED  BY <1>6
<1>. HIDE DEF turns
<1>9. turns[0] = L /\ \A i \in 1 .. K : turns[i] = Turned(tree, turns[i - 1])
  <2>. HIDE DEF K
  <2>. QED  BY <1>1, <1>8
<1>10. \A i \in 0 .. K : turns[i] \in V
  <2>. DEFINE S == {j \in Nat : j <= K => turns[j] \in V}
  <2>1. 0 \in S
    BY <1>1, <1>9
  <2>2. ASSUME NEW j \in Nat, j \in S  PROVE j + 1 \in S
    <3>1. CASE j + 1 <= K
      <4>1. j + 1 \in 1 .. K /\ j + 1 - 1 = j /\ j <= K
        BY <1>1, <3>1
      <4>. HIDE DEF V, K
      <4>. QED  BY <1>2, <1>9, <2>2, <4>1
    <3>. QED  BY <3>1
  <2>3. \A j \in Nat : j \in S
    <3>. HIDE DEF S
    <3>. QED  BY <2>1, <2>2, Steps
  <2>4. \A j \in 0 .. K : j \in Nat /\ j <= K
    BY <1>1
  <2>. HIDE DEF V, K
  <2>. QED  BY <2>3, <2>4
<1>11. turns \in [0 .. K -> V]
  <2>. HIDE DEF V, K
  <2>. QED  BY <1>1, <1>8, <1>10
<1>. QED  BY <1>7, <1>9, <1>11 DEF Takes

-----------------------------------------------------------------------------
(* One tree after the other. *)

OwnerOf(s, m) == owner[s[m].id]
RootOf(s, m) == Roots(tree)[OwnerOf(s, m)]

\* Hits of trees that are not done are there with the nodes of their surfaces,
\* of the others only walls, without a node.
Shows(s, D, e, m) ==
  \/ e = [hit |-> s[m], node |-> OwnerOf(s, m)] /\ (OwnerOf(s, m) = None \/ RootOf(s, m) \notin D)
  \/ e = [hit |-> s[m], node |-> None] /\ OwnerOf(s, m) # None /\ RootOf(s, m) \in D /\ IsWall(s, m)

AfterTrees(s, D, L) ==
  /\ InPlaces(s, L)
  /\ \A e : e \in Range(L) <=> \E m \in DOMAIN s : Shows(s, D, e, m)

Pending(s, D) == {m \in DOMAIN s : OwnerOf(s, m) # None /\ RootOf(s, m) \notin D}

LEMMA WallMeans ==
  ASSUME NEW s, NEW m, OwnerOf(s, m) # None
  PROVE  IsWall(s, m) <=> \/ IsPrimitive(tree, RootOf(s, m))
                          \/ Within(s, m)[RootOf(s, m)] # Within(s, m - 1)[RootOf(s, m)]
BY DEF IsWall, OwnerOf, RootOf

\* The tree of a primitive alone.
LEMMA TurnOfPrimitive ==
  ASSUME TreeShape, NEW s, Along(s), Owned(s), NEW D, NEW L, AfterTrees(s, D, L),
         NEW r \in Nodes, r \notin D, tree[r].parent = None, IsPrimitive(tree, r)
  PROVE  AfterTrees(s, D \cup {r}, Nullified(r, L))
<1>. DEFINE M == Nullified(r, L)
            E == D \cup {r}
            New(e) == [hit |-> e.hit, node |-> IF e.node = r THEN None ELSE e.node]
<1>0. InPlaces(s, L) /\ L \in Seq(Listed(tree)) /\ \A e : e \in Range(L) <=> \E m \in DOMAIN s : Shows(s, D, e, m)
  BY DEF AfterTrees, InPlaces, SampleLists
<1>1. DOMAIN M = DOMAIN L /\ DOMAIN L = 1 .. Len(L) /\ \A k \in DOMAIN L : M[k] = New(L[k]) /\ M[k].hit = L[k].hit
  BY <1>0 DEF Nullified
<1>2. M \in SampleLists
  <2>1. \A k \in DOMAIN L : New(L[k]) \in Listed(tree)
    <3>1. \A k \in DOMAIN L : L[k] \in Listed(tree)
      BY <1>0
    <3>2. \A e \in Listed(tree) : New(e) \in Listed(tree)
      BY DEF Listed
    <3>. QED  BY <3>1, <3>2
  <2>2. Len(L) \in Nat /\ M = [k \in DOMAIN L |-> New(L[k])]
    BY <1>0 DEF Nullified
  <2>. HIDE DEF M, New
  <2>. QED  BY <1>1, <2>1, <2>2 DEF SampleLists
<1>. HIDE DEF M
<1>3. InPlaces(s, M)
  BY <1>0, <1>1, <1>2 DEF InPlaces
<1>4. \A e : e \in Range(M) <=> \E x \in Range(L) : e = New(x)
  BY <1>1 DEF Range
<1>5. \A m \in DOMAIN s : OwnerOf(s, m) # None => (RootOf(s, m) = r <=> OwnerOf(s, m) = r)
  <2>1. Childless(r) /\ Roots(tree)[r] = r
    BY RootsDef DEF IsPrimitive, TreeShape, Childless
  <2>2. \A m \in DOMAIN s : OwnerOf(s, m) # None => OwnerOf(s, m) \in Nodes
    BY DEF Owned, OwnerOf
  <2>. QED  BY <2>1, <2>2, RootFacts DEF RootOf
<1>6. r # None
  BY DEF IsPrimitive
<1>7. ASSUME NEW m \in DOMAIN s, NEW x, Shows(s, D, x, m)  PROVE Shows(s, E, New(x), m)
  <2>1. CASE x = [hit |-> s[m], node |-> OwnerOf(s, m)] /\ (OwnerOf(s, m) = None \/ RootOf(s, m) \notin D)
    <3>1. CASE OwnerOf(s, m) = None
      BY <1>6, <2>1, <3>1 DEF Shows
    <3>2. CASE OwnerOf(s, m) # None /\ RootOf(s, m) # r
      <4>1. New(x) = x
        BY <1>5, <2>1, <3>2
      <4>. QED  BY <2>1, <3>2, <4>1 DEF Shows
    <3>3. CASE OwnerOf(s, m) # None /\ RootOf(s, m) = r
      <4>1. New(x) = [hit |-> s[m], node |-> None]
        BY <1>5, <2>1, <3>3
      <4>2. IsWall(s, m)
        BY <3>3, WallMeans
      <4>. QED  BY <3>3, <4>1, <4>2 DEF Shows
    <3>. QED  BY <3>1, <3>2, <3>3
  <2>2. CASE x = [hit |-> s[m], node |-> None] /\ OwnerOf(s, m) # None /\ RootOf(s, m) \in D /\ IsWall(s, m)
    <3>1. New(x) = x
      BY <1>6, <2>2
    <3>. QED  BY <2>2, <3>1 DEF Shows
  <2>. QED  BY <1>7, <2>1, <2>2 DEF Shows
<1>8. ASSUME NEW m \in DOMAIN s, NEW e, Shows(s, E, e, m)  PROVE \E x : Shows(s, D, x, m) /\ e = New(x)
  <2>1. CASE e = [hit |-> s[m], node |-> OwnerOf(s, m)] /\ (OwnerOf(s, m) = None \/ RootOf(s, m) \notin E)
    <3>1. Shows(s, D, e, m)
      BY <2>1 DEF Shows
    <3>2. OwnerOf(s, m) # r
      BY <1>5, <1>6, <2>1
    <3>3. e = New(e)
      BY <2>1, <3>2
    <3>. QED  BY <3>1, <3>3
  <2>2. CASE e = [hit |-> s[m], node |-> None] /\ OwnerOf(s, m) # None /\ RootOf(s, m) \in E /\ IsWall(s, m)
    <3>1. CASE RootOf(s, m) \in D
      <4>1. Shows(s, D, e, m) /\ e = New(e)
        BY <1>6, <2>2, <3>1 DEF Shows
      <4>. QED  BY <4>1
    <3>2. CASE RootOf(s, m) = r
      <4>. DEFINE x == [hit |-> s[m], node |-> OwnerOf(s, m)]
      <4>1. Shows(s, D, x, m)
        BY <3>2 DEF Shows
      <4>2. e = New(x)
        BY <1>5, <2>2, <3>2
      <4>. QED  BY <4>1, <4>2
    <3>. QED  BY <2>2, <3>1, <3>2
  <2>. QED  BY <1>8, <2>1, <2>2 DEF Shows
<1>. HIDE DEF New, E
<1>9. \A e : e \in Range(M) <=> \E m \in DOMAIN s : Shows(s, E, e, m)
  BY <1>0, <1>4, <1>7, <1>8
<1>. QED  BY <1>3, <1>9 DEF AfterTrees, M, E

\* The tree of an operation.
LEMMA TurnOfOperation ==
  ASSUME TreeShape, NEW s, Along(s), Owned(s), NEW D, NEW L, AfterTrees(s, D, L),
         NEW r, r \notin D, Operation(r), tree[r].parent = None
  PROVE  AfterTrees(s, D \cup {r}, ProcessSampleList(tree)[r][L])
<1>. DEFINE M == ProcessSampleList(tree)[r][L]
            E == D \cup {r}
<1>0. /\ InPlaces(s, L) /\ \A e : e \in Range(L) <=> \E m \in DOMAIN s : Shows(s, D, e, m)
      /\ r \in Nodes /\ tree[r].type # "primitive" /\ Walked(s) /\ DOMAIN s = 1 .. Len(s)
  BY PlaceFacts DEF AfterTrees, Operation, Along
<1>1. \A d \in Under(r) : d \in Nodes /\ d # None
  BY <1>0, UnderFacts, TreeFacts
<1>2. ASSUME NEW m \in DOMAIN s, OwnerOf(s, m) # None
      PROVE  /\ OwnerOf(s, m) # r
             /\ RootOf(s, m) = r <=> OwnerOf(s, m) \in Under(r)
  <2>1. OwnerOf(s, m) \in Nodes /\ OwnerOf(s, m) # r
    BY <1>0, <1>2 DEF Owned, OwnerOf
  <2>. QED  BY <1>0, <2>1, UnderRoot DEF RootOf
<1>3. ASSUME NEW d \in Under(r)  PROVE Of(L, d) = Marked(s, Own(s, d), d)
  <2>1. ASSUME NEW e \in Range(L), e.node = d  PROVE e \in Marked(s, Own(s, d), d)
    <3>1. PICK m \in DOMAIN s : Shows(s, D, e, m)
      BY <1>0
    <3>2. e = [hit |-> s[m], node |-> d] /\ OwnerOf(s, m) = d
      BY <1>1, <2>1, <3>1 DEF Shows
    <3>3. m \in Own(s, d)
      BY <1>0, <3>2 DEF Own, OwnerOf
    <3>. QED  BY <3>2, <3>3 DEF Marked
  <2>2. ASSUME NEW m \in Own(s, d)  PROVE [hit |-> s[m], node |-> d] \in Of(L, d)
    <3>1. m \in DOMAIN s /\ OwnerOf(s, m) = d
      BY <1>0 DEF Own, OwnerOf
    <3>2. RootOf(s, m) = r
      BY <1>1, <1>2, <3>1
    <3>3. Shows(s, D, [hit |-> s[m], node |-> d], m)
      BY <3>1, <3>2 DEF Shows
    <3>. QED  BY <1>0, <3>1, <3>3 DEF Of
  <2>. QED  BY <2>1, <2>2 DEF Of, Marked
<1>4. Scene(s, r, L)
  BY <1>0, <1>3 DEF Scene, Unprocessed
<1>5. InPlaces(s, M) /\ Range(M) = {e \in Range(L) : e.node \notin Under(r)} \cup Marked(s, Flips(s, r), Label(r))
  <2>1. OnlyWallsLeft(s, r, L, M)
    BY <1>0, <1>4, ProcessLeaves DEF ProcessKeepsWalls
  <2>. HIDE DEF M
  <2>. QED  BY <2>1 DEF OnlyWallsLeft
<1>6. Label(r) = None
  BY DEF Label
<1>7. \A m \in Flips(s, r) : m \in DOMAIN s /\ OwnerOf(s, m) # None /\ RootOf(s, m) = r /\ IsWall(s, m)
  <2>1. ASSUME NEW m \in Flips(s, r)
        PROVE  m \in DOMAIN s /\ OwnerOf(s, m) # None /\ RootOf(s, m) = r /\ IsWall(s, m)
    <3>1. m \in DOMAIN s /\ Within(s, m)[r] # Within(s, m - 1)[r]
      BY <1>0 DEF Flips
    <3>2. OwnerOf(s, m) = r \/ OwnerOf(s, m) \in Under(r)
      BY <1>0, FlipsInside DEF OwnerOf
    <3>3. OwnerOf(s, m) # None
      BY <1>0, <1>1, <3>2, TreeFacts
    <3>4. RootOf(s, m) = r
      BY <1>2, <3>1, <3>2, <3>3
    <3>. QED  BY <3>1, <3>3, <3>4, WallMeans
  <2>. QED  BY <2>1
<1>8. ASSUME NEW e \in Range(L), e.node \notin Under(r)  PROVE \E m \in DOMAIN s : Shows(s, E, e, m)
  <2>1. PICK m \in DOMAIN s : Shows(s, D, e, m)
    BY <1>0
  <2>2. CASE e = [hit |-> s[m], node |-> OwnerOf(s, m)] /\ (OwnerOf(s, m) = None \/ RootOf(s, m) \notin D)
    <3>1. OwnerOf(s, m) = None \/ RootOf(s, m) # r
      BY <1>2, <1>8, <2>2
    <3>. QED  BY <2>2, <3>1 DEF Shows
  <2>3. CASE e = [hit |-> s[m], node |-> None] /\ OwnerOf(s, m) # None /\ RootOf(s, m) \in D /\ IsWall(s, m)
    BY <2>3 DEF Shows
  <2>. QED  BY <2>1, <2>2, <2>3 DEF Shows
<1>9. ASSUME NEW e \in Marked(s, Flips(s, r), None)  PROVE \E m \in DOMAIN s : Shows(s, E, e, m)
  <2>1. PICK m \in Flips(s, r) : e = [hit |-> s[m], node |-> None]
    BY DEF Marked
  <2>2. m \in DOMAIN s /\ Shows(s, E, e, m)
    BY <1>7, <2>1 DEF Shows
  <2>. QED  BY <2>2
<1>10. ASSUME NEW m \in DOMAIN s, NEW e, Shows(s, E, e, m)
       PROVE  (e \in Range(L) /\ e.node \notin Under(r)) \/ e \in Marked(s, Flips(s, r), None)
  <2>1. CASE e = [hit |-> s[m], node |-> OwnerOf(s, m)] /\ (OwnerOf(s, m) = None \/ RootOf(s, m) \notin E)
    <3>1. Shows(s, D, e, m)
      BY <2>1 DEF Shows
    <3>2. OwnerOf(s, m) \notin Under(r)
      BY <1>1, <1>2, <2>1
    <3>. QED  BY <1>0, <2>1, <3>1, <3>2
  <2>2. CASE e = [hit |-> s[m], node |-> None] /\ OwnerOf(s, m) # None /\ RootOf(s, m) \in E /\ IsWall(s, m)
    <3>1. CASE RootOf(s, m) \in D
      <4>1. Shows(s, D, e, m)
        BY <2>2, <3>1 DEF Shows
      <4>. QED  BY <1>0, <1>1, <2>2, <4>1
    <3>2. CASE RootOf(s, m) = r
      <4>1. ~IsPrimitive(tree, r)
        BY <1>0 DEF IsPrimitive
      <4>2. m \in Flips(s, r)
        BY <1>0, <2>2, <3>2, <4>1, WallMeans DEF Flips
      <4>. QED  BY <2>2, <4>2 DEF Marked
    <3>. QED  BY <2>2, <3>1, <3>2
  <2>. QED  BY <1>10, <2>1, <2>2 DEF Shows
<1>. HIDE DEF M, E
<1>11. \A e : e \in Range(M) <=> \E m \in DOMAIN s : Shows(s, E, e, m)
  BY <1>5, <1>6, <1>8, <1>9, <1>10
<1>. QED  BY <1>5, <1>11 DEF AfterTrees, M, E

\* A turn does a tree that was not done, or there is none.
LEMMA TurnDoesTree ==
  ASSUME TreeShape, NEW s, Along(s), Owned(s), NEW D, NEW L, AfterTrees(s, D, L)
  PROVE  IF AllDone(L) THEN Turned(tree, L) = L /\ Pending(s, D) = {}
         ELSE \E r : /\ AfterTrees(s, D \cup {r}, Turned(tree, L))
                     /\ \E m \in Pending(s, D) : m \notin Pending(s, D \cup {r})
<1>0. InPlaces(s, L) /\ L \in SampleLists /\ \A e : e \in Range(L) <=> \E m \in DOMAIN s : Shows(s, D, e, m)
  BY DEF AfterTrees, InPlaces
<1>1. CASE AllDone(L)
  <2>1. ASSUME NEW m \in Pending(s, D)  PROVE FALSE
    <3>. DEFINE e == [hit |-> s[m], node |-> OwnerOf(s, m)]
    <3>1. m \in DOMAIN s /\ Shows(s, D, e, m) /\ e.node # None
      BY DEF Pending, Shows
    <3>2. e \in Range(L)
      <4>. HIDE DEF e
      <4>. QED  BY <1>0, <3>1
    <3>. QED  BY <1>1, <3>1, <3>2 DEF AllDone, Range
  <2>. QED  BY <1>0, <1>1, <2>1, TurnedDef
<1>2. CASE ~AllDone(L)
  <2>. DEFINE x == L[First(L)]
  <2>1. x \in Range(L) /\ x.node \in Nodes /\ x.node # None
    <3>1. First(L) \in DOMAIN L /\ x.node \in Nodes
      BY <1>0, <1>2, FirstFacts
    <3>. QED  BY <3>1, TreeFacts DEF Range
  <2>. HIDE DEF x
  <2>2. PICK m \in DOMAIN s : Shows(s, D, x, m)
    BY <1>0, <2>1
  <2>3. x.node = OwnerOf(s, m) /\ OwnerOf(s, m) # None /\ RootOf(s, m) \notin D
    BY <2>1, <2>2 DEF Shows
  <2>. DEFINE r == RootOf(s, m)
  <2>4. r = Roots(tree)[x.node] /\ r \in Nodes /\ tree[r].parent = None /\ r \notin D /\ (Childless(r) => r = x.node)
    BY <2>1, <2>3, RootFacts DEF RootOf
  <2>5. tree[x.node].type = "primitive"
    BY <2>2, <2>3 DEF Owned, OwnerOf
  <2>6. Turned(tree, L) = IF IsPrimitive(tree, r) THEN Nullified(r, L) ELSE ProcessSampleList(tree)[r][L]
    <3>1. Turned(tree, L) = ProcessTree(tree, x.node, L)
      BY <1>0, <1>2, TurnedDef DEF x
    <3>. QED  BY <2>4, <3>1 DEF ProcessTree
  <2>7. AfterTrees(s, D \cup {r}, Turned(tree, L))
    <3>. HIDE DEF r
    <3>1. CASE IsPrimitive(tree, r)
      BY <2>4, <2>6, <3>1, TurnOfPrimitive
    <3>2. CASE ~IsPrimitive(tree, r)
      <4>1. Operation(r)
        BY <2>4, <2>5, <3>2, TreeFacts DEF Operation, IsPrimitive
      <4>. QED  BY <2>4, <2>6, <3>2, <4>1, TurnOfOperation
    <3>. QED  BY <3>1, <3>2
  <2>8. m \in Pending(s, D) /\ m \notin Pending(s, D \cup {r})
    BY <2>2, <2>3 DEF Pending
  <2>. QED  BY <1>2, <2>7, <2>8
<1>. QED  BY <1>1, <1>2

\* There are no more turns to take than there are samples.
TurnsLeft(s, L, b) == \E D : AfterTrees(s, D, L) /\ Cardinality(Pending(s, D)) <= b

LEMMA PendingFinite ==
  ASSUME NEW s, Along(s), NEW D
  PROVE  IsFiniteSet(Pending(s, D)) /\ Cardinality(Pending(s, D)) \in Nat /\ Cardinality(Pending(s, D)) <= Len(s)
<1>1. DOMAIN s = 1 .. Len(s) /\ Len(s) \in Nat
  BY PlaceFacts
<1>2. IsFiniteSet(1 .. Len(s)) /\ Cardinality(1 .. Len(s)) = Len(s)
  <2>. DEFINE N == Len(s)
  <2>. HIDE DEF N
  <2>1. N \in Nat
    BY <1>1 DEF N
  <2>2. IsFiniteSet(1 .. N) /\ Cardinality(1 .. N) = IF 1 > N THEN 0 ELSE N - 1 + 1
    BY <2>1, FS_Interval
  <2>. QED  BY <2>1, <2>2 DEF N
<1>3. Pending(s, D) \subseteq 1 .. Len(s)
  BY <1>1 DEF Pending
<1>4. IsFiniteSet(Pending(s, D)) /\ Cardinality(Pending(s, D)) <= Cardinality(1 .. Len(s))
  BY <1>2, <1>3, FS_Subset
<1>. QED  BY <1>2, <1>4, FS_CardinalityType

LEMMA TurnCounts ==
  ASSUME TreeShape, NEW s, Along(s), Owned(s), NEW L, NEW b \in Nat, TurnsLeft(s, L, b)
  PROVE  TurnsLeft(s, Turned(tree, L), IF b = 0 THEN 0 ELSE b - 1)
<1>1. PICK D : AfterTrees(s, D, L) /\ Cardinality(Pending(s, D)) <= b
  BY DEF TurnsLeft
<1>2. CASE AllDone(L)
  <2>1. Turned(tree, L) = L /\ Pending(s, D) = {}
    BY <1>1, <1>2, TurnDoesTree
  <2>2. Cardinality(Pending(s, D)) = 0
    BY <2>1, FS_EmptySet
  <2>3. AfterTrees(s, D, Turned(tree, L)) /\ 0 <= IF b = 0 THEN 0 ELSE b - 1
    BY <1>1, <2>1
  <2>. QED  BY <2>2, <2>3 DEF TurnsLeft
<1>3. CASE ~AllDone(L)
  <2>1. PICK r : /\ AfterTrees(s, D \cup {r}, Turned(tree, L))
                 /\ \E m \in Pending(s, D) : m \notin Pending(s, D \cup {r})
    BY <1>1, <1>3, TurnDoesTree
  <2>. DEFINE X == Pending(s, D)
              Y == Pending(s, D \cup {r})
  <2>2. Y \subseteq X /\ Y # X
    <3>1. Y \subseteq X
      BY DEF Pending
    <3>. QED  BY <2>1, <3>1
  <2>3. IsFiniteSet(X) /\ Cardinality(X) \in Nat /\ Cardinality(Y) \in Nat
    BY PendingFinite
  <2>4. Cardinality(Y) < Cardinality(X)
    <3>. HIDE DEF X, Y
    <3>. QED  BY <2>2, <2>3, FS_Subset
  <2>5. Cardinality(Y) <= IF b = 0 THEN 0 ELSE b - 1
    <3>. HIDE DEF X, Y
    <3>1. Cardinality(X) <= b
      BY <1>1 DEF X
    <3>. QED  BY <2>3, <2>4, <3>1
  <2>. QED  BY <2>1, <2>5 DEF TurnsLeft
<1>. QED  BY <1>2, <1>3

\* When the loop ends, the walls are left.
LEMMA ProcessedShows ==
  ASSUME TreeShape, NEW s, Along(s), Owned(s), NEW L, AfterTrees(s, {}, L), Len(L) = Len(s)
  PROVE  /\ InPlaces(s, Processed(tree, L))
         /\ \A e : e \in Range(Processed(tree, L)) <=>
              \E m \in DOMAIN s : IsWall(s, m) /\ e = [hit |-> s[m], node |-> None]
<1>. DEFINE K == Len(L)
<1>0. L \in SampleLists /\ K \in Nat
  BY DEF AfterTrees, InPlaces, SampleLists
<1>1. PICK turns \in [0 .. K -> SampleLists] : Takes(turns, L)
  BY <1>0, ProcessedDef
<1>. DEFINE S == {k \in Nat : k <= K => TurnsLeft(s, turns[k], K - k)}
<1>2. 0 \in S
  <2>1. Cardinality(Pending(s, {})) <= K - 0
    BY <1>0, PendingFinite
  <2>. QED  BY <1>1, <2>1 DEF TurnsLeft, Takes
<1>3. ASSUME NEW k \in Nat, k \in S  PROVE k + 1 \in S
  <2>1. CASE k + 1 <= K
    <3>1. k + 1 \in 1 .. K /\ k + 1 - 1 = k /\ k <= K /\ K - k \in Nat /\ K - k # 0 /\ K - k - 1 = K - (k + 1)
      BY <1>0, <2>1
    <3>2. TurnsLeft(s, turns[k], K - k)
      BY <1>3, <3>1
    <3>3. TurnsLeft(s, Turned(tree, turns[k]), K - k - 1)
      <4>1. TurnsLeft(s, Turned(tree, turns[k]), IF K - k = 0 THEN 0 ELSE K - k - 1)
        <5>. HIDE DEF K
        <5>. QED  BY <3>1, <3>2, TurnCounts
      <4>. QED  BY <3>1, <4>1
    <3>4. turns[k + 1] = Turned(tree, turns[k])
      <4>1. \A i \in 1 .. K : turns[i] = Turned(tree, turns[i - 1])
        BY <1>1 DEF Takes
      <4>. HIDE DEF K
      <4>. QED  BY <3>1, <4>1
    <3>. QED  BY <3>1, <3>3, <3>4
  <2>. QED  BY <2>1
<1>4. K \in S
  <2>1. \A k \in Nat : k \in S
    <3>. HIDE DEF S
    <3>. QED  BY <1>2, <1>3, Steps
  <2>. QED  BY <1>0, <2>1
<1>5. TurnsLeft(s, turns[K], 0)
  BY <1>0, <1>4
<1>6. PICK D : AfterTrees(s, D, turns[K]) /\ Cardinality(Pending(s, D)) <= 0
  BY <1>5 DEF TurnsLeft
<1>7. Pending(s, D) = {}
  <2>1. Cardinality(Pending(s, D)) = 0
    BY <1>6, PendingFinite
  <2>. QED  BY <2>1, PendingFinite, FS_EmptySet
<1>. DEFINE M == Processed(tree, L)
<1>8. InPlaces(s, M) /\ \A e : e \in Range(M) <=> \E m \in DOMAIN s : Shows(s, D, e, m)
  BY <1>1, <1>6 DEF Takes, AfterTrees
<1>9. ASSUME NEW m \in DOMAIN s, NEW e
      PROVE  Shows(s, D, e, m) <=> IsWall(s, m) /\ e = [hit |-> s[m], node |-> None]
  <2>1. CASE OwnerOf(s, m) = None
    <3>1. IsWall(s, m)
      BY <2>1 DEF IsWall, OwnerOf
    <3>. QED  BY <2>1, <3>1 DEF Shows
  <2>2. CASE OwnerOf(s, m) # None
    <3>1. RootOf(s, m) \in D
      BY <1>7, <2>2 DEF Pending
    <3>. QED  BY <2>2, <3>1 DEF Shows
  <2>. QED  BY <2>1, <2>2
<1>. HIDE DEF M
<1>10. \A e : e \in Range(M) <=> \E m \in DOMAIN s : IsWall(s, m) /\ e = [hit |-> s[m], node |-> None]
  BY <1>8, <1>9
<1>. QED  BY <1>8, <1>10 DEF M

-----------------------------------------------------------------------------
(* The hits of one sample in the order of their depths. *)

\* No two hits are of one micropolygon.
Distinct(H) == H \subseteq Hits /\ IsFiniteSet(H) /\ \A g, h \in H : g.id = h.id => g = h

Ahead(H, h) == {g \in H : Before(g, h)}

LEMMA BeforeFacts ==
  ASSUME NEW g \in Hits, NEW h \in Hits
  PROVE  /\ ~Before(h, h)
         /\ ~(Before(g, h) /\ Before(h, g))
         /\ \A k \in Hits : Before(g, h) /\ Before(h, k) => Before(g, k)
         /\ g.id # h.id => Before(g, h) \/ Before(h, g)
         /\ Before(g, h) => g.z <= h.z
         /\ g.z < h.z => Before(g, h)
<1>1. \A k \in Hits : k.z \in Nat /\ k.id \in Nat
  BY HitFacts, NamesAssumption DEF Hits
<1>. QED  BY <1>1 DEF Before

LEMMA RankFacts ==
  ASSUME NEW H, Distinct(H)
  PROVE  /\ Cardinality(H) \in Nat
         /\ \A h \in H : Cardinality(Ahead(H, h)) \in 0 .. Cardinality(H) - 1
         /\ \A g, h \in H : Before(g, h) <=> Cardinality(Ahead(H, g)) < Cardinality(Ahead(H, h))
         /\ \A i \in 1 .. Cardinality(H) : \E h \in H : Cardinality(Ahead(H, h)) = i - 1
<1>. DEFINE N == Cardinality(H)
            rank == [h \in H |-> Cardinality(Ahead(H, h)) + 1]
<1>0. H \subseteq Hits /\ IsFiniteSet(H) /\ N \in Nat /\ \A g, h \in H : g.id = h.id => g = h
  BY FS_CardinalityType DEF Distinct
<1>1. \A h \in H : Ahead(H, h) \in SUBSET H /\ h \notin Ahead(H, h)
  BY <1>0, BeforeFacts DEF Ahead
<1>2. ASSUME NEW h \in H  PROVE Cardinality(Ahead(H, h)) \in Nat /\ Cardinality(Ahead(H, h)) < N
  <2>1. IsFiniteSet(Ahead(H, h)) /\ Cardinality(Ahead(H, h)) <= N /\ Cardinality(Ahead(H, h)) # N
    BY <1>0, <1>1, FS_Subset
  <2>2. Cardinality(Ahead(H, h)) \in Nat
    BY <2>1, FS_CardinalityType
  <2>. QED  BY <1>0, <2>1, <2>2
<1>3. ASSUME NEW g \in H, NEW h \in H, Before(g, h)
      PROVE  Cardinality(Ahead(H, g)) < Cardinality(Ahead(H, h))
  <2>1. Ahead(H, g) \in SUBSET Ahead(H, h)
    BY <1>0, <1>3, BeforeFacts DEF Ahead
  <2>2. g \in Ahead(H, h) /\ g \notin Ahead(H, g)
    BY <1>1, <1>3 DEF Ahead
  <2>3. IsFiniteSet(Ahead(H, h))
    BY <1>0, <1>1, FS_Subset
  <2>4. Cardinality(Ahead(H, g)) <= Cardinality(Ahead(H, h)) /\ Cardinality(Ahead(H, g)) # Cardinality(Ahead(H, h))
    BY <2>1, <2>2, <2>3, FS_Subset
  <2>. QED  BY <1>2, <2>4
<1>4. ASSUME NEW g \in H, NEW h \in H
      PROVE  Before(g, h) <=> Cardinality(Ahead(H, g)) < Cardinality(Ahead(H, h))
  <2>1. g = h \/ Before(g, h) \/ Before(h, g)
    BY <1>0, BeforeFacts
  <2>2. g = h => ~Before(g, h)
    BY <1>0, BeforeFacts
  <2>. QED  BY <1>2, <1>3, <2>1, <2>2
<1>5. rank \in Injection(H, 1 .. N)
  <2>1. \A h \in H : rank[h] \in 1 .. N
    BY <1>0, <1>2
  <2>2. ASSUME NEW g \in H, NEW h \in H, rank[g] = rank[h]  PROVE g = h
    <3>1. ~Before(g, h) /\ ~Before(h, g)
      BY <1>2, <1>4, <2>2
    <3>. QED  BY <1>0, <3>1, BeforeFacts
  <2>3. rank = [h \in H |-> rank[h]]
    OBVIOUS
  <2>. HIDE DEF rank, N
  <2>4. rank \in [H -> 1 .. N]
    BY <2>1, <2>3
  <2>. QED  BY <2>2, <2>4 DEF Injection, IsInjective
<1>6. IsFiniteSet(1 .. N) /\ Cardinality(1 .. N) = N
  <2>. HIDE DEF N
  <2>1. IsFiniteSet(1 .. N) /\ Cardinality(1 .. N) = IF 1 > N THEN 0 ELSE N - 1 + 1
    BY <1>0, FS_Interval
  <2>. QED  BY <1>0, <2>1
<1>7. rank \in Surjection(H, 1 .. N)
  <2>. HIDE DEF rank
  <2>. QED  BY <1>5, <1>6, FS_Injection
<1>8. \A i \in 1 .. N : \E h \in H : rank[h] = i
  <2>. HIDE DEF rank, N
  <2>. QED  BY <1>7 DEF Surjection
<1>9. ASSUME NEW i \in 1 .. N  PROVE \E h \in H : Cardinality(Ahead(H, h)) = i - 1
  <2>1. PICK h \in H : rank[h] = i
    BY <1>8
  <2>2. Cardinality(Ahead(H, h)) + 1 = i
    BY <2>1
  <2>. QED  BY <1>2, <2>2
<1>10. \A h \in H : Cardinality(Ahead(H, h)) \in 0 .. N - 1
  <2>. HIDE DEF N
  <2>. QED  BY <1>0, <1>2
<1>. QED  BY <1>0, <1>4, <1>9, <1>10

LEMMA InOrderFacts ==
  ASSUME NEW H, Distinct(H)
  PROVE  /\ Along(InOrder(H)) /\ Range(InOrder(H)) = H /\ Len(InOrder(H)) = Cardinality(H)
         /\ \A i, j \in DOMAIN InOrder(H) : i < j <=> Before(InOrder(H)[i], InOrder(H)[j])
         /\ \A g, h \in H : Before(g, h) <=> Place(InOrder(H), g) < Place(InOrder(H), h)
<1>. DEFINE N == Cardinality(H)
            s == InOrder(H)
            At(i) == CHOOSE h \in H : Cardinality(Ahead(H, h)) = i - 1
<1>0. H \subseteq Hits /\ N \in Nat
  BY RankFacts DEF Distinct
<1>1. s = [i \in 1 .. N |-> At(i)]
  BY DEF InOrder, Ahead
<1>2. \A i \in 1 .. N : At(i) \in H /\ Cardinality(Ahead(H, At(i))) = i - 1
  BY RankFacts
<1>. HIDE DEF s, At, N
<1>3. \A i \in 1 .. N : s[i] \in H /\ Cardinality(Ahead(H, s[i])) = i - 1
  BY <1>1, <1>2
<1>4. s \in Seq(H) /\ Len(s) = N /\ DOMAIN s = 1 .. N
  <2>1. \A i \in 1 .. N : At(i) \in H
    BY <1>2
  <2>2. s \in [1 .. N -> H]
    BY <1>1, <2>1
  <2>. QED  BY <1>0, <2>2
<1>5. \A i, j \in 1 .. N : i < j <=> Before(s[i], s[j])
  <2>1. ASSUME NEW i \in 1 .. N, NEW j \in 1 .. N  PROVE i < j <=> Before(s[i], s[j])
    <3>1. Before(s[i], s[j]) <=> i - 1 < j - 1
      <4>1. Before(s[i], s[j]) <=> Cardinality(Ahead(H, s[i])) < Cardinality(Ahead(H, s[j]))
        BY <1>3, RankFacts
      <4>. QED  BY <1>3, <4>1
    <3>. QED  BY <1>0, <3>1
  <2>. QED  BY <2>1
<1>6. ASSUME NEW h \in H  PROVE \E i \in 1 .. N : s[i] = h
  <2>. DEFINE r == Cardinality(Ahead(H, h))
  <2>1. r \in 0 .. N - 1
    BY RankFacts DEF N
  <2>. HIDE DEF r
  <2>2. PICK i \in 1 .. N : i - 1 = r
    <3>1. r + 1 \in 1 .. N /\ r + 1 - 1 = r
      BY <1>0, <2>1
    <3>2. \A x : x \in 1 .. N /\ x - 1 = r => \E i \in 1 .. N : i - 1 = r
      OBVIOUS
    <3>. QED  BY <1>0, <2>1, <3>1, <3>2
  <2>3. s[i] \in H /\ Cardinality(Ahead(H, s[i])) = r
    BY <1>3, <2>2
  <2>4. ~Before(s[i], h) /\ ~Before(h, s[i])
    <3>1. /\ Before(s[i], h) <=> Cardinality(Ahead(H, s[i])) < Cardinality(Ahead(H, h))
          /\ Before(h, s[i]) <=> Cardinality(Ahead(H, h)) < Cardinality(Ahead(H, s[i]))
      BY <2>3, RankFacts
    <3>. QED  BY <2>1, <2>3, <3>1 DEF r
  <2>5. s[i] = h
    BY <1>0, <2>3, <2>4, BeforeFacts DEF Distinct
  <2>. QED  BY <2>2, <2>5
<1>7. Along(s)
  <2>1. s \in Seq(Hits)
    BY <1>0, <1>3, <1>4
  <2>2. ASSUME NEW i \in DOMAIN s, NEW j \in DOMAIN s, s[i] = s[j]  PROVE i = j
    <3>1. i - 1 = j - 1
      BY <1>3, <1>4, <2>2
    <3>. QED  BY <1>0, <1>4, <3>1
  <2>. QED  BY <2>1, <2>2 DEF Along, Walked
<1>8. Range(s) = H
  BY <1>3, <1>4, <1>6 DEF Range
<1>9. ASSUME NEW g \in H, NEW h \in H  PROVE Before(g, h) <=> Place(s, g) < Place(s, h)
  <2>1. /\ Place(s, g) \in 1 .. N /\ s[Place(s, g)] = g
        /\ Place(s, h) \in 1 .. N /\ s[Place(s, h)] = h
    BY <1>4, <1>7, <1>8, PlaceFacts
  <2>. QED  BY <1>5, <2>1
<1>10. Along(s) /\ Range(s) = H /\ Len(s) = N /\ (\A i, j \in DOMAIN s : i < j <=> Before(s[i], s[j]))
       /\ (\A g, h \in H : Before(g, h) <=> Place(s, g) < Place(s, h))
  BY <1>4, <1>5, <1>7, <1>8, <1>9
<1>. QED  BY <1>10 DEF s, N

\* The samples that Combine makes of stored hits, whose surfaces are all known.
Combinable(H) ==
  /\ Distinct(H)
  /\ \A h \in H : h.id \in DOMAIN owner
  /\ \A i \in DOMAIN owner : owner[i] = None \/ (IsPrimitive(tree, owner[i]) /\ owner[i] \in Nodes)

LEMMA SamplesFacts ==
  ASSUME TreeShape, NEW H, Combinable(H)
  PROVE  /\ Owned(InOrder(H)) /\ AfterTrees(InOrder(H), {}, Samples(H))
         /\ Len(Samples(H)) = Len(InOrder(H))
<1>. DEFINE s == InOrder(H)
            L == Samples(H)
<1>0. Along(s) /\ Range(s) = H
  BY InOrderFacts DEF Combinable
<1>1. L = [i \in DOMAIN s |-> [hit |-> s[i], node |-> owner[s[i].id]]]
  BY DEF Samples
<1>. HIDE DEF s, L
<1>2. DOMAIN s = 1 .. Len(s) /\ Len(s) \in Nat /\ \A i \in DOMAIN s : s[i] \in H /\ s[i] \in Hits /\ Place(s, s[i]) = i
  BY <1>0, PlaceFacts DEF Range
<1>3. \A i \in DOMAIN s : owner[s[i].id] = None \/ (owner[s[i].id] \in Nodes /\ tree[owner[s[i].id]].type = "primitive")
  BY <1>2 DEF Combinable, IsPrimitive
<1>4. Owned(s)
  BY <1>3 DEF Owned
<1>5. \A i \in DOMAIN s : L[i] = [hit |-> s[i], node |-> OwnerOf(s, i)] /\ L[i] \in Listed(tree)
  BY <1>1, <1>2, <1>3 DEF Listed, OwnerOf, Nodes
<1>6. L \in SampleLists /\ Len(L) = Len(s) /\ DOMAIN L = DOMAIN s
  <2>1. DOMAIN L = 1 .. Len(s)
    BY <1>1, <1>2
  <2>2. L = [i \in 1 .. Len(s) |-> L[i]]
    BY <1>1, <1>2
  <2>3. L \in [1 .. Len(s) -> Listed(tree)]
    BY <1>2, <1>5, <2>2
  <2>. QED  BY <1>2, <2>1, <2>3 DEF SampleLists
<1>7. InPlaces(s, L)
  <2>1. \A k \in DOMAIN L : L[k].hit = s[k] /\ L[k].hit \in Range(s) /\ Place(s, L[k].hit) = k
    BY <1>2, <1>5, <1>6 DEF Range
  <2>. QED  BY <1>6, <2>1 DEF InPlaces
<1>8. ASSUME NEW e  PROVE e \in Range(L) <=> \E m \in DOMAIN s : Shows(s, {}, e, m)
  <2>1. \A m \in DOMAIN s : Shows(s, {}, e, m) <=> e = L[m]
    BY <1>5 DEF Shows
  <2>. QED  BY <1>6, <2>1 DEF Range
<1>. QED  BY <1>4, <1>6, <1>7, <1>8 DEF AfterTrees, s, L

LEMMA WallsMeans ==
  ASSUME NEW H, Distinct(H)
  PROVE  \A h : h \in Walls(H) <=> h \in H /\ IsWall(InOrder(H), Place(InOrder(H), h))
<1>. DEFINE s == InOrder(H)
<1>1. Along(s) /\ Range(s) = H
  BY InOrderFacts
<1>2. Walls(H) = {s[i] : i \in {j \in DOMAIN s : IsWall(s, j)}}
  BY DEF Walls
<1>. HIDE DEF s
<1>3. /\ \A i \in DOMAIN s : s[i] \in H /\ Place(s, s[i]) = i
      /\ \A h \in H : Place(s, h) \in DOMAIN s /\ s[Place(s, h)] = h
  BY <1>1, PlaceFacts DEF Range
<1>. QED  BY <1>2, <1>3 DEF s

\* What the loop of Combine leaves: the walls, each once and in order.
LEMMA CombineLeaves ==
  ASSUME TreeShape, NEW H, Combinable(H)
  PROVE  LET shown == Hitted(Processed(tree, Samples(H)))
         IN  /\ \A i, j \in DOMAIN shown : i < j => Before(shown[i], shown[j])
             /\ Range(shown) = Walls(H)
             /\ shown \in Seq(Hits)
<1>. DEFINE s == InOrder(H)
            M == Processed(tree, Samples(H))
            shown == Hitted(M)
<1>1. Along(s) /\ Range(s) = H /\ Distinct(H) /\ \A g, h \in H : Before(g, h) <=> Place(s, g) < Place(s, h)
  BY InOrderFacts DEF Combinable
<1>2. InPlaces(s, M) /\ \A e : e \in Range(M) <=> \E m \in DOMAIN s : IsWall(s, m) /\ e = [hit |-> s[m], node |-> None]
  <2>. HIDE DEF s, M
  <2>1. Owned(s) /\ AfterTrees(s, {}, Samples(H)) /\ Len(Samples(H)) = Len(s)
    BY SamplesFacts DEF s
  <2>. QED  BY <1>1, <2>1, ProcessedShows DEF M
<1>. HIDE DEF s, M
<1>3. /\ DOMAIN M = 1 .. Len(M) /\ Len(M) \in Nat /\ \A k \in DOMAIN M : M[k].hit \in Range(s) /\ M[k] \in Range(M)
      /\ \A i, j \in DOMAIN M : i < j => Place(s, M[i].hit) < Place(s, M[j].hit)
  BY <1>2 DEF InPlaces, SampleLists, Range
<1>4. DOMAIN shown = DOMAIN M /\ \A k \in DOMAIN M : shown[k] = M[k].hit /\ shown[k] \in H
  BY <1>1, <1>3 DEF Hitted
<1>5. shown \in Seq(Hits)
  <2>1. H \subseteq Hits
    BY <1>1 DEF Distinct
  <2>2. shown \in [1 .. Len(M) -> Hits]
    BY <1>3, <1>4, <2>1 DEF Hitted
  <2>. QED  BY <1>3, <2>2
<1>6. \A i, j \in DOMAIN shown : i < j => Before(shown[i], shown[j])
  BY <1>1, <1>3, <1>4
<1>7. ASSUME NEW h  PROVE h \in Range(shown) <=> h \in Walls(H)
  <2>1. h \in Range(shown) <=> \E e \in Range(M) : h = e.hit
    BY <1>4 DEF Range
  <2>2. h \in Range(shown) <=> \E m \in DOMAIN s : IsWall(s, m) /\ h = s[m]
    <3>1. ASSUME NEW m \in DOMAIN s, IsWall(s, m), h = s[m]  PROVE \E e \in Range(M) : h = e.hit
      <4>1. [hit |-> s[m], node |-> None] \in Range(M) /\ [hit |-> s[m], node |-> None].hit = h
        BY <1>2, <3>1
      <4>. QED  BY <4>1
    <3>2. ASSUME NEW e \in Range(M), h = e.hit  PROVE \E m \in DOMAIN s : IsWall(s, m) /\ h = s[m]
      BY <1>2, <3>2
    <3>. QED  BY <2>1, <3>1, <3>2
  <2>3. Walls(H) = {s[i] : i \in {j \in DOMAIN s : IsWall(s, j)}}
    BY DEF Walls, s
  <2>. QED  BY <2>2, <2>3
<1>. QED  BY <1>5, <1>6, <1>7 DEF M

-----------------------------------------------------------------------------
(* Hits of no solid make no difference to the walls. *)

\* The hits of n among the first k.
Passing(s, k, n) == {i \in 1 .. k : owner[s[i].id] = n}

LEMMA WithinPassing ==
  ASSUME TreeShape, NEW s, NEW k, NEW n \in Nodes, tree[n].type = "primitive"
  PROVE  Within(s, k)[n] <=> Cardinality(Passing(s, k, n)) % 2 = 1
<1>1. Within(s, k)[n] <=> Cardinality({i \in 1 .. k : owner[s[i].id] = n}) % 2 = 1
  BY WithinPrimitive
<1>. QED  BY <1>1 DEF Passing

LEMMA SameWithin ==
  ASSUME TreeShape, NEW s, NEW k, NEW t, NEW l,
         \A n \in Nodes : Cardinality(Passing(s, k, n)) = Cardinality(Passing(t, l, n))
  PROVE  \A n \in Nodes : Within(s, k)[n] = Within(t, l)[n]
<1>. DEFINE S == {n \in Nodes : Within(s, k)[n] = Within(t, l)[n]}
<1>1. ASSUME NEW n \in Nodes, \A y \in Nodes : FromLast[y] < FromLast[n] => y \in S
      PROVE  n \in S
  <2>1. CASE tree[n].type = "primitive"
    <3>1. Within(s, k)[n] <=> Cardinality(Passing(s, k, n)) % 2 = 1
      BY <2>1, WithinPassing
    <3>2. Within(t, l)[n] <=> Cardinality(Passing(t, l, n)) % 2 = 1
      BY <2>1, WithinPassing
    <3>3. Within(s, k)[n] <=> Within(t, l)[n]
      BY <3>1, <3>2
    <3>. QED  BY <3>3, WithinMeans
  <2>2. CASE Operation(n)
    <3>1. \A i \in DOMAIN tree[n].children :
            Within(s, k)[tree[n].children[i]] = Within(t, l)[tree[n].children[i]]
      BY <1>1, FromLastFacts, TreeFacts
    <3>2. WithinChildren(s, n, k) = WithinChildren(t, n, l)
      BY <3>1 DEF WithinChildren
    <3>. QED  BY <2>2, <3>2, WithinOperation
  <2>3. CASE tree[n].type # "primitive" /\ Childless(n)
    BY <2>3, WithinNothing
  <2>. QED  BY <2>1, <2>2, <2>3 DEF Operation
<1>2. \A n \in Nodes : n \in S
  <2>. HIDE DEF S
  <2>. QED  BY <1>1, FromLastFacts, Descent
<1>. QED  BY <1>2

\* The same hits, without their places.
HitsPassing(H, k, n) == {g \in H : Place(InOrder(H), g) <= k /\ owner[g.id] = n}

LEMMA PassingIsAhead ==
  ASSUME NEW H, Distinct(H), NEW k \in Nat, k <= Len(InOrder(H)), NEW n
  PROVE  Cardinality(Passing(InOrder(H), k, n)) = Cardinality(HitsPassing(H, k, n))
<1>. DEFINE s == InOrder(H)
            P == Passing(s, k, n)
            A == HitsPassing(H, k, n)
            f == [i \in P |-> s[i]]
<1>1. Along(s) /\ Range(s) = H
  BY InOrderFacts
<1>2. A = {g \in H : Place(s, g) <= k /\ owner[g.id] = n}
  BY DEF HitsPassing
<1>. HIDE DEF s
<1>3. DOMAIN s = 1 .. Len(s) /\ Len(s) \in Nat
      /\ (\A i \in DOMAIN s : s[i] \in H /\ Place(s, s[i]) = i)
      /\ (\A h \in H : Place(s, h) \in DOMAIN s /\ s[Place(s, h)] = h)
  BY <1>1, PlaceFacts DEF Range
<1>4. \A i \in P : i \in DOMAIN s /\ i <= k /\ owner[s[i].id] = n
  BY <1>3 DEF Passing, s
<1>5. \A i \in P : f[i] = s[i] /\ f[i] \in A
  BY <1>2, <1>3, <1>4
<1>6. \A g \in A : Place(s, g) \in P /\ f[Place(s, g)] = g
  BY <1>2, <1>3 DEF Passing
<1>7. \A i, j \in P : f[i] = f[j] => i = j
  BY <1>3, <1>4, <1>5
<1>8. f = [i \in P |-> f[i]]
  OBVIOUS
<1>. HIDE DEF f, P, A
<1>9. f \in [P -> A]
  BY <1>5, <1>8
<1>10. f \in Bijection(P, A)
  BY <1>6, <1>7, <1>9 DEF Bijection, Injection, IsInjective, Surjection
<1>11. IsFiniteSet(P)
  <2>1. IsFiniteSet(1 .. k)
    BY FS_Interval
  <2>2. P \in SUBSET (1 .. k)
    BY DEF P, Passing
  <2>. QED  BY <2>1, <2>2, FS_Subset
<1>12. Cardinality(A) = Cardinality(P)
  BY <1>10, <1>11, FS_Bijection DEF ExistsBijection
<1>. QED  BY <1>12 DEF P, A, s

LEMMA WallsAgree ==
  ASSUME TreeShape, NEW O, Combinable(O), NEW K, K \subseteq O, \A h \in O \ K : owner[h.id] = None
  PROVE  Walls(K) = Walls(O) \cap K
<1>. DEFINE s == InOrder(O)
            t == InOrder(K)
<1>0. Combinable(K) /\ Distinct(O) /\ Distinct(K)
  <2>1. IsFiniteSet(K)
    BY FS_Subset DEF Combinable, Distinct
  <2>. QED  BY <2>1 DEF Combinable, Distinct
<1>1. /\ Along(s) /\ Range(s) = O /\ Along(t) /\ Range(t) = K
      /\ \A g, h \in O : Before(g, h) <=> Place(s, g) < Place(s, h)
      /\ \A g, h \in K : Before(g, h) <=> Place(t, g) < Place(t, h)
  BY <1>0, InOrderFacts
<1>2. /\ DOMAIN s = 1 .. Len(s) /\ Len(s) \in Nat /\ \A h \in O : Place(s, h) \in DOMAIN s /\ s[Place(s, h)] = h
      /\ DOMAIN t = 1 .. Len(t) /\ Len(t) \in Nat /\ \A h \in K : Place(t, h) \in DOMAIN t /\ t[Place(t, h)] = h
  <2>. HIDE DEF s, t
  <2>. QED  BY <1>1, PlaceFacts
<1>3. ASSUME NEW h \in K, owner[h.id] # None
      PROVE  IsWall(s, Place(s, h)) <=> IsWall(t, Place(t, h))
  <2>. DEFINE i == Place(s, h)
              j == Place(t, h)
  <2>1. /\ i \in 1 .. Len(s) /\ s[i] = h /\ i \in Nat /\ i <= Len(s) /\ i - 1 \in Nat /\ i - 1 <= Len(s)
        /\ j \in 1 .. Len(t) /\ t[j] = h /\ j \in Nat /\ j <= Len(t) /\ j - 1 \in Nat /\ j - 1 <= Len(t)
    <3>1. i \in 1 .. Len(s) /\ s[i] = h /\ j \in 1 .. Len(t) /\ t[j] = h
      BY <1>2
    <3>. HIDE DEF i, j, s, t
    <3>. QED  BY <1>2, <3>1
  <2>2. \A g \in K : /\ Place(s, g) <= i <=> Place(t, g) <= j
                     /\ Place(s, g) <= i - 1 <=> Place(t, g) <= j - 1
    <3>1. ASSUME NEW g \in K
          PROVE  /\ Place(s, g) <= i <=> Place(t, g) <= j
                 /\ Place(s, g) <= i - 1 <=> Place(t, g) <= j - 1
      <4>1. (Place(s, g) < i <=> Place(t, g) < j) /\ (i < Place(s, g) <=> j < Place(t, g))
        BY <1>1
      <4>2. Place(s, g) \in Nat /\ Place(t, g) \in Nat
        BY <1>2
      <4>. HIDE DEF i, j, s, t
      <4>. QED  BY <2>1, <4>1, <4>2
    <3>. QED  BY <3>1
  <2>3. ASSUME NEW n \in Nodes, NEW k \in Nat, k <= Len(s), NEW l \in Nat, l <= Len(t),
               \A g \in K : Place(s, g) <= k <=> Place(t, g) <= l
        PROVE  Cardinality(Passing(s, k, n)) = Cardinality(Passing(t, l, n))
    <3>1. n # None
      BY TreeFacts
    <3>2. HitsPassing(O, k, n) = HitsPassing(K, l, n)
      BY <2>3, <3>1 DEF HitsPassing
    <3>. QED  BY <1>0, <2>3, <3>2, PassingIsAhead
  <2>4. \A n \in Nodes : Within(s, i)[n] = Within(t, j)[n]
    <3>1. \A n \in Nodes : Cardinality(Passing(s, i, n)) = Cardinality(Passing(t, j, n))
      <4>. HIDE DEF i, j, s, t
      <4>. QED  BY <2>1, <2>2, <2>3
    <3>. HIDE DEF i, j, s, t
    <3>. QED  BY <3>1, SameWithin
  <2>5. \A n \in Nodes : Within(s, i - 1)[n] = Within(t, j - 1)[n]
    <3>1. \A n \in Nodes : Cardinality(Passing(s, i - 1, n)) = Cardinality(Passing(t, j - 1, n))
      <4>. HIDE DEF i, j, s, t
      <4>. QED  BY <2>1, <2>2, <2>3
    <3>. HIDE DEF i, j, s, t
    <3>. QED  BY <3>1, SameWithin
  <2>6. OwnerOf(s, i) = owner[h.id] /\ OwnerOf(t, j) = owner[h.id]
    BY <2>1 DEF OwnerOf
  <2>7. Roots(tree)[owner[h.id]] \in Nodes
    BY <1>3, RootsDef DEF Combinable
  <2>. HIDE DEF i, j, s, t
  <2>8. IsWall(s, i) <=> IsWall(t, j)
    BY <1>3, <2>4, <2>5, <2>6, <2>7, WallMeans DEF RootOf
  <2>. QED  BY <2>8 DEF i, j
<1>4. ASSUME NEW h \in K, owner[h.id] = None
      PROVE  IsWall(s, Place(s, h)) /\ IsWall(t, Place(t, h))
  BY <1>2, <1>4 DEF IsWall
<1>5. \A h : (h \in Walls(O) <=> h \in O /\ IsWall(s, Place(s, h))) /\ (h \in Walls(K) <=> h \in K /\ IsWall(t, Place(t, h)))
  BY <1>0, WallsMeans
<1>. HIDE DEF s, t
<1>6. \A h \in K : IsWall(s, Place(s, h)) <=> IsWall(t, Place(t, h))
  BY <1>3, <1>4
<1>. QED  BY <1>5, <1>6

-----------------------------------------------------------------------------
(* What holds of the scene and of the sample at every step. *)

SceneShape ==
  /\ TreeShape
  /\ blocks \in Seq(Nodes)
  /\ \A i \in DOMAIN owner : owner[i] = None \/ (IsPrimitive(tree, owner[i]) /\ owner[i] \in Nodes)

OfferedShape ==
  /\ Distinct(offered)
  /\ \A h \in offered : h.id \in DOMAIN owner /\ (h.csg <=> owner[h.id] # None)

Shown == IF point.data = {} THEN InOrder({point.hit} \ {NoHit})
         ELSE Hitted(Processed(tree, Samples(Combined(point))))

PixelInv == /\ SampleInv
            /\ SceneShape
            /\ OfferedShape
            /\ stage = "combined" => seen = Shown

LEMMA PixelInit == Start => PixelInv
<1>. SUFFICES ASSUME Start  PROVE PixelInv
  OBVIOUS
<1>1. SampleInv /\ offered = {} /\ stage = "scene"
  BY InitInv DEF Start, Init
<1>2. Distinct(offered)
  BY <1>1, FS_EmptySet DEF Distinct
<1>3. TreeShape
  BY DEF Start, TreeShape, Nodes, Children
<1>4. SceneShape
  BY <1>3 DEF Start, SceneShape, Nodes
<1>. QED  BY <1>1, <1>2, <1>4 DEF PixelInv, OfferedShape

LEMMA CurrentFacts ==
  ASSUME SceneShape
  PROVE  /\ Current = None \/ Current \in Nodes
         /\ IsPrimitive(tree, Current) => Current \in Nodes
<1>1. blocks # <<>> => Last(blocks) \in Nodes
  BY DEF SceneShape, Last
<1>. QED  BY <1>1 DEF Current, IsPrimitive

LEMMA WithNodeShape ==
  ASSUME TreeShape, NEW t \in NodeTypes, NEW c, c = None \/ c \in Nodes, tree' = WithNode(tree, t, c)
  PROVE  /\ TreeShape'
         /\ Nodes' = Nodes \cup {Len(tree) + 1}
         /\ \A n \in Nodes : (tree[n].type)' = tree[n].type
<1>. DEFINE N == Len(tree)
            linked == c # None /\ ~IsPrimitive(tree, c)
            more(n) == IF linked /\ n = c THEN Append(tree[n].children, N + 1) ELSE tree[n].children
            new == [type |-> t, parent |-> IF linked THEN c ELSE None, children |-> <<>>]
            nodes == [n \in Nodes |-> [type |-> tree[n].type, parent |-> tree[n].parent, children |-> more(n)]]
<1>0. /\ N \in Nat /\ Nodes = 1 .. N /\ N + 1 \in Nat /\ N + 1 \notin Nodes
      /\ \A n \in Nodes : /\ n \in Nat /\ tree[n].type \in NodeTypes /\ tree[n].parent \in Nat
                          /\ tree[n].parent < n /\ tree[n].children \in Seq(Nodes)
      /\ linked => c \in Nodes /\ tree[c].type # "primitive" /\ c < N + 1 /\ c \in Nat
  <2>1. N \in Nat /\ Nodes = 1 .. N
    BY TreeFacts
  <2>2. N + 1 \in Nat /\ N + 1 \notin Nodes /\ \A n \in Nodes : n < N + 1 /\ n \in Nat
    BY <2>1
  <2>3. linked => c \in Nodes /\ tree[c].type # "primitive"
    BY DEF IsPrimitive
  <2>. QED  BY <2>1, <2>2, <2>3, TreeFacts
<1>1. tree' = Append(nodes, new)
  BY DEF WithNode, Nodes
<1>2. ASSUME NEW n \in Nodes  PROVE more(n) \in Seq(Nat)
  <2>. DEFINE k == tree[n].children
  <2>1. k \in Seq(Nat)
    BY <1>0
  <2>2. Append(k, N + 1) \in Seq(Nat)
    <3>. HIDE DEF k, N
    <3>. QED  BY <1>0, <2>1
  <2>. QED  BY <2>1, <2>2
<1>3. new \in NodeRecord
  BY <1>0 DEF NodeRecord, None
<1>. HIDE DEF more, new
<1>4. nodes \in Seq(NodeRecord) /\ Len(nodes) = N
  <2>1. \A n \in Nodes : nodes[n] \in NodeRecord
    BY <1>0, <1>2 DEF NodeRecord
  <2>2. nodes \in [1 .. N -> NodeRecord]
    BY <1>0, <2>1
  <2>. QED  BY <1>0, <2>2
<1>5. /\ tree' \in Seq(NodeRecord) /\ DOMAIN tree' = Nodes \cup {N + 1} /\ tree'[N + 1] = new
      /\ \A n \in Nodes : tree'[n] = nodes[n]
  <2>. HIDE DEF nodes, N
  <2>1. DOMAIN nodes = 1 .. N
    BY <1>0, <1>4
  <2>. QED  BY <1>0, <1>1, <1>3, <1>4, <2>1
<1>6. \A n \in Nodes : /\ tree'[n].type = tree[n].type /\ tree'[n].parent = tree[n].parent
                       /\ tree'[n].children = more(n)
  BY <1>5
<1>. HIDE DEF nodes, N
<1>7. Nodes' = Nodes \cup {N + 1}
  BY <1>5 DEF Nodes
<1>8. ASSUME NEW n \in Nodes
      PROVE  /\ \A i \in DOMAIN more(n) :
                  \/ i \in DOMAIN tree[n].children /\ more(n)[i] = tree[n].children[i]
                  \/ linked /\ n = c /\ i = Len(tree[n].children) + 1 /\ more(n)[i] = N + 1
             /\ \A i \in DOMAIN tree[n].children : i \in DOMAIN more(n) /\ more(n)[i] = tree[n].children[i]
             /\ linked /\ n = c => \E i \in DOMAIN more(n) : more(n)[i] = N + 1
             /\ ~(linked /\ n = c) => more(n) = tree[n].children
  <2>. DEFINE k == tree[n].children
  <2>0. k \in Seq(Nodes)
    BY <1>0
  <2>1. CASE linked /\ n = c
    <3>1. more(n) = Append(k, N + 1)
      BY <2>1 DEF more
    <3>. HIDE DEF k, linked
    <3>2. DOMAIN more(n) = DOMAIN k \cup {Len(k) + 1} /\ more(n)[Len(k) + 1] = N + 1
          /\ \A i \in DOMAIN k : more(n)[i] = k[i]
      BY <2>0, <3>1
    <3>3. Len(k) + 1 \in DOMAIN more(n)
      BY <3>2
    <3>. QED  BY <2>1, <3>2, <3>3 DEF k
  <2>2. CASE ~(linked /\ n = c)
    <3>1. more(n) = k
      BY <2>2 DEF more
    <3>. HIDE DEF k, linked
    <3>. QED  BY <2>2, <3>1 DEF k
  <2>. QED  BY <2>1, <2>2
<1>9. new.parent = (IF linked THEN c ELSE None) /\ new.children = <<>> /\ new.type = t
  BY DEF new
<1>10. ASSUME NEW n \in Nodes'  PROVE tree'[n].parent < n
  <2>1. n \in Nodes => tree'[n].parent = tree[n].parent /\ tree[n].parent < n
    BY <1>0, <1>6
  <2>2. (IF linked THEN c ELSE None) < N + 1
    <3>1. linked => c < N + 1
      BY <1>0
    <3>. HIDE DEF linked
    <3>. QED  BY <1>0, <3>1 DEF None
  <2>3. n = N + 1 => tree'[n].parent = (IF linked THEN c ELSE None)
    BY <1>5, <1>9
  <2>. HIDE DEF linked
  <2>. QED  BY <1>7, <2>1, <2>2, <2>3
<1>. HIDE DEF linked
<1>11. ASSUME NEW n \in Nodes', NEW i \in DOMAIN tree'[n].children
       PROVE  tree'[n].children[i] \in Nodes' /\ tree'[tree'[n].children[i]].parent = n
  <2>1. n \in Nodes
    BY <1>5, <1>7, <1>9
  <2>2. CASE i \in DOMAIN tree[n].children /\ more(n)[i] = tree[n].children[i]
    <3>1. tree[n].children[i] \in Nodes /\ tree[tree[n].children[i]].parent = n
      BY <2>1, <2>2 DEF TreeShape
    <3>. QED  BY <1>6, <1>7, <2>1, <2>2, <3>1
  <2>3. CASE linked /\ n = c /\ more(n)[i] = N + 1
    BY <1>5, <1>6, <1>7, <1>9, <2>1, <2>3
  <2>. QED  BY <1>6, <1>8, <2>1, <2>2, <2>3
<1>12. ASSUME NEW n \in Nodes', tree'[n].parent # None
       PROVE  \E i \in DOMAIN tree'[tree'[n].parent].children : tree'[tree'[n].parent].children[i] = n
  <2>1. CASE n \in Nodes
    <3>. DEFINE p == tree[n].parent
    <3>1. tree'[n].parent = p /\ p \in Nodes /\ n \in Children(p)
      BY <1>6, <1>12, <2>1, TreeFacts DEF TreeShape
    <3>. HIDE DEF p
    <3>2. PICK i \in DOMAIN tree[p].children : tree[p].children[i] = n
      BY <3>1 DEF Children
    <3>3. tree'[p].children = more(p) /\ i \in DOMAIN more(p) /\ more(p)[i] = n
      BY <1>6, <1>8, <3>1, <3>2
    <3>. QED  BY <3>1, <3>3
  <2>2. CASE n = N + 1
    <3>1. tree'[n].parent = c /\ linked /\ c \in Nodes
      BY <1>0, <1>5, <1>9, <1>12, <2>2
    <3>. QED  BY <1>6, <1>8, <2>2, <3>1
  <2>. QED  BY <1>7, <2>1, <2>2
<1>13. ASSUME NEW n \in Nodes', NEW i \in DOMAIN tree'[n].children, NEW j \in DOMAIN tree'[n].children,
              tree'[n].children[i] = tree'[n].children[j]
       PROVE  i = j
  <2>1. n \in Nodes
    BY <1>5, <1>7, <1>9
  <2>2. \A x \in DOMAIN tree[n].children : tree[n].children[x] # N + 1
    BY <1>0, <2>1, TreeFacts
  <2>3. tree'[n].children = more(n)
    BY <1>6, <2>1
  <2>4. \A x, y \in DOMAIN tree[n].children : tree[n].children[x] = tree[n].children[y] => x = y
    BY <2>1 DEF TreeShape
  <2>. QED  BY <1>8, <1>13, <2>1, <2>2, <2>3, <2>4
<1>14. ASSUME NEW n \in Nodes', tree'[n].type = "primitive"  PROVE tree'[n].children = <<>>
  <2>1. CASE n \in Nodes
    <3>1. tree[n].type = "primitive" /\ tree[n].children = <<>>
      BY <1>6, <1>14, <2>1 DEF TreeShape
    <3>2. ~(linked /\ n = c)
      BY <1>0, <3>1
    <3>. QED  BY <1>6, <1>8, <2>1, <3>1, <3>2
  <2>. QED  BY <1>5, <1>7, <1>9, <2>1
<1>15. TreeShape'
  <2>1. \A n \in Nodes' : \A i \in DOMAIN tree'[n].children :
          tree'[n].children[i] \in Nodes' /\ tree'[tree'[n].children[i]].parent = n
    BY <1>11
  <2>2. \A n \in Nodes' : tree'[n].parent # None => n \in (Children(tree[n].parent))'
    BY <1>12 DEF Children
  <2>3. \A n \in Nodes' : \A i, j \in DOMAIN tree'[n].children :
          tree'[n].children[i] = tree'[n].children[j] => i = j
    BY <1>13
  <2>. QED  BY <1>5, <1>10, <1>14, <2>1, <2>2, <2>3 DEF TreeShape
<1>. QED  BY <1>6, <1>7, <1>15 DEF N

LEMMA StepScene ==
  ASSUME SceneShape, [Step]_pixel
  PROVE  /\ SceneShape'
         /\ Nodes \subseteq Nodes'
         /\ DOMAIN owner \subseteq DOMAIN owner' /\ \A i \in DOMAIN owner : owner'[i] = owner[i]
<1>1. CASE \E t \in NodeTypes : SolidBegin(t)
  <2>1. PICK t \in NodeTypes : SolidBegin(t)
    BY <1>1
  <2>2. tree' = WithNode(tree, t, Current) /\ blocks' = Append(blocks, Len(tree) + 1) /\ owner' = owner
    BY <2>1 DEF SolidBegin
  <2>3. /\ TreeShape' /\ Nodes' = Nodes \cup {Len(tree) + 1}
        /\ \A n \in Nodes : (tree[n].type)' = tree[n].type
    BY <2>2, CurrentFacts, WithNodeShape DEF SceneShape
  <2>4. blocks' \in Seq(Nodes')
    <3>. DEFINE B == Nodes'
                k == Len(tree) + 1
    <3>1. blocks \in Seq(B) /\ k \in B
      BY <2>3 DEF SceneShape
    <3>2. Append(blocks, k) \in Seq(B)
      <4>. HIDE DEF B, k
      <4>. QED  BY <3>1
    <3>. QED  BY <2>2, <3>2
  <2>5. \A i \in DOMAIN owner' : owner'[i] = None \/ (IsPrimitive(tree', owner'[i]) /\ owner'[i] \in Nodes')
    BY <2>2, <2>3 DEF SceneShape, IsPrimitive
  <2>. QED  BY <2>2, <2>3, <2>4, <2>5 DEF SceneShape
<1>2. CASE SolidEnd
  <2>1. blocks' = Front(blocks) /\ blocks # <<>> /\ tree' = tree /\ owner' = owner
    BY <1>2 DEF SolidEnd
  <2>2. Front(blocks) \in Seq(Nodes)
    BY <2>1 DEF Front, SceneShape
  <2>. QED  BY <2>1, <2>2 DEF SceneShape, TreeShape, Nodes, Children
<1>3. CASE \E i \in Id : CreateSurface(i)
  <2>1. PICK i \in Id : CreateSurface(i)
    BY <1>3
  <2>2. /\ tree' = tree /\ blocks' = blocks /\ i \notin DOMAIN owner
        /\ owner' = [j \in DOMAIN owner \cup {i} |-> IF j = i THEN NodeOfSurface ELSE owner[j]]
    BY <2>1 DEF CreateSurface
  <2>3. NodeOfSurface = None \/ (IsPrimitive(tree, NodeOfSurface) /\ NodeOfSurface \in Nodes)
    BY CurrentFacts DEF NodeOfSurface
  <2>. QED  BY <2>2, <2>3 DEF SceneShape, TreeShape, Nodes, Children
<1>4. CASE UNCHANGED <<tree, blocks, owner>>
  BY <1>4 DEF SceneShape, TreeShape, Nodes, Children
<1>5. CASE WorldEnd \/ (\E h \in Hits : StoreSample(h)) \/ Combine \/ Reuse
  BY <1>4, <1>5 DEF WorldEnd, StoreSample, Combine, Reuse
<1>6. CASE UNCHANGED pixel
  BY <1>4, <1>6 DEF pixel
<1>. QED  BY <1>1, <1>2, <1>3, <1>5, <1>6 DEF Step

LEMMA StepSampled == [Step]_pixel => [Next]_vars
BY DEF Step, pixel, SolidBegin, SolidEnd, CreateSurface, WorldEnd, StoreSample, Combine, Reuse, Next, vars

LEMMA StepSample ==
  ASSUME SampleInv, [Step]_pixel
  PROVE  SampleInv'
BY StepSampled, NextInv

LEMMA StepOffered ==
  ASSUME SceneShape, OfferedShape, [Step]_pixel
  PROVE  OfferedShape'
<1>0. DOMAIN owner \subseteq DOMAIN owner' /\ \A i \in DOMAIN owner : owner'[i] = owner[i]
  BY StepScene
<1>1. CASE \E h \in Hits : StoreSample(h)
  <2>1. PICK h \in Hits : StoreSample(h)
    BY <1>1
  <2>2. /\ offered' = offered \cup {h} /\ \A g \in offered : g.id # h.id
        /\ h.id \in DOMAIN owner /\ h.csg = (owner[h.id] # None) /\ owner' = owner
    BY <2>1 DEF StoreSample, Offer
  <2>3. Distinct(offered \cup {h})
    <3>1. IsFiniteSet(offered \cup {h})
      BY FS_AddElement DEF OfferedShape, Distinct
    <3>. QED  BY <2>2, <3>1 DEF OfferedShape, Distinct
  <2>. QED  BY <2>2, <2>3 DEF OfferedShape
<1>2. CASE Reuse
  <2>1. offered' = {}
    BY <1>2 DEF Reuse, Clear
  <2>2. Distinct({})
    BY FS_EmptySet DEF Distinct
  <2>. QED  BY <2>1, <2>2 DEF OfferedShape
<1>3. CASE offered' = offered
  BY <1>0, <1>3 DEF OfferedShape
<1>4. offered' = offered \/ (\E h \in Hits : StoreSample(h)) \/ Reuse
  BY DEF Step, pixel, vars, SolidBegin, SolidEnd, CreateSurface, WorldEnd, Combine
<1>. QED  BY <1>1, <1>2, <1>3, <1>4

LEMMA PixelNext == PixelInv /\ [Step]_pixel => PixelInv'
<1>. SUFFICES ASSUME PixelInv, [Step]_pixel  PROVE PixelInv'
  OBVIOUS
<1>1. SampleInv' /\ SceneShape' /\ OfferedShape'
  BY StepScene, StepSample, StepOffered DEF PixelInv
<1>2. stage' = "combined" => seen' = Shown'
  <2>1. CASE Combine
    BY <2>1 DEF Combine, vars, Shown, Samples
  <2>2. CASE UNCHANGED pixel
    BY <2>2 DEF pixel, vars, Shown, Samples, PixelInv
  <2>3. CASE (\E t \in NodeTypes : SolidBegin(t)) \/ SolidEnd \/ (\E i \in Id : CreateSurface(i)) \/ WorldEnd
             \/ (\E h \in Hits : StoreSample(h)) \/ Reuse
    <3>1. stage' # "combined"
      BY <2>3 DEF SolidBegin, SolidEnd, CreateSurface, WorldEnd, StoreSample, Reuse
    <3>. QED  BY <3>1
  <2>. QED  BY <2>1, <2>2, <2>3 DEF Step
<1>. QED  BY <1>1, <1>2 DEF PixelInv

LEMMA PixelInductive == PixelSpec => []PixelInv
BY PixelInit, PixelNext, PTL DEF PixelSpec

-----------------------------------------------------------------------------
(* What is seen. *)

LEMMA SampleFacts ==
  ASSUME PixelInv
  PROVE  /\ TypeOK /\ StoredByKind /\ OccludingHitIsNearest /\ NoVisibleHitLost
         /\ TreeShape /\ Combinable(offered) /\ offered \subseteq Hits
         /\ Kept \subseteq offered /\ NoHit \notin offered
         /\ \A h \in offered : Cullable(hider, h.csg) => owner[h.id] = None
         /\ \A h \in offered \ Kept : owner[h.id] = None
<1>1. TypeOK /\ StoredByKind /\ OccludingHitIsNearest /\ NoVisibleHitLost /\ TreeShape
  BY DEF PixelInv, SampleInv, SceneShape
<1>2. Combinable(offered) /\ offered \subseteq Hits
  BY DEF PixelInv, SceneShape, OfferedShape, Combinable, Distinct
<1>3. NoHit \notin offered
  BY <1>2, HitFacts
<1>4. Kept \subseteq offered
  BY <1>1 DEF Kept, StoredByKind
<1>5. \A h \in offered : Cullable(hider, h.csg) => owner[h.id] = None
  BY DEF PixelInv, OfferedShape, Cullable
<1>. QED  BY <1>1, <1>2, <1>3, <1>4, <1>5 DEF NoVisibleHitLost

\* As many turns as there are samples are enough for the loop of Combine.
LoopDone == point.data # {} => AllDone(Processed(tree, Samples(Combined(point))))

LEMMA StoredCombinable ==
  ASSUME PixelInv
  PROVE  Combinable(Kept) /\ (point.data # {} => Combined(point) = Kept)
<1>1. IsFiniteSet(Kept)
  BY SampleFacts, FS_Subset DEF Combinable, Distinct
<1>2. Combinable(Kept)
  BY <1>1, SampleFacts DEF Combinable, Distinct
<1>. QED  BY <1>2 DEF Combined, Kept

LEMMA LoopEnds == PixelInv => LoopDone
<1>. SUFFICES ASSUME PixelInv, point.data # {}  PROVE AllDone(Processed(tree, Samples(Kept)))
  BY StoredCombinable DEF LoopDone
<1>. DEFINE s == InOrder(Kept)
            M == Processed(tree, Samples(Kept))
<1>1. TreeShape /\ Combinable(Kept) /\ Along(s)
  BY StoredCombinable, SampleFacts, InOrderFacts DEF Combinable
<1>2. Owned(s) /\ AfterTrees(s, {}, Samples(Kept)) /\ Len(Samples(Kept)) = Len(s)
  BY <1>1, SamplesFacts
<1>. HIDE DEF s
<1>3. \A e : e \in Range(M) <=> \E m \in DOMAIN s : IsWall(s, m) /\ e = [hit |-> s[m], node |-> None]
  BY <1>1, <1>2, ProcessedShows
<1>. HIDE DEF M
<1>4. \A e \in Range(M) : e.node = None
  BY <1>3
<1>5. AllDone(M)
  BY <1>4 DEF AllDone, Range
<1>. QED  BY <1>5 DEF M

LEMMA SeenFacts ==
  ASSUME PixelInv, stage = "combined"
  PROVE  /\ \A i, j \in DOMAIN seen : i < j => Before(seen[i], seen[j])
         /\ Range(seen) = Walls(offered) \cap Kept
         /\ seen \in Seq(Hits)
<1>1. Combinable(Kept) /\ Distinct(Kept)
  BY StoredCombinable DEF Combinable
<1>2. Walls(Kept) = Walls(offered) \cap Kept
  BY SampleFacts, WallsAgree
<1>3. seen = Shown
  BY DEF PixelInv
<1>4. CASE point.data = {}
  <2>1. Kept = {point.hit} \ {NoHit} /\ seen = InOrder(Kept)
    BY <1>3, <1>4 DEF Shown, Kept
  <2>2. Along(seen) /\ Range(seen) = Kept /\ \A i, j \in DOMAIN seen : i < j <=> Before(seen[i], seen[j])
    BY <1>1, <2>1, InOrderFacts
  <2>3. \A h \in Kept : owner[h.id] = None
    <3>1. \A h \in Kept : h \in Opaque
      BY <2>1, SampleFacts DEF OccludingHitIsNearest
    <3>. QED  BY <3>1, SampleFacts DEF Opaque, Occluding
  <2>4. Walls(Kept) = Kept
    <3>1. \A h \in Kept : h \in Walls(Kept)
      <4>. SUFFICES ASSUME NEW h \in Kept  PROVE h \in Walls(Kept)
        OBVIOUS
      <4>1. seen[Place(seen, h)] = h
        BY <2>2, PlaceFacts
      <4>2. IsWall(seen, Place(seen, h))
        BY <2>3, <4>1 DEF IsWall
      <4>. QED  BY <1>1, <2>1, <4>2, WallsMeans
    <3>. QED  BY <1>2, <3>1
  <2>. QED  BY <1>2, <2>2, <2>4 DEF Along, Walked
<1>5. CASE point.data # {}
  <2>1. Combined(point) = Kept
    BY <1>5, StoredCombinable
  <2>2. seen = Hitted(Processed(tree, Samples(Kept)))
    BY <1>3, <1>5, <2>1 DEF Shown
  <2>. QED  BY <1>1, <1>2, <2>2, SampleFacts, CombineLeaves
<1>. QED  BY <1>4, <1>5

\* What was not kept lies behind the occluding hit, and that one can be seen.
LEMMA LostIsHidden ==
  ASSUME PixelInv, stage = "combined", NEW h \in Walls(offered), h \notin Range(seen)
  PROVE  /\ Cullable(hider, h.csg)
         /\ point.hit \in Range(seen) /\ point.hit \in Opaque /\ point.hit.z <= h.z
<1>1. h \in offered \ Kept
  <2>1. h \in offered
    BY SampleFacts, WallsMeans DEF Combinable
  <2>. QED  BY <2>1, SeenFacts
<1>2. PICK o \in Opaque : Cullable(hider, h.csg) /\ o.z <= h.z
  BY <1>1, SampleFacts DEF NoVisibleHitLost
<1>3. point.hit # NoHit /\ point.hit \in Opaque /\ point.hit.z <= o.z
  <2>1. point.hit # NoHit /\ point.hit \in Opaque /\ \A g \in Behind : point.hit.z <= g.z
    BY SampleFacts DEF OccludingHitIsNearest
  <2>2. point.hit.z \in Nat
    BY <2>1, SampleFacts, HitFacts DEF Opaque
  <2>. QED  BY <2>1, <2>2 DEF Behind
<1>4. point.hit.z <= h.z
  <2>1. point.hit \in Hits /\ o \in Hits /\ h \in Hits
    BY <1>1, <1>3, SampleFacts DEF Opaque
  <2>. QED  BY <1>2, <1>3, <2>1, HitFacts
<1>5. point.hit \in Kept /\ point.hit \in offered /\ owner[point.hit.id] = None
  BY <1>3, SampleFacts DEF Kept, Opaque, Occluding
<1>6. point.hit \in Walls(offered)
  <2>. DEFINE s == InOrder(offered)
  <2>1. Distinct(offered) /\ Along(s) /\ Range(s) = offered
    BY SampleFacts, InOrderFacts DEF Combinable
  <2>. HIDE DEF s
  <2>2. s[Place(s, point.hit)] = point.hit
    BY <1>5, <2>1, PlaceFacts
  <2>3. IsWall(s, Place(s, point.hit))
    BY <1>5, <2>2 DEF IsWall
  <2>. QED  BY <1>5, <2>1, <2>3, WallsMeans DEF s
<1>. QED  BY <1>2, <1>3, <1>4, <1>5, <1>6, SeenFacts

LEMMA PixelSeen == PixelInv => SeenIsSetOperation
<1>. SUFFICES ASSUME PixelInv, stage = "combined"
              PROVE  /\ \A i, j \in DOMAIN seen : i < j => Before(seen[i], seen[j])
                     /\ Range(seen) \subseteq Walls(offered)
                     /\ \A h \in Walls(offered) \ Range(seen) :
                          /\ Cullable(hider, h.csg)
                          /\ \E g \in Range(seen) : g.z <= h.z /\ Occluding(hider, g)
  BY DEF SeenIsSetOperation
<1>1. \A i, j \in DOMAIN seen : i < j => Before(seen[i], seen[j])
  BY SeenFacts
<1>2. Range(seen) \subseteq Walls(offered)
  BY SeenFacts
<1>3. ASSUME NEW h \in Walls(offered) \ Range(seen)
      PROVE  /\ Cullable(hider, h.csg)
             /\ \E g \in Range(seen) : g.z <= h.z /\ Occluding(hider, g)
  BY <1>3, LostIsHidden DEF Opaque
<1>. QED  BY <1>1, <1>2, <1>3

-----------------------------------------------------------------------------
(* The depth. *)

LEMMA NearestFacts ==
  ASSUME NEW S, S \subseteq Hits, S # {}
  PROVE  Nearest(S) \in S /\ \A g \in S : Nearest(S).z <= g.z
<1>. DEFINE T == {h.z : h \in S}
<1>1. T \subseteq Nat /\ T # {}
  BY HitFacts
<1>2. PICK m \in T : \A k \in T : m <= k
  <2>. HIDE DEF T
  <2>. QED  BY <1>1, LeastNumber
<1>3. \E h \in S : \A g \in S : h.z <= g.z
  BY <1>2
<1>. QED  BY <1>3 DEF Nearest

LEMMA NearestIs ==
  ASSUME NEW S, S \subseteq Hits, NEW h \in S, \A g \in S : h.z <= g.z
  PROVE  Nearest(S).z = h.z
<1>1. Nearest(S) \in S /\ Nearest(S).z <= h.z /\ h.z <= Nearest(S).z
  BY NearestFacts
<1>. QED  BY <1>1, HitFacts

LEMMA DepthForMin ==
  ASSUME PixelInv, stage = "combined", hider = "min", NoMatte, Solid(Walls(offered)) # {}
  PROVE  Depth2 = 2 * Nearest(Solid(Walls(offered))).z
<1>. DEFINE S == Solid(Walls(offered))
            V == Solid(Range(seen))
<1>0. Walls(offered) \subseteq offered /\ S \subseteq Hits /\ V \subseteq S /\ V \subseteq Kept
  <2>1. Walls(offered) \subseteq offered
    BY SampleFacts, WallsMeans DEF Combinable
  <2>. QED  BY <2>1, SampleFacts, SeenFacts DEF Solid
<1>1. ASSUME NEW g \in S  PROVE \E v \in V : v.z <= g.z
  <2>1. g \in Hits /\ g.z \in Nat
    BY <1>0, HitFacts
  <2>2. CASE g \in Range(seen)
    BY <2>1, <2>2 DEF Solid
  <2>3. CASE g \notin Range(seen)
    <3>1. point.hit \in Range(seen) /\ point.hit \in Opaque /\ point.hit.z <= g.z
      BY <2>3, LostIsHidden DEF Solid
    <3>2. point.hit.kind = "opaque"
      BY <3>1 DEF Opaque, Occluding, NoMatte
    <3>. QED  BY <3>1, <3>2 DEF Solid
  <2>. QED  BY <2>2, <2>3
<1>2. V # {}
  BY <1>1
<1>3. Nearest(V).z = Nearest(S).z
  <2>. HIDE DEF S, V
  <2>1. Nearest(V) \in V /\ Nearest(S) \in S /\ (\A g \in V : Nearest(V).z <= g.z) /\ Nearest(S).z <= Nearest(V).z
    BY <1>0, <1>2, NearestFacts
  <2>2. PICK v \in V : v.z <= Nearest(S).z
    BY <1>1, <2>1
  <2>3. Nearest(V).z \in Nat /\ Nearest(S).z \in Nat /\ v.z \in Nat
    BY <1>0, <2>1, HitFacts
  <2>. QED  BY <2>1, <2>2, <2>3
<1>4. CASE point.data = {}
  <2>1. V = {point.hit}
    BY <1>0, <1>2, <1>4 DEF Kept
  <2>2. Nearest(V) = point.hit
    BY <1>0, <1>2, <2>1, NearestFacts
  <2>3. Depth2 = 2 * point.hit.z
    BY <1>4 DEF Depth2, DoubleDepth
  <2>. QED  BY <1>3, <2>2, <2>3
<1>5. CASE point.data # {}
  <2>1. OpaqueDepths(point, Range(seen))[1] = Nearest(V).z
    BY <1>2 DEF OpaqueDepths
  <2>2. Depth2 = 2 * OpaqueDepths(point, Range(seen))[1]
    BY <1>5 DEF Depth2, DoubleDepth
  <2>. QED  BY <1>3, <2>1, <2>2
<1>. QED  BY <1>4, <1>5

LEMMA DepthForMax ==
  ASSUME PixelInv, stage = "combined", hider = "max", Solid(Walls(offered)) # {}
  PROVE  Depth2 = 2 * Furthest(Solid(Walls(offered))).z
<1>1. Opaque = {} /\ point.hit = NoHit
  <2>1. Opaque = {}
    BY DEF Opaque, Occluding, Cullable
  <2>. QED  BY <2>1, SampleFacts DEF OccludingHitIsNearest
<1>2. Kept = offered
  BY SampleFacts DEF NoVisibleHitLost, Cullable
<1>3. Walls(offered) \subseteq offered
  BY SampleFacts, WallsMeans DEF Combinable
<1>4. Range(seen) = Walls(offered)
  BY <1>2, <1>3, SeenFacts
<1>5. point.data # {}
  BY <1>1, <1>2, <1>3 DEF Kept, Solid
<1>. QED  BY <1>4, <1>5 DEF Depth2, DoubleDepth

LEMMA DepthForMidpoint ==
  ASSUME PixelInv, stage = "combined", hider = "midpoint",
         Cardinality(Solid(Walls(offered))) > 1, Solid(Walls(offered)) = Opaque,
         point.data # {} => Len(seen) > 1
  PROVE  Depth2 = Middle(Solid(Walls(offered)))
<1>. DEFINE S == Solid(Walls(offered))
            hit == point.hit
<1>0. S \subseteq Hits /\ S = Opaque /\ S \subseteq offered
  <2>1. Walls(offered) \subseteq offered
    BY SampleFacts, WallsMeans DEF Combinable
  <2>. QED  BY <2>1, SampleFacts DEF Solid
<1>1. S # {} /\ hit \in S /\ hit # NoHit
  <2>1. S # {}
    BY FS_EmptySet
  <2>. QED  BY <1>0, <2>1, SampleFacts DEF OccludingHitIsNearest
<1>2. /\ \A g \in S \ {hit} : hit.z <= g.z
      /\ \A g \in S \ {hit} : point.occlZ <= g.z
      /\ point.occlZ = Far \/ \E g \in S \ {hit} : point.occlZ = g.z
  <2>1. Limits = S \ {hit} /\ Behind = S \ {hit}
    BY <1>0 DEF Limits, Behind, MidPoint
  <2>. QED  BY <1>1, <2>1, SampleFacts DEF OccludingHitIsNearest
<1>3. S \ {hit} # {}
  <2>1. Cardinality(S) # 1 /\ (S \ {hit} = {} => S = {hit})
    BY <1>1
  <2>. HIDE DEF S, hit
  <2>2. Cardinality({hit}) = 1
    BY FS_Singleton
  <2>. QED  BY <2>1, <2>2
<1>4. PICK b \in S \ {hit} : point.occlZ = b.z
  <2>1. point.occlZ # Far
    <3>1. PICK g \in S \ {hit} : point.occlZ <= g.z
      BY <1>2, <1>3
    <3>2. g.z < Far /\ g.z \in Nat /\ Far \in Nat
      BY <1>0, HitFacts
    <3>. QED  BY <3>1, <3>2
  <2>. QED  BY <1>2, <2>1
<1>5. \A g \in S : g.z \in Nat /\ hit.z <= g.z
  <2>1. \A g \in S : g.z \in Nat
    BY <1>0, HitFacts
  <2>. QED  BY <1>1, <1>2, <2>1
<1>6. Nearest(S) \in S /\ Nearest(S).z = hit.z
  <2>. HIDE DEF S
  <2>. QED  BY <1>0, <1>1, <1>5, NearestFacts, NearestIs
<1>7. Nearest(S \ {Nearest(S)}).z = b.z
  <2>. HIDE DEF S, hit
  <2>1. CASE Nearest(S) = hit
    <3>1. \A g \in S \ {hit} : b.z <= g.z
      BY <1>2, <1>4
    <3>. QED  BY <1>0, <1>4, <2>1, <3>1, NearestIs
  <2>2. CASE Nearest(S) # hit
    <3>1. hit \in S \ {Nearest(S)} /\ \A g \in S \ {Nearest(S)} : hit.z <= g.z
      BY <1>1, <1>5, <2>2
    <3>2. Nearest(S \ {Nearest(S)}).z = hit.z
      BY <1>0, <3>1, NearestIs
    <3>3. b.z <= Nearest(S).z /\ hit.z <= b.z
      BY <1>2, <1>4, <1>5, <1>6, <2>2
    <3>4. b.z \in Nat /\ hit.z \in Nat
      BY <1>1, <1>4, <1>5
    <3>. QED  BY <1>6, <3>2, <3>3, <3>4
  <2>. QED  BY <2>1, <2>2
<1>8. Middle(S) = hit.z + point.occlZ
  <2>. HIDE DEF S, hit
  <2>. QED  BY <1>4, <1>6, <1>7 DEF Middle
<1>9. CASE point.data = {}
  BY <1>8, <1>9 DEF Depth2, DoubleDepth
<1>10. CASE point.data # {}
  <2>1. Solid(Range(seen)) = {hit}
    <3>1. Solid(Range(seen)) = S \cap Kept
      BY SeenFacts DEF Solid
    <3>2. \A h \in S \cap Kept : h = hit
      BY <1>0, SampleFacts DEF Kept, Opaque, StoredByKind
    <3>3. hit \in Kept
      BY <1>1 DEF Kept
    <3>. QED  BY <1>1, <3>1, <3>2, <3>3
  <2>2. Nearest({hit}) = hit
    BY <1>0, <1>1, NearestFacts
  <2>3. OpaqueDepths(point, Range(seen)) = <<hit.z, point.occlZ>>
    BY <2>1, <2>2 DEF OpaqueDepths
  <2>4. Cardinality(Range(seen)) > 1
    <3>1. seen[1] \in Range(seen) /\ seen[2] \in Range(seen) /\ seen[1] # seen[2]
      <4>1. 1 \in DOMAIN seen /\ 2 \in DOMAIN seen
        BY <1>10, SeenFacts
      <4>2. Before(seen[1], seen[2]) /\ seen[1] \in Hits
        BY <4>1, SeenFacts
      <4>. QED  BY <4>1, <4>2, BeforeFacts DEF Range
    <3>2. IsFiniteSet(Range(seen))
      <4>1. IsFiniteSet(offered) /\ Range(seen) \subseteq offered
        BY SampleFacts, SeenFacts DEF Combinable, Distinct
      <4>. QED  BY <4>1, FS_Subset
    <3>. DEFINE R == Range(seen)
                a == seen[1]
    <3>. HIDE DEF R, a
    <3>3. Cardinality(R) # 0 /\ Cardinality(R) # 1 /\ Cardinality(R) \in Nat
      <4>1. Cardinality({a}) = 1 /\ {a} \in SUBSET R
        BY <3>1, FS_Singleton DEF R, a
      <4>2. R # {a}
        BY <3>1 DEF R, a
      <4>. QED  BY <3>2, <4>1, <4>2, FS_Subset, FS_EmptySet, FS_CardinalityType DEF R
    <3>. QED  BY <3>3 DEF R
  <2>5. Depth2 = OpaqueDepths(point, Range(seen))[1] + OpaqueDepths(point, Range(seen))[2]
    BY <1>10, <2>4 DEF Depth2, DoubleDepth
  <2>. QED  BY <1>8, <2>3, <2>5
<1>. QED  BY <1>9, <1>10

LEMMA PixelDepth == PixelInv => DepthIsRight
BY DepthForMin, DepthForMax, DepthForMidpoint DEF DepthIsRight

-----------------------------------------------------------------------------
(***************************************************************************)
(* Whatever is done to it, a sample point is offered hits and cleared as   *)
(* SamplePoint says: its theorems hold for the whole way of the hits.      *)
(***************************************************************************)
THEOREM PixelIsSamplePoint == PixelSpec => Spec
<1>1. Start => Init
  BY DEF Start
<1>2. [Step]_pixel => [Next]_vars
  BY StepSampled
<1>. QED  BY <1>1, <1>2, PTL DEF PixelSpec, Spec

(***************************************************************************)
(* Any sequence of solid blocks leaves trees behind in which parent and    *)
(* children agree, and surfaces in primitives only; no two hits of a       *)
(* sample are of one micropolygon, and the kind of each fits its surface.  *)
(***************************************************************************)
THEOREM TreesAreRight == PixelSpec => [](SceneShape /\ OfferedShape)
BY PixelInductive, PTL DEF PixelInv

(***************************************************************************)
(* The loop of Combine ends: every turn of it does one tree for good, so   *)
(* that no hit has a node after as many turns as there are hits.           *)
(***************************************************************************)
THEOREM TreesAreDoneOnce == PixelSpec => []LoopDone
BY PixelInductive, LoopEnds, PTL

(***************************************************************************)
(* For trees of any size and shape and any number of hits in any order:    *)
(* CqCSGTreeNode::ProcessTree, the loop around it and what StoreSample     *)
(* leaves out together show the walls of the set that the operations       *)
(* describe, each once and in the order of depth.                          *)
(***************************************************************************)
THEOREM SolidsShowTheirWalls == PixelSpec => []SeenIsSetOperation
BY PixelInductive, PixelSeen, PTL

(***************************************************************************)
(* The depth that CqImagePixel::Combine records is the one the filter      *)
(* asks for, under the conditions that DepthIsRight names.                 *)
(***************************************************************************)
THEOREM DepthIsTheFilters == PixelSpec => []DepthIsRight
BY PixelInductive, PixelDepth, PTL
=============================================================================
