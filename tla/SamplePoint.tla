---------------------------- MODULE SamplePoint ----------------------------
(***************************************************************************)
(* What rendering promises about one sample point, whatever is culled on   *)
(* the way: the micropolygons that hit it are offered to StoreSample one   *)
(* after the other, or kept from it where that makes no difference.        *)
(***************************************************************************)
EXTENDS SampleHits

VARIABLES hider,     \* the depth filter
          point,     \* its SqSampleData
          offered    \* the hits that the scene had for it

vars == <<hider, point, offered>>

Init == /\ hider \in Hiders
        /\ point = Fresh
        /\ offered = {}

\* The pixel is used for another place.
Clear == /\ point' = Fresh
         /\ offered' = {}
         /\ UNCHANGED hider

Offer(h) == /\ \A g \in offered : g.id # h.id
            /\ point' = Stored(hider, point, h)
            /\ offered' = offered \cup {h}
            /\ UNCHANGED hider

Next == Clear \/ \E h \in Hits : Offer(h)

Spec == Init /\ [][Next]_vars

-----------------------------------------------------------------------------
TypeOK == /\ hider \in Hiders
          /\ point \in SampleData
          /\ offered \subseteq Hits

Opaque == {h \in offered : Occluding(hider, h)}

Kept == point.data \cup ({point.hit} \ {NoHit})

(***************************************************************************)
(* Whatever the order in which micropolygons come: a hit is missing only   *)
(* if an opaque one that is not behind it was there.  Hits of solids and,  *)
(* for the max filter, all hits are never missing.                         *)
(***************************************************************************)
NoVisibleHitLost ==
  \A h \in offered \ Kept : /\ Cullable(hider, h.csg)
                            /\ \E o \in Opaque \ {h} : o.z <= h.z

Behind == Opaque \ {point.hit}
Limits == IF MidPoint(hider) THEN Behind ELSE Opaque

(***************************************************************************)
(* The occluding hit is a nearest one of the opaque hits and occlZ its     *)
(* depth; for the midpoint filter occlZ is the depth of the second nearest *)
(* (imagepixel.h:130 and the drawings in StoreSample).                     *)
(***************************************************************************)
OccludingHitIsNearest ==
  /\ point.hit = NoHit <=> Opaque = {}
  /\ point.hit # NoHit => point.hit \in Opaque /\ \A h \in Behind : point.hit.z <= h.z
  /\ \A h \in Limits : point.occlZ <= h.z
  /\ point.occlZ = Far \/ \E h \in Limits : point.occlZ = h.z
=============================================================================
