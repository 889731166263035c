--------------------------- MODULE MCSamplePoint ---------------------------
(* Without solids, three micropolygons of every kind at three depths in    *)
(* every order: enough for one to come between, before or behind two       *)
(* others, and for ties.  With solids, opaque micropolygons, two at each   *)
(* depth, that come from front to back, as their order makes no difference *)
(* to what is kept of solids; any of them may be in any block.  Three      *)
(* blocks with FewHits stand in every relation, from any camera.  For the  *)
(* filter "min" there is one solid of MaxNodes nodes with MaxHits in it or *)
(* outside of all blocks, and the camera is outside: operations in others  *)
(* with an even number of walls of each primitive.  A primitive has a      *)
(* micropolygon: one without would be one that is nowhere on the ray.      *)
EXTENDS PixelSample

CONSTANTS FewHits, MaxHits, MaxNodes, MaxOperations

HasSolids == tree # <<>>

Large == hider = "min"
HitCount == IF Large THEN MaxHits ELSE FewHits

Linked == IsPrimitive(tree, Current) /\ tree[Current].parent # None
BeginsLinked == Current # None /\ ~IsPrimitive(tree, Current)

FewNodes(t) ==
  /\ Len(tree) < IF Large THEN MaxNodes ELSE 3
  /\ Large => IF tree = <<>> THEN t # "primitive" ELSE BeginsLinked
  /\ t # "primitive" => Cardinality({n \in DOMAIN tree : tree[n].type # "primitive"}) < MaxOperations

\* The micropolygons that a primitive with w of them has yet to get, for which
\* some must be left: an even number for a camera outside.
Missing(linked, w) == IF Large /\ linked THEN (IF w = 0 THEN 2 ELSE w % 2)
                                         ELSE IF w = 0 THEN 1 ELSE 0
Owes(n) == IF IsPrimitive(tree, n)
           THEN Missing(tree[n].parent # None, Cardinality({i \in DOMAIN owner : owner[i] = n}))
           ELSE 0
Owed == MapThenSumSet(Owes, DOMAIN tree)
Left == HitCount - Cardinality(DOMAIN owner)

Affords(t) == Left >= Owed + IF t = "primitive" THEN Missing(BeginsLinked, 0) ELSE 1
Room == Left > Owed + IF Large /\ Linked THEN 1 ELSE 0
InPair == Large /\ Linked /\ Owes(Current) = 1

\* Surfaces of no solid get the first name that is free; those of a solid get
\* theirs in order, which makes no difference.
InTurn(i) ==
  IF NodeOfSurface = None
  THEN /\ \A j \in 1 .. i - 1 : j \in DOMAIN owner
       /\ IF HasSolids THEN Large => blocks = <<>> ELSE i <= 3
  ELSE /\ \A j \in DOMAIN owner : owner[j] = Current => j < i
       /\ Large /\ Linked /\ ~InPair => \E j \in i + 1 .. HitCount : j \notin DOMAIN owner

Complete == HasSolids => Left = 0

Few(h) ==
  IF HasSolids
  THEN h.kind = "opaque" /\ h.id = Cardinality(offered) + 1 /\ h.z = (h.id + 1) \div 2
  ELSE Cardinality(offered) < 3

MCStep ==
  \/ \E t \in NodeTypes : FewNodes(t) /\ Affords(t) /\ ~InPair /\ SolidBegin(t)
  \/ Owes(Current) = 0 /\ SolidEnd
  \/ \E i \in 1 .. HitCount : InTurn(i) /\ (Room \/ Owes(Current) > 0) /\ CreateSurface(i)
  \/ Complete /\ WorldEnd
  \/ \E h \in Hits : Few(h) /\ StoreSample(h)
  \/ Combine
  \/ Reuse

MCSpec == Start /\ [][MCStep]_pixel
=============================================================================
