---------------------------- MODULE PixelSample ----------------------------
(***************************************************************************)
(* The whole way of the hits of one sample point: the solid blocks of the  *)
(* scene decide which surfaces belong to which solid, StoreSample keeps    *)
(* what it must while the bucket is rendered, and CqImagePixel::Combine    *)
(* sorts the hits, lets the solids take theirs away and finds the depth.   *)
(***************************************************************************)
EXTENDS SamplePoint, SolidTree, SequencesExt

ASSUME NamesAssumption == Id \subseteq Nat

VARIABLES stage,     \* of the scene, of the sample
          tree,      \* the nodes of all solid blocks so far
          blocks,    \* the nodes of the blocks that are open
          owner,     \* by micropolygon: the node of its surface, or None
          seen       \* the hits that Combine lets through, front to back

pixel == <<stage, tree, blocks, owner, seen, vars>>

Start == /\ Init
         /\ stage = "scene"
         /\ tree = <<>> /\ blocks = <<>> /\ owner = <<>> /\ seen = <<>>

-----------------------------------------------------------------------------
\* Attribute and transform blocks pass the question for the solid block on to
\* their parents (isSolid, pCSGNode).
Current == IF blocks = <<>> THEN None ELSE Last(blocks)

SolidBegin(type) ==
  /\ stage = "scene"
  /\ tree' = WithNode(tree, type, Current)
  /\ blocks' = Append(blocks, Len(tree) + 1)
  /\ UNCHANGED <<stage, owner, seen, vars>>

SolidEnd ==
  /\ stage = "scene" /\ blocks # <<>>
  /\ blocks' = Front(blocks)
  /\ UNCHANGED <<stage, tree, owner, seen, vars>>

\* The constructor of CqSurface: only a primitive takes surfaces.
NodeOfSurface == IF IsPrimitive(tree, Current) THEN Current ELSE None

\* A surface is created and will be the micropolygon i over this sample.
CreateSurface(i) ==
  /\ stage = "scene" /\ i \notin DOMAIN owner
  /\ owner' = [j \in DOMAIN owner \cup {i} |-> IF j = i THEN NodeOfSurface ELSE owner[j]]
  /\ UNCHANGED <<stage, tree, blocks, seen, vars>>

WorldEnd ==
  /\ stage = "scene" /\ blocks = <<>>
  /\ stage' = "render"
  /\ UNCHANGED <<tree, blocks, owner, seen, vars>>

-----------------------------------------------------------------------------
StoreSample(h) ==
  /\ stage = "render"
  /\ h.id \in DOMAIN owner /\ h.csg = (owner[h.id] # None)
  /\ Offer(h)
  /\ UNCHANGED <<stage, tree, blocks, owner, seen>>

\* std::sort leaves ties open; micropolygons have any names.
Before(g, h) == g.z < h.z \/ (g.z = h.z /\ g.id < h.id)

InOrder(H) ==
  [i \in 1 .. Cardinality(H) |-> CHOOSE h \in H : Cardinality({g \in H : Before(g, h)}) = i - 1]

Samples(H) == LET s == InOrder(H) IN [i \in DOMAIN s |-> [hit |-> s[i], node |-> owner[s[i].id]]]

Hitted(samples) == [i \in DOMAIN samples |-> samples[i].hit]

Combine ==
  /\ stage = "render"
  /\ stage' = "combined"
  /\ seen' = IF point.data = {} THEN InOrder({point.hit} \ {NoHit})
             ELSE Hitted(Processed(tree, Samples(Combined(point))))
  /\ UNCHANGED <<tree, blocks, owner, vars>>

\* The pixel is used for another place of the same scene.
Reuse ==
  /\ stage = "combined"
  /\ stage' = "render" /\ seen' = <<>>
  /\ Clear
  /\ UNCHANGED <<tree, blocks, owner>>

Step ==
  \/ \E t \in NodeTypes : SolidBegin(t)
  \/ SolidEnd
  \/ \E i \in Id : CreateSurface(i)
  \/ WorldEnd
  \/ \E h \in Hits : StoreSample(h)
  \/ Combine
  \/ Reuse

PixelSpec == Start /\ [][Step]_pixel

-----------------------------------------------------------------------------
\* What has been passed after the first k of the hits s along the ray: an odd
\* number of walls of a primitive, and of an operation what its name says, for
\* a ray that begins outside.
Within(s, k) ==
  LET within[n \in DOMAIN tree] ==
        LET children == tree[n].children
        IN  \/ tree[n].type = "primitive" /\ Cardinality({i \in 1 .. k : owner[s[i].id] = n}) % 2 = 1
            \/ tree[n].type = "union" /\ \E i \in DOMAIN children : within[children[i]]
            \/ /\ tree[n].type = "intersection" /\ children # <<>>
               /\ \A i \in DOMAIN children : within[children[i]]
            \/ /\ tree[n].type = "difference" /\ children # <<>>
               /\ \A i \in DOMAIN children : within[children[i]] = (i = 1)
  IN  within

\* A solid that is a primitive alone shows all its walls.
IsWall(s, i) ==
  owner[s[i].id] = None \/
  LET r == Roots(tree)[owner[s[i].id]]
  IN  IsPrimitive(tree, r) \/ Within(s, i)[r] # Within(s, i - 1)[r]

Walls(H) == LET s == InOrder(H) IN {s[i] : i \in {j \in DOMAIN s : IsWall(s, j)}}

\* The camera is in none of the solids that are part of others, as the comment
\* in ProcessSampleList has it: each shows an even number of walls.
CameraOutside ==
  \A n \in DOMAIN tree : IsPrimitive(tree, n) /\ tree[n].parent # None =>
    Cardinality({h \in offered : owner[h.id] = n}) % 2 = 0

(***************************************************************************)
(* Whatever blocks are nested in what order and wherever the hits of their *)
(* surfaces lie: what can be seen of a solid is where the ray enters or    *)
(* leaves the set its operations describe, each hit once and in the order  *)
(* of depth, although every node promotes and erases hits in a list that   *)
(* other solids and ordinary surfaces share, and although what is behind   *)
(* an opaque surface was never stored.  Of a camera in a solid it says     *)
(* nothing: the code means to find out whether it is in one and never does *)
(* (csgtree.cpp:200), so that it counts the walls of that solid from       *)
(* outside and takes what is out of it for what is in it.                  *)
(***************************************************************************)
SeenIsSetOperation ==
  stage = "combined" =>
    /\ \A i, j \in DOMAIN seen : i < j => Before(seen[i], seen[j])
    /\ CameraOutside =>
         /\ Range(seen) \subseteq Walls(offered)
         /\ \A h \in Walls(offered) \ Range(seen) :
              /\ Cullable(hider, h.csg)
              /\ \E g \in Range(seen) : g.z <= h.z /\ Occluding(hider, g)

Middle(S) == Nearest(S).z + Nearest(S \ {Nearest(S)}).z

NoMatte == \A h \in offered : h.kind # "matte"

Depth2 == DoubleDepth(hider, point, Range(seen))

(***************************************************************************)
(* The depth that reaches a shadow map is that of the nearest solid wall,  *)
(* of the furthest, or the middle between the two nearest, although most   *)
(* hits were never stored; but for MatteAlpha objects that the threshold   *)
(* leaves out, and the middle only if all of these are opaque and outside  *)
(* solids, and if solids have not left the nearest one alone; from a       *)
(* camera outside of the solids.                                           *)
(***************************************************************************)
DepthIsRight ==
  LET S == Solid(Walls(offered))
  IN  stage = "combined" /\ CameraOutside /\ S # {} =>
        /\ hider = "min" /\ NoMatte => Depth2 = 2 * Nearest(S).z
        /\ hider = "max" => Depth2 = 2 * Furthest(S).z
        /\ hider = "midpoint" /\ Cardinality(S) > 1 /\ S = Opaque /\ (point.data # {} => Len(seen) > 1)
             => Depth2 = Middle(S)

(***************************************************************************)
(* What the comment in Combine says: "Make sure we store the nearest and   *)
(* second nearest depth values."                                           *)
(***************************************************************************)
NearestTwoStored ==
  LET S == Solid(Walls(offered))
  IN  /\ stage = "combined" /\ hider = "midpoint"
      /\ NoMatte /\ (\A h \in S : ~h.csg) /\ Cardinality(S) > 1
      => Depth2 = Middle(S)
=============================================================================
