------------------------ MODULE OcclusionTree_proofs ------------------------
(***************************************************************************)
(* Theorems about occlusion culling, for regions of any size with any      *)
(* number of samples: the tree culls what is hidden and nothing else, and  *)
(* no sample point sees a difference.                                      *)
(*                                                                         *)
(* The functions that OcclusionTree defines by recursion (powers of two,   *)
(* interlaced bits, the areas and the depths of the nodes) are shown to    *)
(* satisfy their equations before anything is said of their values         *)
(* (Recursion).  The place of a leaf is found level by level from the root *)
(* (LevelPlaces), the answer of canCull node by node (CanCullMeans), and   *)
(* one invariant ties the leaves to the samples (TreeInv).                 *)
(***************************************************************************)
EXTENDS OcclusionTree, RecursiveFunctions, TLAPS

-----------------------------------------------------------------------------
(* Powers and logarithms of two. *)

LEMMA Pow2Def ==
  Pow2 = [k \in Nat |-> IF k = 0 THEN 1 ELSE 2 * Pow2[k - 1]]
<1>. DEFINE D == Nat
            F == [gx \in [D -> D] \X D |-> IF gx[2] = 0 THEN 1 ELSE 2 * gx[1][gx[2] - 1]]
            rank == [k \in D |-> k]
<1>1. F \in [[D -> D] \X D -> D] /\ rank \in [D -> Nat] /\ 0 \in D
  OBVIOUS
<1>2. ASSUME NEW g \in [D -> D], NEW x \in D
      PROVE  F[<<g, x>>] = IF x = 0 THEN 1 ELSE 2 * g[x - 1]
  OBVIOUS
<1>3. ASSUME NEW g \in [D -> D], NEW h \in [D -> D], NEW x \in D,
             \A y \in D : rank[y] < rank[x] => g[y] = h[y]
      PROVE  F[<<g, x>>] = F[<<h, x>>]
  <2>. HIDE DEF F
  <2>1. CASE x = 0
    BY <1>2, <2>1
  <2>2. CASE x # 0
    <3>1. x - 1 \in D /\ rank[x - 1] < rank[x]
      BY <2>2
    <3>. QED  BY <1>2, <1>3, <2>2, <3>1
  <2>. QED  BY <2>1, <2>2
<1>4. PICK g \in [D -> D] : Solves(g, F, D)
  <2>. HIDE DEF F, rank, D
  <2>1. FromLower(F, rank, D, D)
    BY <1>3 DEF FromLower
  <2>. QED  BY <1>1, <2>1, Recursion
<1>5. g = [k \in Nat |-> IF k = 0 THEN 1 ELSE 2 * g[k - 1]]
  <2>. HIDE DEF F
  <2>. QED  BY <1>2, <1>4 DEF Solves
<1>. QED  BY <1>5 DEF Pow2

\* Powers of two double and outgrow their exponents.
LEMMA Pow2Facts ==
  /\ Pow2[0] = 1
  /\ \A k \in Nat : Pow2[k] \in Nat /\ Pow2[k] >= 1 /\ Pow2[k] >= k /\ Pow2[k + 1] = 2 * Pow2[k]
<1>1. Pow2[0] = 1
  BY Pow2Def
<1>2. ASSUME NEW k \in Nat  PROVE Pow2[k + 1] = 2 * Pow2[k]
  BY Pow2Def
<1>. DEFINE S == {k \in Nat : Pow2[k] \in Nat /\ Pow2[k] >= 1 /\ Pow2[k] >= k}
<1>3. 0 \in S
  BY <1>1
<1>4. ASSUME NEW n \in Nat, n \in S  PROVE n + 1 \in S
  BY <1>2, <1>4
<1>5. \A n \in Nat : n \in S
  <2>. HIDE DEF S
  <2>. QED  BY <1>3, <1>4, Steps
<1>. QED  BY <1>1, <1>2, <1>5

LEMMA Pow2Grows ==
  ASSUME NEW j \in Nat, NEW k \in Nat, j <= k
  PROVE  Pow2[j] <= Pow2[k]
<1>. DEFINE S == {n \in Nat : Pow2[j] <= Pow2[j + n]}
<1>1. 0 \in S
  BY Pow2Facts
<1>2. ASSUME NEW n \in Nat, n \in S  PROVE n + 1 \in S
  <2>1. Pow2[j + n + 1] = 2 * Pow2[j + n] /\ Pow2[j + n] \in Nat /\ Pow2[j] \in Nat
    BY Pow2Facts
  <2>. QED  BY <1>2, <2>1
<1>3. \A n \in Nat : n \in S
  <2>. HIDE DEF S
  <2>. QED  BY <1>1, <1>2, Steps
<1>4. k - j \in Nat /\ j + (k - j) = k
  OBVIOUS
<1>. QED  BY <1>3, <1>4

\* lceil(log2(n)).
LEMMA CeilLog2Facts ==
  ASSUME NEW n \in Nat, n > 0
  PROVE  CeilLog2(n) \in Nat /\ Pow2[CeilLog2(n)] >= n
<1>. DEFINE T == {k \in Nat : Pow2[k] >= n}
<1>1. PICK m \in T : \A k \in T : m <= k
  <2>1. n \in T /\ T \subseteq Nat
    BY Pow2Facts
  <2>. HIDE DEF T
  <2>. QED  BY <2>1, LeastNumber
<1>2. m \in 0 .. n
  BY <1>1, Pow2Facts
<1>3. m = 0 \/ Pow2[m - 1] < n
  <2>. SUFFICES ASSUME m # 0  PROVE Pow2[m - 1] < n
    OBVIOUS
  <2>1. m - 1 \in Nat /\ m - 1 \notin T
    BY <1>1, <1>2
  <2>2. Pow2[m - 1] \in Nat
    BY <2>1, Pow2Facts
  <2>. QED  BY <2>1, <2>2
<1>4. CeilLog2(n) \in 0 .. n /\ Pow2[CeilLog2(n)] >= n
  BY <1>2, <1>3 DEF CeilLog2
<1>. QED  BY <1>4

-----------------------------------------------------------------------------
(* The shape of the tree. *)

Shaped(r) == r \in [w : Nat \ {0}, h : Nat \ {0}, xSamps : Nat \ {0}, ySamps : Nat \ {0}]

LEMMA Product ==
  ASSUME NEW a \in Nat \ {0}, NEW b \in Nat \ {0}
  PROVE  a * b \in Nat /\ a * b > 0
OBVIOUS

\* The tree is large enough for the region in both directions, whose numbers of
\* splits differ by one at most.
LEMMA ShapeFacts ==
  ASSUME NEW r, Shaped(r)
  PROVE  /\ NumX(r) \in Nat /\ NumX(r) > 0 /\ NumY(r) \in Nat /\ NumY(r) > 0
         /\ DepthX(r) \in Nat /\ DepthY(r) \in Nat /\ TreeDepth(r) \in Nat
         /\ NumX(r) <= Pow2[DepthX(r)] /\ NumY(r) <= Pow2[DepthY(r)]
         /\ IF SplitXFirst(r) THEN DepthX(r) - DepthY(r) \in {0, 1} ELSE DepthY(r) = DepthX(r) + 1
<1>. DEFINE cx == CeilLog2(NumX(r))
            cy == CeilLog2(NumY(r))
<1>1. NumX(r) \in Nat /\ NumX(r) > 0 /\ NumY(r) \in Nat /\ NumY(r) > 0
  BY Product DEF Shaped, NumX, NumY
<1>2. cx \in Nat /\ Pow2[cx] >= NumX(r) /\ cy \in Nat /\ Pow2[cy] >= NumY(r)
  BY <1>1, CeilLog2Facts
<1>3. DepthX(r) = Larger(cx, cy - 1) /\ DepthY(r) = Larger(cy, cx - 1)
  BY DEF DepthX, DepthY
<1>. HIDE DEF cx, cy
<1>4. DepthX(r) \in Nat /\ DepthY(r) \in Nat /\ DepthX(r) >= cx /\ DepthY(r) >= cy
  BY <1>2, <1>3 DEF Larger
<1>5. Pow2[DepthX(r)] >= NumX(r) /\ Pow2[DepthY(r)] >= NumY(r)
  <2>1. Pow2[cx] <= Pow2[DepthX(r)] /\ Pow2[cy] <= Pow2[DepthY(r)]
    BY <1>2, <1>4, Pow2Grows
  <2>2. /\ Pow2[cx] \in Nat /\ Pow2[cy] \in Nat
        /\ Pow2[DepthX(r)] \in Nat /\ Pow2[DepthY(r)] \in Nat
    BY <1>2, <1>4, Pow2Facts
  <2>. QED  BY <1>1, <1>2, <2>1, <2>2
<1>6. IF SplitXFirst(r) THEN DepthX(r) - DepthY(r) \in {0, 1} ELSE DepthY(r) = DepthX(r) + 1
  BY <1>2, <1>3 DEF SplitXFirst, Larger
<1>. QED  BY <1>1, <1>4, <1>5, <1>6 DEF TreeDepth

-----------------------------------------------------------------------------
(* Interlaced bits. *)

LEMMA Halves ==
  ASSUME NEW a \in Nat
  PROVE  /\ a \div 2 \in Nat /\ a % 2 \in {0, 1} /\ a = 2 * (a \div 2) + (a % 2)
         /\ a # 0 => a \div 2 < a
OBVIOUS

\* The recursion of Interlaced comes to an end.
LEMMA InterlacedDef ==
  Interlaced = [c \in Nat \X Nat |->
                  IF c = <<0, 0>> THEN 0
                  ELSE (c[1] % 2) + 2 * (c[2] % 2) + 4 * Interlaced[<<c[1] \div 2, c[2] \div 2>>]]
<1>. DEFINE D == Nat \X Nat
            V == Nat
            F == [gc \in [D -> V] \X D |->
                    IF gc[2] = <<0, 0>> THEN 0
                    ELSE (gc[2][1] % 2) + 2 * (gc[2][2] % 2)
                         + 4 * gc[1][<<gc[2][1] \div 2, gc[2][2] \div 2>>]]
            rank == [c \in D |-> c[1] + c[2]]
<1>1. \A c \in D : c[1] \in Nat /\ c[2] \in Nat /\ <<c[1] \div 2, c[2] \div 2>> \in D
  OBVIOUS
<1>2. ASSUME NEW g \in [D -> V], NEW c \in D
      PROVE  /\ F[<<g, c>>] = IF c = <<0, 0>> THEN 0
                              ELSE (c[1] % 2) + 2 * (c[2] % 2) + 4 * g[<<c[1] \div 2, c[2] \div 2>>]
             /\ F[<<g, c>>] \in V
  <2>. DEFINE h == <<c[1] \div 2, c[2] \div 2>>
  <2>1. F[<<g, c>>] = IF c = <<0, 0>> THEN 0 ELSE (c[1] % 2) + 2 * (c[2] % 2) + 4 * g[h]
    OBVIOUS
  <2>2. c[1] % 2 \in Nat /\ c[2] % 2 \in Nat /\ h \in D
    BY <1>1
  <2>3. g[h] \in Nat
    BY <2>2
  <2>. HIDE DEF F, h, D
  <2>4. (c[1] % 2) + 2 * (c[2] % 2) + 4 * g[h] \in Nat
    BY <2>2, <2>3
  <2>5. F[<<g, c>>] \in V
    BY <2>1, <2>4
  <2>. QED  BY <2>1, <2>5 DEF h
<1>3. F \in [[D -> V] \X D -> V]
  <2>1. \A gc \in [D -> V] \X D : F[gc] \in V
    BY <1>2
  <2>2. F = [gc \in [D -> V] \X D |-> F[gc]]
    OBVIOUS
  <2>. HIDE DEF F, D, V
  <2>. QED  BY <2>1, <2>2
<1>4. rank \in [D -> Nat] /\ 0 \in V
  BY <1>1
<1>5. ASSUME NEW g \in [D -> V], NEW h \in [D -> V], NEW c \in D,
             \A y \in D : rank[y] < rank[c] => g[y] = h[y]
      PROVE  F[<<g, c>>] = F[<<h, c>>]
  <2>1. CASE c = <<0, 0>>
    <3>. HIDE DEF F, D
    <3>. QED  BY <1>2, <2>1
  <2>2. CASE c # <<0, 0>>
    <3>. DEFINE l == <<c[1] \div 2, c[2] \div 2>>
    <3>1. l \in D /\ c[1] \in Nat /\ c[2] \in Nat
      BY <1>1
    <3>2. rank[l] < rank[c]
      <4>1. c[1] # 0 \/ c[2] # 0
        BY <2>2
      <4>2. rank[l] = (c[1] \div 2) + (c[2] \div 2) /\ rank[c] = c[1] + c[2]
        BY <3>1
      <4>3. (c[1] \div 2) + (c[2] \div 2) < c[1] + c[2]
        <5>1. /\ c[1] \div 2 \in Nat /\ c[1] = 2 * (c[1] \div 2) + (c[1] % 2) /\ c[1] % 2 \in {0, 1}
              /\ c[2] \div 2 \in Nat /\ c[2] = 2 * (c[2] \div 2) + (c[2] % 2) /\ c[2] % 2 \in {0, 1}
          BY <3>1, Halves
        <5>. QED  BY <3>1, <4>1, <5>1
      <4>. QED  BY <4>2, <4>3
    <3>. HIDE DEF F, D, rank
    <3>3. g[l] = h[l]
      BY <1>5, <3>1, <3>2
    <3>. QED  BY <1>2, <2>2, <3>3
  <2>. QED  BY <2>1, <2>2
<1>6. PICK g \in [D -> V] : Solves(g, F, D)
  <2>. HIDE DEF F, rank, D, V
  <2>1. FromLower(F, rank, D, V)
    BY <1>5 DEF FromLower
  <2>. QED  BY <1>3, <1>4, <2>1, Recursion
<1>7. g = [c \in D |-> IF c = <<0, 0>> THEN 0
                       ELSE (c[1] % 2) + 2 * (c[2] % 2) + 4 * g[<<c[1] \div 2, c[2] \div 2>>]]
  <2>1. \A c \in D : g[c] = IF c = <<0, 0>> THEN 0
                       ELSE (c[1] % 2) + 2 * (c[2] % 2) + 4 * g[<<c[1] \div 2, c[2] \div 2>>]
    <3>. HIDE DEF F, D, V
    <3>. QED  BY <1>2, <1>6 DEF Solves
  <2>. HIDE DEF F, D, V
  <2>. QED  BY <2>1
<1>. QED  BY <1>7 DEF Interlaced

LEMMA InterlacedBits ==
  /\ Interlaced[<<0, 0>>] = 0
  /\ \A a, b \in Nat :
       Interlaced[<<a, b>>] = (a % 2) + 2 * (b % 2) + 4 * Interlaced[<<a \div 2, b \div 2>>]
<1>1. Interlaced[<<0, 0>>] = 0
  BY InterlacedDef
<1>2. ASSUME NEW a \in Nat, NEW b \in Nat
      PROVE  Interlaced[<<a, b>>] = (a % 2) + 2 * (b % 2) + 4 * Interlaced[<<a \div 2, b \div 2>>]
  <2>1. CASE a = 0 /\ b = 0
    <3>1. a \div 2 = 0 /\ b \div 2 = 0 /\ a % 2 = 0 /\ b % 2 = 0
      BY <2>1
    <3>. QED  BY <1>1, <2>1, <3>1
  <2>2. CASE a # 0 \/ b # 0
    <3>1. <<a, b>> \in Nat \X Nat /\ <<a, b>> # <<0, 0>>
      BY <2>2
    <3>. QED  BY <3>1, InterlacedDef
  <2>. QED  BY <2>1, <2>2
<1>. QED  BY <1>1, <1>2

\* Induction over pairs of numbers: halving both comes to an end.
LEMMA ByHalves ==
  ASSUME NEW S, <<0, 0>> \in S,
         \A a, b \in Nat : <<a \div 2, b \div 2>> \in S => <<a, b>> \in S
  PROVE  \A a, b \in Nat : <<a, b>> \in S
<1>. DEFINE D == Nat \X Nat
            rank == [c \in D |-> c[1] + c[2]]
<1>1. ASSUME NEW c \in D, \A y \in D : rank[y] < rank[c] => y \in S  PROVE c \in S
  <2>. DEFINE l == <<c[1] \div 2, c[2] \div 2>>
  <2>1. c = <<c[1], c[2]>> /\ c[1] \in Nat /\ c[2] \in Nat
    OBVIOUS
  <2>2. CASE c[1] # 0 \/ c[2] # 0
    <3>1. l \in D /\ rank[l] = (c[1] \div 2) + (c[2] \div 2) /\ rank[c] = c[1] + c[2]
      BY <2>1
    <3>2. (c[1] \div 2) + (c[2] \div 2) < c[1] + c[2]
      BY <2>1, <2>2
    <3>3. l \in S
      <4>. HIDE DEF D, rank, l
      <4>. QED  BY <1>1, <3>1, <3>2
    <3>. QED  BY <2>1, <3>3
  <2>. QED  BY <2>1, <2>2
<1>2. rank \in [D -> Nat]
  OBVIOUS
<1>3. \A c \in D : c \in S
  <2>. HIDE DEF D, rank
  <2>. QED  BY <1>1, <1>2, Descent
<1>. QED  BY <1>3

LEMMA InterlacedType ==
  \A a, b \in Nat : Interlaced[<<a, b>>] \in Nat
<1>. DEFINE S == {c \in Nat \X Nat : Interlaced[c] \in Nat}
<1>1. <<0, 0>> \in S
  BY InterlacedBits
<1>2. ASSUME NEW a \in Nat, NEW b \in Nat, <<a \div 2, b \div 2>> \in S  PROVE <<a, b>> \in S
  <2>1. a % 2 \in Nat /\ b % 2 \in Nat /\ Interlaced[<<a \div 2, b \div 2>>] \in Nat
    BY <1>2
  <2>. QED  BY <2>1, InterlacedBits
<1>3. \A a, b \in Nat : <<a, b>> \in S
  <2>. HIDE DEF S
  <2>. QED  BY <1>1, <1>2, ByHalves
<1>. QED  BY <1>3

\* The lowest bit comes from the first number, the others are those of the two
\* numbers in turn.
LEMMA InterlacedSwap ==
  \A a, b \in Nat : Interlaced[<<a, b>>] = (a % 2) + 2 * Interlaced[<<b, a \div 2>>]
<1>. DEFINE S == {c \in Nat \X Nat : Interlaced[c] = (c[1] % 2) + 2 * Interlaced[<<c[2], c[1] \div 2>>]}
<1>1. <<0, 0>> \in S
  BY InterlacedBits
<1>2. ASSUME NEW a \in Nat, NEW b \in Nat, <<a \div 2, b \div 2>> \in S  PROVE <<a, b>> \in S
  <2>. DEFINE l == Interlaced[<<a \div 2, b \div 2>>]
              m == Interlaced[<<b \div 2, (a \div 2) \div 2>>]
  <2>1. /\ a \div 2 \in Nat /\ b \div 2 \in Nat /\ (a \div 2) \div 2 \in Nat
        /\ a % 2 \in Nat /\ b % 2 \in Nat /\ (a \div 2) % 2 \in Nat
    OBVIOUS
  <2>2. l \in Nat /\ m \in Nat
    BY <2>1, InterlacedType
  <2>3. l = ((a \div 2) % 2) + 2 * m
    BY <1>2
  <2>4. Interlaced[<<a, b>>] = (a % 2) + 2 * (b % 2) + 4 * l
    BY InterlacedBits
  <2>5. Interlaced[<<b, a \div 2>>] = (b % 2) + 2 * ((a \div 2) % 2) + 4 * m
    BY <2>1, InterlacedBits
  <2>. HIDE DEF l, m
  <2>6. Interlaced[<<a, b>>] = (a % 2) + 2 * Interlaced[<<b, a \div 2>>]
    BY <2>1, <2>2, <2>3, <2>4, <2>5
  <2>. QED  BY <2>6
<1>3. \A a, b \in Nat : <<a, b>> \in S
  <2>. HIDE DEF S
  <2>. QED  BY <1>1, <1>2, ByHalves
<1>. QED  BY <1>3

-----------------------------------------------------------------------------
(* Nodes and their areas. *)

LEMMA NodeFacts ==
  ASSUME NEW r, Shaped(r)
  PROVE  /\ Nodes(r) \subseteq Nat /\ 0 \in Nodes(r) /\ FirstLeaf(r) \in Nat
         /\ \A n \in Nodes(r) : n # 0 => Parent(n) \in Nodes(r) /\ Parent(n) < n /\ Parent(n) < FirstLeaf(r)
         /\ \A n \in Nodes(r) : n < FirstLeaf(r) => /\ 2 * n + 1 \in Nodes(r) /\ 2 * n + 2 \in Nodes(r)
<1>1. Pow2[TreeDepth(r)] \in Nat /\ Pow2[TreeDepth(r)] >= 1
  BY ShapeFacts, Pow2Facts
<1>. DEFINE N == Pow2[TreeDepth(r)]
<1>2. Nodes(r) = 0 .. 2 * N - 2 /\ FirstLeaf(r) = N - 1
  BY DEF Nodes, FirstLeaf
<1>. HIDE DEF N
<1>3. ASSUME NEW n \in 0 .. 2 * N - 2, n # 0
      PROVE  Parent(n) \in 0 .. 2 * N - 2 /\ Parent(n) < n /\ Parent(n) < N - 1
  BY <1>1, <1>3 DEF Parent, N
<1>. QED  BY <1>1, <1>2, <1>3 DEF N

AreaSet == [x0 : Int, y0 : Int, x1 : Int, y1 : Int, inX : BOOLEAN]

WholeArea(r) == [x0 |-> 0, y0 |-> 0, x1 |-> 2 * Pow2[DepthX(r)], y1 |-> 2 * Pow2[DepthY(r)],
                 inX |-> SplitXFirst(r)]

\* A half of an area is an area within it.
LEMMA HalfType ==
  ASSUME NEW a \in AreaSet, NEW first \in BOOLEAN
  PROVE  /\ Half(a, first) \in AreaSet
         /\ a.x0 <= a.x1 /\ a.y0 <= a.y1 =>
              LET b == Half(a, first)
              IN  /\ a.x0 <= b.x0 /\ b.x0 <= b.x1 /\ b.x1 <= a.x1
                  /\ a.y0 <= b.y0 /\ b.y0 <= b.y1 /\ b.y1 <= a.y1
<1>. DEFINE mx == (a.x0 + a.x1) \div 2
            my == (a.y0 + a.y1) \div 2
<1>1. /\ a.x0 \in Int /\ a.x1 \in Int /\ a.y0 \in Int /\ a.y1 \in Int /\ a.inX \in BOOLEAN
  BY DEF AreaSet
<1>2. mx \in Int /\ my \in Int /\ (a.x0 <= a.x1 => a.x0 <= mx /\ mx <= a.x1)
      /\ (a.y0 <= a.y1 => a.y0 <= my /\ my <= a.y1)
  BY <1>1
<1>3. Half(a, first) =
              IF a.inX
              THEN [x0 |-> IF first THEN a.x0 ELSE mx, y0 |-> a.y0,
                    x1 |-> IF first THEN mx ELSE a.x1, y1 |-> a.y1, inX |-> FALSE]
              ELSE [x0 |-> a.x0, y0 |-> IF first THEN a.y0 ELSE my,
                    x1 |-> a.x1, y1 |-> IF first THEN my ELSE a.y1, inX |-> TRUE]
  BY DEF Half
<1>. HIDE DEF mx, my
<1>4. CASE a.inX /\ first
  BY <1>1, <1>2, <1>3, <1>4 DEF AreaSet
<1>5. CASE a.inX /\ ~first
  BY <1>1, <1>2, <1>3, <1>5 DEF AreaSet
<1>6. CASE ~a.inX /\ first
  BY <1>1, <1>2, <1>3, <1>6 DEF AreaSet
<1>7. CASE ~a.inX /\ ~first
  BY <1>1, <1>2, <1>3, <1>7 DEF AreaSet
<1>. QED  BY <1>4, <1>5, <1>6, <1>7

\* The recursion of Area comes to an end.
LEMMA AreaDef ==
  ASSUME NEW r, Shaped(r)
  PROVE  Area(r) = [n \in Nodes(r) |-> IF n = 0 THEN WholeArea(r)
                                       ELSE Half(Area(r)[Parent(n)], n % 2 = 1)]
<1>. DEFINE D == Nodes(r)
            V == AreaSet
            F == [gn \in [D -> V] \X D |->
                    IF gn[2] = 0 THEN WholeArea(r) ELSE Half(gn[1][Parent(gn[2])], gn[2] % 2 = 1)]
            rank == [n \in D |-> n]
<1>1. WholeArea(r) \in V
  BY ShapeFacts, Pow2Facts DEF WholeArea, AreaSet, SplitXFirst
<1>2. ASSUME NEW g \in [D -> V], NEW n \in D
      PROVE  /\ F[<<g, n>>] = IF n = 0 THEN WholeArea(r) ELSE Half(g[Parent(n)], n % 2 = 1)
             /\ F[<<g, n>>] \in V
  <2>1. F[<<g, n>>] = IF n = 0 THEN WholeArea(r) ELSE Half(g[Parent(n)], n % 2 = 1)
    OBVIOUS
  <2>. HIDE DEF F, V, D
  <2>2. CASE n = 0
    BY <1>1, <2>1, <2>2
  <2>3. CASE n # 0
    <3>1. g[Parent(n)] \in AreaSet
      BY <2>3, NodeFacts DEF D, V
    <3>2. Half(g[Parent(n)], n % 2 = 1) \in AreaSet
      BY <3>1, HalfType
    <3>. QED  BY <2>1, <2>3, <3>2 DEF V
  <2>. QED  BY <2>1, <2>2, <2>3
<1>3. F \in [[D -> V] \X D -> V]
  <2>1. \A gn \in [D -> V] \X D : F[gn] \in V
    BY <1>2
  <2>2. F = [gn \in [D -> V] \X D |-> F[gn]]
    OBVIOUS
  <2>. HIDE DEF F, D, V
  <2>. QED  BY <2>1, <2>2
<1>4. rank \in [D -> Nat]
  BY NodeFacts
<1>5. ASSUME NEW g \in [D -> V], NEW h \in [D -> V], NEW n \in D,
             \A y \in D : rank[y] < rank[n] => g[y] = h[y]
      PROVE  F[<<g, n>>] = F[<<h, n>>]
  <2>1. CASE n = 0
    <3>. HIDE DEF F, D
    <3>. QED  BY <1>2, <2>1
  <2>2. CASE n # 0
    <3>1. Parent(n) \in D /\ rank[Parent(n)] < rank[n]
      BY <2>2, NodeFacts
    <3>. HIDE DEF F, D, V, rank
    <3>2. g[Parent(n)] = h[Parent(n)]
      BY <1>5, <3>1
    <3>. QED  BY <1>2, <2>2, <3>2
  <2>. QED  BY <2>1, <2>2
<1>6. PICK g \in [D -> V] : Solves(g, F, D)
  <2>. HIDE DEF F, rank, D, V
  <2>1. FromLower(F, rank, D, V)
    BY <1>5 DEF FromLower
  <2>. QED  BY <1>1, <1>3, <1>4, <2>1, Recursion
<1>7. g = [n \in Nodes(r) |-> IF n = 0 THEN WholeArea(r) ELSE Half(g[Parent(n)], n % 2 = 1)]
  <2>1. \A n \in D : g[n] = IF n = 0 THEN WholeArea(r) ELSE Half(g[Parent(n)], n % 2 = 1)
    <3>. HIDE DEF F, D, V
    <3>. QED  BY <1>2, <1>6 DEF Solves
  <2>. HIDE DEF F, V
  <2>. QED  BY <2>1
<1>. HIDE DEF F, rank, V
<1>8. Area(r) = CHOOSE area : area =
        [n \in Nodes(r) |->
           IF n = 0 THEN [x0 |-> 0, y0 |-> 0, x1 |-> 2 * Pow2[DepthX(r)], y1 |-> 2 * Pow2[DepthY(r)],
                          inX |-> SplitXFirst(r)]
           ELSE Half(area[Parent(n)], n % 2 = 1)]
  BY DEF Area, AreaFrom
<1>. QED  BY <1>7, <1>8 DEF WholeArea

LEMMA AreaAt ==
  ASSUME NEW r, Shaped(r)
  PROVE  /\ Area(r)[0] = WholeArea(r)
         /\ \A n \in Nodes(r) : n # 0 => Area(r)[n] = Half(Area(r)[Parent(n)], n % 2 = 1)
BY AreaDef, NodeFacts

Inside(b, a) == a.x0 <= b.x0 /\ b.x1 <= a.x1 /\ a.y0 <= b.y0 /\ b.y1 <= a.y1

\* Every area lies within that of its parent.
LEMMA AreaType ==
  ASSUME NEW r, Shaped(r)
  PROVE  /\ \A n \in Nodes(r) : /\ Area(r)[n] \in AreaSet
                                /\ Area(r)[n].x0 <= Area(r)[n].x1 /\ Area(r)[n].y0 <= Area(r)[n].y1
         /\ \A n \in Nodes(r) : n # 0 => Inside(Area(r)[n], Area(r)[Parent(n)])
<1>. DEFINE D == Nodes(r)
            Good(a) == a \in AreaSet /\ a.x0 <= a.x1 /\ a.y0 <= a.y1
            S == {n \in D : Good(Area(r)[n])}
            rank == [n \in D |-> n]
<1>1. Good(WholeArea(r))
  BY ShapeFacts, Pow2Facts DEF WholeArea, AreaSet, SplitXFirst
<1>2. ASSUME NEW a, Good(a), NEW first \in BOOLEAN
      PROVE  Good(Half(a, first)) /\ Inside(Half(a, first), a)
  BY <1>2, HalfType DEF Inside
<1>3. ASSUME NEW n \in D, \A k \in D : rank[k] < rank[n] => k \in S  PROVE n \in S
  <2>1. CASE n = 0
    BY <1>1, <2>1, AreaAt
  <2>2. CASE n # 0
    <3>1. Parent(n) \in D /\ rank[Parent(n)] < rank[n] /\ Area(r)[n] = Half(Area(r)[Parent(n)], n % 2 = 1)
      BY <2>2, NodeFacts, AreaAt
    <3>2. Good(Area(r)[Parent(n)])
      BY <1>3, <3>1
    <3>. HIDE DEF Good
    <3>3. Good(Area(r)[n])
      BY <1>2, <3>1, <3>2
    <3>. QED  BY <3>3
  <2>. QED  BY <2>1, <2>2
<1>4. \A n \in D : n \in S
  <2>1. rank \in [D -> Nat]
    BY NodeFacts
  <2>. HIDE DEF S, rank, D
  <2>. QED  BY <1>3, <2>1, Descent
<1>5. ASSUME NEW n \in D, n # 0  PROVE Inside(Area(r)[n], Area(r)[Parent(n)])
  <2>1. Parent(n) \in D /\ Area(r)[n] = Half(Area(r)[Parent(n)], n % 2 = 1)
    BY <1>5, NodeFacts, AreaAt
  <2>2. Good(Area(r)[Parent(n)])
    BY <1>4, <2>1
  <2>. HIDE DEF Good
  <2>. QED  BY <1>2, <2>1, <2>2
<1>. QED  BY <1>4, <1>5

-----------------------------------------------------------------------------
(* The node of a block of the area, and the leaf of a sample. *)

\* The splits above level l, and whether its nodes are split in x.
SplitsX(r, l) == IF SplitXFirst(r) THEN (l + 1) \div 2 ELSE l \div 2
SplitsY(r, l) == IF SplitXFirst(r) THEN l \div 2 ELSE (l + 1) \div 2
XNext(r, l) == SplitXFirst(r) <=> l % 2 = 0

SideX(r, l) == 2 * Pow2[DepthX(r) - SplitsX(r, l)]
SideY(r, l) == 2 * Pow2[DepthY(r) - SplitsY(r, l)]

NodeAt(r, l, x, y) ==
  Pow2[l] - 1 + (IF XNext(r, l) THEN Interlaced[<<y, x>>] ELSE Interlaced[<<x, y>>])

Block(r, l, x, y) ==
  [x0 |-> x * SideX(r, l), y0 |-> y * SideY(r, l),
   x1 |-> (x + 1) * SideX(r, l), y1 |-> (y + 1) * SideY(r, l), inX |-> XNext(r, l)]

InPlace(r, l, x, y) ==
  LET n == NodeAt(r, l, x, y)
  IN  n \in Nat /\ n >= Pow2[l] - 1 /\ n <= 2 * Pow2[l] - 2 /\ Area(r)[n] = Block(r, l, x, y)

LEMMA Doubles ==
  ASSUME NEW k \in Nat
  PROVE  /\ (2 * k) \div 2 = k /\ (2 * k + 1) \div 2 = k /\ (2 * k + 1 + 1) \div 2 = k + 1
OBVIOUS

\* How many splits there are in each direction above the next level.
LEMMA LevelFacts ==
  ASSUME NEW r, Shaped(r), NEW l \in Nat, l < TreeDepth(r)
  PROVE  /\ SplitsX(r, l) \in Nat /\ SplitsY(r, l) \in Nat
         /\ XNext(r, l + 1) <=> ~XNext(r, l)
         /\ XNext(r, l) => /\ SplitsX(r, l + 1) = SplitsX(r, l) + 1 /\ SplitsY(r, l + 1) = SplitsY(r, l)
                           /\ SplitsX(r, l) < DepthX(r) /\ SplitsY(r, l) <= DepthY(r)
         /\ ~XNext(r, l) => /\ SplitsY(r, l + 1) = SplitsY(r, l) + 1 /\ SplitsX(r, l + 1) = SplitsX(r, l)
                            /\ SplitsY(r, l) < DepthY(r) /\ SplitsX(r, l) <= DepthX(r)
<1>1. DepthX(r) \in Nat /\ DepthY(r) \in Nat /\ l < DepthX(r) + DepthY(r)
  BY ShapeFacts DEF TreeDepth
<1>2. IF SplitXFirst(r) THEN DepthX(r) - DepthY(r) \in {0, 1} ELSE DepthY(r) = DepthX(r) + 1
  BY ShapeFacts
<1>3. PICK h \in Nat : l = 2 * h \/ l = 2 * h + 1
  <2>1. l \div 2 \in Nat /\ (l = 2 * (l \div 2) \/ l = 2 * (l \div 2) + 1)
    BY Halves
  <2>. QED  BY <2>1
<1>4. CASE l = 2 * h
  <2>1. l % 2 = 0 /\ (l + 1) % 2 = 1 /\ l \div 2 = h /\ (l + 1) \div 2 = h /\ (l + 1 + 1) \div 2 = h + 1
    BY <1>4
  <2>2. CASE SplitXFirst(r)
    BY <1>1, <1>2, <1>4, <2>1, <2>2 DEF SplitsX, SplitsY, XNext
  <2>3. CASE ~SplitXFirst(r)
    BY <1>1, <1>2, <1>4, <2>1, <2>3 DEF SplitsX, SplitsY, XNext
  <2>. QED  BY <2>2, <2>3
<1>5. CASE l = 2 * h + 1
  <2>1. /\ l % 2 = 1 /\ (l + 1) % 2 = 0 /\ l \div 2 = h /\ (l + 1) \div 2 = h + 1
        /\ (l + 1 + 1) \div 2 = h + 1
    BY <1>5
  <2>2. CASE SplitXFirst(r)
    <3>1. /\ SplitsX(r, l) = h + 1 /\ SplitsY(r, l) = h /\ ~XNext(r, l)
          /\ SplitsX(r, l + 1) = h + 1 /\ SplitsY(r, l + 1) = h + 1 /\ XNext(r, l + 1)
      BY <2>1, <2>2 DEF SplitsX, SplitsY, XNext
    <3>2. DepthX(r) >= h + 1 /\ DepthY(r) > h
      BY <1>1, <1>2, <1>5, <2>2
    <3>. QED  BY <3>1, <3>2, <1>1
  <2>3. CASE ~SplitXFirst(r)
    <3>1. /\ SplitsX(r, l) = h /\ SplitsY(r, l) = h + 1 /\ XNext(r, l)
          /\ SplitsX(r, l + 1) = h + 1 /\ SplitsY(r, l + 1) = h + 1 /\ ~XNext(r, l + 1)
      BY <2>1, <2>3 DEF SplitsX, SplitsY, XNext
    <3>2. DepthX(r) > h /\ DepthY(r) >= h + 1
      BY <1>1, <1>2, <1>5, <2>3
    <3>. QED  BY <3>1, <3>2, <1>1
  <2>. QED  BY <2>2, <2>3
<1>. QED  BY <1>3, <1>4, <1>5

\* What halving does to the coordinate that is split.
LEMMA SplitBlock ==
  ASSUME NEW v \in Nat, NEW q \in Nat
  PROVE  LET lo == (v \div 2) * (2 * q)
             hi == (v \div 2 + 1) * (2 * q)
             mid == (lo + hi) \div 2
         IN  /\ v * q = IF v % 2 = 0 THEN lo ELSE mid
             /\ (v + 1) * q = IF v % 2 = 0 THEN mid ELSE hi
<1>. DEFINE h == v \div 2
<1>1. h \in Nat /\ v % 2 \in {0, 1} /\ v = 2 * h + (v % 2)
  BY Halves
<1>. HIDE DEF h
<1>2. PICK m : m = h * q
  OBVIOUS
<1>3. m \in Nat
  BY <1>1, <1>2
<1>4. h * (2 * q) = 2 * m /\ (h + 1) * (2 * q) = 2 * m + 2 * q
  BY <1>1, <1>2
<1>5. (2 * m + (2 * m + 2 * q)) \div 2 = 2 * m + q
  BY <1>3
<1>6. CASE v % 2 = 0
  <2>1. v * q = 2 * m /\ (v + 1) * q = 2 * m + q
    BY <1>1, <1>2, <1>6
  <2>. QED  BY <1>4, <1>5, <1>6, <2>1 DEF h
<1>7. CASE v % 2 = 1
  <2>1. v * q = 2 * m + q /\ (v + 1) * q = 2 * m + 2 * q
    BY <1>1, <1>2, <1>7
  <2>. QED  BY <1>4, <1>5, <1>7, <2>1 DEF h
<1>. QED  BY <1>1, <1>6, <1>7

\* The two children of a node on level l are nodes on level l + 1.
LEMMA ChildNode ==
  ASSUME NEW r, Shaped(r), NEW l \in Nat, l < TreeDepth(r), NEW n \in Nat,
         n >= Pow2[l] - 1, n <= 2 * Pow2[l] - 2, NEW b \in {0, 1}
  PROVE  LET c == 2 * n + 1 + b
         IN  /\ c \in Nodes(r) /\ c # 0 /\ Parent(c) = n /\ (c % 2 = 1 <=> b = 0)
             /\ c >= Pow2[l + 1] - 1 /\ c <= 2 * Pow2[l + 1] - 2
<1>1. TreeDepth(r) \in Nat
  BY ShapeFacts
<1>2. Pow2[l + 1] = 2 * Pow2[l] /\ Pow2[l] \in Nat /\ Pow2[l + 1] <= Pow2[TreeDepth(r)]
      /\ Pow2[TreeDepth(r)] \in Nat
  BY <1>1, Pow2Facts, Pow2Grows
<1>3. (2 * n + 1 + b - 1) \div 2 = n /\ ((2 * n + 1 + b) % 2 = 1 <=> b = 0)
  <2>1. CASE b = 0
    BY <2>1
  <2>2. CASE b = 1
    BY <2>2
  <2>. QED  BY <2>1, <2>2
<1>. QED  BY <1>2, <1>3 DEF Nodes, Parent

\* If all blocks of a level are areas of its nodes, so are those of the next.
LEMMA LevelStep ==
  ASSUME NEW r, Shaped(r), NEW l \in Nat, l < TreeDepth(r),
         \A x \in 0 .. Pow2[SplitsX(r, l)] - 1, y \in 0 .. Pow2[SplitsY(r, l)] - 1 : InPlace(r, l, x, y),
         NEW x \in 0 .. Pow2[SplitsX(r, l + 1)] - 1, NEW y \in 0 .. Pow2[SplitsY(r, l + 1)] - 1
  PROVE  InPlace(r, l + 1, x, y)
<1>. DEFINE sx == SplitsX(r, l)
            sy == SplitsY(r, l)
            c == NodeAt(r, l + 1, x, y)
<1>1. Pow2[l] \in Nat /\ Pow2[l] >= 1 /\ Pow2[l + 1] = 2 * Pow2[l]
  BY Pow2Facts
<1>2. sx \in Nat /\ sy \in Nat /\ DepthX(r) \in Nat /\ DepthY(r) \in Nat
  BY LevelFacts, ShapeFacts
<1>3. CASE XNext(r, l)
  <2>. DEFINE p == x \div 2
              n == NodeAt(r, l, p, y)
              q == SideX(r, l + 1)
  <2>0. XNext(r, l) = TRUE /\ XNext(r, l + 1) = FALSE
    BY <1>3, LevelFacts DEF XNext
  <2>1. /\ SplitsX(r, l + 1) = sx + 1 /\ SplitsY(r, l + 1) = sy /\ ~XNext(r, l + 1)
        /\ sx < DepthX(r) /\ sy <= DepthY(r)
    BY <1>3, LevelFacts
  <2>2. Pow2[sx + 1] = 2 * Pow2[sx] /\ Pow2[sx] \in Nat /\ Pow2[sy] \in Nat
    BY <1>2, Pow2Facts
  <2>3. x \in Nat /\ y \in Nat /\ y \in 0 .. Pow2[sy] - 1 /\ x % 2 \in {0, 1}
        /\ p \in 0 .. Pow2[sx] - 1
    <3>1. x \in Nat /\ x < 2 * Pow2[sx] /\ y \in Nat /\ y \in 0 .. Pow2[sy] - 1
      BY <2>1, <2>2
    <3>2. p \in Nat /\ x % 2 \in {0, 1} /\ x = 2 * p + (x % 2)
      BY <3>1, Halves
    <3>. HIDE DEF p
    <3>. QED  BY <2>2, <3>1, <3>2
  <2>4. InPlace(r, l, p, y)
    BY <2>3
  <2>5. SideX(r, l) = 2 * q /\ SideY(r, l + 1) = SideY(r, l) /\ q \in Nat /\ SideY(r, l) \in Nat
    <3>1. DepthX(r) - sx - 1 \in Nat /\ DepthX(r) - (sx + 1) = DepthX(r) - sx - 1
          /\ DepthX(r) - sx = DepthX(r) - sx - 1 + 1 /\ DepthY(r) - sy \in Nat
      BY <1>2, <2>1
    <3>2. Pow2[DepthX(r) - sx] = 2 * Pow2[DepthX(r) - (sx + 1)] /\ Pow2[DepthX(r) - (sx + 1)] \in Nat
          /\ Pow2[DepthY(r) - sy] \in Nat
      BY <3>1, Pow2Facts
    <3>. QED  BY <2>1, <3>2 DEF SideX, SideY
  <2>6. c = 2 * n + 1 + (x % 2)
    <3>1. Interlaced[<<x, y>>] = (x % 2) + 2 * Interlaced[<<y, p>>] /\ Interlaced[<<y, p>>] \in Nat
      BY <2>3, InterlacedSwap, InterlacedType
    <3>2. n = Pow2[l] - 1 + Interlaced[<<y, p>>] /\ c = Pow2[l + 1] - 1 + Interlaced[<<x, y>>]
      BY <1>3, <2>1 DEF NodeAt
    <3>. HIDE DEF c, n, p
    <3>. QED  BY <1>1, <2>3, <3>1, <3>2
  <2>7. n \in Nat /\ n >= Pow2[l] - 1 /\ n <= 2 * Pow2[l] - 2 /\ Area(r)[n] = Block(r, l, p, y)
    BY <2>4 DEF InPlace
  <2>. HIDE DEF c, n
  <2>8. /\ c \in Nodes(r) /\ c # 0 /\ Parent(c) = n /\ (c % 2 = 1 <=> x % 2 = 0)
        /\ c >= Pow2[l + 1] - 1 /\ c <= 2 * Pow2[l + 1] - 2
    BY <2>3, <2>6, <2>7, ChildNode
  <2>9. Area(r)[c] = Half(Block(r, l, p, y), x % 2 = 0)
    BY <2>7, <2>8, AreaAt
  <2>10. Half(Block(r, l, p, y), x % 2 = 0) = Block(r, l + 1, x, y)
    <3>. DEFINE lo == p * (2 * q)
                hi == (p + 1) * (2 * q)
                mid == (lo + hi) \div 2
    <3>1. x * q = (IF x % 2 = 0 THEN lo ELSE mid) /\ (x + 1) * q = (IF x % 2 = 0 THEN mid ELSE hi)
      BY <2>3, <2>5, SplitBlock
    <3>2. Block(r, l, p, y) = [x0 |-> lo, y0 |-> y * SideY(r, l), x1 |-> hi,
                               y1 |-> (y + 1) * SideY(r, l), inX |-> TRUE]
      BY <2>0, <2>5 DEF Block
    <3>3. Block(r, l + 1, x, y) = [x0 |-> x * q, y0 |-> y * SideY(r, l), x1 |-> (x + 1) * q,
                                   y1 |-> (y + 1) * SideY(r, l), inX |-> FALSE]
      BY <2>0, <2>1, <2>5 DEF Block
    <3>. HIDE DEF p, q, lo, hi
    <3>5. Half(Block(r, l, p, y), x % 2 = 0) =
            [x0 |-> IF x % 2 = 0 THEN lo ELSE mid, y0 |-> y * SideY(r, l),
             x1 |-> IF x % 2 = 0 THEN mid ELSE hi, y1 |-> (y + 1) * SideY(r, l), inX |-> FALSE]
      <4>1. CASE x % 2 = 0
        BY <3>2, <4>1 DEF Half
      <4>2. CASE x % 2 # 0
        BY <3>2, <4>2 DEF Half
      <4>. QED  BY <4>1, <4>2
    <3>. HIDE DEF mid
    <3>. QED  BY <3>1, <3>3, <3>5
  <2>11. c \in Nat
    BY <2>8, NodeFacts
  <2>. QED  BY <2>8, <2>9, <2>10, <2>11 DEF InPlace, c
<1>4. CASE ~XNext(r, l)
  <2>. DEFINE p == y \div 2
              n == NodeAt(r, l, x, p)
              q == SideY(r, l + 1)
  <2>0. XNext(r, l) = FALSE /\ XNext(r, l + 1) = TRUE
    BY <1>4, LevelFacts DEF XNext
  <2>1. /\ SplitsY(r, l + 1) = sy + 1 /\ SplitsX(r, l + 1) = sx /\ XNext(r, l + 1)
        /\ sy < DepthY(r) /\ sx <= DepthX(r)
    BY <1>4, LevelFacts
  <2>2. Pow2[sy + 1] = 2 * Pow2[sy] /\ Pow2[sx] \in Nat /\ Pow2[sy] \in Nat
    BY <1>2, Pow2Facts
  <2>3. x \in Nat /\ y \in Nat /\ x \in 0 .. Pow2[sx] - 1 /\ y % 2 \in {0, 1}
        /\ p \in 0 .. Pow2[sy] - 1
    <3>1. y \in Nat /\ y < 2 * Pow2[sy] /\ x \in Nat /\ x \in 0 .. Pow2[sx] - 1
      BY <2>1, <2>2
    <3>2. p \in Nat /\ y % 2 \in {0, 1} /\ y = 2 * p + (y % 2)
      BY <3>1, Halves
    <3>. HIDE DEF p
    <3>. QED  BY <2>2, <3>1, <3>2
  <2>4. InPlace(r, l, x, p)
    BY <2>3
  <2>5. SideY(r, l) = 2 * q /\ SideX(r, l + 1) = SideX(r, l) /\ q \in Nat /\ SideX(r, l) \in Nat
    <3>1. DepthY(r) - sy - 1 \in Nat /\ DepthY(r) - (sy + 1) = DepthY(r) - sy - 1
          /\ DepthY(r) - sy = DepthY(r) - sy - 1 + 1 /\ DepthX(r) - sx \in Nat
      BY <1>2, <2>1
    <3>2. Pow2[DepthY(r) - sy] = 2 * Pow2[DepthY(r) - (sy + 1)] /\ Pow2[DepthY(r) - (sy + 1)] \in Nat
          /\ Pow2[DepthX(r) - sx] \in Nat
      BY <3>1, Pow2Facts
    <3>. QED  BY <2>1, <3>2 DEF SideX, SideY
  <2>6. c = 2 * n + 1 + (y % 2)
    <3>1. Interlaced[<<y, x>>] = (y % 2) + 2 * Interlaced[<<x, p>>] /\ Interlaced[<<x, p>>] \in Nat
      BY <2>3, InterlacedSwap, InterlacedType
    <3>2. n = Pow2[l] - 1 + Interlaced[<<x, p>>] /\ c = Pow2[l + 1] - 1 + Interlaced[<<y, x>>]
      BY <1>4, <2>1 DEF NodeAt
    <3>. HIDE DEF c, n, p
    <3>. QED  BY <1>1, <2>3, <3>1, <3>2
  <2>7. n \in Nat /\ n >= Pow2[l] - 1 /\ n <= 2 * Pow2[l] - 2 /\ Area(r)[n] = Block(r, l, x, p)
    BY <2>4 DEF InPlace
  <2>. HIDE DEF c, n
  <2>8. /\ c \in Nodes(r) /\ c # 0 /\ Parent(c) = n /\ (c % 2 = 1 <=> y % 2 = 0)
        /\ c >= Pow2[l + 1] - 1 /\ c <= 2 * Pow2[l + 1] - 2
    BY <2>3, <2>6, <2>7, ChildNode
  <2>9. Area(r)[c] = Half(Block(r, l, x, p), y % 2 = 0)
    BY <2>7, <2>8, AreaAt
  <2>10. Half(Block(r, l, x, p), y % 2 = 0) = Block(r, l + 1, x, y)
    <3>. DEFINE lo == p * (2 * q)
                hi == (p + 1) * (2 * q)
                mid == (lo + hi) \div 2
    <3>1. y * q = (IF y % 2 = 0 THEN lo ELSE mid) /\ (y + 1) * q = (IF y % 2 = 0 THEN mid ELSE hi)
      BY <2>3, <2>5, SplitBlock
    <3>2. Block(r, l, x, p) = [x0 |-> x * SideX(r, l), y0 |-> lo, x1 |-> (x + 1) * SideX(r, l),
                               y1 |-> hi, inX |-> FALSE]
      BY <2>0, <2>5 DEF Block
    <3>3. Block(r, l + 1, x, y) = [x0 |-> x * SideX(r, l), y0 |-> y * q, x1 |-> (x + 1) * SideX(r, l),
                                   y1 |-> (y + 1) * q, inX |-> TRUE]
      BY <2>0, <2>1, <2>5 DEF Block
    <3>. HIDE DEF p, q, lo, hi
    <3>5. Half(Block(r, l, x, p), y % 2 = 0) =
            [x0 |-> x * SideX(r, l), y0 |-> IF y % 2 = 0 THEN lo ELSE mid,
             x1 |-> (x + 1) * SideX(r, l), y1 |-> IF y % 2 = 0 THEN mid ELSE hi, inX |-> TRUE]
      <4>1. CASE y % 2 = 0
        BY <3>2, <4>1 DEF Half
      <4>2. CASE y % 2 # 0
        BY <3>2, <4>2 DEF Half
      <4>. QED  BY <4>1, <4>2
    <3>. HIDE DEF mid
    <3>. QED  BY <3>1, <3>3, <3>5
  <2>11. c \in Nat
    BY <2>8, NodeFacts
  <2>. QED  BY <2>8, <2>9, <2>10, <2>11 DEF InPlace, c
<1>. QED  BY <1>3, <1>4
\* The blocks of every level are the areas of its nodes.
LEMMA LevelPlaces ==
  ASSUME NEW r, Shaped(r), NEW l \in Nat, l <= TreeDepth(r)
  PROVE  \A x \in 0 .. Pow2[SplitsX(r, l)] - 1, y \in 0 .. Pow2[SplitsY(r, l)] - 1 : InPlace(r, l, x, y)
<1>. DEFINE P(k) == \A x \in 0 .. Pow2[SplitsX(r, k)] - 1, y \in 0 .. Pow2[SplitsY(r, k)] - 1 :
                      InPlace(r, k, x, y)
            S == {k \in Nat : k <= TreeDepth(r) => P(k)}
<1>1. TreeDepth(r) \in Nat
  BY ShapeFacts
<1>2. 0 \in S
  <2>1. SplitsX(r, 0) = 0 /\ SplitsY(r, 0) = 0 /\ (XNext(r, 0) <=> SplitXFirst(r))
    BY DEF SplitsX, SplitsY, XNext
  <2>2. XNext(r, 0) = SplitXFirst(r)
    BY <2>1 DEF XNext, SplitXFirst
  <2>3. DepthX(r) \in Nat /\ DepthY(r) \in Nat
    BY ShapeFacts
  <2>4. SideX(r, 0) = 2 * Pow2[DepthX(r)] /\ SideY(r, 0) = 2 * Pow2[DepthY(r)]
    BY <2>1, <2>3 DEF SideX, SideY
  <2>5. Pow2[DepthX(r)] \in Nat /\ Pow2[DepthY(r)] \in Nat /\ Pow2[0] = 1
    BY <2>3, Pow2Facts
  <2>6. NodeAt(r, 0, 0, 0) = 0
    BY <2>5, InterlacedBits DEF NodeAt
  <2>7. Area(r)[0] = Block(r, 0, 0, 0)
    <3>1. /\ 0 * SideX(r, 0) = 0 /\ (0 + 1) * SideX(r, 0) = 2 * Pow2[DepthX(r)]
          /\ 0 * SideY(r, 0) = 0 /\ (0 + 1) * SideY(r, 0) = 2 * Pow2[DepthY(r)]
      BY <2>4, <2>5
    <3>. QED  BY <2>2, <3>1, AreaAt DEF Block, WholeArea
  <2>8. InPlace(r, 0, 0, 0)
    BY <2>5, <2>6, <2>7 DEF InPlace
  <2>9. \A x \in 0 .. Pow2[SplitsX(r, 0)] - 1, y \in 0 .. Pow2[SplitsY(r, 0)] - 1 : x = 0 /\ y = 0
    BY <2>1, <2>5
  <2>. QED  BY <2>8, <2>9
<1>3. ASSUME NEW k \in Nat, k \in S  PROVE k + 1 \in S
  <2>. SUFFICES ASSUME k + 1 <= TreeDepth(r)  PROVE P(k + 1)
    OBVIOUS
  <2>1. k < TreeDepth(r) /\ P(k)
    BY <1>1, <1>3
  <2>. QED  BY <2>1, LevelStep
<1>4. \A k \in Nat : k \in S
  <2>. HIDE DEF S
  <2>. QED  BY <1>2, <1>3, Steps
<1>. QED  BY <1>4

\* The leaf of a sample lies where the sample does, and no two samples share
\* one.
LEMMA LeafPlace ==
  ASSUME NEW r, Shaped(r), NEW p \in Points(r)
  PROVE  /\ TreeIndex(r, p) \in Leaves(r)
         /\ p.x \in Nat /\ p.y \in Nat
         /\ LET a == Area(r)[TreeIndex(r, p)]
            IN  a.x0 = 2 * p.x /\ a.y0 = 2 * p.y /\ a.x1 = 2 * p.x + 2 /\ a.y1 = 2 * p.y + 2
<1>. DEFINE l == TreeDepth(r)
            n == NodeAt(r, l, p.x, p.y)
<1>1. l \in Nat /\ DepthX(r) \in Nat /\ DepthY(r) \in Nat /\ l = DepthX(r) + DepthY(r)
  BY ShapeFacts DEF TreeDepth
<1>2. SplitsX(r, l) = DepthX(r) /\ SplitsY(r, l) = DepthY(r)
  <2>1. CASE SplitXFirst(r)
    <3>1. DepthX(r) = DepthY(r) \/ DepthX(r) = DepthY(r) + 1
      BY <1>1, <2>1, ShapeFacts
    <3>. HIDE DEF l
    <3>2. CASE DepthX(r) = DepthY(r)
      <4>1. l = 2 * DepthY(r)
        BY <1>1, <3>2
      <4>2. (l + 1) \div 2 = DepthX(r) /\ l \div 2 = DepthY(r)
        BY <1>1, <3>2, <4>1, Doubles
      <4>. QED  BY <2>1, <4>2 DEF SplitsX, SplitsY
    <3>3. CASE DepthX(r) = DepthY(r) + 1
      <4>1. l = 2 * DepthY(r) + 1
        BY <1>1, <3>3
      <4>2. (l + 1) \div 2 = DepthX(r) /\ l \div 2 = DepthY(r)
        BY <1>1, <3>3, <4>1, Doubles
      <4>. QED  BY <2>1, <4>2 DEF SplitsX, SplitsY
    <3>. QED  BY <3>1, <3>2, <3>3
  <2>2. CASE ~SplitXFirst(r)
    <3>1. DepthY(r) = DepthX(r) + 1
      BY <2>2, ShapeFacts
    <3>. HIDE DEF l
    <3>2. (l + 1) \div 2 = DepthY(r) /\ l \div 2 = DepthX(r)
      BY <1>1, <3>1
    <3>. QED  BY <2>2, <3>2 DEF SplitsX, SplitsY
  <2>. QED  BY <2>1, <2>2
<1>3. /\ p.x \in 0 .. NumX(r) - 1 /\ p.y \in 0 .. NumY(r) - 1
      /\ NumX(r) \in Nat /\ NumY(r) \in Nat
      /\ NumX(r) <= Pow2[DepthX(r)] /\ NumY(r) <= Pow2[DepthY(r)]
      /\ Pow2[DepthX(r)] \in Nat /\ Pow2[DepthY(r)] \in Nat
  BY <1>1, ShapeFacts, Pow2Facts DEF Points
<1>4. p.x \in 0 .. Pow2[DepthX(r)] - 1 /\ p.y \in 0 .. Pow2[DepthY(r)] - 1
  BY <1>3
<1>5. InPlace(r, l, p.x, p.y)
  <2>1. p.x \in 0 .. Pow2[SplitsX(r, l)] - 1 /\ p.y \in 0 .. Pow2[SplitsY(r, l)] - 1
    BY <1>2, <1>4
  <2>. HIDE DEF l
  <2>. QED  BY <1>1, <2>1, LevelPlaces DEF l
<1>6. TreeIndex(r, p) = n
  <2>1. FirstLeaf(r) = Pow2[l] - 1
    BY DEF FirstLeaf
  <2>2. (l + 1) % 2 = 1 <=> l % 2 = 0
    BY <1>1
  <2>. HIDE DEF l
  <2>3. SplitXFirst(r) = ((l + 1) % 2 = 1) <=> XNext(r, l)
    BY <2>2 DEF XNext, SplitXFirst
  <2>. QED  BY <2>1, <2>3 DEF TreeIndex, NodeAt, l
<1>7. n \in Nat /\ n >= Pow2[l] - 1 /\ n <= 2 * Pow2[l] - 2 /\ Area(r)[n] = Block(r, l, p.x, p.y)
  BY <1>5 DEF InPlace
<1>8. n \in Leaves(r)
  <2>1. Pow2[l] \in Nat
    BY <1>1, Pow2Facts
  <2>. HIDE DEF n
  <2>. QED  BY <1>7, <2>1 DEF Leaves, Nodes, FirstLeaf
<1>9. SideX(r, l) = 2 /\ SideY(r, l) = 2
  <2>1. DepthX(r) - SplitsX(r, l) = 0 /\ DepthY(r) - SplitsY(r, l) = 0
    BY <1>1, <1>2
  <2>. QED  BY <2>1, Pow2Facts DEF SideX, SideY
<1>10. /\ p.x * SideX(r, l) = 2 * p.x /\ (p.x + 1) * SideX(r, l) = 2 * p.x + 2
       /\ p.y * SideY(r, l) = 2 * p.y /\ (p.y + 1) * SideY(r, l) = 2 * p.y + 2
  BY <1>3, <1>9
<1>. HIDE DEF n, l
<1>. QED  BY <1>3, <1>6, <1>7, <1>8, <1>10 DEF Block

\* Samples in one leaf lie in one place.
LEMMA OneLeafEach ==
  ASSUME NEW r, Shaped(r), NEW p \in Points(r), NEW q \in Points(r), TreeIndex(r, p) = TreeIndex(r, q)
  PROVE  p = q
<1>1. p.x \in Nat /\ q.x \in Nat /\ p.y \in Nat /\ q.y \in Nat /\ 2 * p.x = 2 * q.x /\ 2 * p.y = 2 * q.y
  BY LeafPlace
<1>2. p = [x |-> p.x, y |-> p.y] /\ q = [x |-> q.x, y |-> q.y]
  BY DEF Points
<1>. QED  BY <1>1, <1>2

LEMMA ShapesShaped == \A r \in Shapes : Shaped(r)
BY RegionsAssumption DEF Shaped

\* LeafInItsPlace for the shapes of the run and any others.
LEMMA NoneMisplaced == Misplaced = {}
<1>. SUFFICES ASSUME NEW r \in Shapes, NEW p \in Points(r)
              PROVE  LET a == Area(r)[TreeIndex(r, p)]
                     IN  [x0 |-> a.x0, y0 |-> a.y0, x1 |-> a.x1, y1 |-> a.y1] = Cell(p)
  BY DEF Misplaced
<1>. QED  BY ShapesShaped, LeafPlace DEF Cell

-----------------------------------------------------------------------------
(* The subpixels that are visited. *)

LEMMA CeilDivFacts ==
  ASSUME NEW v \in Int, NEW u \in Nat \ {0}
  PROVE  CeilDiv(v, u) \in Int /\ \A k \in Int : k < CeilDiv(v, u) <=> k * u < v
<1>. DEFINE q == (-v) \div u
<1>1. q \in Int /\ u * q <= -v /\ -v < u * q + u
  OBVIOUS
<1>2. CeilDiv(v, u) = -q
  BY DEF CeilDiv
<1>. HIDE DEF q
<1>3. ASSUME NEW k \in Int  PROVE k < -q <=> k * u < v
  <2>1. CASE k < -q
    <3>1. k <= -q - 1
      BY <1>1, <2>1
    <3>2. k * u <= (-q - 1) * u
      BY <1>1, <3>1
    <3>3. (-q - 1) * u = -(u * q) - u
      BY <1>1
    <3>. QED  BY <1>1, <2>1, <3>2, <3>3
  <2>2. CASE k >= -q
    <3>1. k * u >= (-q) * u
      BY <1>1, <2>2
    <3>2. (-q) * u = -(u * q)
      BY <1>1
    <3>. QED  BY <1>1, <2>2, <3>1, <3>2
  <2>. QED  BY <1>1, <2>1, <2>2
<1>. QED  BY <1>1, <1>2, <1>3

\* Division rounds down, of negative numbers too.
LEMMA DivFacts ==
  ASSUME NEW v \in Int, NEW u \in Nat \ {0}
  PROVE  /\ v \div u \in Int /\ v % u \in Nat /\ v % u < u /\ v = (v \div u) * u + (v % u)
         /\ \A k \in Int : k <= v \div u <=> k * u <= v
<1>. DEFINE q == v \div u
<1>1. q \in Int /\ u * q <= v /\ v < u * q + u /\ v % u = v - u * q
  OBVIOUS
<1>. HIDE DEF q
<1>2. v % u \in Nat /\ v % u < u /\ v = q * u + (v % u)
  BY <1>1
<1>3. ASSUME NEW k \in Int  PROVE k <= q <=> k * u <= v
  <2>1. CASE k <= q
    <3>1. k * u <= q * u
      BY <1>1, <2>1
    <3>. QED  BY <1>1, <2>1, <3>1
  <2>2. CASE k > q
    <3>1. k * u >= (q + 1) * u
      BY <1>1, <2>2
    <3>2. (q + 1) * u = u * q + u
      BY <1>1
    <3>. QED  BY <1>1, <2>2, <3>1, <3>2
  <2>. QED  BY <1>1, <2>1, <2>2
<1>. QED  BY <1>1, <1>2, <1>3 DEF q

\* The loops visit a subpixel that a bound reaches.
LEMMA ReachedIsVisited ==
  ASSUME NEW size \in Nat \ {0}, NEW samps \in Nat \ {0}, NEW lo \in Int, NEW hi \in Int,
         NEW v \in 0 .. size * samps - 1, 2 * v < hi, 2 * v + 2 > lo
  PROVE  v \in Visited(lo, hi, size, samps)
<1>. DEFINE unit == 2 * samps
            e == Smaller(CeilDiv(hi, unit), size)
            s == Larger(lo \div unit, 0)
            first == IF lo < s * unit THEN 0 ELSE (lo - s * unit) \div 2
            end == IF hi > e * unit THEN samps ELSE CeilDiv(hi - (e - 1) * unit, 2)
            P == v \div samps
            m == v % samps
<1>1. v \in Nat /\ unit \in Nat \ {0} /\ size * samps \in Nat
  OBVIOUS
<1>2. P \in Int /\ m \in Nat /\ m < samps /\ v = P * samps + m
  BY <1>1, DivFacts
<1>3. P \in Nat /\ P < size
  <2>1. 0 <= P
    <3>1. 0 * samps <= v
      BY <1>1
    <3>. QED  BY <1>1, <3>1, DivFacts
  <2>2. ~(size <= P)
    BY <1>1, DivFacts
  <2>. QED  BY <1>2, <2>1, <2>2
<1>4. P * unit = 2 * (P * samps) /\ P * samps \in Nat
  BY <1>3
<1>5. 2 * v = P * unit + 2 * m
  BY <1>1, <1>2, <1>4
<1>. HIDE DEF unit, P, m
<1>6. P < e
  <2>1. P * unit < hi
    BY <1>1, <1>2, <1>3, <1>5
  <2>2. P < CeilDiv(hi, unit) /\ CeilDiv(hi, unit) \in Int
    BY <1>1, <1>3, <2>1, CeilDivFacts
  <2>. QED  BY <1>3, <2>2 DEF Smaller
<1>7. e \in Int
  BY <1>1, CeilDivFacts DEF Smaller
<1>8. s \in Nat /\ s <= P
  <2>1. lo \div unit \in Int
    BY <1>1, DivFacts
  <2>2. lo \div unit <= P
    <3>1. (P + 1) * unit = P * unit + unit
      BY <1>1, <1>3
    <3>2. ~((P + 1) * unit <= lo)
      BY <1>1, <1>2, <1>3, <1>5, <3>1 DEF unit
    <3>3. ~(P + 1 <= lo \div unit)
      BY <1>1, <1>3, <3>2, DivFacts
    <3>. QED  BY <1>3, <2>1, <3>3
  <2>. QED  BY <1>3, <2>1, <2>2 DEF Larger
<1>9. P = s => m >= first
  <2>. SUFFICES ASSUME P = s, ~(lo < s * unit)  PROVE m >= (lo - s * unit) \div 2
    BY <1>2
  <2>. HIDE DEF s
  <2>1. s * unit = P * unit /\ s * unit \in Int
    BY <1>1, <1>8
  <2>2. lo - s * unit < 2 * m + 2
    BY <1>1, <1>2, <1>5, <2>1
  <2>3. \E d \in Int : d = lo - s * unit
    BY <2>1
  <2>. QED  BY <1>2, <2>2, <2>3
<1>10. P = e - 1 => m < end
  <2>. SUFFICES ASSUME P = e - 1, ~(hi > e * unit)  PROVE m < CeilDiv(hi - (e - 1) * unit, 2)
    BY <1>2
  <2>1. (e - 1) * unit = P * unit /\ P * unit \in Int
    BY <1>1, <1>3
  <2>2. hi - (e - 1) * unit \in Int /\ m * 2 < hi - (e - 1) * unit
    BY <1>1, <1>2, <1>5, <2>1
  <2>. QED  BY <1>2, <2>2, CeilDivFacts
<1>11. P \in s .. e - 1
  BY <1>3, <1>6, <1>7, <1>8
<1>. HIDE DEF e, s, first, end
<1>. QED  BY <1>9, <1>10, <1>11 DEF Visited, unit, P, m, e, s, first, end

\* NoSubpixelSkipped for the shapes of the run and any others.
LEMMA NoneSkipped == Skipping = {}
<1>. SUFFICES ASSUME NEW r \in Shapes, NEW lo \in -3 .. 2 * NumX(r) + 3, NEW hi \in -3 .. 2 * NumX(r) + 3,
                     NEW v \in 0 .. NumX(r) - 1, 2 * v < hi, 2 * v + 2 > lo
              PROVE  v \in Visited(lo, hi, r.w, r.xSamps)
  BY DEF Skipping
<1>1. r.w \in Nat \ {0} /\ r.xSamps \in Nat \ {0} /\ NumX(r) \in Nat
  BY ShapesShaped, ShapeFacts DEF Shaped
<1>2. lo \in Int /\ hi \in Int /\ v \in 0 .. r.w * r.xSamps - 1
  BY <1>1 DEF NumX
<1>. QED  BY <1>1, <1>2, ReachedIsVisited

-----------------------------------------------------------------------------
(* The depths in the tree. *)

Depths == Depth \cup {0, Far}

\* Every node above the leaves has the greater depth of its two children.
Consistent(r, t) ==
  \A n \in Nodes(r) : n < FirstLeaf(r) => t[n] = Larger(t[2 * n + 1], t[2 * n + 2])

LEMMA DepthsAreNumbers == Depths \subseteq Nat
BY DepthAssumption DEF Depths

\* The recursion of propagateDepths comes to an end.
LEMMA PropagatedDef ==
  ASSUME NEW r, Shaped(r), NEW t \in [Nodes(r) -> Depths]
  PROVE  Propagated(r, t) = [n \in Nodes(r) |->
           IF n >= FirstLeaf(r) THEN t[n]
           ELSE Larger(Propagated(r, t)[2 * n + 1], Propagated(r, t)[2 * n + 2])]
<1>. DEFINE D == Nodes(r)
            V == Depths
            F == [gn \in [D -> V] \X D |->
                    IF gn[2] >= FirstLeaf(r) THEN t[gn[2]]
                    ELSE Larger(gn[1][2 * gn[2] + 1], gn[1][2 * gn[2] + 2])]
            last == 2 * Pow2[TreeDepth(r)] - 2
            rank == [n \in D |-> last - n]
<1>1. last \in Int /\ D = 0 .. last /\ FirstLeaf(r) \in Nat
  <2>1. Pow2[TreeDepth(r)] \in Nat
    BY ShapeFacts, Pow2Facts
  <2>. QED  BY <2>1, NodeFacts DEF Nodes
<1>2. ASSUME NEW n \in D, ~(n >= FirstLeaf(r))
      PROVE  /\ 2 * n + 1 \in D /\ rank[2 * n + 1] < rank[n]
             /\ 2 * n + 2 \in D /\ rank[2 * n + 2] < rank[n]
  <2>1. n \in Nat /\ 2 * n + 1 \in D /\ 2 * n + 2 \in D
    BY <1>1, <1>2, NodeFacts
  <2>. HIDE DEF last
  <2>. QED  BY <1>1, <2>1
<1>3. ASSUME NEW g \in [D -> V], NEW n \in D
      PROVE  /\ F[<<g, n>>] = IF n >= FirstLeaf(r) THEN t[n] ELSE Larger(g[2 * n + 1], g[2 * n + 2])
             /\ F[<<g, n>>] \in V
  <2>1. F[<<g, n>>] = IF n >= FirstLeaf(r) THEN t[n] ELSE Larger(g[2 * n + 1], g[2 * n + 2])
    OBVIOUS
  <2>. HIDE DEF F, rank
  <2>2. CASE n >= FirstLeaf(r)
    BY <2>1, <2>2
  <2>3. CASE ~(n >= FirstLeaf(r))
    <3>1. g[2 * n + 1] \in V /\ g[2 * n + 2] \in V
      BY <1>2, <2>3
    <3>. HIDE DEF V
    <3>. QED  BY <2>1, <2>3, <3>1 DEF Larger
  <2>. QED  BY <2>1, <2>2, <2>3
<1>4. F \in [[D -> V] \X D -> V]
  <2>1. \A gn \in [D -> V] \X D : F[gn] \in V
    BY <1>3
  <2>2. F = [gn \in [D -> V] \X D |-> F[gn]]
    OBVIOUS
  <2>. HIDE DEF F, D, V
  <2>. QED  BY <2>1, <2>2
<1>5. rank \in [D -> Nat] /\ 0 \in V
  <2>. HIDE DEF last
  <2>. QED  BY <1>1 DEF Depths
<1>6. ASSUME NEW g \in [D -> V], NEW h \in [D -> V], NEW n \in D,
             \A y \in D : rank[y] < rank[n] => g[y] = h[y]
      PROVE  F[<<g, n>>] = F[<<h, n>>]
  <2>. HIDE DEF F, D, V, rank
  <2>1. CASE n >= FirstLeaf(r)
    BY <1>3, <2>1
  <2>2. CASE ~(n >= FirstLeaf(r))
    <3>1. g[2 * n + 1] = h[2 * n + 1] /\ g[2 * n + 2] = h[2 * n + 2]
      BY <1>2, <1>6, <2>2
    <3>. QED  BY <1>3, <2>2, <3>1
  <2>. QED  BY <2>1, <2>2
<1>7. PICK g \in [D -> V] : Solves(g, F, D)
  <2>. HIDE DEF F, rank, D, V
  <2>1. FromLower(F, rank, D, V)
    BY <1>6 DEF FromLower
  <2>. QED  BY <1>4, <1>5, <2>1, Recursion
<1>8. g = [n \in Nodes(r) |-> IF n >= FirstLeaf(r) THEN t[n] ELSE Larger(g[2 * n + 1], g[2 * n + 2])]
  <2>1. \A n \in D : g[n] = IF n >= FirstLeaf(r) THEN t[n] ELSE Larger(g[2 * n + 1], g[2 * n + 2])
    <3>. HIDE DEF F, D, V
    <3>. QED  BY <1>3, <1>7 DEF Solves
  <2>. HIDE DEF F, V
  <2>. QED  BY <2>1
<1>. HIDE DEF F, V, rank, last
<1>9. Propagated(r, t) = CHOOSE depth : depth =
        [n \in Nodes(r) |-> IF n >= FirstLeaf(r) THEN t[n]
                            ELSE Larger(depth[2 * n + 1], depth[2 * n + 2])]
  BY DEF Propagated
<1>. QED  BY <1>8, <1>9

\* propagateDepths makes the tree consistent and leaves the leaves alone.
LEMMA PropagatedFacts ==
  ASSUME NEW r, Shaped(r), NEW t \in [Nodes(r) -> Depths]
  PROVE  /\ Propagated(r, t) \in [Nodes(r) -> Depths]
         /\ \A n \in Leaves(r) : Propagated(r, t)[n] = t[n]
         /\ Consistent(r, Propagated(r, t))
<1>. DEFINE D == Nodes(r)
            P == Propagated(r, t)
            last == 2 * Pow2[TreeDepth(r)] - 2
            rank == [n \in D |-> last - n]
            S == {n \in D : P[n] \in Depths}
<1>1. last \in Int /\ D = 0 .. last /\ FirstLeaf(r) \in Nat
  <2>1. Pow2[TreeDepth(r)] \in Nat
    BY ShapeFacts, Pow2Facts
  <2>. QED  BY <2>1, NodeFacts DEF Nodes
<1>2. \A n \in D : P[n] = IF n >= FirstLeaf(r) THEN t[n] ELSE Larger(P[2 * n + 1], P[2 * n + 2])
  BY PropagatedDef
<1>3. DOMAIN P = D /\ P = [n \in D |-> P[n]]
  BY PropagatedDef
<1>. HIDE DEF P
<1>4. ASSUME NEW n \in D, \A y \in D : rank[y] < rank[n] => y \in S  PROVE n \in S
  <2>1. CASE n >= FirstLeaf(r)
    BY <1>2, <2>1
  <2>2. CASE ~(n >= FirstLeaf(r))
    <3>1. n \in Nat /\ 2 * n + 1 \in D /\ 2 * n + 2 \in D
      BY <1>1, <2>2, NodeFacts
    <3>2. rank[2 * n + 1] < rank[n] /\ rank[2 * n + 2] < rank[n]
      <4>. HIDE DEF last
      <4>. QED  BY <1>1, <3>1
    <3>3. 2 * n + 1 \in S /\ 2 * n + 2 \in S
      <4>. HIDE DEF S, rank, D
      <4>. QED  BY <1>4, <3>1, <3>2
    <3>. QED  BY <1>2, <2>2, <3>3 DEF Larger
  <2>. QED  BY <2>1, <2>2
<1>5. \A n \in D : n \in S
  <2>1. rank \in [D -> Nat]
    <3>. HIDE DEF last
    <3>. QED  BY <1>1
  <2>. HIDE DEF S, rank, D
  <2>. QED  BY <1>4, <2>1, Descent
<1>6. P \in [D -> Depths]
  BY <1>3, <1>5
<1>7. \A n \in Leaves(r) : P[n] = t[n]
  BY <1>2 DEF Leaves
<1>8. Consistent(r, P)
  BY <1>1, <1>2 DEF Consistent
<1>. QED  BY <1>6, <1>7, <1>8 DEF P

\* Being met by a bound and being as far away as it is passed on to the parent.
LEMMA MetFromAbove ==
  ASSUME NEW r, Shaped(r), NEW t \in [Nodes(r) -> Depths], Consistent(r, t),
         NEW b, b.x0 \in Int, b.x1 \in Int, b.y0 \in Int, b.y1 \in Int, b.z \in Nat,
         NEW n \in Nodes(r), n # 0, Meets(b, Area(r)[n]), t[n] >= b.z
  PROVE  Meets(b, Area(r)[Parent(n)]) /\ t[Parent(n)] >= b.z
<1>. DEFINE p == Parent(n)
<1>1. p \in Nodes(r) /\ p \in Nat /\ n \in Nat /\ p < FirstLeaf(r)
  BY NodeFacts
<1>2. n = 2 * p + 1 \/ n = 2 * p + 2
  <2>1. n - 1 \in Nat /\ p = (n - 1) \div 2
    BY <1>1 DEF Parent
  <2>2. n - 1 = 2 * p + ((n - 1) % 2) /\ (n - 1) % 2 \in {0, 1}
    BY <2>1, Halves
  <2>. HIDE DEF p
  <2>. QED  BY <1>1, <2>1, <2>2
<1>3. t[p] = Larger(t[2 * p + 1], t[2 * p + 2]) /\ 2 * p + 1 \in Nodes(r) /\ 2 * p + 2 \in Nodes(r)
  BY <1>1, NodeFacts DEF Consistent
<1>4. t[2 * p + 1] \in Nat /\ t[2 * p + 2] \in Nat
  BY <1>3, DepthsAreNumbers
<1>. HIDE DEF p
<1>5. t[p] >= t[n] /\ t[p] \in Nat /\ t[n] \in Nat
  BY <1>2, <1>3, <1>4 DEF Larger
<1>6. Inside(Area(r)[n], Area(r)[p]) /\ Area(r)[n] \in AreaSet /\ Area(r)[p] \in AreaSet
  BY <1>1, AreaType DEF p
<1>. DEFINE a == Area(r)[n]
            c == Area(r)[p]
<1>7. /\ a.x0 \in Int /\ a.x1 \in Int /\ a.y0 \in Int /\ a.y1 \in Int
      /\ c.x0 \in Int /\ c.x1 \in Int /\ c.y0 \in Int /\ c.y1 \in Int
  BY <1>6 DEF AreaSet
<1>8. Meets(b, a) /\ Inside(a, c)
  BY <1>6
<1>. HIDE DEF a, c
<1>9. Meets(b, c)
  BY <1>7, <1>8 DEF Meets, Inside
<1>. QED  BY <1>5, <1>9 DEF c, p

\* canCull looks at every leaf that the bound meets, whatever it skips above.
LEMMA CanCullMeans ==
  ASSUME NEW r, Shaped(r), NEW t \in [Nodes(r) -> Depths], Consistent(r, t),
         NEW b, b.x0 \in Int, b.x1 \in Int, b.y0 \in Int, b.y1 \in Int, b.z \in Nat
  PROVE  CanCull(r, t, b) <=> \A n \in Leaves(r) : ~(Meets(b, Area(r)[n]) /\ t[n] >= b.z)
<1>. DEFINE D == Nodes(r)
            Open(n) == Meets(b, Area(r)[n]) /\ t[n] >= b.z
            Eq(f) == f = [n \in D |-> /\ n = 0 \/ f[Parent(n)]
                                      /\ Meets(b, Area(r)[n])
                                      /\ t[n] >= b.z]
            reached == CHOOSE f : Eq(f)
<1>1. \A n \in D : n # 0 => Parent(n) \in D /\ (Open(n) => Open(Parent(n)))
  BY NodeFacts, MetFromAbove
<1>2. Eq([n \in D |-> Open(n)])
  <2>. DEFINE g == [n \in D |-> Open(n)]
  <2>1. ASSUME NEW n \in D
        PROVE  g[n] = ((n = 0 \/ g[Parent(n)]) /\ Meets(b, Area(r)[n]) /\ t[n] >= b.z)
    BY <1>1 DEF Meets
  <2>. QED  BY <2>1
<1>3. Eq(reached)
  <2>. HIDE DEF Eq
  <2>. QED  BY <1>2
<1>4. CanCull(r, t, b) <=> \A n \in Leaves(r) : ~reached[n]
  BY DEF CanCull
<1>. HIDE DEF reached
<1>5. \A n \in D : reached[n] <=> (n = 0 \/ reached[Parent(n)]) /\ Open(n)
  BY <1>3
<1>. DEFINE S == {n \in D : reached[n] <=> Open(n)}
            rank == [n \in D |-> n]
<1>6. ASSUME NEW n \in D, \A y \in D : rank[y] < rank[n] => y \in S  PROVE n \in S
  <2>1. CASE n = 0
    BY <1>5, <2>1
  <2>2. CASE n # 0
    <3>1. Parent(n) \in D /\ rank[Parent(n)] < rank[n]
      BY <2>2, NodeFacts
    <3>2. reached[Parent(n)] <=> Open(Parent(n))
      <4>1. Parent(n) \in S
        <5>. HIDE DEF S, rank, D
        <5>. QED  BY <1>6, <3>1
      <4>. HIDE DEF Open
      <4>. QED  BY <4>1
    <3>3. Open(n) => Open(Parent(n))
      BY <1>1, <2>2
    <3>. HIDE DEF Open
    <3>. QED  BY <1>5, <2>2, <3>2, <3>3
  <2>. QED  BY <2>1, <2>2
<1>7. \A n \in D : n \in S
  <2>1. rank \in [D -> Nat]
    BY NodeFacts
  <2>. HIDE DEF S, rank, D
  <2>. QED  BY <1>6, <2>1, Descent
<1>8. \A n \in Leaves(r) : n \in D
  BY DEF Leaves
<1>. HIDE DEF Open, D
<1>9. \A n \in Leaves(r) : reached[n] <=> Open(n)
  BY <1>7, <1>8
<1>. QED  BY <1>4, <1>9 DEF Open

-----------------------------------------------------------------------------
(* What StoreSample makes of a sample. *)

\* In the midpoint mode the nearest opaque hit is not behind the second nearest.
InOrder(o, d) == MidPoint(o) => PreviousZ(d) <= d.occlZ

\* The depths of a sample and of hits are numbers.
LEMMA HitDepths ==
  ASSUME NEW d \in SampleData
  PROVE  /\ d.occlZ \in Depth \cup {Far} /\ d.occlZ \in Nat
         /\ PreviousZ(d) \in Depth \cup {Far} /\ PreviousZ(d) \in Nat
         /\ \A h \in Hits : h.z \in Depth /\ h.z \in Nat /\ h # NoHit
<1>1. d.occlZ \in Depth \cup {Far} /\ (d.hit \in Hits \/ d.hit = NoHit)
  BY DEF SampleData
<1>2. \A h \in Hits : h.z \in Depth
  BY DEF Hits
<1>3. PreviousZ(d) \in Depth \cup {Far}
  BY <1>1, <1>2 DEF PreviousZ
<1>4. \A h \in Hits : h # NoHit
  <2>1. NoHit.z = -1 /\ -1 \notin Nat
    BY DEF NoHit
  <2>. QED  BY <1>2, <2>1, DepthAssumption
<1>. QED  BY <1>1, <1>2, <1>3, <1>4, DepthAssumption

\* StoreSample makes a sample of a sample, no further away.
LEMMA StoredFacts ==
  ASSUME NEW o \in Hiders, NEW d \in SampleData, NEW h \in Hits
  PROVE  /\ Stored(o, d, h) \in SampleData
         /\ InOrder(o, d) => InOrder(o, Stored(o, d, h)) /\ Stored(o, d, h).occlZ <= d.occlZ
<1>. DEFINE e == Stored(o, d, h)
<1>1. /\ d.occlZ \in Nat /\ PreviousZ(d) \in Nat /\ h.z \in Nat /\ h.z \in Depth /\ h # NoHit
      /\ PreviousZ(d) \in Depth \cup {Far}
  BY HitDepths
<1>2. d = [occlZ |-> d.occlZ, hit |-> d.hit, data |-> d.data]
  BY DEF SampleData
<1>3. d.hit \in Hits \cup {NoHit} /\ d.data \in SUBSET Hits /\ d.occlZ \in Depth \cup {Far}
  BY DEF SampleData
<1>4. CASE Culled(o, d, h)
  <2>1. e = d
    BY <1>4 DEF Stored
  <2>. QED  BY <1>1, <2>1
<1>5. CASE ~Culled(o, d, h) /\ ~Occluding(o, h)
  <2>1. e = [d EXCEPT !.data = d.data \cup {h}]
    BY <1>5 DEF Stored
  <2>2. e = [occlZ |-> d.occlZ, hit |-> d.hit, data |-> d.data \cup {h}]
    BY <1>2, <2>1
  <2>3. e.occlZ = d.occlZ /\ PreviousZ(e) = PreviousZ(d) /\ e \in SampleData
    BY <1>3, <2>2 DEF PreviousZ, SampleData
  <2>. QED  BY <1>1, <2>3 DEF InOrder
<1>6. CASE ~Culled(o, d, h) /\ Occluding(o, h)
  <2>1. h.z < d.occlZ
    BY <1>1, <1>6 DEF Culled, Occluding
  <2>2. CASE ~MidPoint(o)
    <3>1. e = [d EXCEPT !.occlZ = h.z, !.hit = h]
      BY <1>6, <2>2 DEF Stored
    <3>2. e = [occlZ |-> h.z, hit |-> h, data |-> d.data]
      BY <1>2, <3>1
    <3>3. e.occlZ = h.z /\ e \in SampleData
      BY <1>1, <1>3, <3>2 DEF SampleData
    <3>. QED  BY <1>1, <2>1, <2>2, <3>3 DEF InOrder
  <2>3. CASE MidPoint(o) /\ PreviousZ(d) < h.z
    <3>1. e = [d EXCEPT !.occlZ = h.z]
      BY <1>6, <2>3 DEF Stored, StoredMidPoint
    <3>2. e = [occlZ |-> h.z, hit |-> d.hit, data |-> d.data]
      BY <1>2, <3>1
    <3>3. e.occlZ = h.z /\ PreviousZ(e) = PreviousZ(d) /\ e \in SampleData
      BY <1>1, <1>3, <3>2 DEF PreviousZ, SampleData
    <3>. QED  BY <1>1, <2>1, <2>3, <3>3 DEF InOrder
  <2>4. CASE MidPoint(o) /\ ~(PreviousZ(d) < h.z)
    <3>1. e = [d EXCEPT !.occlZ = PreviousZ(d), !.hit = h]
      BY <1>6, <2>4 DEF Stored, StoredMidPoint
    <3>2. e = [occlZ |-> PreviousZ(d), hit |-> h, data |-> d.data]
      BY <1>2, <3>1
    <3>3. e.occlZ = PreviousZ(d) /\ PreviousZ(e) = h.z /\ e \in SampleData
      BY <1>1, <1>3, <3>2 DEF PreviousZ, SampleData
    <3>. QED  BY <1>1, <2>4, <3>3 DEF InOrder
  <2>. QED  BY <2>2, <2>3, <2>4
<1>. QED  BY <1>4, <1>5, <1>6

\* A sample that nothing was stored at.
LEMMA FreshFacts == Fresh \in SampleData /\ Fresh.occlZ = Far /\ \A o \in Hiders : InOrder(o, Fresh)
<1>1. Fresh \in SampleData /\ Fresh.occlZ = Far
  BY DEF Fresh, SampleData
<1>2. PreviousZ(Fresh) = Far
  BY DEF Fresh, PreviousZ
<1>. QED  BY <1>1, <1>2, DepthAssumption DEF InOrder

-----------------------------------------------------------------------------
(* The tree and the samples. *)

\* Every sample's depth is in its leaf; leaves without a sample hold 0.
InLeaves(r, t, s) == /\ \A p \in Points(r) : t[TreeIndex(r, p)] = s[p].occlZ
                     /\ \A n \in Leaves(r) : (\A p \in Points(r) : TreeIndex(r, p) # n) => t[n] = 0

LEMMA PointsAreSamples == \A r \in Regions : Shaped(r) /\ Points(r) \subseteq Sample
BY RegionsAssumption DEF Shaped, Points, NumX, NumY

\* What setupTree leaves behind.
LEMMA SetUpFacts ==
  ASSUME NEW r \in Regions
  PROVE  /\ SetUp(r) \in [Nodes(r) -> Depths]
         /\ Consistent(r, SetUp(r))
         /\ InLeaves(r, SetUp(r), [p \in Sample |-> Fresh])
<1>. DEFINE leaves == {TreeIndex(r, p) : p \in Points(r)}
            t == [n \in Nodes(r) |-> IF n \in leaves THEN Far ELSE 0]
<1>1. Shaped(r) /\ Points(r) \subseteq Sample
  BY PointsAreSamples
<1>2. t \in [Nodes(r) -> Depths] /\ SetUp(r) = Propagated(r, t)
  BY DEF Depths, SetUp
<1>3. /\ SetUp(r) \in [Nodes(r) -> Depths]
      /\ Consistent(r, SetUp(r))
      /\ \A n \in Leaves(r) : SetUp(r)[n] = t[n]
  BY <1>1, <1>2, PropagatedFacts
<1>4. \A n \in Leaves(r) : n \in Nodes(r)
  BY DEF Leaves
<1>5. \A p \in Points(r) : SetUp(r)[TreeIndex(r, p)] = Far
  BY <1>1, <1>3, <1>4, LeafPlace
<1>6. \A n \in Leaves(r) : (\A p \in Points(r) : TreeIndex(r, p) # n) => SetUp(r)[n] = 0
  BY <1>3, <1>4
<1>. QED  BY <1>1, <1>3, <1>5, <1>6, FreshFacts DEF InLeaves

\* What is written for the samples that changed keeps the leaves in step.
LEMMA WithDepthsFacts ==
  ASSUME NEW r \in Regions, NEW t \in [Nodes(r) -> Depths], NEW d \in [Sample -> SampleData],
         InLeaves(r, t, sample)
  PROVE  /\ WithDepths(r, t, d) \in [Nodes(r) -> Depths]
         /\ InLeaves(r, WithDepths(r, t, d), d)
         /\ (\A p \in Sample : d[p].occlZ = sample[p].occlZ) => WithDepths(r, t, d) = t
         /\ \A n \in Nodes(r) : \/ WithDepths(r, t, d)[n] = t[n]
                                \/ \E p \in Points(r) : /\ TreeIndex(r, p) = n
                                                        /\ WithDepths(r, t, d)[n] = d[p].occlZ
<1>. DEFINE changed == {p \in Points(r) : d[p] # sample[p]}
            leaf == [p \in changed |-> TreeIndex(r, p)]
            u == WithDepths(r, t, d)
            the(n) == CHOOSE p \in changed : leaf[p] = n
<1>1. Shaped(r) /\ Points(r) \subseteq Sample
  BY PointsAreSamples
<1>2. u = [n \in Nodes(r) |-> IF \E p \in changed : leaf[p] = n THEN d[the(n)].occlZ ELSE t[n]]
  BY DEF WithDepths
<1>3. ASSUME NEW p \in changed
      PROVE  TreeIndex(r, p) \in Nodes(r) /\ u[TreeIndex(r, p)] = d[p].occlZ
  <2>1. leaf[p] = TreeIndex(r, p) /\ p \in Points(r)
    OBVIOUS
  <2>2. TreeIndex(r, p) \in Nodes(r)
    BY <1>1, <2>1, LeafPlace DEF Leaves
  <2>3. the(leaf[p]) \in changed /\ leaf[the(leaf[p])] = leaf[p]
    OBVIOUS
  <2>4. the(leaf[p]) = p
    BY <1>1, <2>1, <2>3, OneLeafEach
  <2>. HIDE DEF the, leaf, u, changed
  <2>. QED  BY <1>2, <2>1, <2>2, <2>4
<1>4. ASSUME NEW n \in Nodes(r), \A p \in changed : TreeIndex(r, p) # n
      PROVE  u[n] = t[n]
  <2>1. \A p \in changed : leaf[p] # n
    BY <1>4
  <2>. HIDE DEF the, leaf, u, changed
  <2>. QED  BY <1>2, <2>1
<1>5. DOMAIN u = Nodes(r) /\ u = [n \in Nodes(r) |-> u[n]]
  BY <1>2
<1>6. \A p \in changed : p \in Points(r) /\ p \in Sample
  BY <1>1
<1>7. \A p \in Points(r) : p \notin changed => d[p] = sample[p]
  OBVIOUS
<1>. HIDE DEF u, changed
<1>8. \A n \in Nodes(r) : u[n] \in Depths
  BY <1>3, <1>4, <1>6, HitDepths DEF Depths
<1>9. \A p \in Points(r) : u[TreeIndex(r, p)] = d[p].occlZ
  <2>. TAKE p \in Points(r)
  <2>1. CASE p \in changed
    BY <1>3, <2>1
  <2>2. CASE p \notin changed
    <3>1. TreeIndex(r, p) \in Nodes(r)
      BY <1>1, LeafPlace DEF Leaves
    <3>2. \A q \in changed : TreeIndex(r, q) # TreeIndex(r, p)
      BY <1>1, <1>6, <2>2, OneLeafEach
    <3>. QED  BY <1>4, <1>7, <2>2, <3>1, <3>2 DEF InLeaves
  <2>. QED  BY <2>1, <2>2
<1>10. InLeaves(r, u, d)
  BY <1>4, <1>6, <1>9 DEF InLeaves, Leaves
<1>11. (\A p \in Sample : d[p].occlZ = sample[p].occlZ) => u = t
  <2>. SUFFICES ASSUME \A p \in Sample : d[p].occlZ = sample[p].occlZ, NEW n \in Nodes(r)
                PROVE  u[n] = t[n]
    BY <1>5
  <2>. QED  BY <1>3, <1>4, <1>6 DEF InLeaves
<1>12. \A n \in Nodes(r) : u[n] = t[n] \/ \E p \in Points(r) : TreeIndex(r, p) = n /\ u[n] = d[p].occlZ
  BY <1>3, <1>4, <1>6
<1>. QED  BY <1>5, <1>8, <1>10, <1>11, <1>12 DEF u

-----------------------------------------------------------------------------
(* The invariant. *)

\* No two micropolygons with the same name.
OneId(M) == \A m, n \in M : m.id = n.id => m = n
NewIds(M, off) == \A m \in M, p \in Sample : \A h \in off[p] : h.id # m.id

(***************************************************************************)
(* Between two updates the inner nodes may lag behind, never the leaves;   *)
(* while surfaces are asked for, nothing lags.                             *)
(***************************************************************************)
TreeInv == /\ TypeOK
           /\ InLeaves(region, tree, sample)
           /\ ~needsUpdate => Consistent(region, tree)
           /\ needsUpdate \/ waiting # {} => busy
           /\ OneId(waiting) /\ NewIds(waiting, offered)
           /\ \A p \in Sample : InOrder(hider, sample[p])

LEMMA GridFacts ==
  ASSUME NEW M \in Grids
  PROVE  /\ M \subseteq MicroPolygons /\ OneId(M)
         /\ \A m, n \in M : m # n => ~Overlap(m, n)
BY DEF Grids, OneId

\* A new surface has new names for its micropolygons.
LEMMA FreeFacts ==
  ASSUME NEW M, AreFree(M)
  PROVE  NewIds(M, offered)
<1>. SUFFICES ASSUME NEW m \in M, NEW p \in Sample, NEW h \in offered[p]
              PROVE  h.id # m.id
  BY DEF NewIds
<1>1. h \in UNION {offered[q] : q \in Sample}
  OBVIOUS
<1>2. m.id \notin {g.id : g \in UNION {offered[q] : q \in Sample}}
  BY DEF AreFree, Free
<1>. QED  BY <1>1, <1>2

LEMMA HitOfType ==
  ASSUME NEW m \in MicroPolygons
  PROVE  HitOf(m) \in Hits /\ HitOf(m).id = m.id /\ HitOf(m).z = m.z /\ HitOf(m).csg = m.csg
BY DEF MicroPolygons, Hits, HitOf, Kinds

\* The hits of new micropolygons join those of before.
LEMMA OfferedFacts ==
  ASSUME NEW M, M \subseteq MicroPolygons, offered \in [Sample -> SUBSET Hits]
  PROVE  /\ Offered(M) \in [Sample -> SUBSET Hits]
         /\ \A p \in Sample : Offered(M)[p] = offered[p] \cup {HitOf(m) : m \in {n \in M : p \in MayHit(n)}}
<1>1. Offered(M) = [p \in Sample |-> offered[p] \cup {HitOf(m) : m \in {n \in M : p \in MayHit(n)}}]
  BY DEF Offered
<1>2. ASSUME NEW p \in Sample
      PROVE  offered[p] \cup {HitOf(m) : m \in {n \in M : p \in MayHit(n)}} \in SUBSET Hits
  BY HitOfType
<1>. QED  BY <1>1, <1>2

\* An empty bucket satisfies the invariant.
LEMMA FreshInv ==
  ASSUME NEW r \in Regions
  PROVE  /\ SetUp(r) \in [Nodes(r) -> Depth \cup {0, Far}]
         /\ [p \in Sample |-> Fresh] \in [Sample -> SampleData]
         /\ InLeaves(r, SetUp(r), [p \in Sample |-> Fresh])
         /\ Consistent(r, SetUp(r))
BY SetUpFacts, FreshFacts DEF Depths

LEMMA InitInv == Init => TreeInv
<1>. SUFFICES ASSUME Init PROVE TreeInv
  OBVIOUS
<1>1. /\ hider \in Hiders /\ region \in Regions /\ tree = SetUp(region)
      /\ needsUpdate = FALSE /\ sample = [p \in Sample |-> Fresh]
      /\ waiting \in {{}} \cup Grids /\ busy = TRUE /\ offered = [p \in Sample |-> {}]
  BY DEF Init
<1>2. waiting \subseteq MicroPolygons /\ OneId(waiting)
  <2>1. CASE waiting = {}
    BY <2>1 DEF OneId
  <2>2. CASE waiting \in Grids
    BY <2>2, GridFacts
  <2>. QED  BY <1>1, <2>1, <2>2
<1>3. offered \in [Sample -> SUBSET Hits] /\ NewIds(waiting, offered)
  BY <1>1 DEF NewIds
<1>4. TypeOK
  BY <1>1, <1>2, <1>3, FreshInv DEF TypeOK
<1>5. \A p \in Sample : InOrder(hider, sample[p])
  BY <1>1, FreshFacts
<1>. QED  BY <1>1, <1>2, <1>3, <1>4, <1>5, FreshInv DEF TreeInv

LEMMA PreProcessInv == TreeInv /\ PreProcess => TreeInv'
<1>. SUFFICES ASSUME TreeInv, PreProcess PROVE TreeInv'
  OBVIOUS
<1>1. /\ hider' = hider /\ region' \in Regions /\ tree' = SetUp(region')
      /\ needsUpdate' = FALSE /\ sample' = [p \in Sample |-> Fresh]
      /\ waiting' = {} /\ busy' = TRUE /\ offered' = [p \in Sample |-> {}]
      /\ hider \in Hiders
  BY DEF PreProcess, TreeInv, TypeOK
<1>2. /\ tree' \in [Nodes(region') -> Depth \cup {0, Far}]
      /\ sample' \in [Sample -> SampleData]
      /\ InLeaves(region', tree', sample')
      /\ Consistent(region', tree')
  BY <1>1, FreshInv
<1>3. OneId(waiting') /\ NewIds(waiting', offered')
  BY <1>1 DEF OneId, NewIds
<1>4. \A p \in Sample : InOrder(hider', sample'[p])
  BY <1>1, FreshFacts
<1>5. TypeOK'
  BY <1>1, <1>2 DEF TypeOK
<1>. QED  BY <1>1, <1>2, <1>3, <1>4, <1>5 DEF TreeInv

LEMMA CullSurfaceInv == TreeInv /\ (\E b \in Bounds : CullSurface(b)) => TreeInv'
<1>. SUFFICES ASSUME TreeInv, NEW b \in Bounds, CullSurface(b) PROVE TreeInv'
  OBVIOUS
<1>1. PICK M \in Grids : AreFree(M) /\ offered' = Offered(M)
  BY DEF CullSurface
<1>2. /\ hider' = hider /\ region' = region /\ tree' = tree /\ needsUpdate' = needsUpdate
      /\ sample' = sample /\ waiting' = waiting /\ busy' = busy
  BY DEF CullSurface
<1>3. /\ TypeOK /\ InLeaves(region, tree, sample)
      /\ (~needsUpdate => Consistent(region, tree)) /\ (needsUpdate \/ waiting # {} => busy)
      /\ OneId(waiting) /\ NewIds(waiting, offered)
      /\ \A p \in Sample : InOrder(hider, sample[p])
  BY DEF TreeInv
<1>4. M \subseteq MicroPolygons /\ offered \in [Sample -> SUBSET Hits]
  BY <1>3, GridFacts DEF TypeOK
<1>5. /\ offered' \in [Sample -> SUBSET Hits]
      /\ \A p \in Sample : offered'[p] = offered[p] \cup {HitOf(m) : m \in {n \in M : p \in MayHit(n)}}
  BY <1>1, <1>4, OfferedFacts
<1>6. TypeOK'
  BY <1>2, <1>3, <1>5 DEF TypeOK
<1>7. NewIds(waiting', offered')
  <2>. SUFFICES ASSUME NEW w \in waiting, NEW p \in Sample, NEW h \in offered'[p]
                PROVE  h.id # w.id
    BY <1>2 DEF NewIds
  <2>1. CASE h \in offered[p]
    BY <1>3, <2>1 DEF NewIds
  <2>2. CASE h \notin offered[p]
    <3>1. PICK m \in M : h = HitOf(m)
      BY <1>5, <2>2
    <3>2. h.id = m.id /\ m.id \in Free
      BY <1>1, <1>4, <3>1, HitOfType DEF AreFree
    <3>3. m.id \notin {n.id : n \in waiting}
      BY <3>2 DEF Free
    <3>. QED  BY <3>2, <3>3
  <2>. QED  BY <2>1, <2>2
<1>8. InLeaves(region', tree', sample') /\ (~needsUpdate' => Consistent(region', tree'))
  BY <1>2, <1>3
<1>9. \A p \in Sample : InOrder(hider', sample'[p])
  BY <1>2, <1>3
<1>. QED  BY <1>2, <1>3, <1>6, <1>7, <1>8, <1>9 DEF TreeInv

LEMMA DiceSurfaceInv == TreeInv /\ DiceSurface => TreeInv'
<1>. SUFFICES ASSUME TreeInv, DiceSurface PROVE TreeInv'
  OBVIOUS
<1>1. PICK M \in Grids : AreFree(M) /\ waiting' = M
  BY DEF DiceSurface
<1>2. /\ hider' = hider /\ region' = region /\ tree' = tree /\ needsUpdate' = needsUpdate
      /\ sample' = sample /\ offered' = offered /\ busy' = TRUE
  BY DEF DiceSurface
<1>3. /\ TypeOK /\ InLeaves(region, tree, sample)
      /\ (~needsUpdate => Consistent(region, tree))
      /\ \A p \in Sample : InOrder(hider, sample[p])
  BY DEF TreeInv
<1>4. M \subseteq MicroPolygons /\ OneId(M) /\ NewIds(M, offered)
  BY <1>1, GridFacts, FreeFacts
<1>5. TypeOK'
  BY <1>1, <1>2, <1>3, <1>4 DEF TypeOK
<1>6. InLeaves(region', tree', sample') /\ (~needsUpdate' => Consistent(region', tree'))
  BY <1>2, <1>3
<1>7. \A p \in Sample : InOrder(hider', sample'[p])
  BY <1>2, <1>3
<1>8. OneId(waiting') /\ NewIds(waiting', offered')
  BY <1>1, <1>2, <1>4
<1>. QED  BY <1>2, <1>5, <1>6, <1>7, <1>8 DEF TreeInv

\* A sample after a micropolygon: what it makes of the hits of before.
HitBy(m) == [p \in Sample |-> IF p \in Tested(m) THEN Stored(hider, sample[p], HitOf(m)) ELSE sample[p]]

\* No sample gets further away.
LEMMA HitByFacts ==
  ASSUME TreeInv, NEW m \in waiting
  PROVE  /\ HitBy(m) \in [Sample -> SampleData]
         /\ \A p \in Sample : InOrder(hider, HitBy(m)[p]) /\ HitBy(m)[p].occlZ <= sample[p].occlZ
<1>1. /\ m \in MicroPolygons /\ hider \in Hiders /\ HitOf(m) \in Hits
      /\ \A p \in Sample : sample[p] \in SampleData /\ InOrder(hider, sample[p])
  BY HitOfType DEF TreeInv, TypeOK
<1>2. ASSUME NEW p \in Sample
      PROVE  /\ HitBy(m)[p] \in SampleData
             /\ InOrder(hider, HitBy(m)[p]) /\ HitBy(m)[p].occlZ <= sample[p].occlZ
  <2>1. CASE p \in Tested(m)
    <3>1. HitBy(m)[p] = Stored(hider, sample[p], HitOf(m))
      BY <2>1 DEF HitBy
    <3>. QED  BY <1>1, <3>1, StoredFacts
  <2>2. CASE p \notin Tested(m)
    <3>1. HitBy(m)[p] = sample[p]
      BY <2>2 DEF HitBy
    <3>2. sample[p].occlZ \in Nat
      BY <1>1, HitDepths
    <3>. QED  BY <1>1, <3>1, <3>2
  <2>. QED  BY <2>1, <2>2
<1>3. HitBy(m) = [p \in Sample |-> HitBy(m)[p]]
  BY DEF HitBy
<1>. QED  BY <1>2, <1>3

LEMMA RenderMicroPolyInv == TreeInv /\ (\E m \in waiting : RenderMicroPoly(m)) => TreeInv'
<1>. SUFFICES ASSUME TreeInv, NEW m \in waiting, RenderMicroPoly(m) PROVE TreeInv'
  OBVIOUS
<1>. DEFINE hit == HitBy(m)
<1>1. /\ hider' = hider /\ region' = region /\ busy' = busy
      /\ sample' = hit /\ tree' = WithDepths(region, tree, hit)
      /\ offered' = Offered({m}) /\ waiting' = waiting \ {m}
  BY DEF RenderMicroPoly, HitBy
<1>2. needsUpdate' = (needsUpdate \/ \E p \in Sample : \/ hit[p].occlZ # sample[p].occlZ
                                                      \/ hit[p].hit # sample[p].hit)
  BY DEF RenderMicroPoly, HitBy
<1>3. /\ TypeOK /\ InLeaves(region, tree, sample)
      /\ (~needsUpdate => Consistent(region, tree)) /\ (needsUpdate \/ waiting # {} => busy)
      /\ OneId(waiting) /\ NewIds(waiting, offered)
      /\ \A p \in Sample : InOrder(hider, sample[p])
  BY DEF TreeInv
<1>4. /\ hider \in Hiders /\ region \in Regions /\ needsUpdate \in BOOLEAN /\ busy \in BOOLEAN
      /\ tree \in [Nodes(region) -> Depths] /\ sample \in [Sample -> SampleData]
      /\ waiting \subseteq MicroPolygons /\ offered \in [Sample -> SUBSET Hits]
  BY <1>3 DEF TypeOK, Depths
<1>5. /\ hit \in [Sample -> SampleData]
      /\ \A p \in Sample : InOrder(hider, hit[p]) /\ hit[p].occlZ <= sample[p].occlZ
  BY HitByFacts
<1>. HIDE DEF hit
<1>6. /\ WithDepths(region, tree, hit) \in [Nodes(region) -> Depths]
      /\ InLeaves(region, WithDepths(region, tree, hit), hit)
      /\ (\A p \in Sample : hit[p].occlZ = sample[p].occlZ) => WithDepths(region, tree, hit) = tree
  BY <1>3, <1>4, <1>5, WithDepthsFacts
<1>7. /\ offered' \in [Sample -> SUBSET Hits]
      /\ \A p \in Sample : offered'[p] \subseteq offered[p] \cup {HitOf(m)}
  BY <1>1, <1>4, OfferedFacts
<1>8. needsUpdate' \in BOOLEAN
  BY <1>2
<1>9. TypeOK'
  BY <1>1, <1>4, <1>5, <1>6, <1>7, <1>8 DEF TypeOK, Depths
<1>10. InLeaves(region', tree', sample') /\ \A p \in Sample : InOrder(hider', sample'[p])
  BY <1>1, <1>5, <1>6
<1>11. ~needsUpdate' => Consistent(region', tree')
  BY <1>1, <1>2, <1>3, <1>6
<1>12. OneId(waiting') /\ NewIds(waiting', offered')
  <2>1. OneId(waiting')
    BY <1>1, <1>3 DEF OneId
  <2>2. ASSUME NEW w \in waiting', NEW p \in Sample, NEW h \in offered'[p]
        PROVE  h.id # w.id
    <3>1. w \in waiting /\ w # m /\ m \in MicroPolygons
      BY <1>1, <1>4
    <3>2. HitOf(m).id = m.id /\ m.id # w.id
      BY <1>3, <3>1, HitOfType DEF OneId
    <3>. QED  BY <1>3, <1>7, <3>1, <3>2 DEF NewIds
  <2>. QED  BY <2>1, <2>2 DEF NewIds
<1>13. busy'
  BY <1>1, <1>3
<1>. QED  BY <1>9, <1>10, <1>11, <1>12, <1>13 DEF TreeInv

LEMMA UpdateTreeInv == TreeInv /\ UpdateTree => TreeInv'
<1>. SUFFICES ASSUME TreeInv, UpdateTree PROVE TreeInv'
  OBVIOUS
<1>1. /\ hider' = hider /\ region' = region /\ sample' = sample /\ waiting' = waiting
      /\ offered' = offered /\ needsUpdate' = FALSE /\ busy' = FALSE /\ waiting = {}
      /\ tree' = IF needsUpdate THEN Propagated(region, tree) ELSE tree
  BY DEF UpdateTree
<1>2. /\ TypeOK /\ InLeaves(region, tree, sample)
      /\ (~needsUpdate => Consistent(region, tree))
      /\ OneId(waiting) /\ NewIds(waiting, offered)
      /\ \A p \in Sample : InOrder(hider, sample[p])
  BY DEF TreeInv
<1>3. Shaped(region) /\ tree \in [Nodes(region) -> Depths]
  BY <1>2, PointsAreSamples DEF TypeOK, Depths
<1>4. /\ tree' \in [Nodes(region) -> Depths] /\ Consistent(region, tree')
      /\ \A n \in Leaves(region) : tree'[n] = tree[n]
  <2>1. CASE needsUpdate
    BY <1>1, <1>3, <2>1, PropagatedFacts
  <2>2. CASE ~needsUpdate
    BY <1>1, <1>2, <1>3, <2>2
  <2>. QED  BY <2>1, <2>2
<1>5. InLeaves(region, tree', sample)
  BY <1>2, <1>3, <1>4, LeafPlace DEF InLeaves
<1>6. TypeOK'
  BY <1>1, <1>2, <1>4 DEF TypeOK, Depths
<1>7. /\ InLeaves(region', tree', sample') /\ Consistent(region', tree')
      /\ OneId(waiting') /\ NewIds(waiting', offered')
      /\ \A p \in Sample : InOrder(hider', sample'[p])
  BY <1>1, <1>2, <1>4, <1>5
<1>. QED  BY <1>1, <1>6, <1>7 DEF TreeInv

LEMMA StutterInv == TreeInv /\ UNCHANGED vars => TreeInv'
<1>. SUFFICES ASSUME TreeInv, UNCHANGED vars PROVE TreeInv'
  OBVIOUS
<1>1. /\ hider' = hider /\ region' = region /\ tree' = tree /\ needsUpdate' = needsUpdate
      /\ sample' = sample /\ waiting' = waiting /\ busy' = busy /\ offered' = offered
  BY DEF vars
<1>2. TypeOK'
  BY <1>1 DEF TreeInv, TypeOK
<1>. QED  BY <1>1, <1>2 DEF TreeInv

\* The invariant is inductive.
LEMMA NextInv == TreeInv /\ [Next]_vars => TreeInv'
BY PreProcessInv, CullSurfaceInv, DiceSurfaceInv, RenderMicroPolyInv, UpdateTreeInv, StutterInv DEF Next

LEMMA TreeInvariant == Spec => []TreeInv
BY InitInv, NextInv, PTL DEF Spec

-----------------------------------------------------------------------------
(* What the invariant says of culling. *)

LEMMA BoundFacts ==
  ASSUME NEW b \in Bounds
  PROVE  b.x0 \in Int /\ b.x1 \in Int /\ b.y0 \in Int /\ b.y1 \in Int /\ b.z \in Nat /\ b.z # 0
BY BoundsAssumption, DepthAssumption DEF Bounds

\* Culling from the samples alone: the leaves have their depths and their places.
LEMMA HiddenMeans ==
  ASSUME TreeInv, ~busy, NEW b \in Bounds
  PROVE  CanCull(region, tree, b) <=>
           \A p \in Points(region) : Meets(b, Cell(p)) => sample[p].occlZ < b.z
<1>. DEFINE r == region
<1>1. /\ r \in Regions /\ tree \in [Nodes(r) -> Depths] /\ sample \in [Sample -> SampleData]
      /\ InLeaves(r, tree, sample) /\ Consistent(r, tree)
  BY DEF TreeInv, TypeOK, Depths
<1>2. Shaped(r) /\ Points(r) \subseteq Sample
  BY <1>1, PointsAreSamples
<1>3. b.x0 \in Int /\ b.x1 \in Int /\ b.y0 \in Int /\ b.y1 \in Int /\ b.z \in Nat /\ b.z > 0
  BY BoundFacts
<1>4. CanCull(r, tree, b) <=> \A n \in Leaves(r) : ~(Meets(b, Area(r)[n]) /\ tree[n] >= b.z)
  BY <1>1, <1>2, <1>3, CanCullMeans
<1>5. ASSUME NEW p \in Points(r)
      PROVE  /\ TreeIndex(r, p) \in Leaves(r) /\ tree[TreeIndex(r, p)] = sample[p].occlZ
             /\ sample[p].occlZ \in Nat
             /\ Meets(b, Area(r)[TreeIndex(r, p)]) <=> Meets(b, Cell(p))
  <2>1. TreeIndex(r, p) \in Leaves(r) /\ tree[TreeIndex(r, p)] = sample[p].occlZ
    BY <1>1, <1>2, LeafPlace DEF InLeaves
  <2>2. sample[p].occlZ \in Nat
    BY <1>1, <1>2, HitDepths
  <2>3. LET a == Area(r)[TreeIndex(r, p)]
        IN  a.x0 = 2 * p.x /\ a.y0 = 2 * p.y /\ a.x1 = 2 * p.x + 2 /\ a.y1 = 2 * p.y + 2
    BY <1>2, LeafPlace
  <2>4. Meets(b, Area(r)[TreeIndex(r, p)]) <=> Meets(b, Cell(p))
    BY <2>3 DEF Meets, Cell
  <2>. QED  BY <2>1, <2>2, <2>4
<1>. HIDE DEF r
<1>6. ASSUME NEW n \in Leaves(r), \A p \in Points(r) : TreeIndex(r, p) # n
      PROVE  ~(tree[n] >= b.z)
  <2>1. tree[n] = 0
    BY <1>1, <1>6 DEF InLeaves
  <2>. QED  BY <1>3, <2>1
<1>7. ASSUME \A n \in Leaves(r) : ~(Meets(b, Area(r)[n]) /\ tree[n] >= b.z),
             NEW p \in Points(r), Meets(b, Cell(p))
      PROVE  sample[p].occlZ < b.z
  <2>1. ~(sample[p].occlZ >= b.z) /\ sample[p].occlZ \in Nat
    BY <1>5, <1>7
  <2>. QED  BY <1>3, <2>1
<1>8. ASSUME \A p \in Points(r) : Meets(b, Cell(p)) => sample[p].occlZ < b.z,
             NEW n \in Leaves(r), Meets(b, Area(r)[n]), tree[n] >= b.z
      PROVE  FALSE
  <2>1. PICK p \in Points(r) : TreeIndex(r, p) = n
    BY <1>6, <1>8
  <2>2. sample[p].occlZ < b.z /\ sample[p].occlZ >= b.z /\ sample[p].occlZ \in Nat
    BY <1>5, <1>8, <2>1
  <2>. QED  BY <1>3, <2>2
<1>9. CanCull(r, tree, b) <=> \A p \in Points(r) : Meets(b, Cell(p)) => sample[p].occlZ < b.z
  BY <1>4, <1>7, <1>8
<1>. QED  BY <1>9 DEF r

LEMMA TreeInvHidden == TreeInv => HiddenIsCulled
BY HiddenMeans DEF HiddenIsCulled

-----------------------------------------------------------------------------
(* Every step of the bucket is one of each of its sample points. *)

LEMMA ContainedIsMet ==
  ASSUME NEW p \in Points(region), region \in Regions,
         NEW m \in MicroPolygons, Contains2D(m.bound, p)
  PROVE  /\ p.x \in Nat /\ p.y \in Nat
         /\ m.bound.x0 \in Int /\ m.bound.x1 \in Int /\ m.bound.y0 \in Int /\ m.bound.y1 \in Int
         /\ m.bound.x0 <= 2 * p.x + 1 /\ 2 * p.x + 1 <= m.bound.x1
         /\ m.bound.y0 <= 2 * p.y + 1 /\ 2 * p.y + 1 <= m.bound.y1
<1>1. p.x \in Nat /\ p.y \in Nat
  BY PointsAreSamples, LeafPlace
<1>2. m.bound \in [x0 : Int, y0 : Int, x1 : Int, y1 : Int]
  BY BoundsAssumption DEF MicroPolygons
<1>. QED  BY <1>1, <1>2 DEF Contains2D

\* Every sample that a micropolygon contains is tested.
LEMMA HitIsTested ==
  ASSUME region \in Regions, NEW m \in MicroPolygons
  PROVE  MayHit(m) = Tested(m) /\ MayHit(m) \subseteq Sample
<1>. SUFFICES ASSUME NEW p \in MayHit(m)
              PROVE  p \in Tested(m) /\ p \in Sample
  BY DEF Tested
<1>1. p \in Points(region) /\ Contains2D(m.bound, p)
  BY DEF MayHit
<1>2. /\ p.x \in Nat /\ p.y \in Nat
      /\ m.bound.x0 \in Int /\ m.bound.x1 \in Int /\ m.bound.y0 \in Int /\ m.bound.y1 \in Int
      /\ m.bound.x0 <= 2 * p.x + 1 /\ 2 * p.x + 1 <= m.bound.x1
      /\ m.bound.y0 <= 2 * p.y + 1 /\ 2 * p.y + 1 <= m.bound.y1
  BY <1>1, ContainedIsMet
<1>3. /\ 2 * p.x < m.bound.x1 /\ 2 * p.x + 2 > m.bound.x0
      /\ 2 * p.y < m.bound.y1 /\ 2 * p.y + 2 > m.bound.y0
  BY <1>2
<1>4. /\ region.w \in Nat \ {0} /\ region.xSamps \in Nat \ {0}
      /\ region.h \in Nat \ {0} /\ region.ySamps \in Nat \ {0}
  BY PointsAreSamples DEF Shaped
<1>5. p.x \in 0 .. region.w * region.xSamps - 1 /\ p.y \in 0 .. region.h * region.ySamps - 1
  BY <1>1 DEF Points, NumX, NumY
<1>6. p.x \in Visited(m.bound.x0, m.bound.x1, region.w, region.xSamps)
  BY <1>2, <1>3, <1>4, <1>5, ReachedIsVisited
<1>7. p.y \in Visited(m.bound.y0, m.bound.y1, region.h, region.ySamps)
  BY <1>2, <1>3, <1>4, <1>5, ReachedIsVisited
<1>. QED  BY <1>1, <1>6, <1>7, PointsAreSamples DEF Tested

\* A sample that took a new hit has done a step of SamplePoint.
LEMMA PointOffers ==
  ASSUME NEW p \in Sample, NEW h \in Hits, \A g \in offered[p] : g.id # h.id,
         hider' = hider, sample'[p] = Stored(hider, sample[p], h), offered'[p] = offered[p] \cup {h}
  PROVE  Point(p)!Next
<1>1. Point(p)!Stored(hider, sample[p], h) = Stored(hider, sample[p], h)
  BY DEF Point!Stored, Point!StoredMidPoint, Point!Culled, Point!Cullable, Point!Occluding,
         Point!MidPoint, Point!PreviousZ, Point!NoHit,
         Stored, StoredMidPoint, Culled, Cullable, Occluding, MidPoint, PreviousZ, NoHit
<1>2. Point(p)!Offer(h)
  BY <1>1 DEF Point!Offer
<1>3. h \in Point(p)!Hits
  BY DEF Point!Hits, Point!Kinds, Hits, Kinds
<1>. QED  BY <1>2, <1>3 DEF Point!Next

\* A sample that nothing happened to stutters.
LEMMA PointStutters ==
  ASSUME NEW p \in Sample, hider' = hider, sample'[p] = sample[p], offered'[p] = offered[p]
  PROVE  [Point(p)!Next]_(Point(p)!vars)
BY DEF Point!vars

LEMMA PreProcessPoint ==
  ASSUME PreProcess, NEW p \in Sample
  PROVE  [Point(p)!Next]_(Point(p)!vars)
<1>1. sample'[p] = Fresh /\ offered'[p] = {} /\ hider' = hider
  BY DEF PreProcess
<1>2. Point(p)!Fresh = Fresh
  BY DEF Point!Fresh, Fresh, Point!NoHit, NoHit
<1>3. Point(p)!Clear
  BY <1>1, <1>2 DEF Point!Clear
<1>. QED  BY <1>3 DEF Point!Next

\* A culled surface had at most one micropolygon for a sample, and StoreSample
\* would have dropped its hit.
LEMMA CullSurfacePoint ==
  ASSUME TreeInv, NEW b \in Bounds, CullSurface(b), NEW p \in Sample
  PROVE  [Point(p)!Next]_(Point(p)!vars)
<1>1. PICK M \in Grids : /\ AreFree(M) /\ Within(M, b) /\ \A m \in M : ~m.csg
                         /\ offered' = Offered(M)
  BY DEF CullSurface
<1>2. /\ hider' = hider /\ sample' = sample /\ ~busy
      /\ Cullable(hider, FALSE) /\ CanCull(region, tree, b)
  BY DEF CullSurface
<1>3. /\ M \subseteq MicroPolygons /\ region \in Regions /\ hider \in Hiders
      /\ offered \in [Sample -> SUBSET Hits] /\ sample \in [Sample -> SampleData]
  BY GridFacts DEF TreeInv, TypeOK
<1>4. offered'[p] = offered[p] \cup {HitOf(m) : m \in {n \in M : p \in MayHit(n)}}
  BY <1>1, <1>3, OfferedFacts
<1>5. CASE \A m \in M : p \notin MayHit(m)
  <2>1. offered'[p] = offered[p]
    BY <1>4, <1>5
  <2>. QED  BY <1>2, <2>1, PointStutters
<1>6. ASSUME NEW m \in M, p \in MayHit(m)
      PROVE  Point(p)!Next
  <2>1. \A n \in M : p \in MayHit(n) => n = m
    <3>1. \A n \in M : p \in MayHit(n) => Contains2D(n.bound, p)
      BY DEF MayHit
    <3>. QED  BY <1>6, <3>1, GridFacts DEF Overlap
  <2>2. offered'[p] = offered[p] \cup {HitOf(m)}
    BY <1>4, <1>6, <2>1
  <2>3. /\ m \in MicroPolygons /\ HitOf(m) \in Hits
        /\ HitOf(m).id = m.id /\ HitOf(m).z = m.z /\ HitOf(m).csg = m.csg
    BY <1>3, HitOfType
  <2>4. \A g \in offered[p] : g.id # HitOf(m).id
    BY <1>1, <2>3, FreeFacts DEF NewIds
  <2>5. p \in Points(region) /\ Contains2D(m.bound, p)
    BY <1>6 DEF MayHit
  <2>6. Meets(b, Cell(p))
    <3>1. /\ p.x \in Nat /\ p.y \in Nat
          /\ m.bound.x0 \in Int /\ m.bound.x1 \in Int /\ m.bound.y0 \in Int /\ m.bound.y1 \in Int
          /\ m.bound.x0 <= 2 * p.x + 1 /\ 2 * p.x + 1 <= m.bound.x1
          /\ m.bound.y0 <= 2 * p.y + 1 /\ 2 * p.y + 1 <= m.bound.y1
      BY <1>3, <2>3, <2>5, ContainedIsMet
    <3>2. /\ b.x0 <= m.bound.x0 /\ m.bound.x1 <= b.x1
          /\ b.y0 <= m.bound.y0 /\ m.bound.y1 <= b.y1
      BY <1>1 DEF Within
    <3>3. b.x0 \in Int /\ b.x1 \in Int /\ b.y0 \in Int /\ b.y1 \in Int
      BY BoundFacts
    <3>4. /\ b.x0 <= 2 * p.x + 2 /\ 2 * p.x <= b.x1 /\ b.y0 <= 2 * p.y + 2 /\ 2 * p.y <= b.y1
      BY <3>1, <3>2, <3>3
    <3>. QED  BY <3>1, <3>3, <3>4 DEF Meets, Cell
  <2>7. sample[p].occlZ < b.z
    BY <1>2, <2>5, <2>6, HiddenMeans
  <2>8. Culled(hider, sample[p], HitOf(m))
    <3>1. sample[p].occlZ \in Nat /\ b.z \in Nat /\ HitOf(m).z \in Nat
      BY <1>3, <2>3, HitDepths, BoundFacts
    <3>2. b.z <= HitOf(m).z
      BY <1>1, <2>3 DEF Within
    <3>3. sample[p].occlZ <= HitOf(m).z
      BY <2>7, <3>1, <3>2
    <3>4. ~HitOf(m).csg
      BY <1>1, <2>3
    <3>. QED  BY <1>2, <3>3, <3>4 DEF Culled, Cullable
  <2>9. sample'[p] = Stored(hider, sample[p], HitOf(m))
    BY <1>2, <2>8 DEF Stored
  <2>. QED  BY <1>2, <2>2, <2>3, <2>4, <2>9, PointOffers
<1>. QED  BY <1>5, <1>6

LEMMA RenderMicroPolyPoint ==
  ASSUME TreeInv, NEW m \in waiting, RenderMicroPoly(m), NEW p \in Sample
  PROVE  [Point(p)!Next]_(Point(p)!vars)
<1>1. /\ hider' = hider /\ sample' = HitBy(m) /\ offered' = Offered({m})
  BY DEF RenderMicroPoly, HitBy
<1>2. /\ m \in MicroPolygons /\ region \in Regions /\ hider \in Hiders
      /\ offered \in [Sample -> SUBSET Hits]
  BY DEF TreeInv, TypeOK
<1>3. offered'[p] = offered[p] \cup {HitOf(k) : k \in {n \in {m} : p \in MayHit(n)}}
  BY <1>1, <1>2, OfferedFacts
<1>4. MayHit(m) = Tested(m)
  BY <1>2, HitIsTested
<1>5. CASE p \in MayHit(m)
  <2>1. offered'[p] = offered[p] \cup {HitOf(m)}
    BY <1>3, <1>5
  <2>2. sample'[p] = Stored(hider, sample[p], HitOf(m))
    BY <1>1, <1>4, <1>5 DEF HitBy
  <2>3. HitOf(m) \in Hits /\ HitOf(m).id = m.id
    BY <1>2, HitOfType
  <2>4. \A g \in offered[p] : g.id # HitOf(m).id
    BY <2>3 DEF TreeInv, NewIds
  <2>. QED  BY <1>1, <2>1, <2>2, <2>3, <2>4, PointOffers
<1>6. CASE p \notin MayHit(m)
  <2>1. offered'[p] = offered[p]
    BY <1>3, <1>6
  <2>2. sample'[p] = sample[p]
    BY <1>1, <1>4, <1>6 DEF HitBy
  <2>. QED  BY <1>1, <2>1, <2>2, PointStutters
<1>. QED  BY <1>5, <1>6

\* Every step of the bucket is a step of each sample, or none.
LEMMA NextPoint ==
  ASSUME TreeInv, [Next]_vars, NEW p \in Sample
  PROVE  [Point(p)!Next]_(Point(p)!vars)
<1>1. CASE PreProcess
  BY <1>1, PreProcessPoint
<1>2. ASSUME NEW b \in Bounds, CullSurface(b)
      PROVE  [Point(p)!Next]_(Point(p)!vars)
  BY <1>2, CullSurfacePoint
<1>3. CASE DiceSurface
  BY <1>3, PointStutters DEF DiceSurface
<1>4. ASSUME NEW m \in waiting, RenderMicroPoly(m)
      PROVE  [Point(p)!Next]_(Point(p)!vars)
  BY <1>4, RenderMicroPolyPoint
<1>5. CASE UpdateTree
  BY <1>5, PointStutters DEF UpdateTree
<1>6. CASE UNCHANGED vars
  BY <1>6, PointStutters DEF vars
<1>. QED  BY <1>1, <1>2, <1>3, <1>4, <1>5, <1>6 DEF Next

LEMMA InitPoint ==
  ASSUME Init, NEW p \in Sample
  PROVE  Point(p)!Init
BY DEF Init, Point!Init, Point!Hiders, Hiders, Point!Fresh, Fresh, Point!NoHit, NoHit

-----------------------------------------------------------------------------
(* The theorems. *)

(***************************************************************************)
(* Type correctness, for any regions, depths and bounds: the tree has a    *)
(* depth for each node of the region it was set up for.                    *)
(***************************************************************************)
THEOREM TypeCorrect == Spec => []TypeOK
<1>1. TreeInv => TypeOK
  BY DEF TreeInv
<1>. QED  BY <1>1, TreeInvariant, PTL

(***************************************************************************)
(* What canCull answers is exact in a region of any size and any number of *)
(* samples: a bound is culled if and only if it is behind the occluding    *)
(* depth of every sample whose subpixel it touches.                        *)
(***************************************************************************)
THEOREM CullingIsExact == Spec => []HiddenIsCulled
BY TreeInvHidden, TreeInvariant, PTL

(***************************************************************************)
(* The leaf that treeIndexForPoint computes from the bits of a sample's    *)
(* coordinates is the one canCull reaches by halving the area.             *)
(***************************************************************************)
THEOREM LeavesAreInPlace == Spec => []LeafInItsPlace
<1>1. TreeInv => LeafInItsPlace
  BY NoneMisplaced, RegionsAssumption DEF TreeInv, TypeOK, LeafInItsPlace
<1>. QED  BY <1>1, TreeInvariant, PTL

(***************************************************************************)
(* The loops of RenderMPG_Static leave out no subpixel that the bound of a *)
(* micropolygon reaches, for any number of pixels and samples.             *)
(***************************************************************************)
THEOREM SubpixelsAreVisited == Spec => []NoSubpixelSkipped
<1>1. TreeInv => NoSubpixelSkipped
  BY NoneSkipped, RegionsAssumption DEF TreeInv, TypeOK, NoSubpixelSkipped
<1>. QED  BY <1>1, TreeInvariant, PTL

(***************************************************************************)
(* Culling changes no sample: whatever the tree, the bounds and the stored *)
(* depths keep away from it, every sample point goes through the steps of  *)
(* SamplePoint.                                                            *)
(***************************************************************************)
THEOREM CullingIsInvisible == Spec => IsSamplePoint
<1>1. Init => \A p \in Sample : Point(p)!Init
  BY InitPoint
<1>2. TreeInv /\ [Next]_vars => [\A p \in Sample : [Point(p)!Next]_(Point(p)!vars)]_vars
  BY NextPoint
<1>. QED  BY <1>1, <1>2, TreeInvariant, PTL DEF Spec, IsSamplePoint

Levels(r) == TreeDepth(r) + 1

\* What setupTree and treeIndexForPoint assert.
LeavesAreOwn ==
  /\ \A p \in Points(region) :
       /\ TreeIndex(region, p) \in Leaves(region)
       /\ p.x < Pow2[IF SplitXFirst(region) THEN Levels(region) \div 2 ELSE (Levels(region) - 1) \div 2]
       /\ p.y < Pow2[IF SplitXFirst(region) THEN (Levels(region) - 1) \div 2 ELSE Levels(region) \div 2]
  /\ \A p, q \in Points(region) : TreeIndex(region, p) = TreeIndex(region, q) => p = q

\* How the assertions count the levels of each direction.
LEMMA LevelHalves ==
  ASSUME NEW r, Shaped(r)
  PROVE  /\ DepthX(r) = IF SplitXFirst(r) THEN Levels(r) \div 2 ELSE (Levels(r) - 1) \div 2
         /\ DepthY(r) = IF SplitXFirst(r) THEN (Levels(r) - 1) \div 2 ELSE Levels(r) \div 2
<1>. DEFINE dx == DepthX(r)
            dy == DepthY(r)
<1>1. /\ dx \in Nat /\ dy \in Nat /\ Levels(r) = dx + dy + 1
      /\ IF SplitXFirst(r) THEN dx - dy \in {0, 1} ELSE dy = dx + 1
  BY ShapeFacts DEF Levels, TreeDepth
<1>. HIDE DEF dx, dy
<1>2. CASE SplitXFirst(r)
  <2>1. (dx + dy + 1) \div 2 = dx /\ (dx + dy + 1 - 1) \div 2 = dy
    BY <1>1, <1>2
  <2>. QED  BY <1>1, <1>2, <2>1 DEF dx, dy
<1>3. CASE ~SplitXFirst(r)
  <2>1. (dx + dy + 1 - 1) \div 2 = dx /\ (dx + dy + 1) \div 2 = dy
    BY <1>1, <1>3
  <2>. QED  BY <1>1, <1>3, <2>1 DEF dx, dy
<1>. QED  BY <1>2, <1>3

(***************************************************************************)
(* setupTree gives each sample a leaf, and one of its own, from            *)
(* coordinates that have as many bits as the tree has levels for them (the *)
(* assertions in occlusion.cpp:100, 102, 254 and 255; that on x has a      *)
(* bracket out of place and asserts less).                                 *)
(***************************************************************************)
THEOREM LeavesAreNotShared == Spec => []LeavesAreOwn
<1>1. TreeInv => LeavesAreOwn
  <2>. SUFFICES ASSUME TreeInv PROVE LeavesAreOwn
    OBVIOUS
  <2>1. Shaped(region)
    BY PointsAreSamples DEF TreeInv, TypeOK
  <2>2. ASSUME NEW p \in Points(region)
        PROVE  p.x < Pow2[DepthX(region)] /\ p.y < Pow2[DepthY(region)]
    <3>1. p.x \in 0 .. NumX(region) - 1 /\ p.y \in 0 .. NumY(region) - 1
      BY DEF Points
    <3>2. /\ NumX(region) \in Nat /\ NumX(region) <= Pow2[DepthX(region)]
          /\ NumY(region) \in Nat /\ NumY(region) <= Pow2[DepthY(region)]
          /\ Pow2[DepthX(region)] \in Nat /\ Pow2[DepthY(region)] \in Nat
      BY <2>1, ShapeFacts, Pow2Facts
    <3>. QED  BY <3>1, <3>2
  <2>3. \A p \in Points(region) : TreeIndex(region, p) \in Leaves(region)
    BY <2>1, LeafPlace
  <2>4. \A p, q \in Points(region) : TreeIndex(region, p) = TreeIndex(region, q) => p = q
    BY <2>1, OneLeafEach
  <2>. QED  BY <2>1, <2>2, <2>3, <2>4, LevelHalves DEF LeavesAreOwn
<1>. QED  BY <1>1, TreeInvariant, PTL

\* While the bucket is rendered no leaf gets further away.
LeavesComeNearer ==
  [][\A m \in waiting : RenderMicroPoly(m) => \A n \in Leaves(region) : tree'[n] <= tree[n]]_vars

(***************************************************************************)
(* A micropolygon leaves no sample further away than it was, for each      *)
(* depth filter ("assert(m_depthTree[index] >= depth)", occlusion.cpp:112).*)
(***************************************************************************)
THEOREM DepthsFall == Spec => LeavesComeNearer
<1>1. ASSUME TreeInv, NEW m \in waiting, RenderMicroPoly(m), NEW n \in Leaves(region)
      PROVE  tree'[n] <= tree[n]
  <2>. DEFINE hit == HitBy(m)
  <2>1. tree' = WithDepths(region, tree, hit)
    BY <1>1 DEF RenderMicroPoly, HitBy
  <2>2. /\ hit \in [Sample -> SampleData]
        /\ \A p \in Sample : hit[p].occlZ <= sample[p].occlZ
    BY <1>1, HitByFacts
  <2>3. /\ region \in Regions /\ tree \in [Nodes(region) -> Depths]
        /\ InLeaves(region, tree, sample) /\ n \in Nodes(region)
    BY <1>1 DEF TreeInv, TypeOK, Depths, Leaves
  <2>. HIDE DEF hit
  <2>4. tree'[n] = tree[n] \/ \E p \in Points(region) : TreeIndex(region, p) = n /\ tree'[n] = hit[p].occlZ
    BY <2>1, <2>2, <2>3, WithDepthsFacts
  <2>5. CASE tree'[n] = tree[n]
    <3>1. tree[n] \in Nat
      BY <2>3, DepthsAreNumbers
    <3>. QED  BY <2>5, <3>1
  <2>6. ASSUME NEW p \in Points(region), TreeIndex(region, p) = n, tree'[n] = hit[p].occlZ
        PROVE  tree'[n] <= tree[n]
    BY <2>2, <2>3, <2>6, PointsAreSamples DEF InLeaves
  <2>. QED  BY <2>4, <2>5, <2>6
<1>2. TreeInv /\ [Next]_vars =>
        [\A m \in waiting : RenderMicroPoly(m) => \A n \in Leaves(region) : tree'[n] <= tree[n]]_vars
  BY <1>1
<1>. QED  BY <1>2, TreeInvariant, PTL DEF Spec, LeavesComeNearer
=============================================================================
