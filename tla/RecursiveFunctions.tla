------------------------- MODULE RecursiveFunctions -------------------------
(***************************************************************************)
(* Induction and recursion in the form of sets and functions.  The library *)
(* states induction for an operator; for a set it follows from the         *)
(* well-foundedness of the finite sets (LeastNumber, Steps, Descent), and  *)
(* from it that a definition by recursion has a function that satisfies it *)
(* (Recursion), for one that calls itself at lower ranks and for the loops *)
(* of the code, which go from one turn to the next (Iteration).  At the    *)
(* end, what a sequence holds that others were put together to.            *)
(***************************************************************************)
EXTENDS Integers, FiniteSetTheorems, SequenceTheorems, TLAPS

LEMMA LeastNumber ==
  ASSUME NEW T, T \subseteq Nat, T # {}
  PROVE  \E m \in T : \A k \in T : m <= k
<1>. DEFINE U == {0 .. t : t \in T}
            R == StrictSubsetOrdering(Nat)
            Fin == FiniteSubsetsOf(Nat)
<1>1. U \subseteq Fin /\ U # {}
  <2>1. ASSUME NEW t \in T  PROVE IsFiniteSet(0 .. t) /\ 0 .. t \in SUBSET Nat
    BY FS_Interval
  <2>2. \A t \in T : 0 .. t \in Fin
    BY <2>1 DEF FiniteSubsetsOf
  <2>. HIDE DEF Fin
  <2>. QED  BY <2>2
<1>2. IsWellFoundedOn(R, Fin)
  BY FS_StrictSubsetOrderingWellFounded
<1>3. PICK x \in U : \A y \in U : <<y, x>> \notin R
  <2>. HIDE DEF U, R, Fin
  <2>. QED  BY <1>1, <1>2, WFMin
<1>4. PICK m \in T : x = 0 .. m
  OBVIOUS
<1>5. ASSUME NEW k \in T, k < m  PROVE FALSE
  <2>1. 0 .. k \in SUBSET Nat /\ 0 .. m \in SUBSET Nat /\ 0 .. k \subseteq 0 .. m /\ m \in 0 .. m /\ m \notin 0 .. k
    BY <1>5
  <2>2. <<0 .. k, x>> \in R
    BY <1>4, <2>1 DEF StrictSubsetOrdering
  <2>. QED  BY <1>3, <2>2
<1>6. \A k \in T : m <= k
  BY <1>5
<1>. QED  BY <1>6

\* Induction over the numbers.
LEMMA Steps ==
  ASSUME NEW S, 0 \in S, \A n \in Nat : n \in S => n + 1 \in S
  PROVE  \A n \in Nat : n \in S
<1>. SUFFICES ASSUME NEW n \in Nat, n \notin S  PROVE FALSE
  OBVIOUS
<1>. DEFINE T == {k \in Nat : k \notin S}
<1>1. PICK m \in T : \A k \in T : m <= k
  <2>1. T \subseteq Nat /\ T # {}
    OBVIOUS
  <2>. HIDE DEF T
  <2>. QED  BY <2>1, LeastNumber
<1>2. m # 0 /\ m \in Nat
  OBVIOUS
<1>3. m - 1 \in Nat /\ m - 1 + 1 = m /\ m - 1 \notin T
  BY <1>1, <1>2
<1>. QED  BY <1>1, <1>3

\* Induction over a set whose elements have a rank.
LEMMA Descent ==
  ASSUME NEW D, NEW rank \in [D -> Nat], NEW S,
         \A x \in D : (\A y \in D : rank[y] < rank[x] => y \in S) => x \in S
  PROVE  \A x \in D : x \in S
<1>. SUFFICES ASSUME NEW z \in D, z \notin S  PROVE FALSE
  OBVIOUS
<1>. DEFINE T == {rank[x] : x \in {y \in D : y \notin S}}
<1>1. PICK m \in T : \A k \in T : m <= k
  <2>1. T \subseteq Nat
    OBVIOUS
  <2>2. rank[z] \in T
    OBVIOUS
  <2>. HIDE DEF T
  <2>. QED  BY <2>1, <2>2, LeastNumber
<1>2. PICK x \in D : x \notin S /\ m = rank[x]
  OBVIOUS
<1>3. ASSUME NEW y \in D, rank[y] < rank[x]  PROVE y \in S
  <2>1. rank[x] \in Nat /\ rank[y] \in Nat
    OBVIOUS
  <2>2. ~(rank[x] <= rank[y])
    BY <1>3, <2>1
  <2>. QED  BY <1>1, <1>2, <2>2
<1>. QED  BY <1>2, <1>3

\* F gives the value at x from the values of lower rank.
FromLower(F, rank, D, V) ==
  \A g, h \in [D -> V] : \A x \in D :
    (\A y \in D : rank[y] < rank[x] => g[y] = h[y]) => F[<<g, x>>] = F[<<h, x>>]

Solves(g, F, D) == \A x \in D : g[x] = F[<<g, x>>]

\* A definition by recursion has a function that satisfies it.
LEMMA Recursion ==
  ASSUME NEW D, NEW V, NEW v0 \in V, NEW rank \in [D -> Nat], NEW F \in [[D -> V] \X D -> V],
         FromLower(F, rank, D, V)
  PROVE  \E g \in [D -> V] : Solves(g, F, D)
<1>0. ASSUME NEW g \in [D -> V], NEW h \in [D -> V], NEW x \in D,
             \A y \in D : rank[y] < rank[x] => g[y] = h[y]
      PROVE  F[<<g, x>>] = F[<<h, x>>]
  BY <1>0 DEF FromLower
<1>. DEFINE Good(g, n) == \A x \in D : rank[x] < n => g[x] = F[<<g, x>>]
            S == {n \in Nat : \E g \in [D -> V] : Good(g, n)}
<1>1. \A n \in Nat : n \in S
  <2>1. 0 \in S
    <3>1. [x \in D |-> v0] \in [D -> V] /\ Good([x \in D |-> v0], 0)
      OBVIOUS
    <3>. QED  BY <3>1
  <2>2. ASSUME NEW n \in Nat, n \in S  PROVE n + 1 \in S
    <3>1. PICK g \in [D -> V] : Good(g, n)
      BY <2>2
    <3>. DEFINE h == [x \in D |-> IF rank[x] = n THEN F[<<g, x>>] ELSE g[x]]
    <3>2. h \in [D -> V] /\ \A x \in D : rank[x] < n => h[x] = g[x]
      OBVIOUS
    <3>3. ASSUME NEW x \in D, rank[x] < n + 1  PROVE h[x] = F[<<h, x>>]
      <4>1. \A y \in D : rank[y] < rank[x] => g[y] = h[y]
        BY <3>2, <3>3
      <4>2. F[<<g, x>>] = F[<<h, x>>]
        <5>. HIDE DEF h
        <5>. QED  BY <1>0, <3>2, <4>1
      <4>3. h[x] = F[<<g, x>>]
        BY <3>1, <3>3
      <4>. QED  BY <4>2, <4>3
    <3>4. Good(h, n + 1)
      BY <3>3
    <3>5. n + 1 \in Nat
      OBVIOUS
    <3>. HIDE DEF h, Good
    <3>. QED  BY <3>2, <3>4, <3>5
  <2>. HIDE DEF S
  <2>. QED  BY <2>1, <2>2, Steps
<1>2. ASSUME NEW n \in Nat, NEW g \in [D -> V], NEW h \in [D -> V], Good(g, n), Good(h, n),
             NEW x \in D, rank[x] < n
      PROVE  g[x] = h[x]
  <2>. SUFFICES ASSUME g[x] # h[x]  PROVE FALSE
    OBVIOUS
  <2>. DEFINE T == {rank[y] : y \in {z \in D : rank[z] < n /\ g[z] # h[z]}}
  <2>1. PICK m \in T : \A k \in T : m <= k
    <3>1. T \subseteq Nat
      OBVIOUS
    <3>2. rank[x] \in T
      BY <1>2
    <3>. HIDE DEF T
    <3>. QED  BY <3>1, <3>2, LeastNumber
  <2>2. PICK y \in D : rank[y] < n /\ g[y] # h[y] /\ m = rank[y]
    OBVIOUS
  <2>3. ASSUME NEW z \in D, rank[z] < rank[y]  PROVE g[z] = h[z]
    <3>1. rank[z] \in Nat /\ rank[y] \in Nat
      OBVIOUS
    <3>2. rank[z] < n /\ ~(rank[y] <= rank[z])
      BY <2>2, <2>3, <3>1
    <3>. QED  BY <2>1, <2>2, <3>2
  <2>4. F[<<g, y>>] = F[<<h, y>>]
    BY <1>0, <2>3
  <2>. QED  BY <1>2, <2>2, <2>4
<1>. DEFINE G(n) == CHOOSE g \in [D -> V] : Good(g, n)
            f == [x \in D |-> G(rank[x] + 1)[x]]
<1>3. ASSUME NEW n \in Nat  PROVE G(n) \in [D -> V] /\ Good(G(n), n)
  BY <1>1
<1>. HIDE DEF G
<1>4. f \in [D -> V]
  BY <1>3
<1>5. ASSUME NEW x \in D  PROVE f[x] = F[<<f, x>>]
  <2>. DEFINE g == G(rank[x] + 1)
  <2>1. rank[x] \in Nat /\ rank[x] + 1 \in Nat /\ rank[x] < rank[x] + 1
    OBVIOUS
  <2>2. g \in [D -> V] /\ Good(g, rank[x] + 1)
    <3>. HIDE DEF Good
    <3>. QED  BY <1>3, <2>1
  <2>3. ASSUME NEW y \in D, rank[y] < rank[x]  PROVE f[y] = g[y]
    <3>. DEFINE h == G(rank[y] + 1)
    <3>1. rank[y] \in Nat /\ rank[y] + 1 \in Nat /\ rank[y] < rank[y] + 1
      OBVIOUS
    <3>2. h \in [D -> V] /\ Good(h, rank[y] + 1)
      <4>. HIDE DEF Good
      <4>. QED  BY <1>3, <3>1
    <3>. HIDE DEF h, g
    <3>3. Good(g, rank[y] + 1)
      <4>1. ASSUME NEW z \in D, rank[z] < rank[y] + 1  PROVE rank[z] < rank[x] + 1
        <5>1. rank[z] \in Nat
          OBVIOUS
        <5>. QED  BY <2>1, <2>3, <3>1, <4>1, <5>1
      <4>. QED  BY <2>2, <4>1
    <3>. HIDE DEF Good
    <3>4. h[y] = g[y]
      BY <1>2, <2>2, <3>1, <3>2, <3>3
    <3>. QED  BY <3>4 DEF h
  <2>4. F[<<f, x>>] = F[<<g, x>>]
    <3>. HIDE DEF f, g, Good
    <3>. QED  BY <1>0, <1>4, <2>2, <2>3
  <2>5. g[x] = F[<<g, x>>]
    <3>. HIDE DEF g
    <3>. QED  BY <2>1, <2>2
  <2>. QED  BY <2>4, <2>5
<1>. HIDE DEF f
<1>6. Solves(f, F, D)
  BY <1>5 DEF Solves
<1>. QED  BY <1>4, <1>6

\* The values of a loop of K turns: step makes the next of the last.
Turns(g, K, v0, step) == \A i \in 0 .. K : g[i] = IF i = 0 THEN v0 ELSE step[<<g[i - 1], i>>]

LEMMA Iteration ==
  ASSUME NEW K \in Nat, NEW V, NEW v0 \in V, NEW step \in [V \X (1 .. K) -> V]
  PROVE  \E g \in [0 .. K -> V] : Turns(g, K, v0, step)
<1>. DEFINE D == 0 .. K
            F == [gi \in [D -> V] \X D |-> IF gi[2] = 0 THEN v0 ELSE step[<<gi[1][gi[2] - 1], gi[2]>>]]
            rank == [i \in D |-> i]
<1>0. \A i \in D : i # 0 => i \in 1 .. K /\ i - 1 \in D
  OBVIOUS
<1>1. rank \in [D -> Nat]
  OBVIOUS
<1>2. ASSUME NEW g \in [D -> V], NEW i \in D
      PROVE  /\ F[<<g, i>>] = IF i = 0 THEN v0 ELSE step[<<g[i - 1], i>>]
             /\ F[<<g, i>>] \in V
  <2>1. F[<<g, i>>] = IF i = 0 THEN v0 ELSE step[<<g[i - 1], i>>]
    OBVIOUS
  <2>. HIDE DEF F, D
  <2>. QED  BY <1>0, <2>1
<1>3. F \in [[D -> V] \X D -> V]
  <2>1. \A gi \in [D -> V] \X D : F[gi] \in V
    BY <1>2
  <2>2. F = [gi \in [D -> V] \X D |-> F[gi]]
    OBVIOUS
  <2>. HIDE DEF F, D
  <2>. QED  BY <2>1, <2>2
<1>4. ASSUME NEW g \in [D -> V], NEW h \in [D -> V], NEW i \in D,
             \A y \in D : rank[y] < rank[i] => g[y] = h[y]
      PROVE  F[<<g, i>>] = F[<<h, i>>]
  <2>1. i # 0 => g[i - 1] = h[i - 1]
    BY <1>4
  <2>. HIDE DEF F, D, rank
  <2>. QED  BY <1>2, <2>1
<1>5. PICK g \in [D -> V] : Solves(g, F, D)
  <2>. HIDE DEF F, rank, D
  <2>1. FromLower(F, rank, D, V)
    BY <1>4 DEF FromLower
  <2>. QED  BY <1>1, <1>3, <2>1, Recursion
<1>6. \A i \in D : g[i] = IF i = 0 THEN v0 ELSE step[<<g[i - 1], i>>]
  <2>. HIDE DEF F, D
  <2>. QED  BY <1>2, <1>5 DEF Solves
<1>. QED  BY <1>6 DEF Turns

-----------------------------------------------------------------------------
(* Sequences put together. *)

\* One more element behind a sequence.
LEMMA OneMore ==
  ASSUME NEW S, NEW g \in Seq(S), NEW x \in S
  PROVE  /\ g \o <<x>> \in Seq(S) /\ Len(g) \in Nat /\ Len(g \o <<x>>) = Len(g) + 1
         /\ (g \o <<x>>)[Len(g) + 1] = x
         /\ \A i \in 1 .. Len(g) : (g \o <<x>>)[i] = g[i]
<1>. DEFINE one == <<x>>
            h == g \o one
            n == Len(g)
<1>1. one \in Seq(S) /\ Len(one) = 1 /\ one[1] = x /\ n \in Nat
  BY LenProperties
<1>2. /\ h \in Seq(S) /\ Len(h) = Len(g) + Len(one)
      /\ \A i \in 1 .. Len(g) + Len(one) : h[i] = IF i <= Len(g) THEN g[i] ELSE one[i - Len(g)]
  <2>1. g \in Seq(S) /\ one \in Seq(S)
    BY <1>1
  <2>. HIDE DEF one
  <2>. QED  BY <2>1, ConcatProperties
<1>. HIDE DEF one, h, n
<1>3. n + 1 \in 1 .. n + 1 /\ ~(n + 1 <= n) /\ (n + 1) - n = 1
  BY <1>1
<1>4. Len(h) = n + 1 /\ h[n + 1] = x
  BY <1>1, <1>2, <1>3 DEF n
<1>5. ASSUME NEW i \in 1 .. n  PROVE h[i] = g[i]
  <2>1. i \in 1 .. n + 1 /\ i <= n
    BY <1>1
  <2>. QED  BY <1>1, <1>2, <2>1 DEF n
<1>. QED  BY <1>1, <1>2, <1>4, <1>5 DEF one, h, n

\* One sequence behind another.
LEMMA Joined ==
  ASSUME NEW S, NEW c \in Seq(S), NEW d \in Seq(S)
  PROVE  /\ c \o d \in Seq(S) /\ Len(c) \in Nat /\ Len(d) \in Nat
         /\ Len(c \o d) = Len(c) + Len(d)
         /\ \A i \in 1 .. Len(c) : (c \o d)[i] = c[i]
         /\ \A i \in 1 .. Len(d) : (c \o d)[i + Len(c)] = d[i]
<1>. DEFINE a == Len(c)
            b == Len(d)
            e == c \o d
<1>1. a \in Nat /\ b \in Nat
  BY LenProperties
<1>2. /\ e \in Seq(S) /\ Len(e) = a + b
      /\ \A i \in 1 .. a + b : e[i] = IF i <= a THEN c[i] ELSE d[i - a]
  BY ConcatProperties
<1>. HIDE DEF a, b, e
<1>3. \A i \in 1 .. a : i \in 1 .. a + b /\ i <= a
  BY <1>1
<1>4. \A i \in 1 .. b : i + a \in 1 .. a + b /\ ~(i + a <= a) /\ (i + a) - a = i
  BY <1>1
<1>5. \A i \in 1 .. a : e[i] = c[i]
  BY <1>2, <1>3
<1>6. \A i \in 1 .. b : e[i + a] = d[i]
  BY <1>2, <1>4
<1>. QED  BY <1>1, <1>2, <1>5, <1>6 DEF a, b, e

\* A sequence, an element, another sequence and another element.
LEMMA LoopLayout ==
  ASSUME NEW S, NEW c \in Seq(S), NEW d \in Seq(S), NEW x \in S, NEW y \in S
  PROVE  LET e == c \o <<x>> \o d \o <<y>>
         IN  /\ Len(c) \in Nat /\ Len(d) \in Nat
             /\ e \in Seq(S) /\ Len(e) = Len(c) + Len(d) + 2
             /\ \A i \in 1 .. Len(c) : e[i] = c[i]
             /\ e[Len(c) + 1] = x /\ e[Len(c) + Len(d) + 2] = y
             /\ \A i \in 1 .. Len(d) : e[i + (Len(c) + 1)] = d[i]
<1>. DEFINE a == Len(c)
            b == Len(d)
            f == c \o <<x>>
            g == f \o d
            h == g \o <<y>>
<1>1. /\ f \in Seq(S) /\ a \in Nat /\ Len(f) = a + 1 /\ f[a + 1] = x
      /\ \A i \in 1 .. a : f[i] = c[i]
  BY OneMore
<1>. HIDE DEF f
<1>2. /\ g \in Seq(S) /\ b \in Nat /\ Len(g) = Len(f) + b
      /\ \A i \in 1 .. Len(f) : g[i] = f[i]
      /\ \A i \in 1 .. b : g[i + Len(f)] = d[i]
  <2>1. f \in Seq(S)
    BY <1>1
  <2>. QED  BY <2>1, Joined
<1>. HIDE DEF g
<1>3. /\ h \in Seq(S) /\ Len(h) = Len(g) + 1 /\ h[Len(g) + 1] = y
      /\ \A i \in 1 .. Len(g) : h[i] = g[i]
  BY <1>2, OneMore
<1>. HIDE DEF h, a, b
<1>4. Len(f) = a + 1 /\ Len(g) = (a + 1) + b /\ Len(h) = a + b + 2 /\ Len(g) + 1 = a + b + 2
  BY <1>1, <1>2, <1>3
<1>5. h[a + 1] = x
  <2>1. a + 1 \in 1 .. Len(f) /\ a + 1 \in 1 .. Len(g)
    BY <1>1, <1>2, <1>4
  <2>. QED  BY <1>1, <1>2, <1>3, <2>1
<1>6. h[a + b + 2] = y
  BY <1>3, <1>4
<1>7. ASSUME NEW i \in 1 .. a  PROVE h[i] = c[i]
  <2>1. i \in 1 .. Len(f) /\ i \in 1 .. Len(g)
    BY <1>1, <1>2, <1>4
  <2>. QED  BY <1>1, <1>2, <1>3, <2>1
<1>8. ASSUME NEW i \in 1 .. b  PROVE h[i + (a + 1)] = d[i]
  <2>1. i + (a + 1) \in 1 .. Len(g)
    BY <1>1, <1>2, <1>4
  <2>2. g[i + Len(f)] = d[i]
    BY <1>2
  <2>. QED  BY <1>3, <1>4, <2>1, <2>2
<1>. QED  BY <1>1, <1>2, <1>3, <1>4, <1>5, <1>6, <1>7, <1>8 DEF a, b, f, g, h

\* One more element on top of a stack, another in its place, and none again.
LEMMA OnTop ==
  ASSUME NEW S, NEW A \in Seq(S), NEW x \in S, NEW y \in S
  PROVE  /\ Append(A, y) \in Seq(S) /\ Len(Append(A, y)) = Len(A) + 1 /\ Len(A) \in Nat
         /\ Len(Append(A, y)) > 0 /\ Append(A, y)[Len(Append(A, y))] = y
         /\ SubSeq(Append(A, y), 1, Len(Append(A, y)) - 1) = A
         /\ [Append(A, y) EXCEPT ![Len(Append(A, y))] = x] = Append(A, x)
         /\ \A i \in 1 .. Len(A) : Append(A, y)[i] = A[i]
<1>. DEFINE B == Append(A, y)
            C == Append(A, x)
            D == [B EXCEPT ![Len(B)] = x]
            E == SubSeq(B, 1, Len(B) - 1)
<1>1. /\ B \in Seq(S) /\ Len(B) = Len(A) + 1 /\ Len(A) \in Nat /\ B[Len(A) + 1] = y
      /\ \A i \in 1 .. Len(A) : B[i] = A[i]
  BY AppendProperties, LenProperties
<1>2. /\ C \in Seq(S) /\ Len(C) = Len(A) + 1 /\ C[Len(A) + 1] = x
      /\ \A i \in 1 .. Len(A) : C[i] = A[i]
  BY AppendProperties
<1>. HIDE DEF B, C
<1>3. Len(B) \in 1 .. Len(B) /\ Len(B) > 0 /\ Len(B) - 1 = Len(A)
  BY <1>1
<1>4. /\ D \in Seq(S) /\ Len(D) = Len(B)
      /\ \A j \in 1 .. Len(B) : D[j] = IF j = Len(B) THEN x ELSE B[j]
  BY <1>1, <1>3, ExceptSeq
<1>. HIDE DEF D
<1>5. D = C
  <2>1. ASSUME NEW j \in 1 .. Len(D)  PROVE D[j] = C[j]
    <3>1. CASE j = Len(B)
      BY <1>1, <1>2, <1>4, <2>1, <3>1
    <3>2. CASE j # Len(B)
      <4>1. j \in 1 .. Len(A) /\ j \in 1 .. Len(B)
        BY <1>1, <1>4, <3>2
      <4>. QED  BY <1>1, <1>2, <1>4, <3>2, <4>1
    <3>. QED  BY <3>1, <3>2
  <2>. QED  BY <1>1, <1>2, <1>4, <2>1, SeqEqual
<1>6. E = A
  <2>1. E = SubSeq(B, 1, Len(A))
    BY <1>3
  <2>. HIDE DEF E
  <2>2. \A i \in 1 .. Len(A) : B[i] \in S
    BY <1>1, ElementOfSeq
  <2>3. /\ E \in Seq(S) /\ Len(E) = (IF 1 <= Len(A) THEN Len(A) - 1 + 1 ELSE 0)
        /\ \A i \in 1 .. Len(A) - 1 + 1 : E[i] = B[1 + i - 1]
    BY <1>1, <2>1, <2>2, SubSeqProperties
  <2>4. Len(E) = Len(A) /\ \A i \in 1 .. Len(A) : E[i] = A[i]
    BY <1>1, <2>3
  <2>. QED  BY <2>3, <2>4, SeqEqual
<1>7. D = [B EXCEPT ![Len(B)] = x] /\ E = SubSeq(B, 1, Len(B) - 1)
  BY DEF D
<1>8. B[Len(B)] = y
  BY <1>1
<1>. HIDE DEF E
<1>9. [B EXCEPT ![Len(B)] = x] = C /\ SubSeq(B, 1, Len(B) - 1) = A
  BY <1>5, <1>6, <1>7
<1>. QED  BY <1>1, <1>3, <1>8, <1>9 DEF B, C
=============================================================================
