----------------------------- MODULE MaskNotes -----------------------------
(***************************************************************************)
(* Notes on compiled code, one for every address: what the points that are *)
(* running there have left to do in the source, and what those have that   *)
(* each level of the stack of masks keeps for later.  The proofs show that *)
(* the code of any shader can be given notes that fit it (Passage), and    *)
(* that the machine keeps to notes that do (Says).                         *)
(***************************************************************************)
EXTENDS Shading

Item == Scalar!Item
Settle == Scalar!Settle
Leave == Scalar!Leave
Advance(rest, yes) == Scalar!Advance(rest, yes)
Statements == Scalar!Statements
Ids(stmts) == Scalar!Ids(stmts)
Shines(stmts) == Scalar!Shines(stmts)
UsesLights(stmts) == Scalar!UsesLights(stmts)
UsesRays(stmts) == Scalar!UsesRays(stmts)
As(k, s) == Scalar!As(k, s)
IsLight(s) == s.k \in {"illuminate", "solar"}

-----------------------------------------------------------------------------
(* What a point has left depends on the counters of the machine where it is *)
(* in a loop over the lights or the rays: a rest gives it for each state of *)
(* the counters in which a point can have it.                               *)

Counters == [l : Nat, r : Nat, b : BOOLEAN]
Now == [l |-> li, r |-> rays, b |-> lit]

Rests == UNION {[C -> Seq(Item)] : C \in SUBSET Counters}

Owes(p, x) == Now \in DOMAIN x /\ todo[p] = Settle[x[Now]]

\* Who owes x owes y.
Leads(x, y) == DOMAIN x \subseteq DOMAIN y /\ \A c \in DOMAIN x : Settle[y[c]] = Settle[x[c]]

\* The same when the counters change as f says.
Goes(x, y, f) ==
  \A c \in DOMAIN x \cap DOMAIN f : f[c] \in DOMAIN y /\ Settle[y[f[c]]] = Settle[x[c]]

\* Who owes x comes to a statement with this number next, and when it is done
\* with that answer owes y.
Does(x, y, f, kinds, id, yes) ==
  \A c \in DOMAIN x \cap DOMAIN f :
    LET rest == Settle[x[c]]
    IN  /\ rest # <<>> /\ Head(rest).k \in kinds /\ Head(rest).id = id
        /\ f[c] \in DOMAIN y /\ Settle[y[f[c]]] = Advance(rest, yes)

\* Who owes x does not come to a statement with one of these numbers next.
Avoids(x, ids) ==
  \A c \in DOMAIN x : Settle[x[c]] # <<>> => Head(Settle[x[c]]).id \notin ids

\* What the instructions do to the counters.
Same == [c \in Counters |-> c]
Lamp(l) == [c \in Counters |-> [c EXCEPT !.l = l]]
Ray(r) == [c \in Counters |-> [c EXCEPT !.r = r]]
Light == [c \in {e \in Counters : ~e.b} |-> [c EXCEPT !.b = TRUE]]
NextLamp == [c \in {e \in Counters : e.l + 1 < Lights} |-> [c EXCEPT !.l = @ + 1]]
LastLamp == [c \in {e \in Counters : e.l + 1 >= Lights} |-> [c EXCEPT !.l = @ + 1]]
NextRay == [c \in {e \in Counters : e.r > 1} |-> [c EXCEPT !.r = @ - 1]]
LastRay == [c \in {e \in Counters : e.r = 1} |-> [c EXCEPT !.r = 0]]

-----------------------------------------------------------------------------
(* A note: what the running points have left that are in the current state  *)
(* (run) and that are not (not), what those have that are aside at each     *)
(* level, and whether the current state is empty.                           *)

Notes == [run : Rests, not : Rests, aside : Seq(Rests), clear : BOOLEAN]
Note(run, not, aside, clear) == [run |-> run, not |-> not, aside |-> aside, clear |-> clear]
Plain(x, aside) == Note(x, x, aside, FALSE)

Yields(n, m) ==
  /\ Leads(n.run, m.run) /\ Leads(n.not, m.not) /\ (m.clear => n.clear)
  /\ Len(n.aside) = Len(m.aside) /\ \A d \in 1 .. Len(n.aside) : Leads(n.aside[d], m.aside[d])

\* Those aside owe the same when the counters change as f says.
Waits(aside, f) == \A d \in 1 .. Len(aside) : Goes(aside[d], aside[d], f)
Away(n, id) == \A d \in 1 .. Len(n.aside) : Avoids(n.aside[d], {id})

\* Where n holds before the instruction, m holds after it and t where it jumps to.
Fine(in, n, m, t) ==
  LET D == Len(n.aside)
      whole == n.run = n.not
  IN  CASE in.op = "do" ->
             /\ whole /\ Away(n, in.arg) /\ m = Plain(m.run, n.aside)
             /\ Does(n.run, m.run, Same, {"do"}, in.arg, FALSE)
        [] in.op = "choice" -> whole /\ m = Plain(n.run, n.aside)
        [] in.op = "diffuse" ->
             /\ whole /\ m = Plain(n.run, n.aside)
             /\ Goes(n.run, n.run, Lamp(Lights)) /\ Waits(n.aside, Lamp(Lights))
        [] in.op = "S_CLEAR" -> whole /\ m = Note(n.run, n.run, n.aside, TRUE)
        [] in.op = "S_GET" ->
             /\ whole /\ Away(n, in.arg) /\ m = Note(m.run, m.not, n.aside, FALSE)
             /\ Does(n.run, m.run, Same, {"if", "pick", "while"}, in.arg, TRUE)
             /\ Does(n.run, m.not, Same, {"if", "pick", "while"}, in.arg, FALSE)
        [] in.op = "S_JZ" ->
             m = Note(n.run, n.not, n.aside, FALSE) /\ t = Plain(n.not, n.aside)
        [] in.op = "RS_PUSH" ->
             /\ Len(m.aside) = D + 1
             /\ m = Note(n.run, n.not, Append(n.aside, m.aside[D + 1]), FALSE)
        [] in.op = "RS_POP" ->
             /\ D > 0 /\ whole /\ n.aside[D] = n.run
             /\ m = Plain(n.run, SubSeq(n.aside, 1, D - 1))
        [] in.op = "RS_GET" -> D > 0 /\ n.aside[D] = n.not /\ m = Plain(n.run, n.aside)
        [] in.op = "RS_INVERSE" ->
             D > 0 /\ whole /\ m = Plain(n.aside[D], [n.aside EXCEPT ![D] = n.run])
        [] in.op = "RS_JZ" ->
             whole /\ m = Plain(n.run, n.aside) /\ t = Plain(t.run, n.aside)
        [] in.op = "RS_BREAK" ->
             /\ whole /\ in.arg \in 0 .. D - 1 /\ Leads(n.run, n.aside[D - in.arg])
             /\ m = Plain(m.run, n.aside)
        [] in.op = "jmp" -> whole /\ t = Plain(n.run, n.aside)
        [] in.op = "init_illuminance" ->
             /\ whole /\ m = Plain(m.run, n.aside) /\ t = Plain(t.run, n.aside)
             /\ Waits(n.aside, Lamp(0))
             /\ IF Lights > 0 THEN Goes(n.run, m.run, Lamp(0)) ELSE Goes(n.run, t.run, Lamp(0))
        [] in.op = "illuminance" ->
             /\ whole /\ n.clear /\ Away(n, in.arg) /\ m = Note(m.run, m.not, n.aside, FALSE)
             /\ Does(n.run, m.run, Same, {"illuminance"}, in.arg, TRUE)
             /\ Does(n.run, m.not, Same, {"illuminance"}, in.arg, FALSE)
        [] in.op = "advance_illuminance" ->
             /\ whole /\ m = Plain(m.run, n.aside) /\ t = Plain(t.run, n.aside)
             /\ Waits(n.aside, NextLamp) /\ Waits(n.aside, LastLamp)
             /\ Goes(n.run, t.run, NextLamp) /\ Goes(n.run, m.run, LastLamp)
        [] in.op \in {"illuminate", "solar"} ->
             /\ whole /\ n.clear /\ Away(n, in.arg) /\ m = Note(m.run, m.not, n.aside, FALSE)
             /\ Waits(n.aside, Light)
             /\ Does(n.run, m.run, Light, {in.op}, in.arg, TRUE)
             /\ Does(n.run, m.not, Light, {in.op}, in.arg, FALSE)
             /\ \A c \in DOMAIN n.run : c.b =>
                  c \in DOMAIN m.not /\ Settle[m.not[c]] = Settle[n.run[c]]
        [] in.op = "init_gather" ->
             /\ whole /\ m = Plain(m.run, n.aside)
             /\ Waits(n.aside, Ray(in.arg)) /\ Goes(n.run, m.run, Ray(in.arg))
        [] in.op = "gather" ->
             /\ whole /\ Away(n, in.arg) /\ m = Note(m.run, m.not, n.aside, FALSE)
             /\ Does(n.run, m.not, Same, {"gather"}, in.arg, FALSE)
        [] in.op = "advance_gather" ->
             /\ whole /\ m = Plain(m.run, n.aside) /\ t = Plain(t.run, n.aside)
             /\ \A c \in DOMAIN n.run : c.r > 0
             /\ Waits(n.aside, NextRay) /\ Waits(n.aside, LastRay)
             /\ Goes(n.run, t.run, NextRay) /\ Goes(n.run, m.run, LastRay)

\* The notes N fit the instruction at address i.
FineAt(c, N, i) ==
  LET to == IF c[i].op \in JumpOps THEN i + c[i].arg ELSE i + 1
  IN  /\ to \in 1 .. Len(c) + 1
      /\ \E m, t \in Notes : /\ Fine(c[i], N[i], m, t)
                             /\ c[i].op # "jmp" => Yields(m, N[i + 1])
                             /\ c[i].op \in JumpOps => Yields(t, N[to])

\* The code c leads from what n notes to what m notes.
Passage(c, n, m) ==
  \E N \in [1 .. Len(c) + 1 -> Notes] :
    /\ Yields(n, N[1]) /\ Yields(N[Len(c) + 1], m)
    /\ \A i \in 1 .. Len(c) : FineAt(c, N, i)

\* The points keep to what is noted.
Says(n) ==
  /\ Len(n.aside) = Len(stack)
  /\ n.clear => current = {}
  /\ \A p \in running : Owes(p, IF p \in current THEN n.run ELSE n.not)
  /\ \A d \in 1 .. Len(stack) : \A p \in stack[d] :
       p \notin (IF d = Len(stack) THEN running ELSE stack[d + 1]) => Owes(p, n.aside[d])

Nothing == [c \in Counters |-> <<>>]
Noted ==
  \E N \in [1 .. Len(code) + 1 -> Notes] :
    /\ Yields(N[Len(code) + 1], Plain(Nothing, <<>>))
    /\ \A i \in 1 .. Len(code) : FineAt(code, N, i)
    /\ Says(N[pc])

-----------------------------------------------------------------------------
(* What points have left around a piece of code. *)

\* What is owed in front of the list L by points that owe x behind it: a light statement
\* can only be reached while m_Illuminate is not set.
Entry(L, x) == [c \in {e \in DOMAIN x : Shines(L) => ~e.b} |-> L \o x[c]]
\* ... in front of a loop under kind k: at its test, or where continue goes on.
Front(s, k, x) == [c \in DOMAIN x |-> <<As(k, s)>> \o x[c]]
\* ... in front of a light statement: nothing more once m_Illuminate is set.
Once(s, x) == [c \in DOMAIN x |-> IF c.b THEN x[c] ELSE <<s>> \o x[c]]
\* ... behind a light statement that has been carried out.
LitOnly(x) == [c \in {e \in DOMAIN x : e.b} |-> x[c]]
\* ... at light li + i of a loop over the lights, and with i rays of the rest done.
LightAt(s, i, x) ==
  [c \in {e \in DOMAIN x : e.l < Lights} |-> <<[s EXCEPT !.n = c.l + i]>> \o x[c]]
RayAt(s, i, x) == [c \in {e \in DOMAIN x : e.r > 0} |-> <<[s EXCEPT !.n = c.r - i]>> \o x[c]]

\* The points owe the same whatever the counter of the lights, that of the rays and
\* m_Illuminate become.
SteadyL(x) ==
  \A c \in DOMAIN x : \A l \in Nat : /\ [c EXCEPT !.l = l] \in DOMAIN x
                                     /\ x[[c EXCEPT !.l = l]] = x[c]
SteadyR(x) ==
  \A c \in DOMAIN x : \A r \in Nat : /\ [c EXCEPT !.r = r] \in DOMAIN x
                                     /\ x[[c EXCEPT !.r = r]] = x[c]
SteadyB(x) ==
  \A c \in DOMAIN x : [c EXCEPT !.b = TRUE] \in DOMAIN x /\ x[[c EXCEPT !.b = TRUE]] = x[c]

\* Points that owe x are never to come to a statement of L, and what L does to the
\* counters does not matter to them.
Fit(L, x) ==
  /\ Avoids(x, Ids(L))
  /\ UsesLights(L) => SteadyL(x)
  /\ UsesRays(L) => SteadyR(x)
  /\ Shines(L) => SteadyB(x)

\* Those who owe a owe what break out of n loops leads points that have x[c] behind
\* them to, and those who owe b what continue does.
Way(x, n, a, b, c) ==
  LET left == Leave[<<x[c], n>>]
  IN  /\ c \in DOMAIN a /\ Settle[a[c]] = Settle[SubSeq(left, 2, Len(left))]
      /\ c \in DOMAIN b /\ Settle[b[c]] = Settle[left]

\* Out of each number of loops a break or continue leads to the level that the
\* compiler's count gives.
Ways(K, A, depths, loops) ==
  \A n \in 1 .. loops :
    /\ Code!SumLast(depths, n) \in 1 .. Len(A) - 1
    /\ \A c \in DOMAIN K : Way(K, n, A[Len(A) - Code!SumLast(depths, n)],
                                A[Len(A) - Code!SumLast(depths, n) + 1], c)

\* Where a piece of code for L may stand: K is owed behind it, A by those aside.
Around(L, K, A, depths, loops) ==
  /\ loops <= Len(depths)
  /\ Fit(L, K) /\ \A d \in 1 .. Len(A) : Fit(L, A[d])
  /\ Ways(K, A, depths, loops)
=============================================================================
