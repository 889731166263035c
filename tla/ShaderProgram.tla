--------------------------- MODULE ShaderProgram ---------------------------
(***************************************************************************)
(* Shader programs as the compiler's parse trees have them, reduced to     *)
(* control flow, and what a program means: what a single shading point     *)
(* does next when it runs the program alone.                               *)
(***************************************************************************)
EXTENDS Integers, Sequences

CONSTANTS
  Lights,  \* how many lights that are not ambient the surface has
  Height   \* how deeply statements are nested in each statement of the programs

Statements == DOMAIN Height

(* A statement has the fields k (its kind), id (its number), n (how many    *)
(* loops a break or continue leaves; which light or how many rays are next),*)
(* args (what its condition or its arguments contain: "choice" for a        *)
(* conditional expression, "diffuse" for a call of diffuse()), body and     *)
(* other.                                                                   *)
Stmt(k, id, n, args, body, other) ==
  [k |-> k, id |-> id, n |-> n, args |-> args, body |-> body, other |-> other]

Do(id) == Stmt("do", id, 0, <<>>, <<>>, <<>>)
If(id, args, then, else) == Stmt("if", id, 0, args, then, else)
Pick(id, then, else) == Stmt("pick", id, 0, <<>>, then, else)
While(id, args, body, inc) == Stmt("while", id, 0, args, body, inc)
Break(n) == Stmt("break", 0, n, <<>>, <<>>, <<>>)
ContinueLoop(n) == Stmt("continue", 0, n, <<>>, <<>>, <<>>)
ForLights(id, args, body) == Stmt("illuminance", id, 0, args, body, <<>>)
Shine(id, body) == Stmt("illuminate", id, 0, <<>>, body, <<>>)
Sun(id, body) == Stmt("solar", id, 0, <<>>, body, <<>>)
Rays(id, n, hit, miss) == Stmt("gather", id, n, <<>>, hit, miss)

Kinds == {"do", "if", "pick", "while", "break", "continue", "illuminance", "illuminate",
          "solar", "gather"}
Expressions == {"choice", "diffuse"}

-----------------------------------------------------------------------------
(* What a point has left to do is a sequence of statements.  "again" stands *)
(* behind the body of a loop: it marks where continue goes on and break     *)
(* stops.                                                                   *)

As(k, s) == [s EXCEPT !.k = k]

Item == [k : Kinds \cup {"again"}, id : Nat, n : Int, args : Seq(Expressions),
         body : Seq(Statements), other : Seq(Statements)]

\* What is left behind the n-th loop from inside, its "again" included.
Leave[rn \in Seq(Item) \X Int] ==
  LET rest == rn[1]
      n == rn[2]
  IN  IF rest = <<>> THEN <<>>
      ELSE IF Head(rest).k # "again" THEN Leave[<<Tail(rest), n>>]
      ELSE IF n = 1 THEN rest ELSE Leave[<<Tail(rest), n - 1>>]

\* Goes on to the next statement that the point does something in.  The
\* increment of a loop is an expression, in which there is always something.
Settle[rest \in Seq(Item)] ==
  IF rest = <<>> THEN <<>>
  ELSE LET s == Head(rest)
           tail == Tail(rest)
           left == Leave[<<tail, s.n>>]
       IN  CASE s.k = "again" -> s.other \o <<As("while", s)>> \o tail
             [] s.k = "break" -> Settle[SubSeq(left, 2, Len(left))]
             [] s.k = "continue" -> Settle[left]
             [] s.k = "illuminance" /\ s.n = Lights -> Settle[tail]
             [] s.k = "gather" /\ s.n = 0 -> Settle[tail]
             [] OTHER -> rest

\* What the point does next: a kind of statement and its number.
Event(rest) == <<Head(rest).k, Head(rest).id>>

\* What is left after the next statement, when its condition, cone or ray says yes.
Advance(rest, yes) ==
  LET s == Head(rest)
      tail == Tail(rest)
  IN  Settle[CASE s.k = "while" -> (IF yes THEN s.body \o <<As("again", s)>> ELSE <<>>) \o tail
               [] s.k = "illuminance" ->
                    (IF yes THEN s.body ELSE <<>>) \o <<[s EXCEPT !.n = @ + 1]>> \o tail
               [] s.k = "gather" ->
                    (IF yes THEN s.body ELSE s.other) \o <<[s EXCEPT !.n = @ - 1]>> \o tail
               [] OTHER -> (IF yes THEN s.body ELSE s.other) \o tail]

-----------------------------------------------------------------------------
(* Which programs a shader may be.                                          *)

Listed(stmts) == {stmts[i] : i \in DOMAIN stmts}

\* A statement and all the statements in it.
Inside[s \in Statements] == {s} \cup UNION {Inside[t] : t \in Listed(s.body) \cup Listed(s.other)}
Within(stmts) == UNION {Inside[s] : s \in Listed(stmts)}

\* The numbers of those in which a point does something.
Ids(stmts) == {t.id : t \in {u \in Within(stmts) : u.k \notin {"break", "continue"}}}

Shines(stmts) == \E t \in Within(stmts) : t.k \in {"illuminate", "solar"}
UsesLights(stmts) ==
  \E t \in Within(stmts) : t.k = "illuminance" \/ \E i \in DOMAIN t.args : t.args[i] = "diffuse"
UsesRays(stmts) == \E t \in Within(stmts) : t.k = "gather"

\* Statements have numbers of their own, and only one of them shines.
Apart(s, t) == Ids(s) \cap Ids(t) = {} /\ ~(Shines(s) /\ Shines(t))
AllApart(stmts) == \A i, j \in DOMAIN stmts : i # j => Apart(<<stmts[i]>>, <<stmts[j]>>)

\* The counters li and m_gatherSample and the flag m_Illuminate are one for
\* the machine: a loop over the lights or rays has no other inside, and a light
\* statement comes once.
Legal[sl \in Statements \X Nat] ==
  LET s == sl[1]
      loops == sl[2]  \* how many loops there are around the statement
      AllLegal(stmts, n) == AllApart(stmts) /\ \A i \in DOMAIN stmts : Legal[<<stmts[i], n>>]
  IN  /\ AllLegal(s.body, IF s.k = "while" THEN loops + 1 ELSE loops)
      /\ AllLegal(s.other, IF s.k = "while" THEN 0 ELSE loops)
      /\ Apart(s.body, s.other)
      /\ s.k \notin {"break", "continue"} => s.id \notin Ids(s.body) \cup Ids(s.other)
      /\ s.k \notin {"if", "while"} => s.args = <<>>
      /\ s.k \notin {"if", "pick", "while", "gather"} => s.other = <<>>
      /\ s.k \in {"do", "break", "continue"} => s.body = <<>>
      /\ s.k \notin {"do", "if", "pick"} => ~Shines(s.body) /\ ~Shines(s.other)
      /\ s.k = "while" => \A t \in Within(s.other) : t.k \in {"do", "pick"}
      /\ s.k \in {"break", "continue"} => s.n \in 1 .. loops
      /\ s.k \in {"illuminate", "solar", "illuminance"} => s.n = 0
      /\ s.k = "illuminance" => ~UsesLights(s.body)
      /\ s.k = "gather" => s.n > 0 /\ ~UsesRays(s.body) /\ ~UsesRays(s.other)

IsShader(source) ==
  /\ source \in Seq(Statements) /\ AllApart(source)
  /\ \A i \in DOMAIN source : Legal[<<source[i], 0>>]
=============================================================================
