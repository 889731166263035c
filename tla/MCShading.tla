----------------------------- MODULE MCShading -----------------------------
(* The programs that Shading runs for TLC: every way out of a branch in one  *)
(* or two loops, and the light statements among them.                       *)
EXTENDS Shading

\* Statements before it is known how deeply they nest.
Tree == INSTANCE ShaderProgram WITH Height <- <<>>

\* Ways to leave n loops, or none.
Exits(n, id) == {Tree!Break(i) : i \in 1..n} \cup {Tree!ContinueLoop(i) : i \in 1..n}
                                         \cup {Tree!Do(id)}

OneLoop ==
  {<<Tree!While(1, args, <<Tree!If(2, <<>>, <<x>>, other), Tree!Do(3)>>, inc), Tree!Do(4)>> :
     x \in Exits(1, 9),
     other \in {<<>>, <<Tree!Break(1)>>, <<Tree!ContinueLoop(1)>>},
     inc \in {<<>>, <<Tree!Do(5)>>}, args \in {<<>>, <<"choice">>, <<"diffuse">>}}

TwoLoops ==
  {<<Tree!While(1, <<>>,
       <<Tree!While(2, <<>>, <<Tree!If(3, <<>>, <<x>>, <<y>>), Tree!Do(4)>>, <<>>)>>,
       <<Tree!Do(6)>>)>> : x \in Exits(2, 9), y \in Exits(2, 10)}

Branches ==
  {<<Tree!If(1, args, <<Tree!Pick(2, <<Tree!Do(3)>>, <<Tree!Do(4)>>)>>,
             <<Tree!If(5, <<"diffuse">>, <<Tree!Do(6)>>, else)>>), Tree!Do(7)>> :
     args \in {<<>>, <<"choice">>}, else \in {<<>>, <<Tree!Do(8)>>}}

LightStatements ==
  {<<Tree!While(1, <<>>, <<Tree!ForLights(2, <<>>, <<Tree!If(3, <<>>, <<Tree!Do(5)>>, <<>>)>>),
                           Tree!If(6, args, <<x>>, <<>>)>>, <<>>)>> :
     args \in {<<>>, <<"diffuse">>}, x \in Exits(1, 9)}
  \cup
  {<<Tree!If(1, <<>>, <<light>>, <<>>), Tree!Do(2)>> :
     light \in {Tree!Shine(3, <<Tree!If(4, <<>>, <<Tree!Do(5)>>, <<>>)>>),
                Tree!Sun(3, <<Tree!Do(5)>>)}}
  \cup
  {<<Tree!While(1, <<>>, <<Tree!Rays(2, 2, <<Tree!Do(3)>>, miss), Tree!If(6, <<>>, <<x>>, <<>>)>>,
                <<>>)>> :
     miss \in {<<>>, <<Tree!Do(4)>>}, x \in Exits(1, 9)}

MCSources == OneLoop \cup TwoLoops \cup Branches \cup LightStatements

\* break from a loop over the lights, and rays shot after a break.
HangSources ==
  {<<Tree!While(1, <<>>, <<Tree!ForLights(2, <<>>, <<Tree!If(3, <<>>, <<Tree!Break(1)>>, <<>>)>>)>>,
                <<>>)>>,
   <<Tree!While(1, <<>>, <<Tree!If(3, <<>>, <<Tree!Break(1)>>, <<>>),
                           Tree!Rays(2, 1, <<>>, <<Tree!Do(4)>>)>>, <<>>)>>}

-----------------------------------------------------------------------------
\* The statements of the programs, and how deeply they nest.
RECURSIVE Nested(_)
Nested(stmts) ==
  UNION {{s} \cup Nested(s.body) \cup Nested(s.other) : s \in Tree!Listed(stmts)}

RECURSIVE Levels(_)
Levels(stmts) ==
  IF stmts = <<>> THEN 0
  ELSE LET s == Head(stmts)
           here == 1 + IF Levels(s.body) > Levels(s.other) THEN Levels(s.body) ELSE Levels(s.other)
       IN  IF here > Levels(Tail(stmts)) THEN here ELSE Levels(Tail(stmts))

MCStatements == UNION {Nested(source) : source \in MCSources \cup HangSources}
MCHeight == [s \in MCStatements |-> Levels(<<s>>)]

MCPrograms == {Code!Compile(source) : source \in MCSources}
HangPrograms == {Code!Compile(source) : source \in HangSources}
=============================================================================
