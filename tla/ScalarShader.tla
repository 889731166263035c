---------------------------- MODULE ScalarShader ----------------------------
(***************************************************************************)
(* What a shader promises: every point of the grid runs the program as if  *)
(* it were alone, whatever its neighbours do, and the shader goes on while *)
(* any point has something left to do.                                     *)
(***************************************************************************)
EXTENDS ShaderProgram

CONSTANTS Points, Sources  \* the points; the programs, as sequences of statements

VARIABLE todo  \* what each point has left to do

Init == \E source \in Sources : todo = [p \in Points |-> Settle[source]]

\* Some points, all before the same statement, do it; yes are those for which
\* its condition holds.
Next ==
  \E together \in (SUBSET {p \in Points : todo[p] # <<>>}) \ {{}} :
    \E yes \in SUBSET together :
      /\ \A p, q \in together : Event(todo[p]) = Event(todo[q])
      /\ todo' = [p \in Points |->
                    IF p \in together THEN Advance(todo[p], p \in yes) ELSE todo[p]]

Spec == Init /\ [][Next]_todo /\ WF_todo(Next)
=============================================================================
