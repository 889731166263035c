------------------------------ MODULE Shading ------------------------------
(***************************************************************************)
(* A compiled shader on the machine next to the points' own runs of its    *)
(* source: todo is a history variable that moves on for the points that    *)
(* are running whenever the machine does something they would notice.      *)
(***************************************************************************)
EXTENDS ShaderVM

CONSTANTS
  Sources,  \* the programs that Programs are compiled from
  Height    \* how deeply statements are nested in each statement of theirs

VARIABLE todo  \* what each point has left to do in the source

Code == INSTANCE ShaderCode
Scalar == INSTANCE ScalarShader

ASSUME StatementsAreTrees ==
  /\ Height \in [Scalar!Statements -> Nat]
  /\ Scalar!Statements \subseteq
       [k : Scalar!Kinds, id : Nat, n : Nat, args : Seq(Scalar!Expressions),
        body : Seq(Scalar!Statements), other : Seq(Scalar!Statements)]
  /\ \A s \in Scalar!Statements : \A t \in Scalar!Listed(s.body) \cup Scalar!Listed(s.other) :
       Height[t] < Height[s]
ASSUME SourcesAreShaders == \A source \in Sources : Scalar!IsShader(source)

shadingVars == <<vars, todo>>

\* The statements that an instruction carries out.
Kinds(op) ==
  CASE op = "S_GET" -> {"if", "pick", "while"}
    [] op \in {"illuminate", "solar"} -> IF lit THEN {} ELSE {op}
    [] op \in {"do", "illuminance", "gather"} -> {op}
    [] OTHER -> {}

\* The points that come to the statement of the machine's next instruction.
Expected ==
  {p \in Points : todo[p] # <<>> /\ Head(todo[p]).k \in Kinds(code[pc].op)
                                 /\ Head(todo[p]).id = Arg}

ShadingInit ==
  /\ \E source \in Sources :
       /\ todo = [p \in Points |-> Scalar!Settle[source]]
       /\ code = Code!Compile(source)
  /\ Init

\* Only what the instruction decides is left open.
Answers ==
  CASE code[pc].op \in {"S_GET", "choice", "diffuse", "illuminance", "illuminate"} ->
         SUBSET running
    [] code[pc].op = "solar" -> {running}
    [] OTHER -> {{}}

\* A running point that is not expected to do this has lost its way.
Follow(yes) ==
  todo' = IF Kinds(code[pc].op) = {} THEN todo
          ELSE [p \in Points |->
                  IF p \notin running THEN todo[p]
                  ELSE IF p \in Expected THEN Scalar!Advance(todo[p], p \in yes)
                  ELSE <<Scalar!Stmt("lost", 0, 0, <<>>, <<>>, <<>>)>>]

ShadingNext == pc \in DOMAIN code /\ \E yes \in Answers : Step(yes) /\ Follow(yes)

ShadingSpec == ShadingInit /\ [][ShadingNext]_shadingVars /\ WF_shadingVars(ShadingNext)

-----------------------------------------------------------------------------
\* Whatever the masks have been through, an instruction is carried out for
\* exactly the points whose own run has come to it: none that has broken out of
\* a loop, gone the other way at an if or lies outside a light's cone, and no
\* point is left behind; and when the program ends no point has anything to do.
Lockstep ==
  IF pc = Len(code) + 1 THEN \A p \in Points : todo[p] = <<>>
  ELSE Kinds(code[pc].op) # {} => running = Expected

\* The machine runs the program as every point would alone, and does not stop
\* or run in circles while a point still has something to do.
EachPointAlone == Scalar!Spec

\* "The running state is set to non-running to let the VM fall out of the
\* current loop scope" (ishaderexecenv.h:229): when break and continue have left
\* no point running, control comes out where points are running again.
FallsOut == running = {} ~> running # {}
=============================================================================
