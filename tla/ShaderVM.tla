------------------------------ MODULE ShaderVM ------------------------------
(***************************************************************************)
(* The control state of the shader virtual machine (CqShaderVM with the    *)
(* execution environment CqShaderExecEnv): one instruction stream drives   *)
(* all the points of a grid, and masks say which points take part.  The    *)
(* values on the machine's stack are not modelled: what a condition, a     *)
(* light cone or a ray says of the running points is the set `yes` that    *)
(* an instruction is given.                                                *)
(***************************************************************************)
EXTENDS Integers, Sequences, FiniteSets

CONSTANTS
  Points,    \* the shading points of the grid
  Lights,    \* how many lights that are not ambient the surface has
  Programs,  \* the compiled programs: sequences of instructions
  UintLimit  \* one more than the largest TqUint

VARIABLES
  code,      \* the program being run
  pc,        \* m_PO, counted in instructions from 1
  running,   \* m_RunningState (m_isRunning is running # {})
  current,   \* m_CurrentState
  stack,     \* m_stkState, the innermost level last
  li,        \* m_li, the light of the illuminance loop
  lit,       \* m_Illuminate > 0
  rays       \* m_gatherSample

vars == <<code, pc, running, current, stack, li, lit, rays>>

Ops == {"do", "choice", "diffuse", "S_CLEAR", "S_GET", "S_JZ", "RS_PUSH", "RS_POP",
        "RS_GET", "RS_INVERSE", "RS_JZ", "RS_BREAK", "jmp", "init_illuminance",
        "illuminance", "advance_illuminance", "illuminate", "solar", "init_gather",
        "gather", "advance_gather"}

\* The argument of a jump is a distance; of RS_BREAK and init_gather, a count;
\* of the others, the number of the statement the instruction comes from.
Instruction == [op : Ops, arg : Int]

-----------------------------------------------------------------------------
(* Which code keeps the masks in order: a data-flow analysis in the manner  *)
(* of a byte code verifier.  depth is the height of the stack of masks;     *)
(* inside says that the current state lies within the running state, below  *)
(* that it lies within the mask on top of the stack.                        *)

Fact == [depth : Nat, inside : BOOLEAN, below : BOOLEAN]

JumpOps == {"S_JZ", "RS_JZ", "jmp", "init_illuminance", "advance_illuminance",
            "advance_gather"}

\* Where control may go from the instruction at address i.
Successors(c, i) ==
  (IF c[i].op \in JumpOps THEN {i + c[i].arg} ELSE {})
    \cup (IF c[i].op = "jmp" THEN {} ELSE {i + 1})

\* What holds after an instruction when f holds before it.
After(in, f) ==
  CASE in.op \in {"S_CLEAR", "choice", "gather"} -> [f EXCEPT !.inside = TRUE, !.below = TRUE]
    [] in.op = "RS_PUSH" -> [f EXCEPT !.depth = @ + 1, !.below = f.inside]
    [] in.op = "RS_POP" -> [f EXCEPT !.depth = @ - 1, !.inside = f.below]
    [] in.op = "RS_INVERSE" -> [f EXCEPT !.inside = FALSE]
    [] in.op = "RS_BREAK" -> [f EXCEPT !.inside = FALSE, !.below = FALSE]
    [] OTHER -> f

\* Everything the forward edges into an address agree on; S_CLEAR needs nothing.
Facts(c) ==
  LET f[i \in 1..(Len(c) + 1)] ==
        LET from == IF i = 1 THEN {[depth |-> 0, inside |-> TRUE, below |-> TRUE]}
                    ELSE {After(c[j], f[j]) :
                            j \in {k \in 1..(i - 1) : i \in Successors(c, k)}}
            any  == CHOOSE x \in from : TRUE
            kept == i \notin DOMAIN c \/ c[i].op # "S_CLEAR"
        IN  [depth  |-> any.depth,
             inside |-> kept /\ \A x \in from : x.inside,
             below  |-> kept /\ \A x \in from : x.below]
  IN  f

Implies(f, g) == f.depth = g.depth /\ (g.inside => f.inside) /\ (g.below => f.below)

Disciplined(c) ==
  LET f == Facts(c)
  IN  /\ \A i \in 1..(Len(c) + 1) : f[i] \in Fact
      /\ f[1] = [depth |-> 0, inside |-> f[1].inside, below |-> f[1].below]
      /\ f[Len(c) + 1].depth = 0
      /\ \A i \in 1..Len(c) :
           /\ \A j \in Successors(c, i) :
                j \in 1..(Len(c) + 1) /\ Implies(After(c[i], f[i]), f[j])
           /\ c[i].op = "RS_POP" => f[i].depth > 0
           /\ c[i].op = "RS_BREAK" => c[i].arg \in 0..(f[i].depth - 1)
           /\ c[i].op = "RS_GET" => f[i].inside
           /\ c[i].op \in {"RS_GET", "RS_INVERSE"} => f[i].depth > 0
           /\ c[i].op = "init_gather" => c[i].arg \in 0..(UintLimit - 1)

ASSUME PointsFinite == IsFiniteSet(Points)
ASSUME LightsNat == Lights \in Nat
ASSUME UintLimitNat == UintLimit \in Nat \ {0}
ASSUME ProgramsType == Programs \subseteq Seq(Instruction)
ASSUME ProgramsDisciplined == \A c \in Programs : Disciplined(c)

-----------------------------------------------------------------------------
Top == IF stack = <<>> THEN Points ELSE stack[Len(stack)]

At(op) == pc \in DOMAIN code /\ code[pc].op = op
Arg == code[pc].arg
Continue == pc' = pc + 1
Jump == pc' = pc + Arg

\* CqShaderExecEnv::Initialise: SetSize leaves the current state as it was.
Init ==
  /\ code \in Programs /\ pc = 1
  /\ running = Points /\ current \in SUBSET Points /\ stack = <<>>
  /\ li = 0 /\ lit = FALSE /\ rays = 0

-----------------------------------------------------------------------------
(* The instructions.                                                        *)

\* A statement on varying variables, which the running points take part in.
Do == At("do") /\ Continue /\ UNCHANGED <<code, running, current, stack, li, lit, rays>>

\* An expression with a conditional expression in it, as seen from outside:
\* it leaves behind the current state its own S_GET has set.
Choice(yes) ==
  /\ At("choice") /\ Continue
  /\ current' = yes
  /\ UNCHANGED <<code, running, stack, li, lit, rays>>

\* diffuse() and its like go through the lights themselves; the current state
\* keeps what SO_illuminance set last.
Diffuse(yes) ==
  /\ At("diffuse") /\ Continue
  /\ current' = IF Lights > 0 THEN (current \ running) \cup yes ELSE current
  /\ li' = IF running = {} THEN li ELSE Lights
  /\ UNCHANGED <<code, running, stack, lit, rays>>

ClearCurrentState ==
  /\ At("S_CLEAR") /\ Continue
  /\ current' = {}
  /\ UNCHANGED <<code, running, stack, li, lit, rays>>

\* Pops the condition and copies it where the points are running.
SetCurrentState(yes) ==
  /\ At("S_GET") /\ Continue
  /\ current' = (current \ running) \cup yes
  /\ UNCHANGED <<code, running, stack, li, lit, rays>>

PushState ==
  /\ At("RS_PUSH") /\ Continue
  /\ stack' = Append(stack, running)
  /\ UNCHANGED <<code, running, current, li, lit, rays>>

PopState ==
  /\ At("RS_POP") /\ Continue
  /\ running' = Top
  /\ stack' = SubSeq(stack, 1, Len(stack) - 1)
  /\ UNCHANGED <<code, current, li, lit, rays>>

GetCurrentState ==
  /\ At("RS_GET") /\ Continue
  /\ running' = current
  /\ UNCHANGED <<code, current, stack, li, lit, rays>>

\* Mutant: the enclosing mask is not asked.
InvertRunningState_All ==
  /\ At("RS_INVERSE") /\ Continue
  /\ running' = Points \ running
  /\ UNCHANGED <<code, current, stack, li, lit, rays>>

InvertRunningState ==
  /\ At("RS_INVERSE") /\ Continue
  /\ running' = (Points \ running) \cap Top
  /\ UNCHANGED <<code, current, stack, li, lit, rays>>

\* Mutant: one level too many.
RunningStatesBreak_OneMore ==
  /\ At("RS_BREAK") /\ Continue
  /\ stack' = [i \in DOMAIN stack |->
                 IF i >= Len(stack) - Arg THEN stack[i] \ running ELSE stack[i]]
  /\ running' = {}
  /\ UNCHANGED <<code, current, li, lit, rays>>

\* break and continue: the running points leave as many levels of the stack.
RunningStatesBreak ==
  /\ At("RS_BREAK") /\ Continue
  /\ stack' = [i \in DOMAIN stack |->
                 IF i > Len(stack) - Arg THEN stack[i] \ running ELSE stack[i]]
  /\ running' = {}
  /\ UNCHANGED <<code, current, li, lit, rays>>

JumpIfIdle ==
  /\ At("RS_JZ")
  /\ IF running = {} THEN Jump ELSE Continue
  /\ UNCHANGED <<code, running, current, stack, li, lit, rays>>

JumpIfNone ==
  /\ At("S_JZ")
  /\ IF current = {} THEN Jump ELSE Continue
  /\ UNCHANGED <<code, running, current, stack, li, lit, rays>>

JumpAlways == At("jmp") /\ Jump /\ UNCHANGED <<code, running, current, stack, li, lit, rays>>

\* init_illuminance with the jz that follows it: where no point is running the
\* first does nothing, and the second finds no running point that says yes.
InitIlluminance ==
  /\ At("init_illuminance")
  /\ li' = IF running = {} THEN li ELSE 0
  /\ IF running # {} /\ Lights > 0 THEN Continue ELSE Jump
  /\ UNCHANGED <<code, running, current, stack, lit, rays>>

\* The points in the light's cone.  A light of another category sets nothing.
Illuminance(yes) ==
  /\ At("illuminance") /\ Continue
  /\ \/ current' = (current \ running) \cup yes
     \/ yes = {} /\ current' = current
  /\ UNCHANGED <<code, running, stack, li, lit, rays>>

\* advance_illuminance with the jnz that follows it: where no point is running
\* the first does nothing, and the second finds no running point that says no.
AdvanceIlluminance ==
  /\ At("advance_illuminance")
  /\ li' = IF running = {} THEN li ELSE li + 1
  /\ IF running = {} \/ li' < Lights THEN Jump ELSE Continue
  /\ UNCHANGED <<code, running, current, stack, lit, rays>>

\* Mutant: lights every time.
Illuminate_EachTime(yes) ==
  /\ At("illuminate") /\ Continue
  /\ current' = (current \ running) \cup yes
  /\ lit' = (lit \/ running # {})
  /\ UNCHANGED <<code, running, stack, li, rays>>

\* The first time sets the points in the cone, any other time nothing.
Illuminate(yes) ==
  /\ At("illuminate") /\ Continue
  /\ current' = IF lit THEN current ELSE (current \ running) \cup yes
  /\ lit' = (lit \/ running # {})
  /\ UNCHANGED <<code, running, stack, li, rays>>

\* solar without a cone, which alone does not ask whether any point is running.
Solar ==
  /\ At("solar") /\ Continue
  /\ current' = IF lit THEN current ELSE current \cup running
  /\ lit' = TRUE
  /\ UNCHANGED <<code, running, stack, li, rays>>

InitGather ==
  /\ At("init_gather") /\ Continue
  /\ rays' = IF running = {} THEN rays ELSE Arg
  /\ UNCHANGED <<code, running, current, stack, li, lit>>

\* No ray is ever traced: every point misses.
Gather ==
  /\ At("gather") /\ Continue
  /\ current' = {}
  /\ UNCHANGED <<code, running, stack, li, lit, rays>>

\* Mutant: one ray too many.
AdvanceGather_OneMore ==
  /\ At("advance_gather")
  /\ rays' = IF running = {} THEN rays ELSE rays - 1
  /\ IF running = {} \/ rays' >= 0 THEN Jump ELSE Continue
  /\ UNCHANGED <<code, running, current, stack, li, lit>>

\* advance_gather, an unsigned count, with its jnz.
AdvanceGather ==
  /\ At("advance_gather")
  /\ rays' = IF running = {} THEN rays ELSE (rays - 1) % UintLimit
  /\ IF running = {} \/ rays' > 0 THEN Jump ELSE Continue
  /\ UNCHANGED <<code, running, current, stack, li, lit>>

Step(yes) ==
  \/ Do \/ Choice(yes) \/ Diffuse(yes) \/ ClearCurrentState \/ SetCurrentState(yes)
  \/ PushState \/ PopState \/ GetCurrentState \/ InvertRunningState \/ RunningStatesBreak
  \/ JumpIfIdle \/ JumpIfNone \/ JumpAlways
  \/ InitIlluminance \/ Illuminance(yes) \/ AdvanceIlluminance
  \/ Illuminate(yes) \/ Solar \/ InitGather \/ Gather \/ AdvanceGather

Next == \E yes \in SUBSET running : Step(yes)

\* Execute runs to the end of the program without waiting for anything.
Spec == Init /\ [][Next]_vars /\ WF_vars(Next)

-----------------------------------------------------------------------------
TypeOK ==
  /\ code \in Programs /\ pc \in 1..(Len(code) + 1)
  /\ running \subseteq Points /\ current \subseteq Points
  /\ stack \in Seq(SUBSET Points)
  /\ li \in Nat /\ lit \in BOOLEAN /\ rays \in 0..(UintLimit - 1)

\* Masks only narrow towards the top of the stack and the running state is the
\* narrowest: no branch or loop wakes a point that an enclosing one has put
\* aside (SO_RS_GET copies the current state without looking at the stack).
MasksNest ==
  /\ running \subseteq Top
  /\ \A i \in 2..Len(stack) : stack[i] \subseteq stack[i - 1]

\* RS_POP and RS_BREAK find the levels they need (PopState calls back() of a
\* vector unchecked, the assertion in RunningStatesBreak allows one too many),
\* and the stack is empty again when the program ends, for the next shader.
WithinStack ==
  /\ At("RS_POP") => stack # <<>>
  /\ At("RS_BREAK") => Arg \in 0..Len(stack)
  /\ pc = Len(code) + 1 => stack = <<>> /\ running = Points

(* The analysis is right about the machine; the inductive invariant. *)
Tracked ==
  LET f == Facts(code)[pc]
  IN  /\ Len(stack) = f.depth
      /\ f.inside => current \subseteq running
      /\ f.below => current \subseteq Top
      /\ IF stack = <<>> THEN running = Points ELSE stack[1] = Points

IInv == TypeOK /\ MasksNest /\ Tracked
=============================================================================
