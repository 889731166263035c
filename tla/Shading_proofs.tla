--------------------------- MODULE Shading_proofs ---------------------------
(***************************************************************************)
(* Proofs about compiled shaders on the shader machine, for any points,    *)
(* lights and legal programs: the machine's types and stack, no branch or  *)
(* loop wakes points an enclosing one has put aside, and the code of every *)
(* legal program runs each point through just what the source says.        *)
(*                                                                         *)
(* The order is: the machine alone (IInv); the recursive functions of the  *)
(* source's meaning and of the compiler; notes on code and how passages    *)
(* are put together; the code of each kind of statement, by induction on   *)
(* how deeply statements nest; that it is Disciplined, in the same way;    *)
(* each instruction of the machine; and the theorems.                      *)
(***************************************************************************)
EXTENDS MaskNotes, SequenceTheorems, RecursiveFunctions, TLAPS

-----------------------------------------------------------------------------
(* The machine alone. *)

(* What the analysis knows along an edge of a program. *)
LEMMA Edge ==
  ASSUME TypeOK, pc \in DOMAIN code, NEW j \in Successors(code, pc)
  PROVE  /\ j \in 1..(Len(code) + 1)
         /\ Facts(code)[pc] \in Fact /\ Facts(code)[j] \in Fact
         /\ Implies(After(code[pc], Facts(code)[pc]), Facts(code)[j])
<1>1. code \in Seq(Instruction) /\ Disciplined(code)
  BY ProgramsType, ProgramsDisciplined DEF TypeOK
<1>2. DOMAIN code = 1..Len(code) /\ Len(code) \in Nat
  BY <1>1, LenProperties
<1>3. /\ \A i \in 1..(Len(code) + 1) : Facts(code)[i] \in Fact
      /\ \A i \in 1..Len(code) : \A k \in Successors(code, i) :
           k \in 1..(Len(code) + 1) /\ Implies(After(code[i], Facts(code)[i]), Facts(code)[k])
  BY <1>1 DEF Disciplined
<1>. QED  BY <1>2, <1>3

(* What the analysis demands of the instruction that comes next. *)
LEMMA Demands ==
  ASSUME TypeOK, pc \in DOMAIN code
  PROVE  /\ code[pc] \in Instruction
         /\ Facts(code)[pc] \in Fact
         /\ code[pc].op = "RS_POP" => Facts(code)[pc].depth > 0
         /\ code[pc].op = "RS_BREAK" => Arg \in 0..(Facts(code)[pc].depth - 1)
         /\ code[pc].op = "RS_GET" => Facts(code)[pc].inside
         /\ code[pc].op \in {"RS_GET", "RS_INVERSE"} => Facts(code)[pc].depth > 0
         /\ code[pc].op = "init_gather" => Arg \in 0..(UintLimit - 1)
<1>1. code \in Seq(Instruction) /\ Disciplined(code)
  BY ProgramsType, ProgramsDisciplined DEF TypeOK
<1>2. DOMAIN code = 1..Len(code) /\ Len(code) \in Nat /\ code[pc] \in Instruction
  BY <1>1, LenProperties, ElementOfSeq
<1>3. pc \in 1..Len(code) /\ pc \in 1..(Len(code) + 1)
  BY <1>2
<1>. QED  BY <1>1, <1>2, <1>3 DEF Disciplined, Arg

(* The stack as a function, and the mask on top of it. *)
LEMMA StackShape ==
  ASSUME TypeOK
  PROVE  /\ Len(stack) \in Nat /\ DOMAIN stack = 1..Len(stack)
         /\ \A i \in 1..Len(stack) : stack[i] \subseteq Points
         /\ stack = <<>> <=> Len(stack) = 0
         /\ stack # <<>> => Len(stack) \in 1..Len(stack) /\ 1 \in 1..Len(stack)
         /\ Top \subseteq Points
<1>1. stack \in Seq(SUBSET Points)
  BY DEF TypeOK
<1>2. Len(stack) \in Nat /\ DOMAIN stack = 1..Len(stack)
  BY <1>1, LenProperties
<1>3. \A i \in 1..Len(stack) : stack[i] \subseteq Points
  BY <1>1, <1>2, ElementOfSeq
<1>4. stack = <<>> <=> Len(stack) = 0
  BY <1>1, EmptySeq
<1>. QED  BY <1>2, <1>3, <1>4 DEF Top

(* Every instruction leaves for an address the analysis has an edge to. *)
LEMMA Flow ==
  ASSUME TypeOK, NEW yes \in SUBSET running, Step(yes)
  PROVE  pc \in DOMAIN code /\ code' = code /\ pc' \in Successors(code, pc)
<1>. USE DEF At, Continue, Jump, Arg, Successors, JumpOps
<1>1. CASE Do \/ Choice(yes) \/ Diffuse(yes) \/ ClearCurrentState \/ SetCurrentState(yes)
  BY <1>1 DEF Do, Choice, Diffuse, ClearCurrentState, SetCurrentState
<1>2. CASE PushState \/ PopState \/ GetCurrentState \/ InvertRunningState \/ RunningStatesBreak
  BY <1>2 DEF PushState, PopState, GetCurrentState, InvertRunningState, RunningStatesBreak
<1>3. CASE JumpIfIdle \/ JumpIfNone \/ JumpAlways
  BY <1>3 DEF JumpIfIdle, JumpIfNone, JumpAlways
<1>4. CASE InitIlluminance \/ Illuminance(yes) \/ AdvanceIlluminance
  BY <1>4 DEF InitIlluminance, Illuminance, AdvanceIlluminance
<1>5. CASE Illuminate(yes) \/ Solar \/ InitGather \/ Gather \/ AdvanceGather
  BY <1>5 DEF Illuminate, Solar, InitGather, Gather, AdvanceGather
<1>. QED  BY <1>1, <1>2, <1>3, <1>4, <1>5 DEF Step

(* An instruction that touches neither the stack nor the running state keeps *)
(* the order of the masks when it marks running points only.                 *)
LEMMA Quiet ==
  ASSUME IInv, pc \in DOMAIN code, code' = code, pc' \in Successors(code, pc),
         running' = running, stack' = stack,
         code[pc].op \notin {"RS_PUSH", "RS_POP", "RS_INVERSE", "RS_BREAK"},
         IF code[pc].op \in {"S_CLEAR", "choice", "gather"}
           THEN current' \subseteq running
           ELSE current' \subseteq current \cup running
  PROVE  MasksNest' /\ Tracked'
<1>. DEFINE f == Facts(code)[pc]
            g == Facts(code)[pc']
<1>1. f \in Fact /\ g \in Fact /\ Implies(After(code[pc], f), g)
  BY Edge DEF IInv
<1>2. Top' = Top /\ running \subseteq Top
  BY DEF Top, IInv, MasksNest
<1>3. MasksNest'
  BY <1>2 DEF IInv, MasksNest
<1>4. g.depth = f.depth
  BY <1>1 DEF After, Implies, Fact
<1>5. g.inside => current' \subseteq running
  BY <1>1 DEF After, Implies, Fact, IInv, Tracked
<1>6. g.below => current' \subseteq Top
  BY <1>1, <1>2 DEF After, Implies, Fact, IInv, Tracked
<1>. QED  BY <1>2, <1>3, <1>4, <1>5, <1>6 DEF Tracked, IInv

(* RS_PUSH. *)
LEMMA PushKeeps == IInv /\ PushState => MasksNest' /\ Tracked'
<1>. SUFFICES ASSUME IInv, PushState PROVE MasksNest' /\ Tracked'
  OBVIOUS
<1>. DEFINE f == Facts(code)[pc]
            g == Facts(code)[pc']
<1>1. f \in Fact /\ g \in Fact /\ Implies(After(code[pc], f), g) /\ code' = code
  <2>1. pc' \in Successors(code, pc) /\ pc \in DOMAIN code
    BY DEF PushState, At, Continue, Successors, JumpOps
  <2>. QED  BY <2>1, Edge DEF IInv, PushState
<1>2. /\ Len(stack') = Len(stack) + 1 /\ stack' # <<>>
      /\ \A i \in 1..Len(stack) : stack'[i] = stack[i]
      /\ stack'[Len(stack) + 1] = running
  BY AppendProperties DEF IInv, TypeOK, PushState
<1>3. Len(stack) \in Nat /\ (stack = <<>> <=> Len(stack) = 0)
      /\ (stack # <<>> => Len(stack) \in 1..Len(stack) /\ 1 \in 1..Len(stack))
  BY StackShape DEF IInv
<1>4. Top' = running
  BY <1>2 DEF Top
<1>5. \A i \in 2..Len(stack') : stack'[i] \subseteq stack'[i - 1]
  <2>. SUFFICES ASSUME NEW i \in 2..Len(stack') PROVE stack'[i] \subseteq stack'[i - 1]
    OBVIOUS
  <2>1. CASE i = Len(stack) + 1
    <3>1. stack # <<>> /\ Len(stack) \in 1..Len(stack) /\ i - 1 = Len(stack)
      BY <2>1, <1>2, <1>3
    <3>2. stack'[i - 1] = Top
      BY <3>1, <1>2 DEF Top
    <3>. QED  BY <2>1, <3>2, <1>2 DEF IInv, MasksNest
  <2>2. CASE i # Len(stack) + 1
    <3>1. i \in 2..Len(stack) /\ i \in 1..Len(stack) /\ i - 1 \in 1..Len(stack)
      BY <2>2, <1>2, <1>3
    <3>. QED  BY <3>1, <1>2 DEF IInv, MasksNest
  <2>. QED  BY <2>1, <2>2
<1>6. MasksNest'
  BY <1>4, <1>5 DEF MasksNest, PushState
<1>7. g.depth = f.depth + 1 /\ (g.inside => f.inside) /\ (g.below => f.inside)
  BY <1>1 DEF After, Implies, Fact, PushState, At
<1>8. stack'[1] = Points
  BY <1>2, <1>3 DEF IInv, Tracked
<1>. QED  BY <1>1, <1>2, <1>4, <1>6, <1>7, <1>8 DEF Tracked, IInv, PushState

(* RS_POP. *)
LEMMA PopKeeps == IInv /\ PopState => MasksNest' /\ Tracked' /\ stack' \in Seq(SUBSET Points)
<1>. SUFFICES ASSUME IInv, PopState
              PROVE  MasksNest' /\ Tracked' /\ stack' \in Seq(SUBSET Points)
  OBVIOUS
<1>. DEFINE f == Facts(code)[pc]
            g == Facts(code)[pc']
            n == Len(stack)
<1>0. pc \in DOMAIN code /\ code[pc].op = "RS_POP" /\ pc' \in Successors(code, pc)
  BY DEF PopState, At, Continue, Successors, JumpOps
<1>1. f \in Fact /\ g \in Fact /\ Implies(After(code[pc], f), g) /\ code' = code
      /\ f.depth > 0
  BY <1>0, Edge, Demands DEF IInv, PopState
<1>2. n \in Nat /\ n > 0 /\ stack # <<>> /\ (\A i \in 1..n : stack[i] \in SUBSET Points)
  BY <1>1, StackShape DEF IInv, Tracked, Fact
<1>a. n \in Nat /\ n > 0
  BY <1>2
<1>3. /\ stack' \in Seq(SUBSET Points)
      /\ Len(stack') = n - 1
      /\ \A i \in 1..(n - 1) : stack'[i] = stack[i]
  <2>1. stack' = SubSeq(stack, 1, n - 1)
    BY DEF PopState
  <2>2. \A i \in 1..(n - 1) : stack[i] \in SUBSET Points
    BY <1>2
  <2>3. 1 \in Int /\ n - 1 \in Int
    BY <1>2
  <2>4. /\ SubSeq(stack, 1, n - 1) \in Seq(SUBSET Points)
        /\ Len(SubSeq(stack, 1, n - 1)) = IF 1 <= n - 1 THEN (n - 1) - 1 + 1 ELSE 0
        /\ \A i \in 1..((n - 1) - 1 + 1) : SubSeq(stack, 1, n - 1)[i] = stack[1 + i - 1]
    BY <2>2, <2>3, SubSeqProperties
  <2>5. (IF 1 <= n - 1 THEN (n - 1) - 1 + 1 ELSE 0) = n - 1
    <3>. HIDE DEF n
    <3>. QED  BY <1>a
  <2>6. \A i \in 1..(n - 1) : i \in 1..((n - 1) - 1 + 1) /\ 1 + i - 1 = i
    <3>. HIDE DEF n
    <3>. QED  BY <1>a
  <2>. QED  BY <2>1, <2>4, <2>5, <2>6
<1>4. stack' = <<>> <=> n = 1
  BY <1>2, <1>3, EmptySeq
<1>5. running' = stack[n]
  BY <1>2 DEF PopState, Top
<1>6. running' \subseteq Top'
  <2>1. CASE n = 1
    BY <2>1, <1>2, <1>4, <1>5 DEF Top
  <2>2. CASE n # 1
    <3>1. n \in 2..n /\ n - 1 \in 1..(n - 1)
      <4>. HIDE DEF n
      <4>. QED  BY <2>2, <1>a
    <3>2. Top' = stack[n - 1]
      BY <3>1, <2>2, <1>3, <1>4 DEF Top
    <3>. QED  BY <3>1, <3>2, <1>5 DEF IInv, MasksNest
  <2>. QED  BY <2>1, <2>2
<1>7. MasksNest'
  <2>1. \A i \in 2..(n - 1) : stack'[i] \subseteq stack'[i - 1]
    <3>. SUFFICES ASSUME NEW i \in 2..(n - 1) PROVE stack'[i] \subseteq stack'[i - 1]
      OBVIOUS
    <3>1. i \in 2..n /\ i \in 1..(n - 1) /\ i - 1 \in 1..(n - 1)
      BY <1>2
    <3>. QED  BY <3>1, <1>3 DEF IInv, MasksNest
  <2>. QED  BY <2>1, <1>3, <1>6 DEF MasksNest
<1>8. g.depth = f.depth - 1 /\ (g.inside => f.below) /\ (g.below => f.below)
  BY <1>0, <1>1 DEF After, Implies, Fact
<1>9. f.below => current \subseteq running'
  BY <1>2, <1>5 DEF IInv, Tracked, Top
<1>10. IF stack' = <<>> THEN running' = Points ELSE stack'[1] = Points
  <2>1. n = 1 \/ 1 \in 1..(n - 1)
    <3>. HIDE DEF n
    <3>. QED  BY <1>a
  <2>. QED  BY <2>1, <1>2, <1>3, <1>4, <1>5 DEF IInv, Tracked
<1>11. current' = current
  BY DEF PopState
<1>12. Len(stack') = g.depth
  BY <1>3, <1>8 DEF IInv, Tracked
<1>. QED  BY <1>1, <1>3, <1>6, <1>7, <1>8, <1>9, <1>10, <1>11, <1>12 DEF Tracked

(* RS_GET. *)
LEMMA GetKeeps == IInv /\ GetCurrentState => MasksNest' /\ Tracked'
<1>. SUFFICES ASSUME IInv, GetCurrentState PROVE MasksNest' /\ Tracked'
  OBVIOUS
<1>. DEFINE f == Facts(code)[pc]
            g == Facts(code)[pc']
<1>0. pc \in DOMAIN code /\ code[pc].op = "RS_GET" /\ pc' \in Successors(code, pc)
  BY DEF GetCurrentState, At, Continue, Successors, JumpOps
<1>1. f \in Fact /\ g \in Fact /\ Implies(After(code[pc], f), g) /\ code' = code
      /\ f.inside /\ f.depth > 0
  BY <1>0, Edge, Demands DEF IInv, GetCurrentState
<1>2. current \subseteq running /\ running \subseteq Top /\ stack # <<>>
  BY <1>1, StackShape DEF IInv, Tracked, MasksNest
<1>3. Top' = Top /\ running' = current /\ current' = current /\ stack' = stack
  BY DEF GetCurrentState, Top
<1>4. g.depth = f.depth
  BY <1>0, <1>1 DEF After, Implies, Fact
<1>. QED  BY <1>1, <1>2, <1>3, <1>4 DEF MasksNest, Tracked, IInv

(* RS_INVERSE. *)
LEMMA InvertKeeps == IInv /\ InvertRunningState => MasksNest' /\ Tracked'
<1>. SUFFICES ASSUME IInv, InvertRunningState PROVE MasksNest' /\ Tracked'
  OBVIOUS
<1>. DEFINE f == Facts(code)[pc]
            g == Facts(code)[pc']
<1>0. pc \in DOMAIN code /\ code[pc].op = "RS_INVERSE" /\ pc' \in Successors(code, pc)
  BY DEF InvertRunningState, At, Continue, Successors, JumpOps
<1>1. f \in Fact /\ g \in Fact /\ Implies(After(code[pc], f), g) /\ code' = code
      /\ f.depth > 0
  BY <1>0, Edge, Demands DEF IInv, InvertRunningState
<1>2. stack # <<>>
  BY <1>1, StackShape DEF IInv, Tracked
<1>3. Top' = Top /\ running' \subseteq Top /\ current' = current /\ stack' = stack
  BY DEF InvertRunningState, Top
<1>4. g.depth = f.depth /\ ~g.inside /\ (g.below => f.below)
  BY <1>0, <1>1 DEF After, Implies, Fact
<1>. QED  BY <1>1, <1>2, <1>3, <1>4 DEF MasksNest, Tracked, IInv

(* RS_BREAK: the levels it reaches lose the running points, so do all above *)
(* them; the lowest level is out of its reach.                             *)
LEMMA BreakKeeps ==
  IInv /\ RunningStatesBreak => MasksNest' /\ Tracked' /\ stack' \in Seq(SUBSET Points)
<1>. SUFFICES ASSUME IInv, RunningStatesBreak
              PROVE  MasksNest' /\ Tracked' /\ stack' \in Seq(SUBSET Points)
  OBVIOUS
<1>. DEFINE f == Facts(code)[pc]
            g == Facts(code)[pc']
            n == Len(stack)
<1>0. pc \in DOMAIN code /\ code[pc].op = "RS_BREAK" /\ pc' \in Successors(code, pc)
  BY DEF RunningStatesBreak, At, Continue, Successors, JumpOps
<1>1. f \in Fact /\ g \in Fact /\ Implies(After(code[pc], f), g) /\ code' = code
      /\ Arg \in 0..(f.depth - 1)
  BY <1>0, Edge, Demands DEF IInv, RunningStatesBreak
<1>2. n \in Nat /\ DOMAIN stack = 1..n /\ (\A i \in 1..n : stack[i] \subseteq Points)
      /\ n = f.depth /\ (stack = <<>> <=> n = 0)
  BY StackShape DEF IInv, Tracked
<1>3. n > 0 /\ Arg \in Int /\ 1 <= n - Arg
  BY <1>1, <1>2 DEF Fact
<1>4. stack' = [i \in 1..n |-> IF i > n - Arg THEN stack[i] \ running ELSE stack[i]]
      /\ running' = {} /\ current' = current
  BY <1>2 DEF RunningStatesBreak
<1>5. stack' \in [1..n -> SUBSET Points]
  BY <1>2, <1>4
<1>6. stack' \in Seq(SUBSET Points) /\ Len(stack') = n /\ stack' # <<>>
  <2>1. stack' \in Seq(SUBSET Points)
    BY <1>2, <1>5
  <2>2. Len(stack') \in Nat /\ DOMAIN stack' = 1..Len(stack')
    BY <2>1, LenProperties
  <2>3. DOMAIN stack' = 1..n
    BY <1>5
  <2>4. Len(stack') = n
    BY <2>2, <2>3, <1>2
  <2>. QED  BY <2>1, <2>4, <1>3, EmptySeq
<1>7. \A i \in 2..n : stack'[i] \subseteq stack'[i - 1]
  <2>. SUFFICES ASSUME NEW i \in 2..n PROVE stack'[i] \subseteq stack'[i - 1]
    OBVIOUS
  <2>1. i \in 1..n /\ i - 1 \in 1..n /\ (i - 1 > n - Arg => i > n - Arg)
    BY <1>2, <1>3
  <2>2. stack[i] \subseteq stack[i - 1]
    BY DEF IInv, MasksNest
  <2>. QED  BY <2>1, <2>2, <1>4
<1>8. MasksNest'
  BY <1>4, <1>6, <1>7 DEF MasksNest
<1>9. g.depth = f.depth /\ ~g.inside /\ ~g.below
  BY <1>0, <1>1 DEF After, Implies, Fact
<1>10. stack'[1] = Points
  <2>1. 1 \in 1..n /\ ~(1 > n - Arg)
    BY <1>2, <1>3
  <2>. QED  BY <2>1, <1>2, <1>3, <1>4 DEF IInv, Tracked
<1>. QED  BY <1>1, <1>2, <1>6, <1>8, <1>9, <1>10 DEF Tracked

(* Types: the numbers. *)
LEMMA NumbersKeep ==
  ASSUME TypeOK, NEW yes \in SUBSET running, Step(yes)
  PROVE  li' \in Nat /\ lit' \in BOOLEAN /\ rays' \in 0..(UintLimit - 1)
<1>. USE DEF TypeOK
<1>1. CASE Do \/ Choice(yes) \/ ClearCurrentState \/ SetCurrentState(yes) \/ PushState
           \/ PopState \/ GetCurrentState \/ InvertRunningState \/ RunningStatesBreak
           \/ JumpIfIdle \/ JumpIfNone \/ JumpAlways \/ Illuminance(yes) \/ Gather
  BY <1>1 DEF Do, Choice, ClearCurrentState, SetCurrentState, PushState, PopState,
     GetCurrentState, InvertRunningState, RunningStatesBreak, JumpIfIdle, JumpIfNone,
     JumpAlways, Illuminance, Gather
<1>2. CASE Diffuse(yes) \/ InitIlluminance \/ AdvanceIlluminance
  BY <1>2, LightsNat DEF Diffuse, InitIlluminance, AdvanceIlluminance
<1>3. CASE Illuminate(yes) \/ Solar
  BY <1>3 DEF Illuminate, Solar
<1>4. CASE InitGather
  BY <1>4, Demands DEF InitGather, At
<1>5. CASE AdvanceGather
  <2>1. rays - 1 \in Int /\ UintLimit \in Nat /\ UintLimit > 0
    BY UintLimitNat
  <2>. QED  BY <1>5, <2>1 DEF AdvanceGather
<1>. QED  BY <1>1, <1>2, <1>3, <1>4, <1>5 DEF Step

(* Every instruction preserves the inductive invariant. *)
LEMMA StepKeeps ==
  ASSUME IInv, NEW yes \in SUBSET running, Step(yes)
  PROVE  IInv'
<1>0. TypeOK /\ yes \subseteq running /\ running \subseteq Points /\ current \subseteq Points
  BY DEF IInv, TypeOK
<1>1. pc \in DOMAIN code /\ code' = code /\ pc' \in Successors(code, pc)
  BY <1>0, Flow
<1>2. pc' \in 1..(Len(code) + 1)
  BY <1>0, <1>1, Edge
<1>3. li' \in Nat /\ lit' \in BOOLEAN /\ rays' \in 0..(UintLimit - 1)
  BY <1>0, NumbersKeep
<1>4. SUFFICES /\ running' \subseteq Points /\ current' \subseteq Points
               /\ stack' \in Seq(SUBSET Points)
               /\ MasksNest' /\ Tracked'
  BY <1>0, <1>1, <1>2, <1>3 DEF IInv, TypeOK
<1>5. stack \in Seq(SUBSET Points) /\ Top \subseteq Points
  BY <1>0, StackShape DEF TypeOK
<1>6. ASSUME running' = running, stack' = stack,
             code[pc].op \notin {"RS_PUSH", "RS_POP", "RS_INVERSE", "RS_BREAK"},
             IF code[pc].op \in {"S_CLEAR", "choice", "gather"}
               THEN current' \subseteq running
               ELSE current' \subseteq current \cup running
      PROVE  /\ running' \subseteq Points /\ current' \subseteq Points
             /\ stack' \in Seq(SUBSET Points)
             /\ MasksNest' /\ Tracked'
  BY <1>0, <1>1, <1>5, <1>6, Quiet
<1>7. CASE Do \/ Choice(yes) \/ Diffuse(yes) \/ ClearCurrentState \/ SetCurrentState(yes)
  BY <1>0, <1>6, <1>7 DEF Do, Choice, Diffuse, ClearCurrentState, SetCurrentState, At
<1>8. CASE JumpIfIdle \/ JumpIfNone \/ JumpAlways
  BY <1>6, <1>8 DEF JumpIfIdle, JumpIfNone, JumpAlways, At
<1>9. CASE InitIlluminance \/ Illuminance(yes) \/ AdvanceIlluminance
  BY <1>0, <1>6, <1>9 DEF InitIlluminance, Illuminance, AdvanceIlluminance, At
<1>10. CASE Illuminate(yes) \/ Solar \/ InitGather \/ Gather \/ AdvanceGather
  BY <1>0, <1>6, <1>10 DEF Illuminate, Solar, InitGather, Gather, AdvanceGather, At
<1>11. CASE PushState
  BY <1>0, <1>5, <1>11, PushKeeps, AppendProperties DEF PushState
<1>12. CASE PopState
  BY <1>0, <1>5, <1>12, PopKeeps DEF PopState
<1>13. CASE GetCurrentState
  BY <1>0, <1>5, <1>13, GetKeeps DEF GetCurrentState
<1>14. CASE InvertRunningState
  BY <1>0, <1>5, <1>14, InvertKeeps DEF InvertRunningState
<1>15. CASE RunningStatesBreak
  BY <1>0, <1>15, BreakKeeps DEF RunningStatesBreak
<1>. QED  BY <1>7, <1>8, <1>9, <1>10, <1>11, <1>12, <1>13, <1>14, <1>15 DEF Step

(* A shader starts with an empty stack and every point running. *)
LEMMA InitIInv == Init => IInv
<1>. SUFFICES ASSUME Init PROVE IInv
  OBVIOUS
<1>1. code \in Seq(Instruction) /\ Disciplined(code) /\ stack = <<>>
  BY ProgramsType, ProgramsDisciplined DEF Init
<1>2. Len(code) \in Nat /\ Len(stack) = 0 /\ stack \in Seq(SUBSET Points)
  BY <1>1, LenProperties, EmptySeq
<1>3. TypeOK
  <2>1. pc \in 1..(Len(code) + 1)
    BY <1>2 DEF Init
  <2>2. rays \in 0..(UintLimit - 1) /\ li \in Nat
    BY UintLimitNat DEF Init
  <2>3. stack \in Seq(SUBSET Points)
    BY <1>2
  <2>. QED  BY <2>1, <2>2, <2>3 DEF Init, TypeOK
<1>4. Facts(code)[1].depth = 0
  BY <1>1 DEF Disciplined
<1>5. MasksNest
  BY <1>1, <1>2 DEF Init, MasksNest, Top
<1>. QED  BY <1>1, <1>2, <1>3, <1>4, <1>5 DEF Init, IInv, Tracked, Top

(* The invariant of every execution. *)
LEMMA Invariance == Spec => []IInv
<1>1. IInv /\ [Next]_vars => IInv'
  <2>1. IInv /\ UNCHANGED vars => IInv'
    BY DEF vars, IInv, TypeOK, MasksNest, Tracked, Top
  <2>. QED  BY <2>1, StepKeeps DEF Next
<1>. QED  BY <1>1, InitIInv, PTL DEF Spec

\* The machine's variables keep their types: the masks hold points, control
\* stays within the program, and the ray counter within its width.
THEOREM TypeCorrect == Spec => []TypeOK
<1>1. IInv => TypeOK
  BY DEF IInv
<1>. QED  BY <1>1, Invariance, PTL

\* In any accepted program no branch or loop wakes a point that an enclosing
\* one has put aside, however deep the nesting.
THEOREM NestingHolds == Spec => []MasksNest
<1>1. IInv => MasksNest
  BY DEF IInv
<1>. QED  BY <1>1, Invariance, PTL

\* In any accepted program RS_POP and RS_BREAK find their levels on the stack,
\* and the program hands the stack and the points back as it got them.
THEOREM StackHolds == Spec => []WithinStack
<1>1. IInv => WithinStack
  <2>. SUFFICES ASSUME IInv PROVE WithinStack
    OBVIOUS
  <2>1. TypeOK /\ Len(stack) = Facts(code)[pc].depth
    BY DEF IInv, Tracked
  <2>2. Len(stack) \in Nat /\ (stack = <<>> <=> Len(stack) = 0)
    BY <2>1, StackShape
  <2>3. At("RS_POP") => stack # <<>>
    BY <2>1, <2>2, Demands DEF At
  <2>4. At("RS_BREAK") => Arg \in 0..Len(stack)
    BY <2>1, <2>2, Demands DEF At
  <2>5. pc = Len(code) + 1 => stack = <<>> /\ running = Points
    <3>1. Facts(code)[Len(code) + 1].depth = 0
      BY <2>1, ProgramsDisciplined DEF Disciplined, TypeOK
    <3>. QED  BY <2>1, <2>2, <3>1 DEF IInv, Tracked
  <2>. QED  BY <2>3, <2>4, <2>5 DEF WithinStack
<1>. QED  BY <1>1, Invariance, PTL

-----------------------------------------------------------------------------
(* The functions that the source's meaning is defined by. *)

\* Statements are items that a point may have left, with fields of their types.
LEMMA StatementsAreItems ==
  /\ Statements \subseteq Item
  /\ \A s \in Statements : /\ s.body \in Seq(Statements) /\ s.other \in Seq(Statements)
                           /\ s.id \in Nat /\ s.n \in Nat /\ s.k \in Scalar!Kinds
                           /\ s.args \in Seq(Scalar!Expressions)
<1>1. Nat \subseteq Int
  OBVIOUS
<1>. QED  BY <1>1, StatementsAreTrees DEF Statements, Item, Scalar!Item

\* The parts of a sequence that is not empty.
LEMMA TailFacts ==
  ASSUME NEW S, NEW x \in Seq(S), x # <<>>
  PROVE  /\ Head(x) \in S /\ Tail(x) \in Seq(S) /\ Len(Tail(x)) = Len(x) - 1
         /\ Len(Tail(x)) < Len(x) /\ Len(Tail(x)) \in Nat /\ Len(x) \in Nat /\ Len(x) > 0
BY HeadTailProperties, LenProperties, EmptySeq

\* Leave is the function that its recursive equation defines: each step is on a shorter rest.
LEMMA LeaveDef ==
  Leave = [rn \in Seq(Item) \X Int |->
             IF rn[1] = <<>> THEN <<>>
             ELSE IF Head(rn[1]).k # "again" THEN Leave[<<Tail(rn[1]), rn[2]>>]
             ELSE IF rn[2] = 1 THEN rn[1] ELSE Leave[<<Tail(rn[1]), rn[2] - 1>>]]
<1>. DEFINE D == Seq(Item) \X Int
            V == Seq(Item)
            F == [gx \in [D -> V] \X D |->
                    LET rn == gx[2]
                    IN  IF rn[1] = <<>> THEN <<>>
                        ELSE IF Head(rn[1]).k # "again" THEN gx[1][<<Tail(rn[1]), rn[2]>>]
                        ELSE IF rn[2] = 1 THEN rn[1] ELSE gx[1][<<Tail(rn[1]), rn[2] - 1>>]]
            rank == [rn \in D |-> Len(rn[1])]
            G(g, rn) == IF rn[1] = <<>> THEN <<>>
                        ELSE IF Head(rn[1]).k # "again" THEN g[<<Tail(rn[1]), rn[2]>>]
                        ELSE IF rn[2] = 1 THEN rn[1] ELSE g[<<Tail(rn[1]), rn[2] - 1>>]
<1>0. ASSUME NEW rn \in D, rn[1] # <<>>
      PROVE  /\ rn[1] \in V /\ <<Tail(rn[1]), rn[2]>> \in D /\ <<Tail(rn[1]), rn[2] - 1>> \in D
             /\ rank[<<Tail(rn[1]), rn[2]>>] < rank[rn]
             /\ rank[<<Tail(rn[1]), rn[2] - 1>>] < rank[rn]
  <2>1. rn[1] \in Seq(Item) /\ rn[2] \in Int /\ rn[2] - 1 \in Int
    OBVIOUS
  <2>2. Tail(rn[1]) \in Seq(Item) /\ Len(Tail(rn[1])) < Len(rn[1])
    BY <1>0, <2>1, TailFacts
  <2>. QED  BY <2>1, <2>2
<1>1. rank \in [D -> Nat] /\ <<>> \in V
  BY LenProperties, EmptySeq
<1>2. ASSUME NEW g \in [D -> V], NEW rn \in D
      PROVE  F[<<g, rn>>] = G(g, rn) /\ F[<<g, rn>>] \in V
  <2>1. F[<<g, rn>>] = G(g, rn)
    OBVIOUS
  <2>2. G(g, rn) \in V
    <3>. HIDE DEF D, V
    <3>. QED  BY <1>0, <1>1
  <2>. HIDE DEF F, G, D, V
  <2>. QED  BY <2>1, <2>2
<1>3. F \in [[D -> V] \X D -> V]
  <2>1. F = [gx \in [D -> V] \X D |-> F[gx]]
    OBVIOUS
  <2>2. ASSUME NEW gx \in [D -> V] \X D  PROVE F[gx] \in V
    <3>1. gx = <<gx[1], gx[2]>> /\ gx[1] \in [D -> V] /\ gx[2] \in D
      OBVIOUS
    <3>. HIDE DEF F, D, V
    <3>. QED  BY <1>2, <3>1
  <2>. HIDE DEF F, D, V
  <2>. QED  BY <2>1, <2>2
<1>4. ASSUME NEW g \in [D -> V], NEW h \in [D -> V], NEW rn \in D,
             \A y \in D : rank[y] < rank[rn] => g[y] = h[y]
      PROVE  F[<<g, rn>>] = F[<<h, rn>>]
  <2>1. G(g, rn) = G(h, rn)
    <3>. HIDE DEF D, V, rank
    <3>. QED  BY <1>0, <1>4
  <2>. HIDE DEF F, D, V, rank, G
  <2>. QED  BY <1>2, <2>1
<1>5. PICK g \in [D -> V] : Solves(g, F, D)
  <2>. HIDE DEF F, rank, D, V
  <2>1. FromLower(F, rank, D, V)
    BY <1>4 DEF FromLower
  <2>. QED  BY <1>1, <1>3, <2>1, Recursion
<1>6. g = [rn \in D |-> G(g, rn)]
  <2>. HIDE DEF F, D, V, G
  <2>. QED  BY <1>2, <1>5 DEF Solves
<1>. QED  BY <1>6 DEF Leave, Scalar!Leave, Item

\* What is left behind a loop is no longer than what there was.
LEMMA LeaveTyped ==
  \A rn \in Seq(Item) \X Int : Leave[rn] \in Seq(Item) /\ Len(Leave[rn]) <= Len(rn[1])
<1>. DEFINE D == Seq(Item) \X Int
            rank == [rn \in D |-> Len(rn[1])]
            S == {rn \in D : Leave[rn] \in Seq(Item) /\ Len(Leave[rn]) <= Len(rn[1])}
<1>1. rank \in [D -> Nat]
  BY LenProperties
<1>2. ASSUME NEW rn \in D, \A y \in D : rank[y] < rank[rn] => y \in S
      PROVE  rn \in S
  <2>1. rn[1] \in Seq(Item) /\ rn[2] \in Int /\ rn[2] - 1 \in Int /\ rn = <<rn[1], rn[2]>>
        /\ Len(rn[1]) \in Nat
    BY LenProperties
  <2>2. CASE rn[1] = <<>>
    <3>1. Leave[rn] = <<>>
      BY <2>2, LeaveDef
    <3>. QED  BY <2>1, <2>2, <3>1
  <2>3. CASE rn[1] # <<>>
    <3>. DEFINE y == <<Tail(rn[1]), rn[2]>>
                z == <<Tail(rn[1]), rn[2] - 1>>
    <3>1. /\ Tail(rn[1]) \in Seq(Item) /\ Len(Tail(rn[1])) < Len(rn[1])
          /\ Len(Tail(rn[1])) \in Nat
      BY <2>1, <2>3, TailFacts
    <3>2. y \in S /\ z \in S
      <4>1. y \in D /\ z \in D /\ rank[y] < rank[rn] /\ rank[z] < rank[rn]
        BY <2>1, <3>1
      <4>. HIDE DEF S, D, rank, y, z
      <4>. QED  BY <1>2, <4>1
    <3>3. Leave[rn] \in {rn[1], Leave[y], Leave[z]}
      BY <2>3, LeaveDef
    <3>4. Leave[y] \in Seq(Item) /\ Len(Leave[y]) <= Len(rn[1])
      <4>1. Leave[y] \in Seq(Item) /\ Len(Leave[y]) <= Len(Tail(rn[1]))
        BY <3>2
      <4>. QED  BY <2>1, <3>1, <4>1, LenProperties
    <3>5. Leave[z] \in Seq(Item) /\ Len(Leave[z]) <= Len(rn[1])
      <4>1. Leave[z] \in Seq(Item) /\ Len(Leave[z]) <= Len(Tail(rn[1]))
        BY <3>2
      <4>. QED  BY <2>1, <3>1, <4>1, LenProperties
    <3>. QED  BY <2>1, <3>3, <3>4, <3>5
  <2>. QED  BY <2>2, <2>3
<1>3. \A rn \in D : rn \in S
  <2>. HIDE DEF S, D, rank
  <2>. QED  BY <1>1, <1>2, Descent
<1>. QED  BY <1>3

\* One more item in front.
LEMMA FrontFacts ==
  ASSUME NEW S, NEW s \in S, NEW x \in Seq(S)
  PROVE  /\ <<s>> \o x \in Seq(S) /\ <<s>> \o x # <<>>
         /\ Head(<<s>> \o x) = s /\ Tail(<<s>> \o x) = x
BY SMTT(30)

\* What Leave does with the item in front.
LEMMA LeaveFront ==
  ASSUME NEW s \in Item, NEW x \in Seq(Item), NEW n \in Int
  PROVE  /\ s.k # "again" => Leave[<<<<s>> \o x, n>>] = Leave[<<x, n>>]
         /\ s.k = "again" => Leave[<<<<s>> \o x, n>>] =
                               IF n = 1 THEN <<s>> \o x ELSE Leave[<<x, n - 1>>]
<1>1. <<s>> \o x \in Seq(Item) /\ <<s>> \o x # <<>> /\ Head(<<s>> \o x) = s
      /\ Tail(<<s>> \o x) = x
  BY FrontFacts
<1>2. <<<<s>> \o x, n>> \in Seq(Item) \X Int
  BY <1>1
<1>. DEFINE y == <<s>> \o x
<1>3. Leave[<<y, n>>] = IF y = <<>> THEN <<>>
             ELSE IF Head(y).k # "again" THEN Leave[<<Tail(y), n>>]
             ELSE IF n = 1 THEN y ELSE Leave[<<Tail(y), n - 1>>]
  <2>1. <<y, n>> \in Seq(Item) \X Int /\ <<y, n>>[1] = y /\ <<y, n>>[2] = n
    BY <1>2
  <2>. HIDE DEF y
  <2>. QED  BY <2>1, LeaveDef
<1>. QED  BY <1>1, <1>3

\* What is left behind a break or a continue is shorter.
LEMMA BehindFacts ==
  ASSUME NEW rest \in Seq(Item), rest # <<>>, NEW left, left = Leave[<<Tail(rest), Head(rest).n>>]
  PROVE  /\ Head(rest) \in Item /\ Tail(rest) \in Seq(Item) /\ Len(Tail(rest)) < Len(rest)
         /\ left \in Seq(Item) /\ Len(left) < Len(rest)
         /\ SubSeq(left, 2, Len(left)) \in Seq(Item)
         /\ Len(SubSeq(left, 2, Len(left))) < Len(rest)
<1>1. /\ Head(rest) \in Item /\ Tail(rest) \in Seq(Item) /\ Len(Tail(rest)) < Len(rest)
      /\ Len(Tail(rest)) \in Nat /\ Len(rest) \in Nat
  BY TailFacts
<1>2. Head(rest).n \in Int
  BY <1>1 DEF Item, Scalar!Item
<1>3. left \in Seq(Item) /\ Len(left) <= Len(Tail(rest))
  <2>1. <<Tail(rest), Head(rest).n>> \in Seq(Item) \X Int
    BY <1>1, <1>2
  <2>. QED  BY <2>1, LeaveTyped
<1>4. Len(left) \in Nat
  BY <1>3, LenProperties
<1>5. /\ SubSeq(left, 2, Len(left)) \in Seq(Item)
      /\ Len(SubSeq(left, 2, Len(left))) <= Len(left)
  BY <1>3, <1>4
<1>6. Len(SubSeq(left, 2, Len(left))) \in Nat
  BY <1>5, LenProperties
<1>7. Len(left) < Len(rest) /\ Len(SubSeq(left, 2, Len(left))) < Len(rest)
  BY <1>1, <1>3, <1>4, <1>5, <1>6
<1>. QED  BY <1>1, <1>3, <1>5, <1>7

\* What a point has left that goes on with a loop.
LEMMA AgainFacts ==
  ASSUME NEW s \in Item, NEW tail \in Seq(Item)
  PROVE  s.other \o <<As("while", s)>> \o tail \in Seq(Item)
<1>1. s.other \in Seq(Item)
  <2>1. s.other \in Seq(Statements)
    BY DEF Item, Scalar!Item, Statements
  <2>. QED  BY <2>1, StatementsAreItems
<1>2. As("while", s) \in Item
  BY DEF As, Scalar!As, Item, Scalar!Item, Scalar!Kinds
<1>. QED  BY <1>1, <1>2

\* Settle is the function that its recursive equation defines: each step is on a shorter rest.
LEMMA SettleDef ==
  Settle = [rest \in Seq(Item) |->
    IF rest = <<>> THEN <<>>
    ELSE LET s == Head(rest)
             tail == Tail(rest)
             left == Leave[<<tail, s.n>>]
         IN  CASE s.k = "again" -> s.other \o <<As("while", s)>> \o tail
               [] s.k = "break" -> Settle[SubSeq(left, 2, Len(left))]
               [] s.k = "continue" -> Settle[left]
               [] s.k = "illuminance" /\ s.n = Lights -> Settle[tail]
               [] s.k = "gather" /\ s.n = 0 -> Settle[tail]
               [] OTHER -> rest]
<1>. DEFINE D == Seq(Item)
            G(g, rest) ==
              IF rest = <<>> THEN <<>>
              ELSE LET s == Head(rest)
                       tail == Tail(rest)
                       left == Leave[<<tail, s.n>>]
                   IN  CASE s.k = "again" -> s.other \o <<As("while", s)>> \o tail
                         [] s.k = "break" -> g[SubSeq(left, 2, Len(left))]
                         [] s.k = "continue" -> g[left]
                         [] s.k = "illuminance" /\ s.n = Lights -> g[tail]
                         [] s.k = "gather" /\ s.n = 0 -> g[tail]
                         [] OTHER -> rest
            F == [gx \in [D -> D] \X D |-> G(gx[1], gx[2])]
            rank == [rest \in D |-> Len(rest)]
<1>1. rank \in [D -> Nat] /\ <<>> \in D
  BY LenProperties, EmptySeq
<1>2. ASSUME NEW g \in [D -> D], NEW rest \in D
      PROVE  F[<<g, rest>>] = G(g, rest) /\ F[<<g, rest>>] \in D
  <2>1. F[<<g, rest>>] = G(g, rest)
    <3>. HIDE DEF G
    <3>. QED  OBVIOUS
  <2>2. G(g, rest) \in D
    <3>1. CASE rest = <<>>
      BY <1>1, <3>1
    <3>2. CASE rest # <<>>
      <4>. DEFINE s == Head(rest)
                  tail == Tail(rest)
                  left == Leave[<<tail, s.n>>]
      <4>1. /\ tail \in D /\ left \in D /\ SubSeq(left, 2, Len(left)) \in D /\ s \in Item
            /\ s.other \o <<As("while", s)>> \o tail \in D
        BY <3>2, BehindFacts, AgainFacts
      <4>2. /\ s.k = "again" => G(g, rest) = s.other \o <<As("while", s)>> \o tail
            /\ s.k = "break" => G(g, rest) = g[SubSeq(left, 2, Len(left))]
            /\ s.k = "continue" => G(g, rest) = g[left]
            /\ s.k = "illuminance" /\ s.n = Lights => G(g, rest) = g[tail]
            /\ s.k = "gather" /\ s.n = 0 => G(g, rest) = g[tail]
            /\ s.k \notin {"again", "break", "continue"}
                 /\ ~(s.k = "illuminance" /\ s.n = Lights) /\ ~(s.k = "gather" /\ s.n = 0)
                 => G(g, rest) = rest
        BY <3>2
      <4>. HIDE DEF G, s, tail, left, D
      <4>. QED  BY <4>1, <4>2
    <3>. QED  BY <3>1, <3>2
  <2>. HIDE DEF F, G, D
  <2>. QED  BY <2>1, <2>2
<1>3. F \in [[D -> D] \X D -> D]
  <2>1. F = [gx \in [D -> D] \X D |-> F[gx]]
    <3>. HIDE DEF G
    <3>. QED  OBVIOUS
  <2>2. ASSUME NEW gx \in [D -> D] \X D  PROVE F[gx] \in D
    <3>1. gx = <<gx[1], gx[2]>> /\ gx[1] \in [D -> D] /\ gx[2] \in D
      OBVIOUS
    <3>. HIDE DEF F, D
    <3>. QED  BY <1>2, <3>1
  <2>. HIDE DEF F, D
  <2>. QED  BY <2>1, <2>2
<1>4. ASSUME NEW g \in [D -> D], NEW h \in [D -> D], NEW rest \in D,
             \A y \in D : rank[y] < rank[rest] => g[y] = h[y]
      PROVE  F[<<g, rest>>] = F[<<h, rest>>]
  <2>1. G(g, rest) = G(h, rest)
    <3>1. CASE rest = <<>>
      BY <3>1
    <3>2. CASE rest # <<>>
      <4>. DEFINE s == Head(rest)
                  tail == Tail(rest)
                  left == Leave[<<tail, s.n>>]
                  behind == SubSeq(left, 2, Len(left))
      <4>1. /\ tail \in D /\ left \in D /\ behind \in D
            /\ rank[tail] < rank[rest] /\ rank[left] < rank[rest] /\ rank[behind] < rank[rest]
        BY <3>2, BehindFacts
      <4>2. g[tail] = h[tail] /\ g[left] = h[left] /\ g[behind] = h[behind]
        <5>. HIDE DEF D, rank, tail, left, behind
        <5>. QED  BY <1>4, <4>1
      <4>. QED  BY <3>2, <4>2
    <3>. QED  BY <3>1, <3>2
  <2>. HIDE DEF F, D, rank, G
  <2>. QED  BY <1>2, <2>1
<1>5. PICK g \in [D -> D] : Solves(g, F, D)
  <2>. HIDE DEF F, rank, D
  <2>1. FromLower(F, rank, D, D)
    BY <1>4 DEF FromLower
  <2>. QED  BY <1>1, <1>3, <2>1, Recursion
<1>6. g = [rest \in D |-> G(g, rest)]
  <2>. HIDE DEF F, D, G
  <2>. QED  BY <1>2, <1>5 DEF Solves
<1>. QED  BY <1>6 DEF Settle, Scalar!Settle, Item, Leave, As

\* A point that has nothing left has nothing left.
LEMMA SettleEmpty == Settle[<<>>] = <<>>
<1>1. <<>> \in Seq(Item)
  BY EmptySeq
<1>. QED  BY <1>1, SettleDef

\* Rests may be put together in any order of grouping.
LEMMA ItemsAssociate == \A a, b, c \in Seq(Item) : (a \o b) \o c = a \o (b \o c)
BY ConcatAssociative

\* What is done first when s comes before x.
LEMMA SettleFront ==
  ASSUME NEW s \in Item, NEW x \in Seq(Item), NEW left, left = Leave[<<x, s.n>>]
  PROVE  /\ s.k \in {"do", "if", "pick", "while", "illuminate", "solar"} =>
              Settle[<<s>> \o x] = <<s>> \o x
         /\ s.k = "again" => Settle[<<s>> \o x] = s.other \o <<As("while", s)>> \o x
         /\ s.k = "break" => Settle[<<s>> \o x] = Settle[SubSeq(left, 2, Len(left))]
         /\ s.k = "continue" => Settle[<<s>> \o x] = Settle[left]
         /\ s.k = "illuminance" =>
              Settle[<<s>> \o x] = IF s.n = Lights THEN Settle[x] ELSE <<s>> \o x
         /\ s.k = "gather" => Settle[<<s>> \o x] = IF s.n = 0 THEN Settle[x] ELSE <<s>> \o x
<1>1. <<s>> \o x \in Seq(Item) /\ <<s>> \o x # <<>> /\ Head(<<s>> \o x) = s
      /\ Tail(<<s>> \o x) = x
  BY FrontFacts
<1>. DEFINE y == <<s>> \o x
<1>2. Settle[y] = CASE s.k = "again" -> s.other \o <<As("while", s)>> \o x
               [] s.k = "break" -> Settle[SubSeq(left, 2, Len(left))]
               [] s.k = "continue" -> Settle[left]
               [] s.k = "illuminance" /\ s.n = Lights -> Settle[x]
               [] s.k = "gather" /\ s.n = 0 -> Settle[x]
               [] OTHER -> y
  <2>1. y \in Seq(Item) /\ y # <<>> /\ Head(y) = s /\ Tail(y) = x
    BY <1>1
  <2>. HIDE DEF y
  <2>. QED  BY <2>1, SettleDef
<1>. QED  BY <1>2

-----------------------------------------------------------------------------
(* Passages and how they are put together. *)

\* Who owes x owes x.
LEMMA LeadsRefl == ASSUME NEW x  PROVE Leads(x, x)
BY DEF Leads

\* Leads is transitive.
LEMMA LeadsTrans ==
  ASSUME NEW x, NEW y, NEW z, Leads(x, y), Leads(y, z)
  PROVE  Leads(x, z)
BY DEF Leads

\* A note yields itself.
LEMMA YieldsRefl == ASSUME NEW n  PROVE Yields(n, n)
BY DEF Yields, Leads

\* Yields is transitive.
LEMMA YieldsTrans ==
  ASSUME NEW n, NEW m, NEW o, Yields(n, m), Yields(m, o)
  PROVE  Yields(n, o)
BY LeadsTrans DEF Yields

\* Code has a length, and instructions at all its addresses.
LEMMA CodeFacts ==
  ASSUME NEW c \in Seq(Instruction)
  PROVE  /\ Len(c) \in Nat
         /\ \A i \in 1 .. Len(c) : c[i] \in Instruction /\ c[i].arg \in Int
<1>1. Len(c) \in Nat /\ \A i \in 1 .. Len(c) : c[i] \in Instruction
  BY LenProperties, ElementOfSeq
<1>. QED  BY <1>1 DEF Instruction

\* Notes that fit a piece of code fit it in its place in a longer one.
LEMMA Embed ==
  ASSUME NEW c \in Seq(Instruction), NEW d \in Seq(Instruction), NEW k \in Nat,
         k + Len(c) <= Len(d), \A i \in 1 .. Len(c) : d[i + k] = c[i],
         NEW N \in [1 .. Len(c) + 1 -> Notes], NEW M \in [1 .. Len(d) + 1 -> Notes],
         \A i \in 1 .. Len(c) : M[i + k] = N[i],
         Yields(N[Len(c) + 1], M[Len(c) + 1 + k]),
         NEW i \in 1 .. Len(c), FineAt(c, N, i)
  PROVE  FineAt(d, M, i + k)
<1>. DEFINE a == Len(c)
            b == Len(d)
            to == IF c[i].op \in JumpOps THEN i + c[i].arg ELSE i + 1
            to2 == IF d[i + k].op \in JumpOps THEN i + k + d[i + k].arg ELSE i + k + 1
<1>1. a \in Nat /\ b \in Nat /\ c[i].arg \in Int /\ i \in Nat /\ i <= a /\ d[i + k] = c[i]
  BY CodeFacts
<1>2. PICK m \in Notes, t \in Notes :
        /\ to \in 1 .. a + 1
        /\ Fine(c[i], N[i], m, t)
        /\ c[i].op # "jmp" => Yields(m, N[i + 1])
        /\ c[i].op \in JumpOps => Yields(t, N[to])
  BY DEF FineAt
<1>3. ASSUME NEW j \in 1 .. a + 1, NEW o, Yields(o, N[j])  PROVE Yields(o, M[j + k])
  <2>1. CASE j = a + 1
    BY <1>3, <2>1, YieldsTrans
  <2>2. CASE j # a + 1
    <3>1. j \in 1 .. a
      <4>. HIDE DEF a
      <4>. QED  BY <1>1, <2>2
    <3>. QED  BY <1>3, <3>1
  <2>. QED  BY <2>1, <2>2
<1>4. to2 = to + k /\ to2 \in 1 .. b + 1
  <2>1. to2 = to + k
    <3>1. CASE c[i].op \in JumpOps
      <4>1. to = i + c[i].arg /\ to2 = i + k + c[i].arg
        BY <1>1, <3>1
      <4>. HIDE DEF to, to2
      <4>. QED  BY <1>1, <4>1
    <3>2. CASE c[i].op \notin JumpOps
      <4>1. to = i + 1 /\ to2 = i + k + 1
        BY <1>1, <3>2
      <4>. HIDE DEF to, to2
      <4>. QED  BY <1>1, <4>1
    <3>. QED  BY <3>1, <3>2
  <2>2. to \in 1 .. a + 1 /\ k + a <= b
    BY <1>2
  <2>. HIDE DEF to, to2, a, b
  <2>. QED  BY <1>1, <2>1, <2>2
<1>5. (i + 1) \in 1 .. a + 1 /\ (i + 1) + k = (i + k) + 1
  <2>1. i \in Nat /\ a \in Nat /\ i <= a /\ i >= 1
    BY <1>1
  <2>. HIDE DEF a
  <2>. QED  BY <2>1
<1>6. c[i].op # "jmp" => Yields(m, M[(i + k) + 1])
  BY <1>2, <1>3, <1>5
<1>7. c[i].op \in JumpOps => Yields(t, M[to2])
  BY <1>2, <1>3, <1>4
<1>8. Fine(d[i + k], M[i + k], m, t)
  BY <1>1, <1>2
<1>. HIDE DEF to
<1>. QED  BY <1>1, <1>4, <1>6, <1>7, <1>8 DEF FineAt

\* No code leads nowhere.
LEMMA PassageNone ==
  ASSUME NEW n \in Notes
  PROVE  Passage(<<>>, n, n)
<1>. DEFINE N == [i \in 1 .. Len(<<>>) + 1 |-> n]
<1>1. Len(<<>>) = 0 /\ N \in [1 .. Len(<<>>) + 1 -> Notes] /\ N[1] = n
  BY EmptySeq
<1>2. \A i \in 1 .. Len(<<>>) : FineAt(<<>>, N, i)
  BY <1>1
<1>3. Len(<<>>) + 1 = 1
  BY <1>1
<1>. HIDE DEF N
<1>. QED  BY <1>1, <1>2, <1>3, YieldsRefl DEF Passage

\* More may be noted before a piece of code and less behind it.
LEMMA PassageWeaker ==
  ASSUME NEW c, NEW n, NEW m, NEW a, NEW b, Passage(c, n, m), Yields(a, n), Yields(m, b)
  PROVE  Passage(c, a, b)
BY YieldsTrans DEF Passage

\* One instruction that does not jump.
LEMMA PassageOne ==
  ASSUME NEW in \in Instruction, in.op \notin JumpOps, NEW n \in Notes, NEW m \in Notes,
         Fine(in, n, m, m)
  PROVE  Passage(<<in>>, n, m)
<1>. DEFINE N == [i \in 1 .. 2 |-> IF i = 1 THEN n ELSE m]
<1>1. Len(<<in>>) = 1 /\ <<in>>[1] = in /\ N[1] = n /\ N[2] = m /\ N \in [1 .. 2 -> Notes]
  OBVIOUS
<1>2. FineAt(<<in>>, N, 1)
  <2>1. 1 + 1 \in 1 .. Len(<<in>>) + 1
    OBVIOUS
  <2>2. in.op # "jmp"
    BY DEF JumpOps
  <2>. HIDE DEF N
  <2>. QED  BY <1>1, YieldsRefl DEF FineAt
<1>. HIDE DEF N
<1>. QED  BY <1>1, <1>2, YieldsRefl DEF Passage

\* One piece of code behind another: the notes of both, one after the other.
LEMMA PassageThen ==
  ASSUME NEW c \in Seq(Instruction), NEW d \in Seq(Instruction), NEW n, NEW m, NEW o,
         Passage(c, n, m), Passage(d, m, o)
  PROVE  Passage(c \o d, n, o)
<1>. DEFINE a == Len(c)
            b == Len(d)
            e == c \o d
<1>1. /\ a \in Nat /\ b \in Nat /\ e \in Seq(Instruction) /\ Len(e) = a + b
      /\ \A i \in 1 .. a : e[i] = c[i]
      /\ \A i \in 1 .. b : e[i + a] = d[i]
  OBVIOUS
<1>2. PICK N1 \in [1 .. a + 1 -> Notes] :
        /\ Yields(n, N1[1]) /\ Yields(N1[a + 1], m) /\ \A i \in 1 .. a : FineAt(c, N1, i)
  BY DEF Passage
<1>3. PICK N2 \in [1 .. b + 1 -> Notes] :
        /\ Yields(m, N2[1]) /\ Yields(N2[b + 1], o) /\ \A i \in 1 .. b : FineAt(d, N2, i)
  BY DEF Passage
<1>. DEFINE M == [i \in 1 .. a + b + 1 |-> IF i <= a THEN N1[i] ELSE N2[i - a]]
<1>. HIDE DEF a, b, e
<1>4. M \in [1 .. a + b + 1 -> Notes]
  <2>1. ASSUME NEW i \in 1 .. a + b + 1  PROVE (IF i <= a THEN N1[i] ELSE N2[i - a]) \in Notes
    <3>1. i <= a => i \in 1 .. a + 1
      BY <1>1
    <3>2. ~(i <= a) => i - a \in 1 .. b + 1
      BY <1>1
    <3>. QED  BY <3>1, <3>2
  <2>. QED  BY <2>1
<1>5. \A i \in 1 .. a : M[i] = N1[i]
  BY <1>1
<1>6. \A i \in 1 .. b + 1 : M[i + a] = N2[i]
  <2>. SUFFICES ASSUME NEW i \in 1 .. b + 1  PROVE M[i + a] = N2[i]
    OBVIOUS
  <2>1. i + a \in 1 .. a + b + 1 /\ ~(i + a <= a) /\ (i + a) - a = i
    BY <1>1
  <2>. QED  BY <2>1
<1>7. Yields(N1[a + 1], M[a + 1])
  <2>1. M[a + 1] = N2[1]
    BY <1>1, <1>6
  <2>. QED  BY <1>2, <1>3, <2>1, YieldsTrans
<1>8. Yields(n, M[1])
  <2>1. CASE a = 0
    <3>1. M[1] = N2[1] /\ Yields(N1[1], M[1])
      BY <1>1, <1>6, <1>7, <2>1
    <3>. QED  BY <1>2, <3>1, YieldsTrans
  <2>2. CASE a # 0
    <3>1. M[1] = N1[1]
      BY <1>1, <1>5, <2>2
    <3>. QED  BY <1>2, <3>1
  <2>. QED  BY <2>1, <2>2
<1>9. Yields(M[a + b + 1], o)
  <2>1. M[(b + 1) + a] = N2[b + 1] /\ (b + 1) + a = a + b + 1
    BY <1>1, <1>6
  <2>. QED  BY <1>3, <2>1
<1>. HIDE DEF M
<1>10. ASSUME NEW i \in 1 .. a + b  PROVE FineAt(e, M, i)
  <2>1. CASE i <= a
    <3>1. i \in 1 .. a /\ i + 0 = i /\ 0 \in Nat /\ 0 + a <= a + b /\ a + 1 + 0 = a + 1
      BY <1>1, <2>1
    <3>2. \A j \in 1 .. a : e[j + 0] = c[j] /\ M[j + 0] = N1[j]
      BY <1>1, <1>5
    <3>3. FineAt(e, M, i + 0)
      BY <1>1, <1>2, <1>4, <1>7, <3>1, <3>2, Embed DEF a
    <3>. QED  BY <3>1, <3>3
  <2>2. CASE ~(i <= a)
    <3>1. i - a \in 1 .. b /\ (i - a) + a = i /\ a + b <= a + b /\ b + 1 \in 1 .. b + 1
      BY <1>1, <2>2
    <3>2. Yields(N2[b + 1], M[b + 1 + a])
      BY <1>6, <3>1, YieldsRefl
    <3>3. \A j \in 1 .. b : M[j + a] = N2[j]
      BY <1>1, <1>6
    <3>4. FineAt(e, M, (i - a) + a)
      BY <1>1, <1>3, <1>4, <3>1, <3>2, <3>3, Embed DEF b
    <3>. QED  BY <3>1, <3>4
  <2>. QED  BY <2>1, <2>2
<1>. QED  BY <1>1, <1>4, <1>8, <1>9, <1>10 DEF Passage, e

\* A jump over a piece of code.
LEMMA PassageOver ==
  ASSUME NEW in \in Instruction, in.op \in JumpOps, in.op # "jmp",
         NEW c \in Seq(Instruction), in.arg = Len(c) + 1,
         NEW n \in Notes, NEW m \in Notes, NEW t \in Notes, NEW o \in Notes,
         Fine(in, n, m, t), Yields(t, o), Passage(c, m, o)
  PROVE  Passage(<<in>> \o c, n, o)
<1>. DEFINE a == Len(c)
            e == <<in>> \o c
<1>1. /\ a \in Nat /\ e \in Seq(Instruction) /\ Len(e) = a + 1 /\ e[1] = in
      /\ \A i \in 1 .. a : e[i + 1] = c[i]
  OBVIOUS
<1>2. PICK N \in [1 .. a + 1 -> Notes] :
        /\ Yields(m, N[1]) /\ Yields(N[a + 1], o) /\ \A i \in 1 .. a : FineAt(c, N, i)
  BY DEF Passage
<1>. DEFINE M == [i \in 1 .. (a + 1) + 1 |->
                    IF i = 1 THEN n ELSE IF i = a + 2 THEN o ELSE N[i - 1]]
<1>. HIDE DEF a, e
<1>3. M \in [1 .. (a + 1) + 1 -> Notes]
  <2>1. ASSUME NEW i \in 1 .. (a + 1) + 1, i # 1  PROVE i - 1 \in 1 .. a + 1
    BY <1>1, <2>1
  <2>. QED  BY <2>1
<1>4. M[1] = n /\ M[a + 2] = o /\ \A i \in 1 .. a : M[i + 1] = N[i]
  <2>1. 1 \in 1 .. (a + 1) + 1 /\ a + 2 \in 1 .. (a + 1) + 1 /\ a + 2 # 1
    BY <1>1
  <2>2. ASSUME NEW i \in 1 .. a
        PROVE  i + 1 \in 1 .. (a + 1) + 1 /\ i + 1 # 1 /\ i + 1 # a + 2 /\ (i + 1) - 1 = i
    BY <1>1
  <2>. QED  BY <2>1, <2>2
<1>5. Yields(m, M[2])
  <2>1. CASE a = 0
    <3>1. M[2] = o
      BY <1>4, <2>1
    <3>. QED  BY <1>2, <2>1, <3>1, YieldsTrans
  <2>2. CASE a # 0
    <3>1. M[2] = N[1]
      BY <1>1, <1>4, <2>2
    <3>. QED  BY <1>2, <3>1
  <2>. QED  BY <2>1, <2>2
<1>. HIDE DEF M
<1>6. FineAt(e, M, 1)
  <2>1. 1 + in.arg = a + 2 /\ a + 2 \in 1 .. Len(e) + 1
    BY <1>1 DEF a
  <2>. QED  BY <1>1, <1>4, <1>5, <2>1 DEF FineAt
<1>7. ASSUME NEW i \in 1 .. a  PROVE FineAt(e, M, i + 1)
  <2>1. 1 + a <= Len(e) /\ a + 1 + 1 = a + 2 /\ 1 \in Nat
    BY <1>1
  <2>2. Yields(N[a + 1], M[a + 1 + 1])
    BY <1>2, <1>4, <2>1
  <2>. QED  BY <1>1, <1>2, <1>3, <1>4, <2>1, <2>2, Embed DEF a
<1>8. ASSUME NEW i \in 1 .. Len(e)  PROVE FineAt(e, M, i)
  <2>1. CASE i = 1
    BY <1>6, <2>1
  <2>2. CASE i # 1
    <3>1. i - 1 \in 1 .. a /\ (i - 1) + 1 = i
      BY <1>1, <2>2
    <3>2. FineAt(e, M, (i - 1) + 1)
      BY <1>7, <3>1
    <3>. QED  BY <3>1, <3>2
  <2>. QED  BY <2>1, <2>2
<1>9. Yields(n, M[1]) /\ Yields(M[Len(e) + 1], o) /\ M \in [1 .. Len(e) + 1 -> Notes]
  <2>1. Len(e) + 1 = a + 2 /\ Len(e) + 1 = (a + 1) + 1
    BY <1>1
  <2>. QED  BY <1>3, <1>4, <2>1, YieldsRefl
<1>. QED  BY <1>8, <1>9 DEF Passage, e

\* A jump back to where a piece of code starts.
LEMMA PassageBack ==
  ASSUME NEW in \in Instruction, in.op \in JumpOps, in.op # "jmp",
         NEW c \in Seq(Instruction), in.arg = -Len(c),
         NEW n \in Notes, NEW m \in Notes, NEW t \in Notes, NEW o \in Notes,
         Passage(c, n, m), Fine(in, m, o, t), Yields(t, n)
  PROVE  Passage(c \o <<in>>, n, o)
<1>. DEFINE a == Len(c)
            e == c \o <<in>>
<1>1. /\ a \in Nat /\ e \in Seq(Instruction) /\ Len(e) = a + 1 /\ e[a + 1] = in
      /\ \A i \in 1 .. a : e[i] = c[i]
  BY OneMore
<1>2. PICK N \in [1 .. a + 1 -> Notes] :
        /\ Yields(n, N[1]) /\ Yields(N[a + 1], m) /\ \A i \in 1 .. a : FineAt(c, N, i)
  BY DEF Passage
<1>. DEFINE M == [i \in 1 .. (a + 1) + 1 |->
                    IF i = a + 1 THEN m ELSE IF i = a + 2 THEN o ELSE N[i]]
<1>. HIDE DEF a, e
<1>3. M \in [1 .. (a + 1) + 1 -> Notes]
  <2>1. ASSUME NEW i \in 1 .. (a + 1) + 1, i # a + 2  PROVE i \in 1 .. a + 1
    BY <1>1, <2>1
  <2>. QED  BY <2>1
<1>4. M[a + 1] = m /\ M[a + 2] = o /\ \A i \in 1 .. a : M[i] = N[i]
  <2>1. a + 1 \in 1 .. (a + 1) + 1 /\ a + 2 \in 1 .. (a + 1) + 1 /\ a + 2 # a + 1
    BY <1>1
  <2>2. ASSUME NEW i \in 1 .. a
        PROVE  i \in 1 .. (a + 1) + 1 /\ i # a + 1 /\ i # a + 2
    BY <1>1
  <2>. QED  BY <2>1, <2>2
<1>5. Yields(n, M[1])
  <2>1. CASE a = 0
    <3>1. M[1] = m
      BY <1>4, <2>1
    <3>. QED  BY <1>2, <2>1, <3>1, YieldsTrans
  <2>2. CASE a # 0
    <3>1. M[1] = N[1]
      BY <1>1, <1>4, <2>2
    <3>. QED  BY <1>2, <3>1
  <2>. QED  BY <2>1, <2>2
<1>. HIDE DEF M
<1>6. FineAt(e, M, a + 1)
  <2>1. (a + 1) + in.arg = 1 /\ 1 \in 1 .. Len(e) + 1 /\ (a + 1) + 1 = a + 2
    BY <1>1 DEF a
  <2>2. Yields(t, M[1]) /\ Yields(o, M[(a + 1) + 1])
    BY <1>4, <1>5, <2>1, YieldsTrans, YieldsRefl
  <2>. QED  BY <1>1, <1>4, <2>1, <2>2 DEF FineAt
<1>7. ASSUME NEW i \in 1 .. a  PROVE FineAt(e, M, i + 0)
  <2>1. 0 + a <= Len(e) /\ a + 1 + 0 = a + 1 /\ 0 \in Nat
        /\ \A j \in 1 .. a : e[j + 0] = c[j] /\ M[j + 0] = N[j]
    BY <1>1, <1>4
  <2>2. Yields(N[a + 1], M[a + 1 + 0])
    BY <1>2, <1>4, <2>1
  <2>3. M \in [1 .. Len(e) + 1 -> Notes]
    BY <1>1, <1>3
  <2>. QED  BY <1>1, <1>2, <2>1, <2>2, <2>3, Embed DEF a
<1>8. ASSUME NEW i \in 1 .. Len(e)  PROVE FineAt(e, M, i)
  <2>1. CASE i = a + 1
    BY <1>6, <2>1
  <2>2. CASE i # a + 1
    <3>1. i \in 1 .. a /\ i + 0 = i
      BY <1>1, <2>2
    <3>. QED  BY <1>7, <3>1
  <2>. QED  BY <2>1, <2>2
<1>9. Yields(M[Len(e) + 1], o) /\ M \in [1 .. Len(e) + 1 -> Notes]
  <2>1. Len(e) + 1 = a + 2 /\ Len(e) + 1 = (a + 1) + 1
    BY <1>1
  <2>. QED  BY <1>3, <1>4, <2>1, YieldsRefl
<1>. QED  BY <1>5, <1>8, <1>9 DEF Passage, e

\* A test, a body that it jumps over, and a jump back to the test.
LEMMA PassageLoop ==
  ASSUME NEW c \in Seq(Instruction), NEW d \in Seq(Instruction),
         NEW jz \in Instruction, jz.op = "S_JZ", jz.arg = Len(d) + 2,
         NEW jmp \in Instruction, jmp.op = "jmp", jmp.arg = -(Len(c) + Len(d) + 1),
         NEW n \in Notes, NEW m \in Notes, NEW m2 \in Notes, NEW n3 \in Notes, NEW o \in Notes,
         NEW t \in Notes, NEW x \in Notes,
         Passage(c, n, m), Fine(jz, m, m2, t), Yields(t, o), Passage(d, m2, n3),
         Fine(jmp, n3, x, n)
  PROVE  Passage(c \o <<jz>> \o d \o <<jmp>>, n, o)
<1>. DEFINE a == Len(c)
            b == Len(d)
            e == c \o <<jz>> \o d \o <<jmp>>
<1>1. /\ a \in Nat /\ b \in Nat /\ e \in Seq(Instruction) /\ Len(e) = a + b + 2
      /\ \A i \in 1 .. a : e[i] = c[i]
      /\ e[a + 1] = jz /\ e[a + b + 2] = jmp
      /\ \A i \in 1 .. b : e[i + (a + 1)] = d[i]
  BY LoopLayout
<1>2. PICK N1 \in [1 .. a + 1 -> Notes] :
        /\ Yields(n, N1[1]) /\ Yields(N1[a + 1], m) /\ \A i \in 1 .. a : FineAt(c, N1, i)
  BY DEF Passage
<1>3. PICK N2 \in [1 .. b + 1 -> Notes] :
        /\ Yields(m2, N2[1]) /\ Yields(N2[b + 1], n3) /\ \A i \in 1 .. b : FineAt(d, N2, i)
  BY DEF Passage
<1>. DEFINE M == [i \in 1 .. (a + b + 2) + 1 |->
                    IF i <= a THEN N1[i] ELSE IF i = a + 1 THEN m
                    ELSE IF i = a + b + 2 THEN n3 ELSE IF i = a + b + 3 THEN o
                    ELSE N2[i - (a + 1)]]
<1>. HIDE DEF a, b, e
<1>n. a \in Nat /\ b \in Nat /\ Len(e) = a + b + 2
  BY <1>1
<1>4. M \in [1 .. (a + b + 2) + 1 -> Notes]
  <2>1. ASSUME NEW i \in 1 .. (a + b + 2) + 1
        PROVE  /\ i <= a => i \in 1 .. a + 1
               /\ ~(i <= a) /\ i # a + 1 /\ i # a + b + 2 /\ i # a + b + 3 =>
                    i - (a + 1) \in 1 .. b + 1
    BY <1>n
  <2>. QED  BY <2>1
<1>5. \A i \in 1 .. a : M[i] = N1[i]
  BY <1>n
<1>6. M[a + 1] = m /\ M[a + b + 2] = n3 /\ M[a + b + 3] = o
  <2>1. /\ a + 1 \in 1 .. (a + b + 2) + 1 /\ ~(a + 1 <= a)
        /\ a + b + 2 \in 1 .. (a + b + 2) + 1 /\ ~(a + b + 2 <= a) /\ a + b + 2 # a + 1
        /\ a + b + 3 \in 1 .. (a + b + 2) + 1 /\ ~(a + b + 3 <= a) /\ a + b + 3 # a + 1
        /\ a + b + 3 # a + b + 2
    BY <1>n
  <2>. QED  BY <2>1
<1>7. \A i \in 1 .. b : M[i + (a + 1)] = N2[i]
  <2>. SUFFICES ASSUME NEW i \in 1 .. b  PROVE M[i + (a + 1)] = N2[i]
    OBVIOUS
  <2>1. /\ i + (a + 1) \in 1 .. (a + b + 2) + 1 /\ ~(i + (a + 1) <= a) /\ i + (a + 1) # a + 1
        /\ i + (a + 1) # a + b + 2 /\ i + (a + 1) # a + b + 3 /\ (i + (a + 1)) - (a + 1) = i
    BY <1>n
  <2>. QED  BY <2>1
<1>8. Yields(n, M[1])
  <2>1. CASE a = 0
    <3>1. M[1] = m
      BY <1>6, <2>1
    <3>. QED  BY <1>2, <2>1, <3>1, YieldsTrans
  <2>2. CASE a # 0
    <3>1. M[1] = N1[1]
      BY <1>1, <1>5, <2>2
    <3>. QED  BY <1>2, <3>1
  <2>. QED  BY <2>1, <2>2
<1>9. Yields(m2, M[a + 2])
  <2>1. CASE b = 0
    <3>1. M[a + 2] = n3
      BY <1>1, <1>6, <2>1
    <3>. QED  BY <1>3, <2>1, <3>1, YieldsTrans
  <2>2. CASE b # 0
    <3>1. M[1 + (a + 1)] = N2[1] /\ 1 + (a + 1) = a + 2
      BY <1>1, <1>7, <2>2
    <3>. QED  BY <1>3, <3>1
  <2>. QED  BY <2>1, <2>2
<1>. HIDE DEF M
<1>10. ASSUME NEW i \in 1 .. a  PROVE FineAt(e, M, i + 0)
  <2>1. 0 + a <= Len(e) /\ a + 1 + 0 = a + 1 /\ 0 \in Nat
        /\ \A j \in 1 .. a : e[j + 0] = c[j] /\ M[j + 0] = N1[j]
    BY <1>1, <1>5
  <2>2. Yields(N1[a + 1], M[a + 1 + 0])
    BY <1>2, <1>6, <2>1
  <2>3. M \in [1 .. Len(e) + 1 -> Notes]
    BY <1>1, <1>4
  <2>. QED  BY <1>1, <1>2, <2>1, <2>2, <2>3, Embed DEF a
<1>11. ASSUME NEW i \in 1 .. b  PROVE FineAt(e, M, i + (a + 1))
  <2>1. (a + 1) + b <= Len(e) /\ b + 1 + (a + 1) = a + b + 2 /\ a + 1 \in Nat
    BY <1>n
  <2>2. Yields(N2[b + 1], M[b + 1 + (a + 1)])
    BY <1>3, <1>6, <2>1
  <2>3. M \in [1 .. Len(e) + 1 -> Notes]
    BY <1>1, <1>4
  <2>. QED  BY <1>1, <1>3, <1>7, <2>1, <2>2, <2>3, Embed DEF b
<1>12. FineAt(e, M, a + 1)
  <2>1. (a + 1) + jz.arg = a + b + 3 /\ a + b + 3 \in 1 .. Len(e) + 1 /\ (a + 1) + 1 = a + 2
    BY <1>n DEF b
  <2>. QED  BY <1>1, <1>6, <1>9, <2>1 DEF FineAt, JumpOps
<1>13. FineAt(e, M, a + b + 2)
  <2>1. (a + b + 2) + jmp.arg = 1 /\ 1 \in 1 .. Len(e) + 1
    <3>1. jmp.arg = -(a + b + 1)
      BY DEF a, b
    <3>. QED  BY <1>n, <3>1
  <2>. QED  BY <1>1, <1>6, <1>8, <2>1 DEF FineAt, JumpOps
<1>14. ASSUME NEW i \in 1 .. Len(e)  PROVE FineAt(e, M, i)
  <2>1. CASE i <= a
    <3>1. i \in 1 .. a /\ i + 0 = i
      BY <1>n, <2>1
    <3>. QED  BY <1>10, <3>1
  <2>2. CASE i = a + 1
    BY <1>12, <2>2
  <2>3. CASE i = a + b + 2
    BY <1>13, <2>3
  <2>4. CASE ~(i <= a) /\ i # a + 1 /\ i # a + b + 2
    <3>1. i - (a + 1) \in 1 .. b /\ (i - (a + 1)) + (a + 1) = i
      BY <1>n, <2>4
    <3>2. FineAt(e, M, (i - (a + 1)) + (a + 1))
      BY <1>11, <3>1
    <3>. QED  BY <3>1, <3>2
  <2>. QED  BY <2>1, <2>2, <2>3, <2>4
<1>15. Yields(M[Len(e) + 1], o) /\ M \in [1 .. Len(e) + 1 -> Notes]
  <2>1. Len(e) + 1 = a + b + 3 /\ Len(e) + 1 = (a + b + 2) + 1
    BY <1>n
  <2>. QED  BY <1>4, <1>6, <2>1, YieldsRefl
<1>. QED  BY <1>8, <1>14, <1>15 DEF Passage, e

-----------------------------------------------------------------------------
(* The compiler's functions. *)

\* The depths that the compiler counts: a list with one number for each loop around.
Depths == Seq(Nat)

\* Instructions, and those that a break from more loops than there are would give.
Written ==
  [op : Ops, arg : Int \cup {Code!SumLast(x[1], x[2]) - x[3] : x \in Depths \X Nat \X {0, 1}}]

\* A statement and the depths at it.
Places == Statements \X Depths

\* The code of a list is that of its statements, one after the other.
LEMMA VisitAllFacts ==
  ASSUME NEW visit, NEW stmts \in Seq(Statements), NEW depths \in Depths,
         \A i \in 1 .. Len(stmts) : visit[<<stmts[i], depths>>] \in Seq(Written)
  PROVE  \E P \in [0 .. Len(stmts) -> Seq(Written)] :
           /\ P[0] = <<>> /\ Code!VisitAll(visit, stmts, depths) = P[Len(stmts)]
           /\ \A i \in 1 .. Len(stmts) : P[i] = P[i - 1] \o visit[<<stmts[i], depths>>]
<1>. DEFINE K == Len(stmts)
            V == Seq(Written)
            step == [ci \in V \X (1 .. K) |-> ci[1] \o visit[<<stmts[ci[2]], depths>>]]
            G(g) == [i \in 0 .. K |-> IF i = 0 THEN <<>> ELSE g[i - 1] \o visit[<<stmts[i], depths>>]]
            code0 == CHOOSE g : g = G(g)
<1>1. K \in Nat /\ <<>> \in V
  BY LenProperties, EmptySeq
<1>2. \A i \in 1 .. K : visit[<<stmts[i], depths>>] \in V
  OBVIOUS
<1>3. step \in [V \X (1 .. K) -> V]
  <2>1. ASSUME NEW c \in V, NEW i \in 1 .. K  PROVE c \o visit[<<stmts[i], depths>>] \in V
    BY <1>2, ConcatProperties
  <2>. HIDE DEF V, K
  <2>. QED  BY <2>1
<1>4. PICK g \in [0 .. K -> V] : Turns(g, K, <<>>, step)
  <2>. HIDE DEF V, K, step
  <2>. QED  BY <1>1, <1>3, Iteration
<1>5. \A i \in 0 .. K : g[i] = IF i = 0 THEN <<>> ELSE g[i - 1] \o visit[<<stmts[i], depths>>]
  <2>. SUFFICES ASSUME NEW i \in 0 .. K, i # 0
                PROVE  g[i] = g[i - 1] \o visit[<<stmts[i], depths>>]
    BY <1>4 DEF Turns
  <2>1. i - 1 \in 0 .. K /\ i \in 1 .. K
    BY <1>1
  <2>2. g[i] = step[<<g[i - 1], i>>] /\ g[i - 1] \in V
    BY <1>4, <2>1 DEF Turns
  <2>. HIDE DEF V, K
  <2>. QED  BY <2>1, <2>2
<1>6. g = G(g)
  <2>. HIDE DEF V
  <2>. QED  BY <1>5
<1>7. code0 = G(code0)
  <2>. HIDE DEF G
  <2>. QED  BY <1>6
<1>8. Code!VisitAll(visit, stmts, depths) = code0[K]
  BY DEF Code!VisitAll
<1>. HIDE DEF code0
<1>9. \A i \in 0 .. K : code0[i] = g[i]
  <2>. DEFINE S == {i \in Nat : i \in 0 .. K => code0[i] = g[i]}
  <2>1. 0 \in S
    BY <1>1, <1>5, <1>7
  <2>2. ASSUME NEW i \in Nat, i \in S  PROVE i + 1 \in S
    <3>. SUFFICES ASSUME i + 1 \in 0 .. K  PROVE code0[i + 1] = g[i + 1]
      OBVIOUS
    <3>1. i \in 0 .. K /\ (i + 1) - 1 = i /\ i + 1 # 0
      BY <1>1
    <3>2. code0[i] = g[i]
      BY <2>2, <3>1
    <3>3. code0[i + 1] = code0[i] \o visit[<<stmts[i + 1], depths>>]
      BY <1>7, <3>1
    <3>. QED  BY <1>5, <3>1, <3>2, <3>3
  <2>. HIDE DEF S
  <2>3. \A i \in Nat : i \in S
    BY <2>1, <2>2, Steps
  <2>. QED  BY <2>3 DEF S
<1>10. \A i \in 1 .. K : g[i] = g[i - 1] \o visit[<<stmts[i], depths>>]
  <2>1. ASSUME NEW i \in 1 .. K  PROVE i \in 0 .. K /\ i # 0
    BY <1>1
  <2>. QED  BY <1>5, <2>1
<1>11. g[0] = <<>> /\ code0[K] = g[K]
  <2>1. 0 \in 0 .. K /\ K \in 0 .. K
    BY <1>1
  <2>. QED  BY <1>5, <1>9, <2>1
<1>. HIDE DEF G, step
<1>. QED  BY <1>8, <1>10, <1>11

\* It depends on the code of these statements alone.
LEMMA VisitAllSame ==
  ASSUME NEW visit, NEW other \in [Places -> Seq(Written)],
         NEW stmts \in Seq(Statements), NEW depths \in Depths,
         \A i \in 1 .. Len(stmts) : visit[<<stmts[i], depths>>] = other[<<stmts[i], depths>>]
  PROVE  Code!VisitAll(visit, stmts, depths) = Code!VisitAll(other, stmts, depths)
<1>. DEFINE K == Len(stmts)
<1>0. \A i \in 1 .. Len(stmts) : /\ other[<<stmts[i], depths>>] \in Seq(Written)
                                  /\ visit[<<stmts[i], depths>>] \in Seq(Written)
  <2>1. \A i \in 1 .. Len(stmts) : <<stmts[i], depths>> \in Places
    BY ElementOfSeq DEF Places
  <2>. QED  BY <2>1
<1>1. PICK P \in [0 .. K -> Seq(Written)] :
        /\ P[0] = <<>> /\ Code!VisitAll(visit, stmts, depths) = P[K]
        /\ \A i \in 1 .. K : P[i] = P[i - 1] \o visit[<<stmts[i], depths>>]
  BY <1>0, VisitAllFacts
<1>2. PICK Q \in [0 .. K -> Seq(Written)] :
        /\ Q[0] = <<>> /\ Code!VisitAll(other, stmts, depths) = Q[K]
        /\ \A i \in 1 .. K : Q[i] = Q[i - 1] \o other[<<stmts[i], depths>>]
  BY <1>0, VisitAllFacts
<1>3. K \in Nat
  BY LenProperties
<1>. DEFINE S == {i \in Nat : i \in 0 .. K => P[i] = Q[i]}
<1>4. 0 \in S
  BY <1>1, <1>2
<1>5. ASSUME NEW i \in Nat, i \in S  PROVE i + 1 \in S
  <2>. SUFFICES ASSUME i + 1 \in 0 .. K  PROVE P[i + 1] = Q[i + 1]
    OBVIOUS
  <2>1. i \in 0 .. K /\ i + 1 \in 1 .. K /\ (i + 1) - 1 = i
    BY <1>3
  <2>2. P[i] = Q[i]
    BY <1>5, <2>1
  <2>. QED  BY <1>1, <1>2, <2>1, <2>2
<1>. HIDE DEF S
<1>6. \A i \in Nat : i \in S
  BY <1>4, <1>5, Steps
<1>7. P[K] = Q[K]
  <2>1. K \in 0 .. K
    BY <1>3
  <2>. QED  BY <1>3, <1>6, <2>1 DEF S
<1>. QED  BY <1>1, <1>2, <1>7

\* The levels that belong to the innermost loops, one loop at a time.
LEMMA SumLastFacts ==
  ASSUME NEW depths \in Depths, NEW n \in 0 .. Len(depths)
  PROVE  \E g \in [0 .. n -> Nat] :
           /\ g[0] = 0 /\ Code!SumLast(depths, n) = g[n]
           /\ \A i \in 1 .. n : g[i] = g[i - 1] + depths[Len(depths) - i + 1]
<1>. DEFINE step == [ci \in Nat \X (1 .. n) |-> ci[1] + depths[Len(depths) - ci[2] + 1]]
            G(g) == [i \in 0 .. n |-> IF i = 0 THEN 0 ELSE g[i - 1] + depths[Len(depths) - i + 1]]
            sum0 == CHOOSE g : g = G(g)
<1>1. n \in Nat /\ Len(depths) \in Nat /\ n <= Len(depths)
  <2>1. Len(depths) \in Nat
    BY LenProperties DEF Depths
  <2>. QED  BY <2>1
<1>2. \A i \in 1 .. n : depths[Len(depths) - i + 1] \in Nat
  <2>. SUFFICES ASSUME NEW i \in 1 .. n  PROVE depths[Len(depths) - i + 1] \in Nat
    OBVIOUS
  <2>1. Len(depths) - i + 1 \in 1 .. Len(depths)
    BY <1>1
  <2>. QED  BY <2>1, ElementOfSeq DEF Depths
<1>3. step \in [Nat \X (1 .. n) -> Nat]
  <2>1. ASSUME NEW c \in Nat, NEW i \in 1 .. n  PROVE c + depths[Len(depths) - i + 1] \in Nat
    BY <1>2
  <2>. QED  BY <2>1
<1>4. PICK g \in [0 .. n -> Nat] : Turns(g, n, 0, step)
  <2>. HIDE DEF step
  <2>. QED  BY <1>1, <1>3, Iteration
<1>5. \A i \in 0 .. n : g[i] = IF i = 0 THEN 0 ELSE g[i - 1] + depths[Len(depths) - i + 1]
  <2>. SUFFICES ASSUME NEW i \in 0 .. n, i # 0
                PROVE  g[i] = g[i - 1] + depths[Len(depths) - i + 1]
    BY <1>4 DEF Turns
  <2>1. i - 1 \in 0 .. n /\ i \in 1 .. n
    BY <1>1
  <2>2. g[i] = step[<<g[i - 1], i>>] /\ g[i - 1] \in Nat
    BY <1>4, <2>1 DEF Turns
  <2>. QED  BY <2>1, <2>2
<1>6. g = G(g)
  BY <1>5
<1>7. sum0 = G(sum0)
  <2>. HIDE DEF G
  <2>. QED  BY <1>6
<1>8. Code!SumLast(depths, n) = sum0[n]
  BY DEF Code!SumLast
<1>. HIDE DEF sum0
<1>9. \A i \in 0 .. n : sum0[i] = g[i]
  <2>. DEFINE S == {i \in Nat : i \in 0 .. n => sum0[i] = g[i]}
  <2>1. 0 \in S
    BY <1>1, <1>5, <1>7
  <2>2. ASSUME NEW i \in Nat, i \in S  PROVE i + 1 \in S
    <3>. SUFFICES ASSUME i + 1 \in 0 .. n  PROVE sum0[i + 1] = g[i + 1]
      OBVIOUS
    <3>1. i \in 0 .. n /\ (i + 1) - 1 = i /\ i + 1 # 0
      BY <1>1
    <3>2. sum0[i] = g[i]
      BY <2>2, <3>1
    <3>3. sum0[i + 1] = sum0[i] + depths[Len(depths) - (i + 1) + 1]
      BY <1>7, <3>1
    <3>. QED  BY <1>5, <3>1, <3>2, <3>3
  <2>. HIDE DEF S
  <2>3. \A i \in Nat : i \in S
    BY <2>1, <2>2, Steps
  <2>. QED  BY <2>3 DEF S
<1>10. \A i \in 1 .. n : g[i] = g[i - 1] + depths[Len(depths) - i + 1]
  <2>1. ASSUME NEW i \in 1 .. n  PROVE i \in 0 .. n /\ i # 0
    BY <1>1
  <2>. QED  BY <1>5, <2>1
<1>11. g[0] = 0 /\ sum0[n] = g[n]
  <2>1. 0 \in 0 .. n /\ n \in 0 .. n
    BY <1>1
  <2>. QED  BY <1>5, <1>9, <2>1
<1>. HIDE DEF G, step
<1>. QED  BY <1>8, <1>10, <1>11

\* A push is one more level for as many loops as there are.
LEMMA SumPushed ==
  ASSUME NEW depths \in Depths
  PROVE  /\ Code!Pushed(depths) \in Depths /\ Len(Code!Pushed(depths)) = Len(depths)
         /\ \A n \in 1 .. Len(depths) :
              Code!SumLast(Code!Pushed(depths), n) = Code!SumLast(depths, n) + 1
<1>. DEFINE P == Code!Pushed(depths)
            L == Len(depths)
<1>0. L \in Nat
  BY LenProperties DEF Depths
<1>1. P \in Depths /\ Len(P) = L /\ \A i \in 1 .. L : P[i] = depths[i] + IF i = L THEN 1 ELSE 0
  <2>1. CASE depths = <<>>
    <3>1. P = depths /\ L = 0
      BY <2>1, EmptySeq DEF Code!Pushed
    <3>. QED  BY <3>1
  <2>2. CASE depths # <<>>
    <3>1. P = [depths EXCEPT ![L] = @ + 1]
      BY <2>2 DEF Code!Pushed
    <3>2. L \in 1 .. L
      BY <2>2, EmptySeq DEF Depths
    <3>3. \A i \in 1 .. L : depths[i] \in Nat
      BY ElementOfSeq DEF Depths
    <3>4. depths[L] + 1 \in Nat
      BY <3>2, <3>3
    <3>5. P = [depths EXCEPT ![L] = depths[L] + 1]
      BY <3>1
    <3>6. /\ P \in Seq(Nat) /\ Len(P) = L
          /\ \A j \in 1 .. L : P[j] = IF j = L THEN depths[L] + 1 ELSE depths[j]
      <4>. HIDE DEF P
      <4>. QED  BY <3>2, <3>4, <3>5, ExceptSeq DEF Depths
    <3>. HIDE DEF P, L
    <3>. QED  BY <3>3, <3>6 DEF Depths
  <2>. QED  BY <2>1, <2>2
<1>2. ASSUME NEW n \in 1 .. L
      PROVE  Code!SumLast(P, n) = Code!SumLast(depths, n) + 1
  <2>. HIDE DEF P
  <2>0. n \in 0 .. Len(depths) /\ n \in 0 .. Len(P) /\ n \in Nat
    BY <1>0, <1>1
  <2>1. PICK g \in [0 .. n -> Nat] :
           /\ g[0] = 0 /\ Code!SumLast(depths, n) = g[n]
           /\ \A i \in 1 .. n : g[i] = g[i - 1] + depths[L - i + 1]
    BY <2>0, SumLastFacts
  <2>2. PICK h \in [0 .. n -> Nat] :
           /\ h[0] = 0 /\ Code!SumLast(P, n) = h[n]
           /\ \A i \in 1 .. n : h[i] = h[i - 1] + P[Len(P) - i + 1]
    <3>. HIDE DEF L
    <3>. QED  BY <1>1, <2>0, SumLastFacts
  <2>. HIDE DEF L
  <2>. DEFINE S == {i \in Nat : i \in 1 .. n => h[i] = g[i] + 1}
  <2>3. 0 \in S
    OBVIOUS
  <2>4. ASSUME NEW i \in Nat, i \in S  PROVE i + 1 \in S
    <3>. SUFFICES ASSUME i + 1 \in 1 .. n  PROVE h[i + 1] = g[i + 1] + 1
      OBVIOUS
    <3>0. (i + 1) - 1 = i /\ i \in 0 .. n /\ L - (i + 1) + 1 \in 1 .. L
          /\ L - (i + 1) + 1 = L - i
      BY <1>0, <2>0
    <3>1. h[i + 1] = h[i] + P[L - i] /\ g[i + 1] = g[i] + depths[L - i]
      BY <1>1, <2>1, <2>2, <3>0
    <3>2. depths[L - i] \in Nat /\ h[i] \in Nat /\ g[i] \in Nat
      <4>1. L - i \in 1 .. Len(depths)
        BY <3>0 DEF L
      <4>2. depths[L - i] \in Nat
        BY <4>1, ElementOfSeq DEF Depths
      <4>. QED  BY <3>0, <4>2
    <3>3. CASE i = 0
      <4>1. P[L - i] = depths[L - i] + 1
        BY <1>0, <1>1, <3>0, <3>3
      <4>. QED  BY <2>1, <2>2, <3>1, <3>2, <3>3, <4>1
    <3>4. CASE i # 0
      <4>1. P[L - i] = depths[L - i]
        BY <1>0, <1>1, <3>0, <3>2, <3>4
      <4>2. h[i] = g[i] + 1
        <5>1. i \in 1 .. n
          BY <3>0, <3>4
        <5>. QED  BY <2>4, <5>1
      <4>3. h[i + 1] = (g[i] + 1) + depths[L - i]
        BY <3>1, <4>1, <4>2
      <4>4. \A a, b \in Nat : (a + 1) + b = (a + b) + 1
        OBVIOUS
      <4>5. (g[i] + 1) + depths[L - i] = (g[i] + depths[L - i]) + 1
        BY <3>2, <4>4
      <4>. QED  BY <3>1, <4>3, <4>5
    <3>. QED  BY <3>3, <3>4
  <2>. HIDE DEF S
  <2>5. \A i \in Nat : i \in S
    BY <2>3, <2>4, Steps
  <2>. QED  BY <2>0, <2>1, <2>2, <2>5 DEF S
<1>. QED  BY <1>1, <1>2

\* A new loop has no level yet, and the others have what they had.
LEMMA SumInner ==
  ASSUME NEW depths \in Depths
  PROVE  /\ Append(depths, 0) \in Depths /\ Len(Append(depths, 0)) = Len(depths) + 1
         /\ \A n \in 0 .. Len(depths) :
              Code!SumLast(Append(depths, 0), n + 1) = Code!SumLast(depths, n)
         /\ Code!SumLast(depths, 0) = 0
<1>. DEFINE P == Append(depths, 0)
            L == Len(depths)
<1>0. L \in Nat
  BY LenProperties DEF Depths
<1>1. P \in Depths /\ Len(P) = L + 1 /\ P[L + 1] = 0 /\ \A i \in 1 .. L : P[i] = depths[i]
  BY AppendProperties DEF Depths
<1>2. ASSUME NEW n \in 0 .. L
      PROVE  Code!SumLast(P, n + 1) = Code!SumLast(depths, n)
  <2>. HIDE DEF P
  <2>0. n \in 0 .. Len(depths) /\ n + 1 \in 0 .. Len(P) /\ n \in Nat
    BY <1>0, <1>1
  <2>1. PICK g \in [0 .. n -> Nat] :
           /\ g[0] = 0 /\ Code!SumLast(depths, n) = g[n]
           /\ \A i \in 1 .. n : g[i] = g[i - 1] + depths[L - i + 1]
    BY <2>0, SumLastFacts
  <2>2. PICK h \in [0 .. n + 1 -> Nat] :
           /\ h[0] = 0 /\ Code!SumLast(P, n + 1) = h[n + 1]
           /\ \A i \in 1 .. n + 1 : h[i] = h[i - 1] + P[Len(P) - i + 1]
    <3>. HIDE DEF L
    <3>. QED  BY <1>1, <2>0, SumLastFacts
  <2>. HIDE DEF L
  <2>. DEFINE S == {i \in Nat : i \in 0 .. n => h[i + 1] = g[i]}
  <2>3. 0 \in S
    <3>1. 1 \in 1 .. n + 1 /\ 1 - 1 = 0 /\ Len(P) - 1 + 1 = L + 1
      BY <1>0, <1>1, <2>0
    <3>2. h[1] = 0
      BY <1>1, <2>2, <3>1
    <3>. QED  BY <2>1, <3>2
  <2>4. ASSUME NEW i \in Nat, i \in S  PROVE i + 1 \in S
    <3>. SUFFICES ASSUME i + 1 \in 0 .. n  PROVE h[(i + 1) + 1] = g[i + 1]
      OBVIOUS
    <3>0. /\ (i + 1) - 1 = i /\ i \in 0 .. n /\ i + 1 \in 1 .. n
          /\ (i + 1) + 1 \in 1 .. n + 1 /\ ((i + 1) + 1) - 1 = i + 1
          /\ (L + 1) - ((i + 1) + 1) + 1 = L - (i + 1) + 1
          /\ L - (i + 1) + 1 \in 1 .. L
      BY <1>0, <2>0
    <3>1. h[(i + 1) + 1] = h[i + 1] + P[L - (i + 1) + 1]
      BY <1>1, <2>2, <3>0
    <3>2. g[i + 1] = g[i] + depths[L - (i + 1) + 1]
      BY <2>1, <3>0
    <3>3. h[i + 1] = g[i]
      BY <2>4, <3>0
    <3>. QED  BY <1>1, <3>0, <3>1, <3>2, <3>3
  <2>. HIDE DEF S
  <2>5. \A i \in Nat : i \in S
    BY <2>3, <2>4, Steps
  <2>6. h[n + 1] = g[n]
    BY <2>0, <2>5 DEF S
  <2>. QED  BY <2>1, <2>2, <2>6
<1>3. Code!SumLast(depths, 0) = 0
  <2>1. 0 \in 0 .. Len(depths)
    BY <1>0
  <2>. QED  BY <2>1, SumLastFacts
<1>. QED  BY <1>1, <1>2, <1>3

-----------------------------------------------------------------------------

\* The code of a statement by a visitor for its parts.
Visits(visit, s, depths) ==
  CASE s.k = "do" -> Code!I("do", s.id)
    [] s.k = "if" -> Code!VisitConditional(visit, s, depths)
    [] s.k = "pick" -> Code!VisitConditionalExpression(visit, s, depths)
    [] s.k = "while" -> Code!VisitWhileConstruct(visit, s, depths)
    [] s.k \in {"break", "continue"} -> Code!VisitLoopMod(s, depths)
    [] s.k = "illuminate" -> Code!VisitIlluminateConstruct(visit, s, depths)
    [] s.k = "solar" -> Code!VisitSolarConstruct(visit, s, depths)
    [] s.k = "illuminance" -> Code!VisitIlluminanceConstruct(visit, s, depths)
    [] s.k = "gather" -> Code!VisitGatherConstruct(visit, s, depths)

\* What the code generator writes for an instruction and for an expression is code.
LEMMA WrittenFacts ==
  /\ Instruction \subseteq Written
  /\ \A op \in Ops, arg \in Int : /\ Code!I(op, arg) \in Seq(Instruction)
                                  /\ Code!I(op, arg) \in Seq(Written)
                                  /\ Code!I(op, arg) = <<[op |-> op, arg |-> arg]>>
                                  /\ [op |-> op, arg |-> arg] \in Instruction
  /\ \A s \in Statements : /\ Code!Expression(s.args) \in Seq(Instruction)
                           /\ Code!Expression(s.args) \in Seq(Written)
  /\ \A c \in Seq(Written) : Len(c) \in Nat
<1>1. Instruction \subseteq Written
  BY DEF Instruction, Written
<1>2. \A op \in Ops, arg \in Int : [op |-> op, arg |-> arg] \in Instruction
  BY DEF Instruction
<1>3. Seq(Instruction) \subseteq Seq(Written)
  BY <1>1, SeqMonotonic
<1>4. ASSUME NEW op \in Ops, NEW arg \in Int  PROVE Code!I(op, arg) \in Seq(Instruction)
  <2>. DEFINE w == [op |-> op, arg |-> arg]
  <2>1. w \in Instruction /\ Code!I(op, arg) = <<w>>
    BY <1>2 DEF Code!I
  <2>. HIDE DEF w
  <2>. QED  BY <2>1
<1>5. ASSUME NEW s \in Statements  PROVE Code!Expression(s.args) \in Seq(Instruction)
  <2>1. s.args \in Seq(Scalar!Expressions) /\ Scalar!Expressions \subseteq Ops
    BY StatementsAreItems DEF Ops, Scalar!Expressions
  <2>2. Len(s.args) \in Nat /\ DOMAIN s.args = 1 .. Len(s.args)
        /\ \A i \in 1 .. Len(s.args) : s.args[i] \in Ops
    BY <2>1, LenProperties, ElementOfSeq
  <2>3. \A i \in 1 .. Len(s.args) : [op |-> s.args[i], arg |-> 0] \in Instruction
    BY <1>2, <2>2
  <2>4. Code!Expression(s.args) = [i \in 1 .. Len(s.args) |-> [op |-> s.args[i], arg |-> 0]]
    BY <2>2 DEF Code!Expression
  <2>5. Code!Expression(s.args) \in [1 .. Len(s.args) -> Instruction]
    BY <2>3, <2>4
  <2>. QED  BY <2>2, <2>5, SeqDef
<1>6. \A c \in Seq(Written) : Len(c) \in Nat
  BY LenProperties
<1>7. \A op \in Ops, arg \in Int : Code!I(op, arg) = <<[op |-> op, arg |-> arg]>>
  BY DEF Code!I
<1>. QED  BY <1>1, <1>2, <1>3, <1>4, <1>5, <1>6, <1>7

\* A visitor that writes code for each statement writes code for a list of them.
LEMMA VisitAllTyped ==
  ASSUME NEW visit \in [Places -> Seq(Written)], NEW stmts \in Seq(Statements), NEW depths \in Depths
  PROVE  Code!VisitAll(visit, stmts, depths) \in Seq(Written)
<1>1. Len(stmts) \in 0 .. Len(stmts)
  <2>1. Len(stmts) \in Nat
    BY LenProperties
  <2>. QED  BY <2>1
<1>2. \A i \in 1 .. Len(stmts) : visit[<<stmts[i], depths>>] \in Seq(Written)
  <2>1. \A i \in 1 .. Len(stmts) : <<stmts[i], depths>> \in Places
    BY ElementOfSeq DEF Places
  <2>. QED  BY <2>1
<1>3. PICK P \in [0 .. Len(stmts) -> Seq(Written)] :
        /\ P[0] = <<>> /\ Code!VisitAll(visit, stmts, depths) = P[Len(stmts)]
        /\ \A i \in 1 .. Len(stmts) : P[i] = P[i - 1] \o visit[<<stmts[i], depths>>]
  BY <1>2, VisitAllFacts
<1>. QED  BY <1>1, <1>3

\* The code of a statement is code when that of its parts is.
LEMMA VisitsTyped ==
  ASSUME NEW visit \in [Places -> Seq(Written)], NEW s \in Statements, NEW depths \in Depths
  PROVE  Visits(visit, s, depths) \in Seq(Written)
<1>. DEFINE D1 == Code!Pushed(depths)
            D2 == Append(D1, 0)
            D3 == Code!Pushed(D2)
            V == Seq(Written)
            All(x, d) == Code!VisitAll(visit, x, d)
            E == Code!Expression(s.args)
<1>1. D1 \in Depths /\ D2 \in Depths /\ D3 \in Depths
  <2>1. D1 \in Depths
    BY SumPushed
  <2>. HIDE DEF D1
  <2>2. D2 \in Depths
    BY <2>1, SumInner
  <2>. HIDE DEF D2
  <2>3. D3 \in Depths
    BY <2>2, SumPushed
  <2>. QED  BY <2>1, <2>2, <2>3
<1>. HIDE DEF D1, D2, D3
<1>2. /\ All(s.body, D1) \in V /\ All(s.other, D1) \in V /\ All(s.body, D3) \in V
      /\ All(s.other, D2) \in V
  BY <1>1, StatementsAreItems, VisitAllTyped
<1>3. s.id \in Int /\ s.n \in Int /\ s.n \in Nat /\ s.k \in Scalar!Kinds
  BY StatementsAreItems
<1>4. \A op \in Ops, arg \in Int : Code!I(op, arg) \in V
  BY WrittenFacts
<1>16. /\ Code!I("S_CLEAR", 0) \in V /\ Code!I("RS_PUSH", 0) \in V /\ Code!I("RS_GET", 0) \in V
       /\ Code!I("RS_INVERSE", 0) \in V /\ Code!I("RS_POP", 0) \in V
       /\ Code!I("S_GET", s.id) \in V /\ Code!I("illuminance", s.id) \in V
       /\ Code!I("gather", s.id) \in V /\ Code!I("init_gather", s.n) \in V
       /\ Code!I("do", s.id) \in V
  <2>1. /\ "S_CLEAR" \in Ops /\ "RS_PUSH" \in Ops /\ "RS_GET" \in Ops /\ "RS_INVERSE" \in Ops
        /\ "RS_POP" \in Ops /\ "S_GET" \in Ops /\ "illuminance" \in Ops /\ "gather" \in Ops
        /\ "init_gather" \in Ops /\ "do" \in Ops /\ 0 \in Int
    BY DEF Ops
  <2>. QED  BY <1>3, <1>4, <2>1
<1>18. s.k \in {"illuminate", "solar"} => Code!I(s.k, s.id) \in V
  <2>. SUFFICES ASSUME s.k \in {"illuminate", "solar"}  PROVE Code!I(s.k, s.id) \in V
    OBVIOUS
  <2>1. s.k \in Ops
    BY DEF Ops
  <2>. QED  BY <1>3, <1>4, <2>1
<1>17. \A arg \in Int :
         /\ Code!I("S_JZ", arg) \in V /\ Code!I("RS_JZ", arg) \in V /\ Code!I("jmp", arg) \in V
         /\ Code!I("init_illuminance", arg) \in V /\ Code!I("advance_illuminance", arg) \in V
         /\ Code!I("advance_gather", arg) \in V
  BY <1>4 DEF Ops
<1>5. E \in V /\ \A c \in V : Len(c) \in Nat
  BY WrittenFacts
<1>6. \A c, d \in V : c \o d \in V
  BY ConcatProperties
<1>7. <<>> \in V
  BY EmptySeq
<1>. HIDE DEF V, All, E
<1>8. CASE s.k = "do"
  BY <1>16, <1>17, <1>8 DEF Visits, V, Ops
<1>9. CASE s.k = "if"
  <2>. DEFINE T == All(s.body, D1)
              F == All(s.other, D1)
  <2>1. Len(T) + 1 \in Int /\ Len(F) + 1 \in Int /\ T \in V /\ F \in V
    BY <1>2, <1>5
  <2>2. Visits(visit, s, depths) =
          Code!I("S_CLEAR", 0) \o E \o Code!I("S_GET", s.id) \o Code!I("RS_PUSH", 0)
            \o Code!I("RS_GET", 0) \o Code!I("RS_JZ", Len(T) + 1) \o T
            \o (IF F = <<>> THEN <<>>
                ELSE Code!I("RS_INVERSE", 0) \o Code!I("RS_JZ", Len(F) + 1) \o F)
            \o Code!I("RS_POP", 0)
    BY <1>9 DEF Visits, Code!VisitConditional, All, D1, E
  <2>. HIDE DEF T, F
  <2>. DEFINE front == Code!I("S_CLEAR", 0) \o E \o Code!I("S_GET", s.id) \o Code!I("RS_PUSH", 0)
                         \o Code!I("RS_GET", 0) \o Code!I("RS_JZ", Len(T) + 1) \o T
              back == IF F = <<>> THEN <<>>
                      ELSE Code!I("RS_INVERSE", 0) \o Code!I("RS_JZ", Len(F) + 1) \o F
  <2>3. front \in V
    BY <1>16, <1>17, <1>5, <1>6, <2>1
  <2>4. back \in V
    BY <1>16, <1>17, <1>6, <1>7, <2>1
  <2>5. Visits(visit, s, depths) = front \o back \o Code!I("RS_POP", 0)
    BY <2>2
  <2>. HIDE DEF front, back
  <2>. QED  BY <1>16, <1>6, <2>3, <2>4, <2>5 DEF V
<1>10. CASE s.k = "pick"
  <2>2. Visits(visit, s, depths) =
          Code!I("S_CLEAR", 0) \o Code!I("S_GET", s.id) \o Code!I("RS_PUSH", 0)
            \o Code!I("RS_GET", 0) \o All(s.body, D1) \o Code!I("RS_INVERSE", 0)
            \o All(s.other, D1) \o Code!I("RS_POP", 0)
    BY <1>10 DEF Visits, Code!VisitConditionalExpression, All, D1
  <2>. QED  BY <1>2, <1>16, <1>17, <1>6, <2>2 DEF V
<1>11. CASE s.k = "while"
  <2>. DEFINE cond == Code!I("S_CLEAR", 0) \o E \o Code!I("S_GET", s.id)
              body == Code!I("RS_GET", 0) \o Code!I("RS_PUSH", 0) \o All(s.body, D3)
                        \o Code!I("RS_POP", 0) \o All(s.other, D2)
  <2>1. cond \in V /\ body \in V
    BY <1>2, <1>16, <1>17, <1>5, <1>6
  <2>2. Visits(visit, s, depths) =
          Code!I("RS_PUSH", 0) \o cond \o Code!I("S_JZ", Len(body) + 2) \o body
            \o Code!I("jmp", -(Len(cond) + Len(body) + 1)) \o Code!I("RS_POP", 0)
    BY <1>11 DEF Visits, Code!VisitWhileConstruct, All, D1, D2, D3, E
  <2>. HIDE DEF cond, body
  <2>3. Len(body) + 2 \in Int /\ -(Len(cond) + Len(body) + 1) \in Int
    BY <1>5, <2>1
  <2>. QED  BY <1>16, <1>17, <1>6, <2>1, <2>2, <2>3 DEF V
<1>12. CASE s.k \in {"break", "continue"}
  <2>. DEFINE less == IF s.k = "continue" THEN 1 ELSE 0
              w == [op |-> "RS_BREAK", arg |-> Code!SumLast(depths, s.n) - less]
  <2>1. Visits(visit, s, depths) = <<w>>
    BY <1>12 DEF Visits, Code!VisitLoopMod, Code!I
  <2>2. w \in Written
    <3>1. <<depths, s.n, less>> \in Depths \X Nat \X {0, 1} /\ "RS_BREAK" \in Ops
      BY <1>3 DEF Ops
    <3>2. w.arg \in {Code!SumLast(x[1], x[2]) - x[3] : x \in Depths \X Nat \X {0, 1}}
      BY <3>1
    <3>. HIDE DEF less
    <3>. QED  BY <3>1, <3>2 DEF Written
  <2>. HIDE DEF w
  <2>. QED  BY <2>1, <2>2 DEF V
<1>13. CASE s.k \in {"illuminate", "solar"}
  <2>. DEFINE body == Code!I("RS_PUSH", 0) \o Code!I("RS_GET", 0) \o All(s.body, D1)
                        \o Code!I("RS_POP", 0)
  <2>1. body \in V
    BY <1>2, <1>16, <1>17, <1>6
  <2>2. Visits(visit, s, depths) =
          Code!I("S_CLEAR", 0) \o Code!I(s.k, s.id) \o Code!I("S_JZ", Len(body) + 2) \o body
            \o Code!I("jmp", -(Len(body) + 3))
    BY <1>13 DEF Visits, Code!VisitSolarConstruct, Code!VisitIlluminateConstruct, All, D1
  <2>. HIDE DEF body
  <2>3. Len(body) + 2 \in Int /\ -(Len(body) + 3) \in Int
    BY <1>5, <2>1
  <2>. QED  BY <1>16, <1>17, <1>18, <1>6, <1>13, <2>1, <2>2, <2>3 DEF V
<1>14. CASE s.k = "illuminance"
  <2>. DEFINE body == Code!I("RS_PUSH", 0) \o Code!I("RS_GET", 0) \o All(s.body, D1)
                        \o Code!I("RS_POP", 0)
              loop == Code!I("S_CLEAR", 0) \o E \o Code!I("illuminance", s.id)
                        \o Code!I("S_JZ", Len(body) + 1) \o body
  <2>1. body \in V
    BY <1>2, <1>16, <1>17, <1>6
  <2>2. Visits(visit, s, depths) =
          E \o Code!I("init_illuminance", Len(loop) + 2) \o loop
            \o Code!I("advance_illuminance", -Len(loop))
    BY <1>14 DEF Visits, Code!VisitIlluminanceConstruct, All, D1, E
  <2>. HIDE DEF body
  <2>3. Len(body) + 1 \in Int
    BY <1>5, <2>1
  <2>4. loop \in V
    BY <1>16, <1>17, <1>5, <1>6, <2>1, <2>3
  <2>. HIDE DEF loop
  <2>5. Len(loop) + 2 \in Int /\ -Len(loop) \in Int
    BY <1>5, <2>4
  <2>. QED  BY <1>16, <1>17, <1>5, <1>6, <2>2, <2>4, <2>5 DEF V
<1>15. CASE s.k = "gather"
  <2>. DEFINE T == All(s.body, D1)
              F == All(s.other, D1)
              loop == Code!I("S_CLEAR", 0) \o Code!I("gather", s.id) \o Code!I("RS_PUSH", 0)
                        \o Code!I("RS_GET", 0) \o Code!I("RS_JZ", Len(T) + 1) \o T
                        \o (IF F = <<>> THEN <<>>
                            ELSE Code!I("RS_INVERSE", 0) \o Code!I("RS_JZ", Len(F) + 1) \o F)
                        \o Code!I("RS_POP", 0)
  <2>1. Len(T) + 1 \in Int /\ Len(F) + 1 \in Int /\ T \in V /\ F \in V
    BY <1>2, <1>5
  <2>2. Visits(visit, s, depths) =
          Code!I("init_gather", s.n) \o loop \o Code!I("advance_gather", -Len(loop))
    BY <1>15 DEF Visits, Code!VisitGatherConstruct, All, D1
  <2>. HIDE DEF T, F
  <2>3. loop \in V
    BY <1>16, <1>17, <1>5, <1>6, <1>7, <2>1
  <2>. HIDE DEF loop
  <2>4. -Len(loop) \in Int
    BY <1>5, <2>3
  <2>. QED  BY <1>16, <1>17, <1>6, <2>2, <2>3, <2>4 DEF V
<1>. QED  BY <1>3, <1>8, <1>9, <1>10, <1>11, <1>12, <1>13, <1>14, <1>15 DEF Scalar!Kinds

\* The parts of a statement nest less deeply.
LEMMA PartsAreLower ==
  ASSUME NEW s \in Statements
  PROVE  /\ s.body \in Seq(Statements) /\ s.other \in Seq(Statements)
         /\ \A i \in 1 .. Len(s.body) : s.body[i] \in Statements /\ Height[s.body[i]] < Height[s]
         /\ \A i \in 1 .. Len(s.other) : s.other[i] \in Statements /\ Height[s.other[i]] < Height[s]
         /\ Height[s] \in Nat
<1>1. s.body \in Seq(Statements) /\ s.other \in Seq(Statements)
  BY StatementsAreItems
<1>2. /\ DOMAIN s.body = 1 .. Len(s.body) /\ DOMAIN s.other = 1 .. Len(s.other)
      /\ \A i \in 1 .. Len(s.body) : s.body[i] \in Statements
      /\ \A i \in 1 .. Len(s.other) : s.other[i] \in Statements
  BY <1>1, LenProperties, ElementOfSeq
<1>3. /\ Height \in [Statements -> Nat]
      /\ \A t \in Scalar!Listed(s.body) \cup Scalar!Listed(s.other) : Height[t] < Height[s]
  BY StatementsAreTrees DEF Statements
<1>4. /\ \A i \in 1 .. Len(s.body) : s.body[i] \in Scalar!Listed(s.body)
      /\ \A i \in 1 .. Len(s.other) : s.other[i] \in Scalar!Listed(s.other)
  BY <1>2 DEF Scalar!Listed
<1>. QED  BY <1>1, <1>2, <1>3, <1>4

\* The code of a statement depends only on the code of its parts.
LEMMA VisitsSame ==
  ASSUME NEW visit, NEW other \in [Places -> Seq(Written)],
         NEW s \in Statements, NEW depths \in Depths,
         \A t \in Statements, d \in Depths :
           Height[t] < Height[s] => visit[<<t, d>>] = other[<<t, d>>]
  PROVE  Visits(visit, s, depths) = Visits(other, s, depths)
<1>. DEFINE D1 == Code!Pushed(depths)
            D2 == Append(D1, 0)
            D3 == Code!Pushed(D2)
<1>1. D1 \in Depths /\ D2 \in Depths /\ D3 \in Depths
  <2>1. D1 \in Depths
    BY SumPushed
  <2>. HIDE DEF D1
  <2>2. D2 \in Depths
    BY <2>1, SumInner
  <2>. HIDE DEF D2
  <2>3. D3 \in Depths
    BY <2>2, SumPushed
  <2>. QED  BY <2>1, <2>2, <2>3
<1>2. ASSUME NEW d \in Depths
      PROVE  /\ Code!VisitAll(visit, s.body, d) = Code!VisitAll(other, s.body, d)
             /\ Code!VisitAll(visit, s.other, d) = Code!VisitAll(other, s.other, d)
  <2>1. /\ \A i \in 1 .. Len(s.body) : visit[<<s.body[i], d>>] = other[<<s.body[i], d>>]
        /\ \A i \in 1 .. Len(s.other) : visit[<<s.other[i], d>>] = other[<<s.other[i], d>>]
    BY PartsAreLower
  <2>. QED  BY <2>1, PartsAreLower, VisitAllSame
<1>3. /\ Code!VisitAll(visit, s.body, D1) = Code!VisitAll(other, s.body, D1)
      /\ Code!VisitAll(visit, s.other, D1) = Code!VisitAll(other, s.other, D1)
      /\ Code!VisitAll(visit, s.body, D3) = Code!VisitAll(other, s.body, D3)
      /\ Code!VisitAll(visit, s.other, D2) = Code!VisitAll(other, s.other, D2)
  BY <1>1, <1>2
<1>4. /\ Code!VisitConditional(visit, s, depths) = Code!VisitConditional(other, s, depths)
      /\ Code!VisitConditionalExpression(visit, s, depths)
           = Code!VisitConditionalExpression(other, s, depths)
      /\ Code!VisitWhileConstruct(visit, s, depths) = Code!VisitWhileConstruct(other, s, depths)
      /\ Code!VisitIlluminateConstruct(visit, s, depths)
           = Code!VisitIlluminateConstruct(other, s, depths)
      /\ Code!VisitSolarConstruct(visit, s, depths) = Code!VisitSolarConstruct(other, s, depths)
      /\ Code!VisitIlluminanceConstruct(visit, s, depths)
           = Code!VisitIlluminanceConstruct(other, s, depths)
      /\ Code!VisitGatherConstruct(visit, s, depths) = Code!VisitGatherConstruct(other, s, depths)
  BY <1>3 DEF Code!VisitConditional, Code!VisitConditionalExpression, Code!VisitWhileConstruct,
     Code!VisitIlluminateConstruct, Code!VisitSolarConstruct, Code!VisitIlluminanceConstruct,
     Code!VisitGatherConstruct
<1>. QED  BY <1>4 DEF Visits

\* What the compiler writes for a statement.
LEMMA VisitDef ==
  /\ Code!Visit \in [Places -> Seq(Written)]
  /\ \A s \in Statements, depths \in Depths :
       Code!Visit[<<s, depths>>] = Visits(Code!Visit, s, depths)
<1>. DEFINE D == Places
            V == Seq(Written)
            G(g, sd) == Visits(g, sd[1], sd[2])
            F == [gx \in [D -> V] \X D |-> G(gx[1], gx[2])]
            rank == [sd \in D |-> Height[sd[1]]]
<1>0. \A sd \in D : sd[1] \in Statements /\ sd[2] \in Depths /\ sd = <<sd[1], sd[2]>>
  BY DEF Places
<1>1. rank \in [D -> Nat] /\ <<>> \in V
  BY <1>0, PartsAreLower, EmptySeq
<1>2. ASSUME NEW g \in [D -> V], NEW sd \in D
      PROVE  F[<<g, sd>>] = G(g, sd) /\ F[<<g, sd>>] \in V
  <2>1. F[<<g, sd>>] = G(g, sd)
    <3>. HIDE DEF G
    <3>. QED  OBVIOUS
  <2>2. G(g, sd) \in V
    BY <1>0, VisitsTyped
  <2>. HIDE DEF F, G, D, V
  <2>. QED  BY <2>1, <2>2
<1>3. F \in [[D -> V] \X D -> V]
  <2>1. F = [gx \in [D -> V] \X D |-> F[gx]]
    <3>. HIDE DEF G
    <3>. QED  OBVIOUS
  <2>2. ASSUME NEW gx \in [D -> V] \X D  PROVE F[gx] \in V
    <3>1. gx = <<gx[1], gx[2]>> /\ gx[1] \in [D -> V] /\ gx[2] \in D
      OBVIOUS
    <3>. HIDE DEF F, D, V
    <3>. QED  BY <1>2, <3>1
  <2>. HIDE DEF F, D, V
  <2>. QED  BY <2>1, <2>2
<1>4. ASSUME NEW g \in [D -> V], NEW h \in [D -> V], NEW sd \in D,
             \A y \in D : rank[y] < rank[sd] => g[y] = h[y]
      PROVE  F[<<g, sd>>] = F[<<h, sd>>]
  <2>1. ASSUME NEW t \in Statements, NEW d \in Depths, Height[t] < Height[sd[1]]
        PROVE  g[<<t, d>>] = h[<<t, d>>]
    <3>1. <<t, d>> \in D
      BY DEF Places
    <3>2. rank[<<t, d>>] < rank[sd]
      BY <2>1, <3>1
    <3>. HIDE DEF rank, D, V
    <3>. QED  BY <1>4, <3>1, <3>2
  <2>2. G(g, sd) = G(h, sd)
    BY <1>0, <2>1, VisitsSame
  <2>. HIDE DEF F, D, V, rank, G
  <2>. QED  BY <1>2, <2>2
<1>5. PICK g \in [D -> V] : Solves(g, F, D)
  <2>. HIDE DEF F, rank, D, V
  <2>1. FromLower(F, rank, D, V)
    BY <1>4 DEF FromLower
  <2>. QED  BY <1>1, <1>3, <2>1, Recursion
<1>6. g = [sd \in D |-> G(g, sd)]
  <2>. HIDE DEF F, D, V, G
  <2>. QED  BY <1>2, <1>5 DEF Solves
<1>7. Code!Visit = [sd \in D |-> G(Code!Visit, sd)]
  <2>. HIDE DEF F, V
  <2>. QED  BY <1>6 DEF Code!Visit, Visits, Places, Depths, Statements, Scalar!Statements, Code!Statements
<1>8. \A sd \in D : Code!Visit[sd] = g[sd]
  <2>. DEFINE S == {sd \in D : Code!Visit[sd] = g[sd]}
  <2>1. ASSUME NEW sd \in D, \A y \in D : rank[y] < rank[sd] => y \in S
        PROVE  sd \in S
    <3>1. ASSUME NEW t \in Statements, NEW d \in Depths, Height[t] < Height[sd[1]]
          PROVE  Code!Visit[<<t, d>>] = g[<<t, d>>]
      <4>1. <<t, d>> \in D
        BY DEF Places
      <4>2. rank[<<t, d>>] < rank[sd]
        BY <3>1, <4>1
      <4>. HIDE DEF rank, D, V
      <4>. QED  BY <2>1, <4>1, <4>2
    <3>2. Visits(Code!Visit, sd[1], sd[2]) = Visits(g, sd[1], sd[2])
      BY <1>0, <3>1, VisitsSame
    <3>3. Code!Visit[sd] = G(Code!Visit, sd) /\ g[sd] = G(g, sd)
      <4>. HIDE DEF G, D, F
      <4>. QED  BY <1>6, <1>7
    <3>. QED  BY <3>2, <3>3
  <2>. HIDE DEF S, rank, D
  <2>2. \A sd \in D : sd \in S
    BY <1>1, <2>1, Descent
  <2>. QED  BY <2>2 DEF S
<1>9. Code!Visit = g
  <2>. HIDE DEF G, F
  <2>. QED  BY <1>6, <1>7, <1>8
<1>10. ASSUME NEW s \in Statements, NEW depths \in Depths
      PROVE  g[<<s, depths>>] = Visits(g, s, depths)
  <2>1. <<s, depths>> \in D
    BY DEF Places
  <2>2. g[<<s, depths>>] = G(g, <<s, depths>>)
    <3>. HIDE DEF G, F, D
    <3>. QED  BY <1>6, <2>1
  <2>. QED  BY <2>2
<1>. HIDE DEF G, F
<1>. QED  BY <1>9, <1>10

-----------------------------------------------------------------------------
(* Which programs a shader may be. *)

\* The names of ScalarShader's definitions.
Inside == Scalar!Inside
Within(stmts) == Scalar!Within(stmts)
Apart(s, t) == Scalar!Apart(s, t)
AllApart(stmts) == Scalar!AllApart(stmts)
Legal == Scalar!Legal

\* The statements in a list, and those in a statement's lists, which are less deep.
LEMMA ListedFacts ==
  /\ \A stmts \in Seq(Statements) :
       /\ Scalar!Listed(stmts) = {stmts[i] : i \in 1 .. Len(stmts)}
       /\ Scalar!Listed(stmts) \subseteq Statements
  /\ \A s \in Statements : \A t \in Scalar!Listed(s.body) \cup Scalar!Listed(s.other) :
       t \in Statements /\ Height[t] < Height[s]
<1>1. ASSUME NEW stmts \in Seq(Statements)
      PROVE  /\ Scalar!Listed(stmts) = {stmts[i] : i \in 1 .. Len(stmts)}
             /\ Scalar!Listed(stmts) \subseteq Statements
  <2>1. DOMAIN stmts = 1 .. Len(stmts) /\ \A i \in 1 .. Len(stmts) : stmts[i] \in Statements
    BY LenProperties, ElementOfSeq
  <2>. QED  BY <2>1 DEF Scalar!Listed
<1>2. ASSUME NEW s \in Statements, NEW t \in Scalar!Listed(s.body) \cup Scalar!Listed(s.other)
      PROVE  t \in Statements /\ Height[t] < Height[s]
  <2>1. t \in Statements
    BY <1>1, PartsAreLower
  <2>2. Height[t] < Height[s]
    BY StatementsAreTrees DEF Statements
  <2>. QED  BY <2>1, <2>2
<1>. QED  BY <1>1, <1>2

\* Inside is the function that its recursive equation defines: it goes down to statements that are less deep.
LEMMA InsideDef ==
  /\ Inside \in [Statements -> SUBSET Statements]
  /\ \A s \in Statements :
       Inside[s] = {s} \cup UNION {Inside[t] : t \in Scalar!Listed(s.body) \cup Scalar!Listed(s.other)}
<1>. DEFINE D == Statements
            V == SUBSET Statements
            Parts(s) == Scalar!Listed(s.body) \cup Scalar!Listed(s.other)
            G(g, s) == {s} \cup UNION {g[t] : t \in Parts(s)}
            F == [gx \in [D -> V] \X D |-> G(gx[1], gx[2])]
<1>1. Height \in [D -> Nat] /\ {} \in V
  BY StatementsAreTrees DEF Statements
<1>2. ASSUME NEW g \in [D -> V], NEW s \in D
      PROVE  F[<<g, s>>] = G(g, s) /\ F[<<g, s>>] \in V
  <2>1. F[<<g, s>>] = G(g, s)
    <3>. HIDE DEF G
    <3>. QED  OBVIOUS
  <2>2. \A t \in Parts(s) : g[t] \in V
    BY ListedFacts
  <2>3. G(g, s) \in V
    <3>. HIDE DEF Parts
    <3>. QED  BY <2>2
  <2>. HIDE DEF F, G, D, V
  <2>. QED  BY <2>1, <2>3
<1>3. F \in [[D -> V] \X D -> V]
  <2>1. F = [gx \in [D -> V] \X D |-> F[gx]]
    <3>. HIDE DEF G
    <3>. QED  OBVIOUS
  <2>2. ASSUME NEW gx \in [D -> V] \X D  PROVE F[gx] \in V
    <3>1. gx = <<gx[1], gx[2]>> /\ gx[1] \in [D -> V] /\ gx[2] \in D
      OBVIOUS
    <3>. HIDE DEF F, D, V
    <3>. QED  BY <1>2, <3>1
  <2>. HIDE DEF F, D, V
  <2>. QED  BY <2>1, <2>2
<1>4. ASSUME NEW g \in [D -> V], NEW h \in [D -> V], NEW s \in D,
             \A y \in D : Height[y] < Height[s] => g[y] = h[y]
      PROVE  F[<<g, s>>] = F[<<h, s>>]
  <2>1. \A t \in Parts(s) : g[t] = h[t]
    BY <1>4, ListedFacts
  <2>2. G(g, s) = G(h, s)
    <3>. HIDE DEF Parts
    <3>. QED  BY <2>1
  <2>. HIDE DEF F, D, V, G
  <2>. QED  BY <1>2, <2>2
<1>5. PICK g \in [D -> V] : Solves(g, F, D)
  <2>. HIDE DEF F, D, V
  <2>1. FromLower(F, Height, D, V)
    BY <1>4 DEF FromLower
  <2>. QED  BY <1>1, <1>3, <2>1, Recursion
<1>6. g = [s \in D |-> G(g, s)]
  <2>. HIDE DEF F, D, V, G
  <2>. QED  BY <1>2, <1>5 DEF Solves
<1>. HIDE DEF F, V
<1>7. Inside = [s \in D |-> G(Inside, s)]
  BY <1>6 DEF Inside, Scalar!Inside, Statements
<1>8. \A s \in D : Inside[s] = g[s]
  <2>. DEFINE S == {s \in D : Inside[s] = g[s]}
  <2>1. ASSUME NEW s \in D, \A y \in D : Height[y] < Height[s] => y \in S
        PROVE  s \in S
    <3>1. \A t \in Parts(s) : Inside[t] = g[t]
      <4>1. \A t \in Parts(s) : t \in S
        <5>. HIDE DEF S
        <5>. QED  BY <2>1, ListedFacts
      <4>. QED  BY <4>1
    <3>2. G(Inside, s) = G(g, s)
      <4>. HIDE DEF Parts
      <4>. QED  BY <3>1
    <3>3. Inside[s] = G(Inside, s) /\ g[s] = G(g, s)
      <4>. HIDE DEF G, D
      <4>. QED  BY <1>6, <1>7
    <3>. QED  BY <3>2, <3>3
  <2>. HIDE DEF S, D
  <2>2. \A s \in D : s \in S
    BY <1>1, <2>1, Descent
  <2>. QED  BY <2>2 DEF S
<1>9. Inside = g
  <2>. HIDE DEF G
  <2>. QED  BY <1>6, <1>7, <1>8
<1>10. \A s \in D : g[s] = G(g, s)
  <2>. HIDE DEF G
  <2>. QED  BY <1>6
<1>. QED  BY <1>9, <1>10 DEF V

\* What the statements around a list of statements are to say of it.
AllLegal(legal, stmts, n) ==
  AllApart(stmts) /\ \A i \in DOMAIN stmts : legal[<<stmts[i], n>>]

Lawful(legal, s, loops) ==
  /\ AllLegal(legal, s.body, IF s.k = "while" THEN loops + 1 ELSE loops)
  /\ AllLegal(legal, s.other, IF s.k = "while" THEN 0 ELSE loops)
  /\ Apart(s.body, s.other)
  /\ s.k \notin {"break", "continue"} => s.id \notin Ids(s.body) \cup Ids(s.other)
  /\ s.k \notin {"if", "while"} => s.args = <<>>
  /\ s.k \notin {"if", "pick", "while", "gather"} => s.other = <<>>
  /\ s.k \in {"do", "break", "continue"} => s.body = <<>>
  /\ s.k \notin {"do", "if", "pick"} => ~Shines(s.body) /\ ~Shines(s.other)
  /\ s.k = "while" => \A t \in Within(s.other) : t.k \in {"do", "pick"}
  /\ s.k \in {"break", "continue"} => s.n \in 1 .. loops
  /\ s.k \in {"illuminate", "solar", "illuminance"} => s.n = 0
  /\ s.k = "illuminance" => ~UsesLights(s.body)
  /\ s.k = "gather" => s.n > 0 /\ ~UsesRays(s.body) /\ ~UsesRays(s.other)

\* Whether a statement is legal depends only on whether its parts are.
LEMMA LawfulSame ==
  ASSUME NEW legal, NEW other, NEW s \in Statements, NEW loops \in Nat,
         \A t \in Statements, n \in Nat :
           Height[t] < Height[s] => legal[<<t, n>>] = other[<<t, n>>]
  PROVE  Lawful(legal, s, loops) = Lawful(other, s, loops)
<1>1. ASSUME NEW n \in Nat
      PROVE  /\ AllLegal(legal, s.body, n) = AllLegal(other, s.body, n)
             /\ AllLegal(legal, s.other, n) = AllLegal(other, s.other, n)
  <2>1. /\ DOMAIN s.body = 1 .. Len(s.body) /\ DOMAIN s.other = 1 .. Len(s.other)
    BY PartsAreLower, LenProperties
  <2>2. /\ \A i \in DOMAIN s.body : legal[<<s.body[i], n>>] = other[<<s.body[i], n>>]
        /\ \A i \in DOMAIN s.other : legal[<<s.other[i], n>>] = other[<<s.other[i], n>>]
    BY <2>1, PartsAreLower
  <2>. QED  BY <2>2 DEF AllLegal
<1>2. loops + 1 \in Nat /\ 0 \in Nat
  OBVIOUS
<1>. QED  BY <1>1, <1>2 DEF Lawful

\* Legal is the function that its recursive equation defines.
LEMMA LegalDef ==
  \A s \in Statements, loops \in Nat : Legal[<<s, loops>>] <=> Lawful(Legal, s, loops)
<1>. DEFINE D == Statements \X Nat
            V == BOOLEAN
            G(g, sl) == Lawful(g, sl[1], sl[2])
            F == [gx \in [D -> V] \X D |-> G(gx[1], gx[2])]
            rank == [sl \in D |-> Height[sl[1]]]
<1>0. \A sl \in D : sl[1] \in Statements /\ sl[2] \in Nat /\ sl = <<sl[1], sl[2]>>
  OBVIOUS
<1>1. rank \in [D -> Nat] /\ TRUE \in V
  BY <1>0, PartsAreLower
<1>2. ASSUME NEW g \in [D -> V], NEW sl \in D
      PROVE  F[<<g, sl>>] = G(g, sl) /\ F[<<g, sl>>] \in V
  <2>1. F[<<g, sl>>] = G(g, sl)
    <3>. HIDE DEF G
    <3>. QED  OBVIOUS
  <2>2. G(g, sl) \in V
    BY DEF Lawful
  <2>. HIDE DEF F, G, D, V
  <2>. QED  BY <2>1, <2>2
<1>3. F \in [[D -> V] \X D -> V]
  <2>1. F = [gx \in [D -> V] \X D |-> F[gx]]
    <3>. HIDE DEF G
    <3>. QED  OBVIOUS
  <2>2. ASSUME NEW gx \in [D -> V] \X D  PROVE F[gx] \in V
    <3>1. gx = <<gx[1], gx[2]>> /\ gx[1] \in [D -> V] /\ gx[2] \in D
      OBVIOUS
    <3>. HIDE DEF F, D, V
    <3>. QED  BY <1>2, <3>1
  <2>. HIDE DEF F, D, V
  <2>. QED  BY <2>1, <2>2
<1>4. ASSUME NEW g \in [D -> V], NEW h \in [D -> V], NEW sl \in D,
             \A y \in D : rank[y] < rank[sl] => g[y] = h[y]
      PROVE  F[<<g, sl>>] = F[<<h, sl>>]
  <2>1. ASSUME NEW t \in Statements, NEW n \in Nat, Height[t] < Height[sl[1]]
        PROVE  g[<<t, n>>] = h[<<t, n>>]
    <3>1. <<t, n>> \in D
      OBVIOUS
    <3>2. rank[<<t, n>>] < rank[sl]
      BY <2>1, <3>1
    <3>. HIDE DEF rank, D, V
    <3>. QED  BY <1>4, <3>1, <3>2
  <2>2. G(g, sl) = G(h, sl)
    BY <1>0, <2>1, LawfulSame
  <2>. HIDE DEF F, D, V, rank, G
  <2>. QED  BY <1>2, <2>2
<1>5. PICK g \in [D -> V] : Solves(g, F, D)
  <2>. HIDE DEF F, rank, D, V
  <2>1. FromLower(F, rank, D, V)
    BY <1>4 DEF FromLower
  <2>. QED  BY <1>1, <1>3, <2>1, Recursion
<1>6. g = [sl \in D |-> G(g, sl)]
  <2>. HIDE DEF F, D, V, G
  <2>. QED  BY <1>2, <1>5 DEF Solves
<1>. HIDE DEF F, V
<1>7. Legal = [sl \in D |-> G(Legal, sl)]
  BY <1>6 DEF Legal, Scalar!Legal, Lawful, AllLegal, AllApart, Apart, Ids, Shines, Within,
     UsesLights, UsesRays, Statements
<1>8. ASSUME NEW s \in Statements, NEW loops \in Nat
      PROVE  Legal[<<s, loops>>] = Lawful(Legal, s, loops)
  <2>1. <<s, loops>> \in D
    OBVIOUS
  <2>2. Legal[<<s, loops>>] = G(Legal, <<s, loops>>)
    <3>. HIDE DEF G, D
    <3>. QED  BY <1>7, <2>1
  <2>. QED  BY <2>2
<1>9. \A s \in Statements, loops \in Nat : Lawful(Legal, s, loops) \in BOOLEAN
  BY DEF Lawful
<1>. QED  BY <1>8, <1>9

-----------------------------------------------------------------------------
(* What points have left around a piece of code (Entry, Fit, Ways, Around). *)

\* What a rest is: a function from counters to what is left.
LEMMA RestFacts ==
  /\ \A x \in Rests : /\ DOMAIN x \subseteq Counters
                      /\ \A c \in DOMAIN x : c \in Counters /\ x[c] \in Seq(Item)
  /\ \A x : /\ DOMAIN x \subseteq Counters /\ x = [c \in DOMAIN x |-> x[c]]
            /\ \A c \in DOMAIN x : x[c] \in Seq(Item)
            => x \in Rests
<1>1. ASSUME NEW x \in Rests
      PROVE  /\ DOMAIN x \subseteq Counters
             /\ \A c \in DOMAIN x : c \in Counters /\ x[c] \in Seq(Item)
  <2>1. PICK C \in SUBSET Counters : x \in [C -> Seq(Item)]
    BY DEF Rests
  <2>. QED  BY <2>1
<1>2. ASSUME NEW x, DOMAIN x \subseteq Counters, x = [c \in DOMAIN x |-> x[c]],
             \A c \in DOMAIN x : x[c] \in Seq(Item)
      PROVE  x \in Rests
  <2>1. x \in [DOMAIN x -> Seq(Item)]
    BY <1>2
  <2>. QED  BY <1>2, <2>1 DEF Rests
<1>. QED  BY <1>1, <1>2

\* Lists of statements are lists of items.
LEMMA ListsAreItems == Seq(Statements) \subseteq Seq(Item)
BY StatementsAreItems, SeqMonotonic

\* The notes that are made of rests, and their fields.
LEMMA PlainTyped ==
  ASSUME NEW x \in Rests, NEW y \in Rests, NEW A \in Seq(Rests), NEW b \in BOOLEAN
  PROVE  /\ Plain(x, A) \in Notes /\ Note(x, y, A, b) \in Notes
         /\ Plain(x, A) = Note(x, x, A, FALSE)
         /\ Note(x, y, A, b).run = x /\ Note(x, y, A, b).not = y
         /\ Note(x, y, A, b).aside = A /\ Note(x, y, A, b).clear = b
BY DEF Plain, Note, Notes

\* What the points owe in front of a list of statements is a rest.
LEMMA EntryTyped ==
  ASSUME NEW L \in Seq(Statements), NEW x \in Rests
  PROVE  /\ Entry(L, x) \in Rests
         /\ DOMAIN Entry(L, x) = {e \in DOMAIN x : Shines(L) => ~e.b}
         /\ \A c \in DOMAIN Entry(L, x) : Entry(L, x)[c] = L \o x[c]
<1>1. /\ DOMAIN Entry(L, x) = {e \in DOMAIN x : Shines(L) => ~e.b}
      /\ \A c \in DOMAIN Entry(L, x) : Entry(L, x)[c] = L \o x[c]
      /\ Entry(L, x) = [c \in DOMAIN Entry(L, x) |-> Entry(L, x)[c]]
  BY DEF Entry
<1>2. DOMAIN x \subseteq Counters /\ \A c \in DOMAIN x : x[c] \in Seq(Item)
  BY RestFacts
<1>3. \A y \in Seq(Item) : L \o y \in Seq(Item)
  BY ListsAreItems, ConcatProperties
<1>. QED  BY <1>1, <1>2, <1>3, RestFacts

\* In front of no statement the points owe what they owe behind it.
LEMMA EntryNone ==
  ASSUME NEW x \in Rests
  PROVE  Entry(<<>>, x) = x
<1>1. ~Shines(<<>>)
  BY DEF Shines, Scalar!Shines, Scalar!Within, Scalar!Listed
<1>2. Entry(<<>>, x) = [c \in DOMAIN x |-> <<>> \o x[c]]
  BY <1>1 DEF Entry
<1>3. \A c \in DOMAIN x : <<>> \o x[c] = x[c]
  BY RestFacts, ConcatEmptySeq
<1>4. x = [c \in DOMAIN x |-> x[c]]
  BY DEF Rests
<1>. QED  BY <1>2, <1>3, <1>4

\* Rests with a statement in front.
LEMMA FrontTyped ==
  ASSUME NEW s \in Item, NEW x \in Rests, NEW k \in Scalar!Kinds \cup {"again"}, NEW i \in Int
  PROVE  /\ Front(s, k, x) \in Rests /\ Once(s, x) \in Rests /\ LitOnly(x) \in Rests
         /\ LightAt(s, i, x) \in Rests /\ RayAt(s, i, x) \in Rests
<1>1. DOMAIN x \subseteq Counters /\ \A c \in DOMAIN x : c \in Counters /\ x[c] \in Seq(Item)
  BY RestFacts
<1>2. \A t \in Item, y \in Seq(Item) : <<t>> \o y \in Seq(Item)
  BY FrontFacts
<1>3. As(k, s) \in Item
  BY DEF As, Scalar!As, Item, Scalar!Item
<1>4. \A n \in Int : [s EXCEPT !.n = n] \in Item
  BY DEF Item, Scalar!Item
<1>5. \A c \in Counters : c.l + i \in Int /\ c.r - i \in Int
  BY DEF Counters
<1>6. Front(s, k, x) \in Rests
  <2>1. \A c \in DOMAIN x : <<As(k, s)>> \o x[c] \in Seq(Item)
    BY <1>1, <1>2, <1>3
  <2>. QED  BY <1>1, <2>1, RestFacts DEF Front
<1>7. Once(s, x) \in Rests
  <2>1. \A c \in DOMAIN x : (IF c.b THEN x[c] ELSE <<s>> \o x[c]) \in Seq(Item)
    BY <1>1, <1>2
  <2>. QED  BY <1>1, <2>1, RestFacts DEF Once
<1>8. LitOnly(x) \in Rests
  BY <1>1, RestFacts DEF LitOnly
<1>9. LightAt(s, i, x) \in Rests
  <2>1. \A c \in DOMAIN x : <<[s EXCEPT !.n = c.l + i]>> \o x[c] \in Seq(Item)
    BY <1>1, <1>2, <1>4, <1>5
  <2>. QED  BY <1>1, <2>1, RestFacts DEF LightAt
<1>10. RayAt(s, i, x) \in Rests
  <2>1. \A c \in DOMAIN x : <<[s EXCEPT !.n = c.r - i]>> \o x[c] \in Seq(Item)
    BY <1>1, <1>2, <1>4, <1>5
  <2>. QED  BY <1>1, <2>1, RestFacts DEF RayAt
<1>. QED  BY <1>6, <1>7, <1>8, <1>9, <1>10

-----------------------------------------------------------------------------
(* The statements in a list. *)

\* The statements within a list are those within its first and those within the others.
LEMMA WithinFacts ==
  /\ Within(<<>>) = {}
  /\ \A s \in Statements : /\ Within(<<s>>) = Inside[s] /\ s \in Within(<<s>>)
                           /\ Within(<<s>>) = {s} \cup Within(s.body) \cup Within(s.other)
  /\ \A s \in Statements, M \in Seq(Statements) :
       Within(<<s>> \o M) = Within(<<s>>) \cup Within(M)
  /\ \A M \in Seq(Statements) : /\ Within(M) \subseteq Statements
                                /\ \A i \in 1 .. Len(M) : Within(<<M[i]>>) \subseteq Within(M)
<1>1. \A M \in Seq(Statements) : Scalar!Listed(M) = {M[i] : i \in 1 .. Len(M)}
  BY ListedFacts
<1>2. \A M : Within(M) = UNION {Inside[s] : s \in Scalar!Listed(M)}
  BY DEF Within, Scalar!Within, Inside
<1>3. ASSUME NEW s \in Statements
      PROVE  Within(<<s>>) = Inside[s] /\ Scalar!Listed(<<s>>) = {s}
  <2>1. Scalar!Listed(<<s>>) = {s}
    BY DEF Scalar!Listed
  <2>. QED  BY <1>2, <2>1
<1>4. ASSUME NEW s \in Statements
      PROVE  /\ s \in Within(<<s>>)
             /\ Within(<<s>>) = {s} \cup Within(s.body) \cup Within(s.other)
  <2>1. Inside[s] = {s} \cup UNION {Inside[t] : t \in Scalar!Listed(s.body) \cup Scalar!Listed(s.other)}
    BY InsideDef
  <2>. QED  BY <1>2, <1>3, <2>1
<1>5. ASSUME NEW s \in Statements, NEW M \in Seq(Statements)
      PROVE  Within(<<s>> \o M) = Within(<<s>>) \cup Within(M)
  <2>1. Scalar!Listed(<<s>> \o M) = {s} \cup Scalar!Listed(M)
    <3>1. /\ <<s>> \o M \in Seq(Statements) /\ Len(<<s>> \o M) = Len(M) + 1 /\ Len(M) \in Nat
          /\ (<<s>> \o M)[1] = s /\ \A i \in 1 .. Len(M) : (<<s>> \o M)[i + 1] = M[i]
      OBVIOUS
    <3>. DEFINE P == <<s>> \o M
    <3>. HIDE DEF P
    <3>2. Scalar!Listed(P) = {P[i] : i \in 1 .. Len(M) + 1}
      BY <1>1, <3>1 DEF P
    <3>3. \A i \in 1 .. Len(M) + 1 : P[i] \in {s} \cup {M[j] : j \in 1 .. Len(M)}
      <4>. SUFFICES ASSUME NEW i \in 1 .. Len(M) + 1, i # 1
                    PROVE  P[i] \in {M[j] : j \in 1 .. Len(M)}
        BY <3>1 DEF P
      <4>1. i - 1 \in 1 .. Len(M) /\ (i - 1) + 1 = i
        BY <3>1
      <4>2. P[i] = M[i - 1]
        BY <3>1, <4>1 DEF P
      <4>. QED  BY <4>1, <4>2
    <3>4. s = P[1] /\ \A j \in 1 .. Len(M) : M[j] = P[j + 1] /\ j + 1 \in 1 .. Len(M) + 1
      BY <3>1 DEF P
    <3>5. 1 \in 1 .. Len(M) + 1
      BY <3>1
    <3>6. Scalar!Listed(M) = {M[j] : j \in 1 .. Len(M)}
      BY <1>1
    <3>7. Scalar!Listed(P) = {s} \cup Scalar!Listed(M)
      BY <3>2, <3>3, <3>4, <3>5, <3>6
    <3>. QED  BY <3>7 DEF P
  <2>. QED  BY <1>2, <1>3, <2>1
<1>6. ASSUME NEW M \in Seq(Statements)
      PROVE  /\ Within(M) \subseteq Statements
             /\ \A i \in 1 .. Len(M) : Within(<<M[i]>>) \subseteq Within(M)
  <2>1. \A i \in 1 .. Len(M) : M[i] \in Statements
    BY ElementOfSeq
  <2>2. Within(M) = UNION {Inside[M[i]] : i \in 1 .. Len(M)}
    BY <1>1, <1>2
  <2>. QED  BY <1>3, <2>1, <2>2, InsideDef
<1>7. Within(<<>>) = {}
  <2>1. Scalar!Listed(<<>>) = {}
    BY DEF Scalar!Listed
  <2>. QED  BY <1>2, <2>1
<1>. QED  BY <1>3, <1>4, <1>5, <1>6, <1>7

\* What holds of all statements within a list holds of those within a part of it.
LEMMA PartFacts ==
  ASSUME NEW a, NEW b, Within(a) \subseteq Within(b)
  PROVE  /\ Ids(a) \subseteq Ids(b) /\ (Shines(a) => Shines(b))
         /\ (UsesLights(a) => UsesLights(b)) /\ (UsesRays(a) => UsesRays(b))
         /\ \A x : Fit(b, x) => Fit(a, x)
<1>1. /\ Ids(a) \subseteq Ids(b) /\ (Shines(a) => Shines(b))
      /\ (UsesLights(a) => UsesLights(b)) /\ (UsesRays(a) => UsesRays(b))
  BY DEF Ids, Scalar!Ids, Shines, Scalar!Shines, UsesLights, Scalar!UsesLights, UsesRays,
     Scalar!UsesRays, Within
<1>. QED  BY <1>1 DEF Fit, Avoids

\* The numbers, the lights and the rays of a list are those of its parts.
LEMMA UnionFacts ==
  ASSUME NEW a, NEW b, NEW c, Within(c) = Within(a) \cup Within(b)
  PROVE  /\ Ids(c) = Ids(a) \cup Ids(b) /\ (Shines(c) <=> Shines(a) \/ Shines(b))
         /\ (UsesLights(c) <=> UsesLights(a) \/ UsesLights(b))
         /\ (UsesRays(c) <=> UsesRays(a) \/ UsesRays(b))
BY DEF Ids, Scalar!Ids, Shines, Scalar!Shines, UsesLights, Scalar!UsesLights, UsesRays,
   Scalar!UsesRays, Within

\* What a statement is in itself.
LEMMA OwnFacts ==
  ASSUME NEW s \in Statements
  PROVE  /\ s.k \notin {"break", "continue"} => s.id \in Ids(<<s>>)
         /\ s.k \in {"illuminate", "solar"} => Shines(<<s>>)
         /\ Shines(<<s>>) <=> s.k \in {"illuminate", "solar"} \/ Shines(s.body) \/ Shines(s.other)
         /\ s.k = "illuminance" => UsesLights(<<s>>)
         /\ (\E i \in 1 .. Len(s.args) : s.args[i] = "diffuse") => UsesLights(<<s>>)
         /\ s.k = "gather" => UsesRays(<<s>>)
         /\ Within(s.body) \subseteq Within(<<s>>) /\ Within(s.other) \subseteq Within(<<s>>)
<1>1. /\ s \in Within(<<s>>)
      /\ Within(<<s>>) = {s} \cup Within(s.body) \cup Within(s.other)
  BY WithinFacts
<1>2. DOMAIN s.args = 1 .. Len(s.args)
  BY StatementsAreItems, LenProperties
<1>. QED  BY <1>1, <1>2 DEF Ids, Scalar!Ids, Shines, Scalar!Shines, UsesLights,
     Scalar!UsesLights, UsesRays, Scalar!UsesRays, Within

-----------------------------------------------------------------------------
(* What is ahead of a list of statements. *)

\* A list that is not empty is its first statement and the others.
LEMMA ConsFacts ==
  ASSUME NEW S, NEW M \in Seq(S), M # <<>>
  PROVE  /\ Head(M) \in S /\ Tail(M) \in Seq(S) /\ M = <<Head(M)>> \o Tail(M)
         /\ Len(Tail(M)) = Len(M) - 1 /\ Head(M) = M[1]
         /\ \A i \in 1 .. Len(Tail(M)) : Tail(M)[i] = M[i + 1] /\ i + 1 \in 1 .. Len(M)
         /\ 1 \in 1 .. Len(M)
<1>1. Len(M) \in Nat \ {0}
  BY EmptySeq
<1>2. /\ Head(M) \in S /\ Tail(M) \in Seq(S) /\ Len(Tail(M)) = Len(M) - 1
      /\ \A i \in 1 .. Len(Tail(M)) : Tail(M)[i] = M[i + 1]
  BY HeadTailProperties
<1>3. /\ M[1] \in S /\ Head(M) = M[1] /\ 1 \in 1 .. Len(M)
  BY <1>1, <1>2
<1>4. \A i \in 1 .. Len(Tail(M)) : i + 1 \in 1 .. Len(M)
  BY <1>1, <1>2
<1>5. M = <<Head(M)>> \o Tail(M)
  <2>. DEFINE N == <<Head(M)>> \o Tail(M)
  <2>1. N \in Seq(S) /\ Len(N) = Len(M) /\ N[1] = Head(M)
        /\ \A i \in 1 .. Len(Tail(M)) : N[i + 1] = Tail(M)[i]
    BY <1>1, <1>2
  <2>. HIDE DEF N
  <2>2. ASSUME NEW i \in 1 .. Len(M)  PROVE M[i] = N[i]
    <3>1. CASE i = 1
      BY <1>3, <2>1, <3>1
    <3>2. CASE i # 1
      <4>1. i - 1 \in 1 .. Len(Tail(M)) /\ (i - 1) + 1 = i
        BY <1>1, <1>2, <3>2
      <4>. QED  BY <1>2, <2>1, <4>1
    <3>. QED  BY <3>1, <3>2
  <2>3. M = N
    BY <2>1, <2>2, SeqEqual
  <2>. QED  BY <2>3 DEF N
<1>. QED  BY <1>1, <1>2, <1>3, <1>4, <1>5

\* A list in front of what is left, taken apart at its first statement.
LEMMA ConsOver ==
  ASSUME NEW s \in Statements, NEW M \in Seq(Statements), NEW x \in Seq(Item)
  PROVE  /\ (<<s>> \o M) \o x = <<s>> \o (M \o x) /\ M \o x \in Seq(Item) /\ s \in Item
<1>1. s \in Item /\ M \in Seq(Item) /\ <<s>> \in Seq(Item)
  BY StatementsAreItems, ListsAreItems
<1>. QED  BY <1>1, ConcatAssociative, ConcatProperties

\* There is no loop to leave among the statements of a list.
LEMMA LeaveOver ==
  ASSUME NEW L \in Seq(Statements), NEW x \in Seq(Item), NEW n \in Int
  PROVE  Leave[<<L \o x, n>>] = Leave[<<x, n>>]
<1>. DEFINE Q(k) == \A M \in Seq(Statements) : Len(M) = k =>
                      Leave[<<M \o x, n>>] = Leave[<<x, n>>]
            S == {k \in Nat : Q(k)}
<1>1. Q(0)
  <2>1. ASSUME NEW M \in Seq(Statements), Len(M) = 0
        PROVE  Leave[<<M \o x, n>>] = Leave[<<x, n>>]
    <3>1. M = <<>>
      BY <2>1, EmptySeq
    <3>2. M \o x = x
      BY <3>1, ConcatEmptySeq
    <3>. QED  BY <3>2
  <2>. QED  BY <2>1
<1>2. ASSUME NEW k \in Nat, Q(k)  PROVE Q(k + 1)
  <2>. SUFFICES ASSUME NEW M \in Seq(Statements), Len(M) = k + 1
                PROVE  Leave[<<M \o x, n>>] = Leave[<<x, n>>]
    OBVIOUS
  <2>1. M # <<>>
    BY EmptySeq
  <2>. DEFINE s == Head(M)
              T == Tail(M)
  <2>2. s \in Statements /\ T \in Seq(Statements) /\ M = <<s>> \o T /\ Len(T) = k
    <3>1. (k + 1) - 1 = k
      OBVIOUS
    <3>. QED  BY <2>1, <3>1, ConsFacts
  <2>. HIDE DEF s, T
  <2>3. M \o x = <<s>> \o (T \o x) /\ T \o x \in Seq(Item) /\ s \in Item
    BY <2>2, ConsOver
  <2>4. s.k # "again"
    BY <2>2, StatementsAreItems DEF Scalar!Kinds
  <2>5. Leave[<<<<s>> \o (T \o x), n>>] = Leave[<<T \o x, n>>]
    BY <2>3, <2>4, LeaveFront
  <2>. QED  BY <1>2, <2>2, <2>3, <2>5
<1>. HIDE DEF Q
<1>3. \A k \in Nat : k \in S
  <2>1. 0 \in S /\ \A k \in Nat : k \in S => k + 1 \in S
    BY <1>1, <1>2
  <2>. HIDE DEF S
  <2>. QED  BY <2>1, Steps
<1>4. Len(L) \in S
  BY <1>3, LenProperties
<1>. QED  BY <1>4 DEF S, Q

\* Whoever has this list in front of a loop's way on, or leaves it by a break or
\* continue, next comes to none of the statements X, if those behind do not.
LEMMA AheadHere ==
  ASSUME NEW X, NEW K \in Rests, NEW A \in Seq(Rests), NEW depths \in Depths, NEW loops \in Nat,
         Ways(K, A, depths, loops), Avoids(K, X), \A d \in 1 .. Len(A) : Avoids(A[d], X),
         NEW c \in DOMAIN K, NEW L \in Seq(Statements),
         \A i \in 1 .. Len(L) : /\ L[i].k \in {"break", "continue"} => L[i].n \in 1 .. loops
                                /\ L[i].k = "gather" => L[i].n > 0
                                /\ L[i].k \notin {"break", "continue"} => L[i].id \notin X
  PROVE  Settle[L \o K[c]] # <<>> => Head(Settle[L \o K[c]]).id \notin X
<1>. DEFINE Well(s) == /\ s.k \in {"break", "continue"} => s.n \in 1 .. loops
                       /\ s.k = "gather" => s.n > 0
                       /\ s.k \notin {"break", "continue"} => s.id \notin X
            Good(y) == Settle[y] # <<>> => Head(Settle[y]).id \notin X
            S == {k \in Nat : \A M \in Seq(Statements) :
                    Len(M) = k /\ (\A i \in 1 .. Len(M) : Well(M[i])) => Good(M \o K[c])}
            x == K[c]
<1>0. x \in Seq(Item) /\ c \in Counters
  BY RestFacts
<1>1. 0 \in S
  <2>. SUFFICES ASSUME NEW M \in Seq(Statements), Len(M) = 0
                PROVE  Good(M \o K[c])
    OBVIOUS
  <2>1. M = <<>>
    BY EmptySeq
  <2>2. M \o x = x
    BY <1>0, <2>1, ConcatEmptySeq
  <2>3. Good(x)
    BY DEF Avoids
  <2>. QED  BY <2>2, <2>3
<1>2. ASSUME NEW k \in Nat, k \in S  PROVE k + 1 \in S
  <2>. HIDE DEF Well, Good
  <2>. SUFFICES ASSUME NEW M \in Seq(Statements), Len(M) = k + 1,
                       \A i \in 1 .. Len(M) : Well(M[i])
                PROVE  Good(M \o x)
    OBVIOUS
  <2>1. M # <<>>
    BY EmptySeq
  <2>. DEFINE s == Head(M)
              T == Tail(M)
  <2>2. s \in Statements /\ T \in Seq(Statements) /\ M = <<s>> \o T /\ Len(T) = k
        /\ Well(s) /\ \A i \in 1 .. Len(T) : Well(T[i])
    <3>1. (k + 1) - 1 = k
      OBVIOUS
    <3>. QED  BY <2>1, <3>1, ConsFacts
  <2>. HIDE DEF s, T, x
  <2>3. M \o x = <<s>> \o (T \o x) /\ T \o x \in Seq(Item) /\ s \in Item
    BY <1>0, <2>2, ConsOver
  <2>4. Good(T \o x)
    BY <1>2, <2>2 DEF x
  <2>5. s.k \in Scalar!Kinds /\ s.n \in Nat /\ s.n \in Int
    BY <2>2, StatementsAreItems
  <2>. DEFINE left == Leave[<<T \o x, s.n>>]
  <2>6. left = Leave[<<x, s.n>>]
    BY <1>0, <2>2, <2>5, LeaveOver
  <2>7. /\ s.k \in {"do", "if", "pick", "while", "illuminate", "solar"} =>
              Settle[<<s>> \o (T \o x)] = <<s>> \o (T \o x)
        /\ s.k = "break" => Settle[<<s>> \o (T \o x)] = Settle[SubSeq(left, 2, Len(left))]
        /\ s.k = "continue" => Settle[<<s>> \o (T \o x)] = Settle[left]
        /\ s.k = "illuminance" =>
             Settle[<<s>> \o (T \o x)] = IF s.n = Lights THEN Settle[T \o x] ELSE <<s>> \o (T \o x)
        /\ s.k = "gather" =>
             Settle[<<s>> \o (T \o x)] = IF s.n = 0 THEN Settle[T \o x] ELSE <<s>> \o (T \o x)
    BY <2>3, SettleFront
  <2>8. Head(<<s>> \o (T \o x)) = s
    BY <2>3, FrontFacts
  <2>. HIDE DEF left
  <2>9. CASE s.k \in {"do", "if", "pick", "while", "illuminate", "solar"}
    BY <2>2, <2>3, <2>7, <2>8, <2>9 DEF Good, Well
  <2>10. CASE s.k \in {"illuminance", "gather"}
    BY <2>2, <2>3, <2>4, <2>7, <2>8, <2>10 DEF Good, Well
  <2>11. CASE s.k \in {"break", "continue"}
    <3>. DEFINE up == Code!SumLast(depths, s.n)
                e == Len(A) - up
    <3>1. s.n \in 1 .. loops
      BY <2>2, <2>11 DEF Well
    <3>2. /\ up \in 1 .. Len(A) - 1
          /\ c \in DOMAIN A[e] /\ Settle[A[e][c]] = Settle[SubSeq(left, 2, Len(left))]
          /\ c \in DOMAIN A[e + 1] /\ Settle[A[e + 1][c]] = Settle[left]
      BY <2>6, <3>1 DEF Ways, Way, x
    <3>3. e \in 1 .. Len(A) /\ e + 1 \in 1 .. Len(A)
      <4>1. Len(A) \in Nat
        BY LenProperties
      <4>. HIDE DEF up
      <4>. QED  BY <3>2, <4>1
    <3>. HIDE DEF e
    <3>4. Avoids(A[e], X) /\ Avoids(A[e + 1], X)
      BY <3>3
    <3>5. Settle[M \o x] = Settle[A[e][c]] \/ Settle[M \o x] = Settle[A[e + 1][c]]
      BY <2>3, <2>7, <2>11, <3>2
    <3>. QED  BY <3>2, <3>4, <3>5 DEF Avoids, Good
  <2>. QED  BY <2>5, <2>9, <2>10, <2>11 DEF Scalar!Kinds
<1>3. Len(L) \in S
  <2>. HIDE DEF S
  <2>1. \A k \in Nat : k \in S
    BY <1>1, <1>2, Steps
  <2>. QED  BY <2>1, LenProperties
<1>4. \A i \in 1 .. Len(L) : Well(L[i])
  OBVIOUS
<1>. HIDE DEF Well
<1>5. Good(L \o K[c])
  BY <1>3, <1>4
<1>. QED  BY <1>5

-----------------------------------------------------------------------------
(* The surroundings of a piece of code and those of its parts. *)

\* The counters when one of them is set.
LEMMA CounterFacts ==
  \A c \in Counters :
    /\ c.l \in Nat /\ c.r \in Nat /\ c.b \in BOOLEAN
    /\ \A l \in Nat : /\ [c EXCEPT !.l = l] \in Counters /\ [c EXCEPT !.l = l].l = l
                      /\ [c EXCEPT !.l = l].r = c.r /\ [c EXCEPT !.l = l].b = c.b
    /\ \A r \in Nat : /\ [c EXCEPT !.r = r] \in Counters /\ [c EXCEPT !.r = r].r = r
                      /\ [c EXCEPT !.r = r].l = c.l /\ [c EXCEPT !.r = r].b = c.b
    /\ [c EXCEPT !.b = TRUE] \in Counters /\ [c EXCEPT !.b = TRUE].b = TRUE
    /\ [c EXCEPT !.b = TRUE].l = c.l /\ [c EXCEPT !.b = TRUE].r = c.r
    /\ c = [l |-> c.l, r |-> c.r, b |-> c.b]
<1>1. ASSUME NEW c \in Counters
      PROVE  c.l \in Nat /\ c.r \in Nat /\ c.b \in BOOLEAN /\ c = [l |-> c.l, r |-> c.r, b |-> c.b]
  BY DEF Counters
<1>2. ASSUME NEW c \in Counters, NEW l \in Nat
      PROVE  /\ [c EXCEPT !.l = l] \in Counters /\ [c EXCEPT !.l = l].l = l
             /\ [c EXCEPT !.l = l].r = c.r /\ [c EXCEPT !.l = l].b = c.b
  BY DEF Counters
<1>3. ASSUME NEW c \in Counters, NEW r \in Nat
      PROVE  /\ [c EXCEPT !.r = r] \in Counters /\ [c EXCEPT !.r = r].r = r
             /\ [c EXCEPT !.r = r].l = c.l /\ [c EXCEPT !.r = r].b = c.b
  BY DEF Counters
<1>4. ASSUME NEW c \in Counters
      PROVE  /\ [c EXCEPT !.b = TRUE] \in Counters /\ [c EXCEPT !.b = TRUE].b = TRUE
             /\ [c EXCEPT !.b = TRUE].l = c.l /\ [c EXCEPT !.b = TRUE].r = c.r
  BY DEF Counters
<1>. QED  BY <1>1, <1>2, <1>3, <1>4

\* What a legal statement's own fields may be.
LEMMA LegalTop ==
  ASSUME NEW s \in Statements, NEW loops \in Nat, Legal[<<s, loops>>]
  PROVE  /\ Lawful(Legal, s, loops)
         /\ s.k \in {"break", "continue"} => s.n \in 1 .. loops
         /\ s.k = "gather" => s.n > 0
BY LegalDef DEF Lawful

\* The statements P may be run next to points that have the list M in front of them.
LEMMA FitEntry ==
  ASSUME NEW P, NEW M \in Seq(Statements), NEW K \in Rests, NEW A \in Seq(Rests),
         NEW depths \in Depths, NEW loops \in Nat, Around(P, K, A, depths, loops), Apart(P, M),
         \A i \in 1 .. Len(M) : Legal[<<M[i], loops>>]
  PROVE  Fit(P, Entry(M, K))
<1>0. DOMAIN K \subseteq Counters
  BY RestFacts
<1>1. /\ DOMAIN Entry(M, K) = {e \in DOMAIN K : Shines(M) => ~e.b}
      /\ \A c \in DOMAIN Entry(M, K) : Entry(M, K)[c] = M \o K[c]
  BY EntryTyped
<1>2. Avoids(Entry(M, K), Ids(P))
  <2>1. ASSUME NEW i \in 1 .. Len(M)
        PROVE  /\ M[i].k \in {"break", "continue"} => M[i].n \in 1 .. loops
               /\ M[i].k = "gather" => M[i].n > 0
               /\ M[i].k \notin {"break", "continue"} => M[i].id \notin Ids(P)
    <3>1. M[i] \in Statements
      BY ElementOfSeq
    <3>2. Ids(<<M[i]>>) \subseteq Ids(M)
      BY WithinFacts, PartFacts
    <3>3. Ids(P) \cap Ids(M) = {}
      BY DEF Apart, Scalar!Apart, Ids
    <3>. QED  BY <3>1, <3>2, <3>3, LegalTop, OwnFacts
  <2>2. /\ Ways(K, A, depths, loops) /\ Avoids(K, Ids(P))
        /\ \A d \in 1 .. Len(A) : Avoids(A[d], Ids(P))
    BY DEF Around, Fit
  <2>3. ASSUME NEW c \in DOMAIN K
        PROVE  Settle[M \o K[c]] # <<>> => Head(Settle[M \o K[c]]).id \notin Ids(P)
    BY <2>1, <2>2, AheadHere
  <2>. QED  BY <1>1, <2>3 DEF Avoids
<1>3. UsesLights(P) => SteadyL(Entry(M, K))
  <2>. SUFFICES ASSUME SteadyL(K)  PROVE SteadyL(Entry(M, K))
    BY DEF Around, Fit
  <2>. SUFFICES ASSUME NEW c \in DOMAIN Entry(M, K), NEW v \in Nat
                PROVE  /\ [c EXCEPT !.l = v] \in DOMAIN Entry(M, K)
                       /\ Entry(M, K)[[c EXCEPT !.l = v]] = Entry(M, K)[c]
    BY DEF SteadyL
  <2>. DEFINE d == [c EXCEPT !.l = v]
  <2>1. c \in DOMAIN K /\ d.b = c.b /\ d \in DOMAIN K /\ K[d] = K[c]
    BY <1>0, <1>1, CounterFacts DEF SteadyL
  <2>. HIDE DEF d
  <2>2. d \in DOMAIN Entry(M, K)
    BY <1>1, <2>1
  <2>3. Entry(M, K)[d] = Entry(M, K)[c]
    BY <1>1, <2>1, <2>2
  <2>. QED  BY <2>2, <2>3 DEF d
<1>4. UsesRays(P) => SteadyR(Entry(M, K))
  <2>. SUFFICES ASSUME SteadyR(K)  PROVE SteadyR(Entry(M, K))
    BY DEF Around, Fit
  <2>. SUFFICES ASSUME NEW c \in DOMAIN Entry(M, K), NEW v \in Nat
                PROVE  /\ [c EXCEPT !.r = v] \in DOMAIN Entry(M, K)
                       /\ Entry(M, K)[[c EXCEPT !.r = v]] = Entry(M, K)[c]
    BY DEF SteadyR
  <2>. DEFINE d == [c EXCEPT !.r = v]
  <2>1. c \in DOMAIN K /\ d.b = c.b /\ d \in DOMAIN K /\ K[d] = K[c]
    BY <1>0, <1>1, CounterFacts DEF SteadyR
  <2>. HIDE DEF d
  <2>2. d \in DOMAIN Entry(M, K)
    BY <1>1, <2>1
  <2>3. Entry(M, K)[d] = Entry(M, K)[c]
    BY <1>1, <2>1, <2>2
  <2>. QED  BY <2>2, <2>3 DEF d
<1>5. Shines(P) => SteadyB(Entry(M, K))
  <2>. SUFFICES ASSUME SteadyB(K), ~Shines(M)  PROVE SteadyB(Entry(M, K))
    BY DEF Around, Fit, Apart, Scalar!Apart, Shines
  <2>. SUFFICES ASSUME NEW c \in DOMAIN Entry(M, K)
                PROVE  /\ [c EXCEPT !.b = TRUE] \in DOMAIN Entry(M, K)
                       /\ Entry(M, K)[[c EXCEPT !.b = TRUE]] = Entry(M, K)[c]
    BY DEF SteadyB
  <2>. DEFINE d == [c EXCEPT !.b = TRUE]
  <2>1. c \in DOMAIN K /\ d \in DOMAIN K /\ K[d] = K[c]
    BY <1>0, <1>1, CounterFacts DEF SteadyB
  <2>. HIDE DEF d
  <2>2. d \in DOMAIN Entry(M, K)
    BY <1>1, <2>1
  <2>3. Entry(M, K)[d] = Entry(M, K)[c]
    BY <1>1, <2>1, <2>2
  <2>. QED  BY <2>2, <2>3 DEF d
<1>. QED  BY <1>2, <1>3, <1>4, <1>5 DEF Fit

\* Where the loops that there are to leave stay the same, so do the ways out.
LEMMA WaysSame ==
  ASSUME NEW K, NEW M, NEW A, NEW depths, NEW loops \in Nat, Ways(K, A, depths, loops),
         \A c \in DOMAIN M :
           c \in DOMAIN K /\ \A n \in 1 .. loops : Leave[<<M[c], n>>] = Leave[<<K[c], n>>]
  PROVE  Ways(M, A, depths, loops)
<1>1. ASSUME NEW n \in 1 .. loops
      PROVE  /\ Code!SumLast(depths, n) \in 1 .. Len(A) - 1
             /\ \A c \in DOMAIN M : Way(M, n, A[Len(A) - Code!SumLast(depths, n)],
                                         A[Len(A) - Code!SumLast(depths, n) + 1], c)
  <2>. DEFINE k == Code!SumLast(depths, n)
              a == A[Len(A) - k]
              b == A[Len(A) - k + 1]
  <2>1. k \in 1 .. Len(A) - 1 /\ \A c \in DOMAIN K : Way(K, n, a, b, c)
    BY DEF Ways
  <2>. HIDE DEF k, a, b
  <2>2. ASSUME NEW c \in DOMAIN M  PROVE Way(M, n, a, b, c)
    <3>1. Way(K, n, a, b, c) /\ Leave[<<M[c], n>>] = Leave[<<K[c], n>>]
      BY <2>1
    <3>. QED  BY <3>1 DEF Way
  <2>. QED  BY <2>1, <2>2 DEF k, a, b
<1>. QED  BY <1>1 DEF Ways

\* A list in front changes nothing in the ways out of the loops.
LEMMA WaysEntry ==
  ASSUME NEW K \in Rests, NEW M \in Seq(Statements), NEW A, NEW depths, NEW loops \in Nat,
         Ways(K, A, depths, loops)
  PROVE  Ways(Entry(M, K), A, depths, loops)
<1>1. ASSUME NEW c \in DOMAIN Entry(M, K), NEW n \in 1 .. loops
      PROVE  c \in DOMAIN K /\ Leave[<<Entry(M, K)[c], n>>] = Leave[<<K[c], n>>]
  <2>1. c \in DOMAIN K /\ Entry(M, K)[c] = M \o K[c]
    BY EntryTyped
  <2>2. K[c] \in Seq(Item) /\ n \in Int
    BY <2>1, RestFacts
  <2>. QED  BY <2>1, <2>2, LeaveOver
<1>2. \A c \in DOMAIN Entry(M, K) : c \in DOMAIN K
  BY EntryTyped
<1>. QED  BY <1>1, <1>2, WaysSame

\* One more level on the stack, which the compiler counts for the innermost loop.
LEMMA WaysPush ==
  ASSUME NEW K, NEW A \in Seq(Rests), NEW x \in Rests, NEW depths \in Depths,
         NEW loops \in Nat, loops <= Len(depths), Ways(K, A, depths, loops)
  PROVE  /\ Ways(K, Append(A, x), Code!Pushed(depths), loops)
         /\ loops <= Len(Code!Pushed(depths)) /\ Code!Pushed(depths) \in Depths
<1>1. Len(A) \in Nat /\ Len(depths) \in Nat
  BY LenProperties DEF Depths
<1>2. /\ Len(Append(A, x)) = Len(A) + 1 /\ \A i \in 1 .. Len(A) : Append(A, x)[i] = A[i]
  BY AppendProperties
<1>. DEFINE B == Append(A, x)
            P == Code!Pushed(depths)
<1>. HIDE DEF B, P
<1>3. ASSUME NEW n \in 1 .. loops
      PROVE  /\ Code!SumLast(P, n) \in 1 .. Len(B) - 1
             /\ \A c \in DOMAIN K :
                  Way(K, n, B[Len(B) - Code!SumLast(P, n)], B[Len(B) - Code!SumLast(P, n) + 1], c)
  <2>. DEFINE up == Code!SumLast(depths, n)
              e == Len(A) - up
  <2>1. n \in 1 .. Len(depths)
    BY <1>1
  <2>2. Code!SumLast(P, n) = up + 1
    BY <2>1, SumPushed DEF P
  <2>3. /\ up \in 1 .. Len(A) - 1
        /\ \A c \in DOMAIN K : Way(K, n, A[e], A[e + 1], c)
    BY DEF Ways
  <2>. HIDE DEF up
  <2>4. /\ e \in 1 .. Len(A) /\ e + 1 \in 1 .. Len(A) /\ Len(B) - (up + 1) = e
        /\ up + 1 \in 1 .. Len(B) - 1
    BY <1>1, <1>2, <2>3 DEF B
  <2>5. B[e] = A[e] /\ B[e + 1] = A[e + 1]
    BY <1>2, <2>4 DEF B
  <2>. HIDE DEF e
  <2>. QED  BY <2>2, <2>3, <2>4, <2>5
<1>4. Ways(K, B, P, loops)
  BY <1>3 DEF Ways
<1>. QED  BY <1>1, <1>4, SumPushed DEF B, P

\* The ways out of the body of a loop.
LEMMA WaysLoop ==
  ASSUME NEW K \in Rests, NEW A \in Seq(Rests), NEW s \in Statements, NEW depths \in Depths,
         NEW loops \in Nat, loops <= Len(depths), Ways(K, A, depths, loops),
         NEW again, again = Front(s, "again", K),
         NEW B, B = Append(Append(A, K), again),
         NEW inner, inner = Append(Code!Pushed(depths), 0)
  PROVE  /\ Ways(again, B, Code!Pushed(inner), loops + 1)
         /\ loops + 1 <= Len(Code!Pushed(inner)) /\ inner \in Depths
         /\ Code!Pushed(inner) \in Depths
<1>1. Len(A) \in Nat /\ Len(depths) \in Nat
  BY LenProperties DEF Depths
<1>2. /\ Code!Pushed(depths) \in Depths /\ Len(Code!Pushed(depths)) = Len(depths)
      /\ \A n \in 1 .. Len(depths) : Code!SumLast(Code!Pushed(depths), n) = Code!SumLast(depths, n) + 1
  BY SumPushed
<1>3. /\ inner \in Depths /\ Len(inner) = Len(depths) + 1
      /\ \A n \in 0 .. Len(depths) :
           Code!SumLast(inner, n + 1) = Code!SumLast(Code!Pushed(depths), n)
      /\ Code!SumLast(Code!Pushed(depths), 0) = 0
  BY <1>2, SumInner
<1>4. /\ Code!Pushed(inner) \in Depths /\ Len(Code!Pushed(inner)) = Len(depths) + 1
      /\ \A n \in 1 .. Len(depths) + 1 :
           Code!SumLast(Code!Pushed(inner), n) = Code!SumLast(inner, n) + 1
  BY <1>3, SumPushed
<1>5. s \in Item /\ again \in Rests
  <2>1. 0 \in Int /\ "again" \in Scalar!Kinds \cup {"again"} /\ s \in Item
    BY StatementsAreItems
  <2>. QED  BY <2>1, FrontTyped
<1>6. /\ B \in Seq(Rests) /\ Len(B) = Len(A) + 2
      /\ B[Len(A) + 1] = K /\ B[Len(A) + 2] = again /\ \A i \in 1 .. Len(A) : B[i] = A[i]
  <2>. DEFINE B1 == Append(A, K)
  <2>1. /\ B1 \in Seq(Rests) /\ Len(B1) = Len(A) + 1 /\ B1[Len(A) + 1] = K
        /\ \A i \in 1 .. Len(A) : B1[i] = A[i]
    BY AppendProperties
  <2>. HIDE DEF B1
  <2>2. /\ Append(B1, again) \in Seq(Rests) /\ Len(Append(B1, again)) = Len(A) + 1 + 1
        /\ Append(B1, again)[Len(A) + 1 + 1] = again
        /\ \A i \in 1 .. Len(A) + 1 : Append(B1, again)[i] = B1[i]
    BY <1>5, <2>1, AppendProperties
  <2>3. B = Append(B1, again)
    BY DEF B1
  <2>4. Len(A) + 1 + 1 = Len(A) + 2 /\ Len(A) + 1 \in 1 .. Len(A) + 1
        /\ \A i \in 1 .. Len(A) : i \in 1 .. Len(A) + 1
    BY <1>1
  <2>. QED  BY <2>1, <2>2, <2>3, <2>4
<1>7. DOMAIN again = DOMAIN K /\ \A c \in DOMAIN K : again[c] = <<As("again", s)>> \o K[c]
  BY DEF Front
<1>8. As("again", s) \in Item /\ As("again", s).k = "again"
  BY <1>5 DEF As, Scalar!As, Item, Scalar!Item
<1>. DEFINE P == Code!Pushed(inner)
<1>. HIDE DEF P
<1>9. ASSUME NEW n \in 1 .. loops + 1
      PROVE  /\ Code!SumLast(P, n) \in 1 .. Len(B) - 1
             /\ \A c \in DOMAIN again :
                  Way(again, n, B[Len(B) - Code!SumLast(P, n)], B[Len(B) - Code!SumLast(P, n) + 1], c)
  <2>1. ASSUME NEW c \in DOMAIN again
        PROVE  /\ K[c] \in Seq(Item) /\ c \in DOMAIN K
               /\ Leave[<<again[c], n>>] = IF n = 1 THEN again[c] ELSE Leave[<<K[c], n - 1>>]
    <3>1. K[c] \in Seq(Item) /\ c \in DOMAIN K /\ n \in Int
      BY <1>7, RestFacts
    <3>2. Leave[<<<<As("again", s)>> \o K[c], n>>] =
             IF n = 1 THEN <<As("again", s)>> \o K[c] ELSE Leave[<<K[c], n - 1>>]
      BY <1>8, <3>1, LeaveFront
    <3>. QED  BY <1>7, <3>1, <3>2
  <2>2. CASE n = 1
    <3>1. Code!SumLast(inner, 0 + 1) = 0
      BY <1>1, <1>2, <1>3
    <3>2. Code!SumLast(P, n) = 1
      BY <1>1, <1>4, <2>2, <3>1 DEF P
    <3>3. ASSUME NEW c \in DOMAIN again
          PROVE  SubSeq(again[c], 2, Len(again[c])) = K[c]
      <4>. DEFINE t == As("again", s)
      <4>1. K[c] \in Seq(Item) /\ again[c] = <<t>> \o K[c] /\ t \in Item
        BY <1>7, <1>8, <2>1
      <4>. DEFINE x == K[c]
                  y == <<t>> \o x
      <4>. HIDE DEF t, x
      <4>2. y \in Seq(Item) /\ y # <<>> /\ Tail(y) = x
        BY <4>1, FrontFacts DEF x
      <4>. HIDE DEF y
      <4>3. Tail(y) = SubSeq(y, 2, Len(y))
        BY <4>2, TailIsSubSeq
      <4>4. again[c] = y
        BY <4>1 DEF y, x
      <4>. QED  BY <4>2, <4>3, <4>4 DEF x
    <3>4. Len(B) - 1 = Len(A) + 1 /\ (Len(B) - 1) + 1 = Len(A) + 2 /\ 1 \in 1 .. Len(B) - 1
      BY <1>1, <1>6
    <3>5. B[Len(B) - Code!SumLast(P, n)] = K /\ B[Len(B) - Code!SumLast(P, n) + 1] = again
      BY <1>6, <3>2, <3>4
    <3>6. \A c \in DOMAIN again : Way(again, n, K, again, c)
      <4>. SUFFICES ASSUME NEW c \in DOMAIN again  PROVE Way(again, n, K, again, c)
        OBVIOUS
      <4>1. c \in DOMAIN K /\ Leave[<<again[c], n>>] = again[c]
        BY <2>1, <2>2
      <4>2. SubSeq(again[c], 2, Len(again[c])) = K[c]
        BY <3>3
      <4>. QED  BY <4>1, <4>2 DEF Way
    <3>. QED  BY <3>2, <3>4, <3>5, <3>6
  <2>3. CASE n # 1
    <3>. DEFINE m == n - 1
                up == Code!SumLast(depths, m)
                e == Len(A) - up
    <3>1. m \in 1 .. loops /\ m \in 1 .. Len(depths) /\ m \in 0 .. Len(depths) /\ m + 1 = n
          /\ n \in 1 .. Len(depths) + 1
      BY <1>1, <2>3
    <3>. HIDE DEF m
    <3>2. Code!SumLast(P, n) = (up + 1) + 1
      BY <1>2, <1>3, <1>4, <3>1 DEF P
    <3>3. /\ up \in 1 .. Len(A) - 1
          /\ \A c \in DOMAIN K : Way(K, m, A[e], A[e + 1], c)
      BY <3>1 DEF Ways
    <3>. HIDE DEF up
    <3>4. /\ e \in 1 .. Len(A) /\ e + 1 \in 1 .. Len(A) /\ Len(B) - ((up + 1) + 1) = e
          /\ (up + 1) + 1 \in 1 .. Len(B) - 1
      BY <1>1, <1>6, <3>3
    <3>5. B[e] = A[e] /\ B[e + 1] = A[e + 1]
      BY <1>6, <3>4
    <3>. HIDE DEF e
    <3>6. \A c \in DOMAIN again : c \in DOMAIN K /\ Leave[<<again[c], n>>] = Leave[<<K[c], m>>]
      BY <2>1, <2>3 DEF m
    <3>7. \A c \in DOMAIN again : Way(again, n, A[e], A[e + 1], c)
      BY <3>3, <3>6 DEF Way
    <3>. QED  BY <3>2, <3>4, <3>5, <3>7
  <2>. QED  BY <2>2, <2>3
<1>10. Ways(again, B, P, loops + 1)
  BY <1>9 DEF Ways
<1>. QED  BY <1>1, <1>3, <1>4, <1>10 DEF P

-----------------------------------------------------------------------------
(* The passage through each instruction and through common pieces of code. *)

\* One more level on the stack of masks: how RS_PUSH, RS_POP and RS_INVERSE change it.
LEMMA AppendFacts ==
  ASSUME NEW A \in Seq(Rests), NEW x \in Rests, NEW y \in Rests
  PROVE  /\ Append(A, y) \in Seq(Rests) /\ Len(Append(A, y)) = Len(A) + 1 /\ Len(A) \in Nat
         /\ Len(Append(A, y)) > 0 /\ Append(A, y)[Len(Append(A, y))] = y
         /\ SubSeq(Append(A, y), 1, Len(Append(A, y)) - 1) = A
         /\ [Append(A, y) EXCEPT ![Len(Append(A, y))] = x] = Append(A, x)
         /\ \A i \in 1 .. Len(A) : Append(A, y)[i] = A[i]
BY OnTop

\* A single instruction as the code generator writes it.
LEMMA InstructionFacts ==
  ASSUME NEW op \in Ops, NEW arg \in Int
  PROVE  /\ Code!I(op, arg) = <<[op |-> op, arg |-> arg]>>
         /\ [op |-> op, arg |-> arg] \in Instruction
         /\ Code!I(op, arg) \in Seq(Instruction)
BY WrittenFacts

\* S_CLEAR.
LEMMA ThroughClear ==
  ASSUME NEW x \in Rests, NEW A \in Seq(Rests)
  PROVE  /\ Passage(Code!I("S_CLEAR", 0), Plain(x, A), Note(x, x, A, TRUE))
         /\ Code!I("S_CLEAR", 0) \in Seq(Instruction)
<1>. DEFINE in == [op |-> "S_CLEAR", arg |-> 0]
            m == Note(x, x, A, TRUE)
<1>1. "S_CLEAR" \in Ops /\ "S_CLEAR" \notin JumpOps
  BY DEF Ops, JumpOps
<1>2. in \in Instruction /\ Code!I("S_CLEAR", 0) = <<in>> /\ Code!I("S_CLEAR", 0) \in Seq(Instruction)
  BY <1>1, InstructionFacts
<1>3. Plain(x, A) \in Notes /\ m \in Notes
  BY PlainTyped
<1>4. Fine(in, Plain(x, A), m, m)
  BY DEF Fine, Plain, Note
<1>. HIDE DEF m
<1>5. in.op \notin JumpOps
  BY <1>1
<1>. HIDE DEF in
<1>. QED  BY <1>2, <1>3, <1>4, <1>5, PassageOne DEF m

\* RS_PUSH: what those aside at the new level owe may be chosen, there is none yet.
LEMMA ThroughPush ==
  ASSUME NEW x \in Rests, NEW y \in Rests, NEW w \in Rests, NEW A \in Seq(Rests)
  PROVE  /\ Passage(Code!I("RS_PUSH", 0), Note(x, y, A, FALSE), Note(x, y, Append(A, w), FALSE))
         /\ Code!I("RS_PUSH", 0) \in Seq(Instruction)
<1>. DEFINE in == [op |-> "RS_PUSH", arg |-> 0]
            n == Note(x, y, A, FALSE)
            m == Note(x, y, Append(A, w), FALSE)
<1>1. "RS_PUSH" \in Ops /\ "RS_PUSH" \notin JumpOps
  BY DEF Ops, JumpOps
<1>2. in \in Instruction /\ Code!I("RS_PUSH", 0) = <<in>> /\ Code!I("RS_PUSH", 0) \in Seq(Instruction)
  BY <1>1, InstructionFacts
<1>3. n \in Notes /\ m \in Notes
  BY PlainTyped, AppendFacts
<1>4. Fine(in, n, m, m)
  <2>1. /\ n.run = x /\ n.not = y /\ n.aside = A /\ m.aside = Append(A, w)
        /\ m = Note(x, y, Append(A, w), FALSE)
    BY DEF Note
  <2>2. Len(m.aside) = Len(n.aside) + 1 /\ m.aside[Len(n.aside) + 1] = w
    <3>1. Len(Append(A, w)) = Len(A) + 1 /\ Append(A, w)[Len(Append(A, w))] = w
      BY AppendFacts
    <3>. QED  BY <2>1, <3>1
  <2>. HIDE DEF n, m
  <2>. QED  BY <2>1, <2>2 DEF Fine
<1>5. in.op \notin JumpOps
  BY <1>1
<1>. HIDE DEF in, n, m
<1>6. Passage(<<in>>, n, m)
  BY <1>2, <1>3, <1>4, <1>5, PassageOne
<1>. QED  BY <1>2, <1>6 DEF n, m

\* RS_POP: all whose running the level kept owe the same.
LEMMA ThroughPop ==
  ASSUME NEW x \in Rests, NEW A \in Seq(Rests)
  PROVE  /\ Passage(Code!I("RS_POP", 0), Plain(x, Append(A, x)), Plain(x, A))
         /\ Code!I("RS_POP", 0) \in Seq(Instruction)
<1>. DEFINE in == [op |-> "RS_POP", arg |-> 0]
            B == Append(A, x)
            n == Plain(x, B)
            m == Plain(x, A)
<1>1. "RS_POP" \in Ops /\ "RS_POP" \notin JumpOps
  BY DEF Ops, JumpOps
<1>2. in \in Instruction /\ Code!I("RS_POP", 0) = <<in>> /\ Code!I("RS_POP", 0) \in Seq(Instruction)
  BY <1>1, InstructionFacts
<1>3. n \in Notes /\ m \in Notes
  BY PlainTyped, AppendFacts
<1>4. Fine(in, n, m, m)
  <2>1. n.run = x /\ n.not = x /\ n.aside = B
    BY DEF Note, Plain
  <2>2. Len(B) > 0 /\ B[Len(B)] = x /\ SubSeq(B, 1, Len(B) - 1) = A
    BY AppendFacts
  <2>. HIDE DEF n, B
  <2>. QED  BY <2>1, <2>2 DEF Fine
<1>5. in.op \notin JumpOps
  BY <1>1
<1>. HIDE DEF in, n, m
<1>6. Passage(<<in>>, n, m)
  BY <1>2, <1>3, <1>4, <1>5, PassageOne
<1>. QED  BY <1>2, <1>6 DEF n, m

\* RS_GET: the points that are not in the current state are put aside.
LEMMA ThroughGet ==
  ASSUME NEW x \in Rests, NEW y \in Rests, NEW A \in Seq(Rests)
  PROVE  /\ Passage(Code!I("RS_GET", 0), Note(x, y, Append(A, y), FALSE), Plain(x, Append(A, y)))
         /\ Code!I("RS_GET", 0) \in Seq(Instruction)
<1>. DEFINE in == [op |-> "RS_GET", arg |-> 0]
            B == Append(A, y)
            n == Note(x, y, B, FALSE)
            m == Plain(x, B)
<1>1. "RS_GET" \in Ops /\ "RS_GET" \notin JumpOps
  BY DEF Ops, JumpOps
<1>2. in \in Instruction /\ Code!I("RS_GET", 0) = <<in>> /\ Code!I("RS_GET", 0) \in Seq(Instruction)
  BY <1>1, InstructionFacts
<1>3. n \in Notes /\ m \in Notes
  BY PlainTyped, AppendFacts
<1>4. Fine(in, n, m, m)
  <2>1. n.run = x /\ n.not = y /\ n.aside = B
    BY DEF Note, Plain
  <2>2. Len(B) > 0 /\ B[Len(B)] = y
    BY AppendFacts
  <2>. HIDE DEF n, B
  <2>. QED  BY <2>1, <2>2 DEF Fine
<1>5. in.op \notin JumpOps
  BY <1>1
<1>. HIDE DEF in, n, m
<1>6. Passage(<<in>>, n, m)
  BY <1>2, <1>3, <1>4, <1>5, PassageOne
<1>. QED  BY <1>2, <1>6 DEF n, m

\* RS_INVERSE: those that ran and those that were aside change places.
LEMMA ThroughInverse ==
  ASSUME NEW x \in Rests, NEW y \in Rests, NEW A \in Seq(Rests)
  PROVE  /\ Passage(Code!I("RS_INVERSE", 0), Plain(x, Append(A, y)), Plain(y, Append(A, x)))
         /\ Code!I("RS_INVERSE", 0) \in Seq(Instruction)
<1>. DEFINE in == [op |-> "RS_INVERSE", arg |-> 0]
            B == Append(A, y)
            C == Append(A, x)
            n == Plain(x, B)
            m == Plain(y, C)
<1>1. "RS_INVERSE" \in Ops /\ "RS_INVERSE" \notin JumpOps
  BY DEF Ops, JumpOps
<1>2. /\ in \in Instruction /\ Code!I("RS_INVERSE", 0) = <<in>>
      /\ Code!I("RS_INVERSE", 0) \in Seq(Instruction)
  BY <1>1, InstructionFacts
<1>3. n \in Notes /\ m \in Notes
  BY PlainTyped, AppendFacts
<1>4. Fine(in, n, m, m)
  <2>1. n.run = x /\ n.not = x /\ n.aside = B
    BY DEF Note, Plain
  <2>2. Len(B) > 0 /\ B[Len(B)] = y /\ [B EXCEPT ![Len(B)] = x] = C
    BY AppendFacts
  <2>. HIDE DEF n, B, C
  <2>. QED  BY <2>1, <2>2 DEF Fine
<1>5. in.op \notin JumpOps
  BY <1>1
<1>. HIDE DEF in, n, m
<1>6. Passage(<<in>>, n, m)
  BY <1>2, <1>3, <1>4, <1>5, PassageOne
<1>. QED  BY <1>2, <1>6 DEF n, m

\* A test of the points that come to a statement.
LEMMA ThroughTest ==
  ASSUME NEW x \in Rests, NEW y \in Rests, NEW z \in Rests, NEW A \in Seq(Rests), NEW b \in BOOLEAN,
         NEW id \in Int, \A d \in 1 .. Len(A) : Avoids(A[d], {id}),
         Does(x, y, Same, {"if", "pick", "while"}, id, TRUE),
         Does(x, z, Same, {"if", "pick", "while"}, id, FALSE)
  PROVE  /\ Passage(Code!I("S_GET", id), Note(x, x, A, b), Note(y, z, A, FALSE))
         /\ Code!I("S_GET", id) \in Seq(Instruction)
<1>. DEFINE in == [op |-> "S_GET", arg |-> id]
            n == Note(x, x, A, b)
            m == Note(y, z, A, FALSE)
<1>1. "S_GET" \in Ops /\ "S_GET" \notin JumpOps
  BY DEF Ops, JumpOps
<1>2. in \in Instruction /\ Code!I("S_GET", id) = <<in>> /\ Code!I("S_GET", id) \in Seq(Instruction)
  BY <1>1, InstructionFacts
<1>3. n \in Notes /\ m \in Notes
  BY PlainTyped
<1>4. Fine(in, n, m, m)
  <2>1. /\ n.run = x /\ n.not = x /\ n.aside = A /\ m.run = y /\ m.not = z
        /\ m = Note(y, z, A, FALSE)
    BY DEF Note
  <2>2. Away(n, id)
    BY <2>1 DEF Away
  <2>. HIDE DEF n, m
  <2>. QED  BY <2>1, <2>2 DEF Fine
<1>5. in.op \notin JumpOps
  BY <1>1
<1>. HIDE DEF in, n, m
<1>6. Passage(<<in>>, n, m)
  BY <1>2, <1>3, <1>4, <1>5, PassageOne
<1>. QED  BY <1>2, <1>6 DEF n, m

\* A condition changes nothing that the points owe.
LEMMA ThroughExpression ==
  ASSUME NEW s \in Statements, NEW x \in Rests, NEW A \in Seq(Rests),
         (\E i \in 1 .. Len(s.args) : s.args[i] = "diffuse") =>
            SteadyL(x) /\ \A d \in 1 .. Len(A) : SteadyL(A[d])
  PROVE  /\ Passage(Code!Expression(s.args), Plain(x, A), Plain(x, A))
         /\ Code!Expression(s.args) \in Seq(Instruction)
<1>. DEFINE c == Code!Expression(s.args)
            n == Plain(x, A)
            N == [i \in 1 .. Len(c) + 1 |-> n]
<1>1. c \in Seq(Instruction)
  BY WrittenFacts
<1>2. Len(c) \in Nat
  BY <1>1, LenProperties
<1>3. /\ Len(c) = Len(s.args) /\ \A i \in 1 .. Len(c) : c[i] = [op |-> s.args[i], arg |-> 0]
      /\ \A i \in 1 .. Len(c) : s.args[i] \in Scalar!Expressions
  <2>1. s.args \in Seq(Scalar!Expressions)
    BY StatementsAreItems
  <2>2. /\ DOMAIN s.args = 1 .. Len(s.args) /\ Len(s.args) \in Nat
        /\ \A i \in 1 .. Len(s.args) : s.args[i] \in Scalar!Expressions
    BY <2>1, LenProperties, ElementOfSeq
  <2>3. c = [i \in 1 .. Len(s.args) |-> [op |-> s.args[i], arg |-> 0]]
    BY <2>2 DEF Code!Expression
  <2>4. DOMAIN c = 1 .. Len(c)
    BY <1>1, LenProperties
  <2>. HIDE DEF c
  <2>5. Len(c) = Len(s.args)
    BY <1>2, <2>2, <2>3, <2>4
  <2>. QED  BY <2>2, <2>3, <2>5
<1>4. n \in Notes
  BY PlainTyped
<1>5. n.run = x /\ n.not = x /\ n.aside = A /\ n = Plain(n.run, n.aside)
  BY DEF Plain, Note
<1>. HIDE DEF c, n
<1>6. ASSUME NEW i \in 1 .. Len(c)  PROVE FineAt(c, N, i)
  <2>1. N[i] = n /\ N[i + 1] = n /\ i + 1 \in 1 .. Len(c) + 1
    BY <1>2
  <2>b. c[i] = [op |-> s.args[i], arg |-> 0] /\ s.args[i] \in Scalar!Expressions
    BY <1>3
  <2>c. i \in 1 .. Len(s.args)
    BY <1>3
  <2>a. c[i].op = s.args[i] /\ s.args[i] \in Scalar!Expressions /\ i \in 1 .. Len(s.args)
    BY <2>b, <2>c
  <2>2. c[i].op \in {"choice", "diffuse"} /\ c[i].op \notin JumpOps
    BY <2>a DEF Scalar!Expressions, JumpOps
  <2>3. Fine(c[i], n, n, n)
    <3>1. CASE c[i].op = "choice"
      BY <1>5, <3>1 DEF Fine
    <3>2. CASE c[i].op = "diffuse"
      <4>1. SteadyL(x) /\ \A d \in 1 .. Len(A) : SteadyL(A[d])
        BY <2>a, <3>2
      <4>2. ASSUME NEW y \in Rests, SteadyL(y)  PROVE Goes(y, y, Lamp(Lights))
        BY <4>2, LightsNat DEF Goes, Lamp, SteadyL
      <4>3. Goes(x, x, Lamp(Lights)) /\ Waits(A, Lamp(Lights))
        BY <4>1, <4>2, ElementOfSeq DEF Waits
      <4>. QED  BY <1>5, <3>2, <4>3 DEF Fine
    <3>. QED  BY <2>2, <3>1, <3>2
  <2>. HIDE DEF N
  <2>. QED  BY <1>4, <2>1, <2>2, <2>3, YieldsRefl DEF FineAt
<1>7. N \in [1 .. Len(c) + 1 -> Notes] /\ N[1] = n /\ N[Len(c) + 1] = n
  BY <1>2, <1>4
<1>. HIDE DEF N
<1>8. Passage(c, n, n)
  BY <1>6, <1>7, YieldsRefl DEF Passage
<1>. QED  BY <1>1, <1>8 DEF c, n

\* A piece of code behind what has been passed.
LEMMA Onward ==
  ASSUME NEW X \in Seq(Instruction), NEW c \in Seq(Instruction), NEW n, NEW m, NEW o,
         Passage(X, n, m), Passage(c, m, o)
  PROVE  X \o c \in Seq(Instruction) /\ Passage(X \o c, n, o)
<1>1. X \o c \in Seq(Instruction)
  BY ConcatProperties
<1>. QED  BY <1>1, PassageThen

\* Code that is jumped over where no point is left running.
LEMMA SkipNone ==
  ASSUME NEW X \in Seq(Instruction), NEW c \in Seq(Instruction), NEW n, NEW x \in Rests,
         NEW y \in Rests, NEW A \in Seq(Rests),
         Passage(X, n, Plain(x, A)), Passage(c, Plain(x, A), Plain(y, A))
  PROVE  /\ X \o Code!I("RS_JZ", Len(c) + 1) \o c \in Seq(Instruction)
         /\ Passage(X \o Code!I("RS_JZ", Len(c) + 1) \o c, n, Plain(y, A))
<1>. DEFINE a == Len(c) + 1
            in == [op |-> "RS_JZ", arg |-> a]
            m == Plain(x, A)
            o == Plain(y, A)
<1>1. a \in Int
  <2>1. Len(c) \in Nat
    BY LenProperties
  <2>. QED  BY <2>1
<1>2. "RS_JZ" \in Ops /\ "RS_JZ" \in JumpOps /\ "RS_JZ" # "jmp"
  BY DEF Ops, JumpOps
<1>. DEFINE j == Code!I("RS_JZ", a)
<1>3. in \in Instruction /\ j = <<in>> /\ j \in Seq(Instruction)
  BY <1>1, <1>2, InstructionFacts
<1>4. m \in Notes /\ o \in Notes
  BY PlainTyped
<1>5. Fine(in, m, m, o)
  <2>1. m.run = x /\ m.not = x /\ m.aside = A /\ o.run = y /\ o = Plain(o.run, A) /\ m = Plain(x, A)
    BY DEF Plain, Note
  <2>. HIDE DEF m, o
  <2>. QED  BY <2>1 DEF Fine
<1>6. in.op \in JumpOps /\ in.op # "jmp" /\ in.arg = Len(c) + 1
  BY <1>2
<1>. HIDE DEF in, m, o
<1>7. Passage(<<in>> \o c, m, o)
  BY <1>3, <1>4, <1>5, <1>6, PassageOver, YieldsRefl DEF m, o
<1>. HIDE DEF j
<1>8. Passage(j \o c, m, o) /\ j \o c \in Seq(Instruction)
  BY <1>3, <1>7, ConcatProperties
<1>9. X \o (j \o c) = (X \o j) \o c
  BY <1>3, ConcatAssociative
<1>10. Passage(X \o (j \o c), n, o) /\ X \o (j \o c) \in Seq(Instruction)
  BY <1>8, Onward DEF m
<1>. QED  BY <1>9, <1>10 DEF j, o

\* Code that is jumped over where no point is left in the current state.
LEMMA SkipFailed ==
  ASSUME NEW X \in Seq(Instruction), NEW c \in Seq(Instruction), NEW n, NEW x \in Rests,
         NEW y \in Rests, NEW A \in Seq(Rests),
         Passage(X, n, Note(x, y, A, FALSE)), Passage(c, Note(x, y, A, FALSE), Plain(y, A))
  PROVE  /\ X \o Code!I("S_JZ", Len(c) + 1) \o c \in Seq(Instruction)
         /\ Passage(X \o Code!I("S_JZ", Len(c) + 1) \o c, n, Plain(y, A))
<1>. DEFINE a == Len(c) + 1
            in == [op |-> "S_JZ", arg |-> a]
            m == Note(x, y, A, FALSE)
            o == Plain(y, A)
<1>1. a \in Int
  <2>1. Len(c) \in Nat
    BY LenProperties
  <2>. QED  BY <2>1
<1>2. "S_JZ" \in Ops /\ "S_JZ" \in JumpOps /\ "S_JZ" # "jmp"
  BY DEF Ops, JumpOps
<1>. DEFINE j == Code!I("S_JZ", a)
<1>3. in \in Instruction /\ j = <<in>> /\ j \in Seq(Instruction)
  BY <1>1, <1>2, InstructionFacts
<1>4. m \in Notes /\ o \in Notes
  BY PlainTyped
<1>5. Fine(in, m, m, o)
  <2>1. m.run = x /\ m.not = y /\ m.aside = A /\ o = Plain(y, A) /\ m = Note(x, y, A, FALSE)
    BY DEF Plain, Note
  <2>. HIDE DEF m, o
  <2>. QED  BY <2>1 DEF Fine
<1>6. in.op \in JumpOps /\ in.op # "jmp" /\ in.arg = Len(c) + 1
  BY <1>2
<1>. HIDE DEF in, m, o
<1>7. Passage(<<in>> \o c, m, o)
  BY <1>3, <1>4, <1>5, <1>6, PassageOver, YieldsRefl DEF m, o
<1>. HIDE DEF j
<1>8. Passage(j \o c, m, o) /\ j \o c \in Seq(Instruction)
  BY <1>3, <1>7, ConcatProperties
<1>9. X \o (j \o c) = (X \o j) \o c
  BY <1>3, ConcatAssociative
<1>10. Passage(X \o (j \o c), n, o) /\ X \o (j \o c) \in Seq(Instruction)
  BY <1>8, Onward DEF m
<1>. QED  BY <1>9, <1>10 DEF j, o

\* A piece of code for the points in the current state, the others aside.
LEMMA Masked ==
  ASSUME NEW x \in Rests, NEW b \in Rests, NEW A \in Seq(Rests), NEW T \in Seq(Instruction),
         Passage(T, Plain(b, Append(A, x)), Plain(x, Append(A, x)))
  PROVE  LET body == Code!I("RS_PUSH", 0) \o Code!I("RS_GET", 0) \o T \o Code!I("RS_POP", 0)
         IN  body \in Seq(Instruction) /\ Passage(body, Note(b, x, A, FALSE), Plain(x, A))
<1>. DEFINE n == Note(b, x, A, FALSE)
            c1 == Code!I("RS_PUSH", 0)
            c2 == c1 \o Code!I("RS_GET", 0)
            c3 == c2 \o T
            c4 == c3 \o Code!I("RS_POP", 0)
<1>1. c1 \in Seq(Instruction) /\ Passage(c1, n, Note(b, x, Append(A, x), FALSE))
  BY ThroughPush
<1>2. c2 \in Seq(Instruction) /\ Passage(c2, n, Plain(b, Append(A, x)))
  <2>. HIDE DEF c1, n
  <2>. QED  BY <1>1, ThroughGet, Onward
<1>3. c3 \in Seq(Instruction) /\ Passage(c3, n, Plain(x, Append(A, x)))
  <2>. HIDE DEF c2, n
  <2>. QED  BY <1>2, Onward
<1>4. c4 \in Seq(Instruction) /\ Passage(c4, n, Plain(x, A))
  <2>. HIDE DEF c3, n
  <2>. QED  BY <1>3, ThroughPop, Onward
<1>. QED  BY <1>4

\* The two sides of a branch.
LEMMA Branch ==
  ASSUME NEW X \in Seq(Instruction), NEW n, NEW b \in Rests, NEW o \in Rests, NEW K \in Rests,
         NEW A \in Seq(Rests), Passage(X, n, Note(b, o, A, FALSE)),
         NEW T \in Seq(Instruction), NEW F \in Seq(Instruction),
         Passage(T, Plain(b, Append(A, o)), Plain(K, Append(A, o))),
         Passage(F, Plain(o, Append(A, K)), Plain(K, Append(A, K)))
  PROVE  LET all == X \o Code!I("RS_PUSH", 0) \o Code!I("RS_GET", 0)
                      \o Code!I("RS_JZ", Len(T) + 1) \o T
                      \o (IF F = <<>> THEN <<>>
                          ELSE Code!I("RS_INVERSE", 0) \o Code!I("RS_JZ", Len(F) + 1) \o F)
                      \o Code!I("RS_POP", 0)
         IN  all \in Seq(Instruction) /\ Passage(all, n, Plain(K, A))
<1>. DEFINE c1 == X \o Code!I("RS_PUSH", 0)
            c2 == c1 \o Code!I("RS_GET", 0)
            c3 == c2 \o Code!I("RS_JZ", Len(T) + 1) \o T
            G == Code!I("RS_INVERSE", 0) \o Code!I("RS_JZ", Len(F) + 1) \o F
            c4 == c3 \o (IF F = <<>> THEN <<>> ELSE G)
            c5 == c4 \o Code!I("RS_POP", 0)
            B == Append(A, o)
            C == Append(A, K)
<1>a. B \in Seq(Rests) /\ C \in Seq(Rests)
  BY AppendFacts
<1>1. c1 \in Seq(Instruction) /\ Passage(c1, n, Note(b, o, B, FALSE))
  BY ThroughPush, Onward
<1>2. c2 \in Seq(Instruction) /\ Passage(c2, n, Plain(b, B))
  <2>. HIDE DEF c1
  <2>. QED  BY <1>1, ThroughGet, Onward
<1>3. c3 \in Seq(Instruction) /\ Passage(c3, n, Plain(K, B))
  <2>. HIDE DEF c2
  <2>1. Passage(T, Plain(b, B), Plain(K, B))
    OBVIOUS
  <2>. HIDE DEF B
  <2>. QED  BY <1>a, <1>2, <2>1, SkipNone
<1>4. c4 \in Seq(Instruction) /\ Passage(c4, n, Plain(K, C))
  <2>1. CASE F = <<>>
    <3>1. c4 = c3
      <4>. HIDE DEF c3
      <4>1. c3 \o <<>> = c3
        BY <1>3, ConcatEmptySeq
      <4>. QED  BY <2>1, <4>1
    <3>2. Yields(Plain(o, C), Plain(K, C))
      <4>1. Passage(<<>>, Plain(o, C), Plain(K, C))
        BY <2>1
      <4>. HIDE DEF C
      <4>2. PICK N : Yields(Plain(o, C), N[1]) /\ Yields(N[Len(<<>>) + 1], Plain(K, C))
        BY <4>1 DEF Passage
      <4>3. Len(<<>>) + 1 = 1
        BY EmptySeq
      <4>. QED  BY <4>2, <4>3, YieldsTrans
    <3>3. Leads(o, K)
      BY <3>2 DEF Yields, Plain, Note
    <3>4. Yields(Plain(K, B), Plain(K, C))
      <4>1. Len(B) = Len(A) + 1 /\ Len(C) = Len(A) + 1 /\ Len(A) \in Nat
        BY AppendFacts
      <4>2. ASSUME NEW d \in 1 .. Len(B)  PROVE Leads(B[d], C[d])
        <5>1. CASE d = Len(A) + 1
          <6>1. B[Len(B)] = o /\ C[Len(C)] = K
            BY AppendFacts
          <6>. HIDE DEF B, C
          <6>. QED  BY <3>3, <4>1, <5>1, <6>1
        <5>2. CASE d # Len(A) + 1
          <6>1. d \in 1 .. Len(A)
            <7>. HIDE DEF B, C
            <7>. QED  BY <4>1, <5>2
          <6>2. B[d] = A[d] /\ C[d] = A[d]
            BY <6>1, AppendFacts
          <6>. QED  BY <6>2, LeadsRefl
        <5>. QED  BY <5>1, <5>2
      <4>. HIDE DEF B, C
      <4>. QED  BY <4>1, <4>2, LeadsRefl DEF Yields, Plain, Note
    <3>5. Yields(n, n)
      BY YieldsRefl
    <3>. HIDE DEF c3, c4, B, C
    <3>. QED  BY <1>3, <3>1, <3>4, <3>5, PassageWeaker
  <2>2. CASE F # <<>>
    <3>. DEFINE g == Code!I("RS_INVERSE", 0)
    <3>1. g \in Seq(Instruction) /\ Passage(g, Plain(K, B), Plain(o, C))
      BY ThroughInverse
    <3>2. G \in Seq(Instruction) /\ Passage(G, Plain(K, B), Plain(K, C))
      <4>1. Passage(F, Plain(o, C), Plain(K, C))
        OBVIOUS
      <4>. HIDE DEF g, B, C
      <4>2. g \o Code!I("RS_JZ", Len(F) + 1) \o F \in Seq(Instruction) /\ Passage(g \o Code!I("RS_JZ", Len(F) + 1) \o F, Plain(K, B), Plain(K, C))
        BY <1>a, <3>1, <4>1, SkipNone
      <4>. QED  BY <4>2 DEF g
    <3>3. c4 = c3 \o G
      BY <2>2
    <3>. HIDE DEF c3, c4, G, B, C
    <3>. QED  BY <1>3, <3>2, <3>3, Onward
  <2>. QED  BY <2>1, <2>2
<1>5. c5 \in Seq(Instruction) /\ Passage(c5, n, Plain(K, A))
  <2>. HIDE DEF c4
  <2>. QED  BY <1>4, ThroughPop, Onward
<1>. QED  BY <1>5

-----------------------------------------------------------------------------
(* The code of a statement, and of a list of statements. *)

\* The code of s does what s says wherever it may stand.
Compiles(s) ==
  \A loops \in Nat, K \in Rests, A \in Seq(Rests), depths \in Depths :
    Legal[<<s, loops>>] /\ Around(<<s>>, K, A, depths, loops) =>
      /\ Code!Visit[<<s, depths>>] \in Seq(Instruction)
      /\ Passage(Code!Visit[<<s, depths>>], Plain(Entry(<<s>>, K), A), Plain(K, A))

\* What is owed in front of a list is owed in front of its first statement.
LEMMA EntryCons ==
  ASSUME NEW s \in Statements, NEW M \in Seq(Statements), NEW K \in Rests
  PROVE  /\ <<s>> \o M \in Seq(Statements) /\ <<s>> \in Seq(Statements)
         /\ Entry(<<s>> \o M, K) = Entry(<<s>>, Entry(M, K))
<1>. DEFINE L == <<s>> \o M
            one == <<s>>
<1>1. one \in Seq(Statements) /\ L \in Seq(Statements)
  BY ConcatProperties
<1>2. Shines(L) <=> Shines(one) \/ Shines(M)
  <2>1. Within(L) = Within(one) \cup Within(M)
    BY WithinFacts
  <2>. QED  BY <2>1, UnionFacts
<1>3. \A c \in DOMAIN K : L \o K[c] = one \o (M \o K[c])
  BY ConsOver, RestFacts
<1>4. /\ DOMAIN Entry(L, K) = {e \in DOMAIN K : Shines(L) => ~e.b}
      /\ \A c \in DOMAIN Entry(L, K) : Entry(L, K)[c] = L \o K[c]
      /\ Entry(L, K) = [c \in DOMAIN Entry(L, K) |-> Entry(L, K)[c]]
  <2>. HIDE DEF L
  <2>. QED  BY <1>1, EntryTyped DEF Entry
<1>5. /\ Entry(M, K) \in Rests
      /\ DOMAIN Entry(M, K) = {e \in DOMAIN K : Shines(M) => ~e.b}
      /\ \A c \in DOMAIN Entry(M, K) : Entry(M, K)[c] = M \o K[c]
  BY EntryTyped
<1>. DEFINE E == Entry(M, K)
<1>6. /\ DOMAIN Entry(one, E) = {e \in DOMAIN E : Shines(one) => ~e.b}
      /\ \A c \in DOMAIN Entry(one, E) : Entry(one, E)[c] = one \o E[c]
      /\ Entry(one, E) = [c \in DOMAIN Entry(one, E) |-> Entry(one, E)[c]]
  <2>. HIDE DEF one, E
  <2>1. E \in Rests
    BY <1>5 DEF E
  <2>. QED  BY <1>1, <2>1, EntryTyped DEF Entry
<1>. HIDE DEF L, one, E
<1>7. DOMAIN Entry(L, K) = DOMAIN Entry(one, E)
  BY <1>2, <1>4, <1>5, <1>6 DEF E
<1>8. \A c \in DOMAIN Entry(L, K) : Entry(L, K)[c] = Entry(one, E)[c]
  BY <1>3, <1>4, <1>5, <1>6, <1>7 DEF E
<1>9. Entry(L, K) = Entry(one, E)
  BY <1>4, <1>6, <1>7, <1>8
<1>. QED  BY <1>1, <1>9 DEF L, one, E

\* What is in a list is in one of its statements.
LEMMA InSome ==
  ASSUME NEW M \in Seq(Statements), NEW t \in Within(M)
  PROVE  \E i \in 1 .. Len(M) : M[i] \in Statements /\ t \in Within(<<M[i]>>)
<1>1. Scalar!Listed(M) = {M[i] : i \in 1 .. Len(M)} /\ Scalar!Listed(M) \subseteq Statements
  BY ListedFacts
<1>2. PICK s \in Scalar!Listed(M) : t \in Inside[s]
  BY DEF Within, Scalar!Within, Inside
<1>3. s \in Statements /\ Within(<<s>>) = Inside[s]
  BY <1>1, <1>2, WithinFacts
<1>. QED  BY <1>1, <1>2, <1>3

\* A statement that is apart from each of a list is apart from the list.
LEMMA ApartFromAll ==
  ASSUME NEW s, NEW M \in Seq(Statements), \A i \in 1 .. Len(M) : Apart(<<s>>, <<M[i]>>)
  PROVE  Apart(<<s>>, M)
<1>1. ASSUME NEW i \in Ids(<<s>>), i \in Ids(M)  PROVE FALSE
  <2>1. PICK t \in Within(M) : t.k \notin {"break", "continue"} /\ t.id = i
    BY <1>1 DEF Ids, Scalar!Ids, Within
  <2>2. PICK j \in 1 .. Len(M) : t \in Within(<<M[j]>>)
    BY InSome
  <2>3. i \in Ids(<<M[j]>>)
    BY <2>1, <2>2 DEF Ids, Scalar!Ids, Within
  <2>. QED  BY <2>3 DEF Apart, Scalar!Apart, Ids
<1>2. ASSUME Shines(<<s>>), Shines(M)  PROVE FALSE
  <2>1. PICK t \in Within(M) : t.k \in {"illuminate", "solar"}
    BY <1>2 DEF Shines, Scalar!Shines, Within
  <2>2. PICK j \in 1 .. Len(M) : t \in Within(<<M[j]>>)
    BY InSome
  <2>3. Shines(<<M[j]>>)
    BY <2>1, <2>2 DEF Shines, Scalar!Shines, Within
  <2>. QED  BY <1>2, <2>3 DEF Apart, Scalar!Apart, Shines
<1>. QED  BY <1>1, <1>2 DEF Apart, Scalar!Apart, Ids, Shines

\* The rest of a list.
LEMMA RestOf ==
  ASSUME NEW L \in Seq(Statements), NEW k \in Nat, k < Len(L)
  PROVE  /\ SubSeq(L, k + 1, Len(L)) = <<L[k + 1]>> \o SubSeq(L, k + 2, Len(L))
         /\ SubSeq(L, k + 2, Len(L)) \in Seq(Statements) /\ L[k + 1] \in Statements
         /\ \A i \in 1 .. Len(SubSeq(L, k + 2, Len(L))) :
              /\ SubSeq(L, k + 2, Len(L))[i] = L[k + 1 + i] /\ k + 1 + i \in 1 .. Len(L)
              /\ k + 1 + i # k + 1
<1>. DEFINE n == Len(L)
            R == SubSeq(L, k + 1, n)
            M == SubSeq(L, k + 2, n)
            s == L[k + 1]
<1>1. n \in Nat /\ k + 1 \in 1 .. n /\ \A i \in 1 .. n : L[i] \in Statements
  <2>1. n \in Nat
    BY LenProperties
  <2>. QED  BY <2>1, ElementOfSeq
<1>. HIDE DEF n
<1>2. /\ R \in Seq(Statements) /\ Len(R) = n - k
      /\ \A i \in 1 .. n - k : R[i] = L[k + i]
  <2>1. \A i \in k + 1 .. n : L[i] \in Statements
    BY <1>1
  <2>2. /\ R \in Seq(Statements) /\ Len(R) = (IF k + 1 <= n THEN n - (k + 1) + 1 ELSE 0)
        /\ \A i \in 1 .. n - (k + 1) + 1 : R[i] = L[(k + 1) + i - 1]
    BY <1>1, <2>1, SubSeqProperties
  <2>. QED  BY <1>1, <2>2
<1>3. /\ M \in Seq(Statements) /\ Len(M) = n - k - 1
      /\ \A i \in 1 .. n - k - 1 : M[i] = L[k + 1 + i]
  <2>1. \A i \in k + 2 .. n : L[i] \in Statements
    BY <1>1
  <2>2. /\ M \in Seq(Statements) /\ Len(M) = (IF k + 2 <= n THEN n - (k + 2) + 1 ELSE 0)
        /\ \A i \in 1 .. n - (k + 2) + 1 : M[i] = L[(k + 2) + i - 1]
    BY <1>1, <2>1, SubSeqProperties
  <2>. QED  BY <1>1, <2>2
<1>. HIDE DEF M, R
<1>4. R = <<s>> \o M
  <2>1. n \in k + 1 .. n /\ (k + 1) + 1 = k + 2
    BY <1>1
  <2>2. SubSeq(L, k + 1, n) = <<L[k + 1]>> \o SubSeq(L, k + 1 + 1, n)
    BY <1>1, <2>1, SubSeqRecursiveFirst DEF n
  <2>. QED  BY <2>1, <2>2 DEF R, M
<1>5. \A i \in 1 .. Len(M) : M[i] = L[k + 1 + i] /\ k + 1 + i \in 1 .. n /\ k + 1 + i # k + 1
  BY <1>1, <1>3
<1>. QED  BY <1>1, <1>3, <1>4, <1>5 DEF n, M, R

\* The code of a list does what the list says when that of each statement does.
LEMMA ListCompiles ==
  ASSUME NEW L \in Seq(Statements), NEW K \in Rests, NEW A \in Seq(Rests),
         NEW depths \in Depths, NEW loops \in Nat, AllLegal(Legal, L, loops),
         \A i \in 1 .. Len(L) : Compiles(L[i]), Around(L, K, A, depths, loops)
  PROVE  /\ Code!VisitAll(Code!Visit, L, depths) \in Seq(Instruction)
         /\ Passage(Code!VisitAll(Code!Visit, L, depths), Plain(Entry(L, K), A), Plain(K, A))
<1>. DEFINE n == Len(L)
            rest(k) == SubSeq(L, k + 1, Len(L))
            V(k) == Code!Visit[<<L[k], depths>>]
<1>1. n \in Nat /\ DOMAIN L = 1 .. n /\ \A i \in 1 .. n : L[i] \in Statements
  BY LenProperties, ElementOfSeq
<1>2. \A i \in 1 .. n : V(i) \in Seq(Written)
  BY <1>1, VisitDef DEF Places
<1>3. PICK P \in [0 .. n -> Seq(Written)] :
        /\ P[0] = <<>> /\ Code!VisitAll(Code!Visit, L, depths) = P[n]
        /\ \A i \in 1 .. n : P[i] = P[i - 1] \o V(i)
  BY <1>2, VisitAllFacts
<1>4. /\ AllApart(L) /\ \A i \in 1 .. n : Legal[<<L[i], loops>>]
  BY <1>1 DEF AllLegal
<1>. HIDE DEF n, V
<1>. DEFINE Q(k) == k <= n => /\ P[k] \in Seq(Instruction)
                              /\ Passage(P[k], Plain(Entry(L, K), A), Plain(Entry(rest(k), K), A))
            S == {k \in Nat : Q(k)}
<1>5. 0 \in S
  <2>1. rest(0) = L
    BY SubSeqFull DEF n
  <2>2. Plain(Entry(L, K), A) \in Notes
    BY EntryTyped, PlainTyped
  <2>3. <<>> \in Seq(Instruction)
    BY EmptySeq
  <2>4. Passage(P[0], Plain(Entry(L, K), A), Plain(Entry(rest(0), K), A))
    BY <1>3, <2>1, <2>2, PassageNone
  <2>. QED  BY <1>3, <2>3, <2>4
<1>6. ASSUME NEW k \in Nat, k \in S  PROVE k + 1 \in S
  <2>. SUFFICES ASSUME k + 1 <= n  PROVE Q(k + 1)
    OBVIOUS
  <2>1. k < n /\ k <= n /\ k + 1 \in 1 .. n /\ (k + 1) - 1 = k /\ k + 1 + 1 = k + 2
    BY <1>1
  <2>2. P[k] \in Seq(Instruction) /\ Passage(P[k], Plain(Entry(L, K), A), Plain(Entry(rest(k), K), A))
    BY <1>6, <2>1
  <2>. DEFINE s == L[k + 1]
              one == <<s>>
              M == SubSeq(L, k + 2, Len(L))
  <2>3. /\ rest(k) = one \o M /\ M \in Seq(Statements) /\ s \in Statements
        /\ \A i \in 1 .. Len(M) : M[i] = L[k + 1 + i] /\ k + 1 + i \in 1 .. n /\ k + 1 + i # k + 1
    BY <2>1, RestOf DEF n
  <2>4. rest(k + 1) = M
    BY <2>1
  <2>. HIDE DEF M
  <2>5. Apart(one, M)
    <3>1. ASSUME NEW i \in 1 .. Len(M)  PROVE Apart(<<s>>, <<M[i]>>)
      <4>1. Apart(<<L[k + 1]>>, <<L[k + 1 + i]>>)
        BY <1>1, <1>4, <2>1, <2>3 DEF AllApart, Scalar!AllApart, Apart
      <4>. QED  BY <2>3, <4>1
    <3>. QED  BY <2>3, <3>1, ApartFromAll
  <2>6. Around(one, K, A, depths, loops)
    <3>1. Within(one) \subseteq Within(L)
      BY <2>1, WithinFacts DEF n
    <3>2. \A x : Fit(L, x) => Fit(one, x)
      BY <3>1, PartFacts
    <3>. QED  BY <3>2 DEF Around
  <2>7. Around(one, Entry(M, K), A, depths, loops)
    <3>1. \A i \in 1 .. Len(M) : Legal[<<M[i], loops>>]
      BY <1>4, <2>3
    <3>2. Fit(one, Entry(M, K))
      BY <2>3, <2>5, <2>6, <3>1, FitEntry
    <3>3. Ways(Entry(M, K), A, depths, loops)
      BY <2>3, <2>6, WaysEntry DEF Around
    <3>. QED  BY <2>6, <3>2, <3>3 DEF Around
  <2>8. Entry(M, K) \in Rests
    BY <2>3, EntryTyped
  <2>9. Legal[<<s, loops>>] /\ Compiles(s)
    BY <1>4, <2>1 DEF n
  <2>. HIDE DEF one
  <2>10. /\ V(k + 1) \in Seq(Instruction)
         /\ Passage(V(k + 1), Plain(Entry(one, Entry(M, K)), A), Plain(Entry(M, K), A))
    BY <2>7, <2>8, <2>9 DEF Compiles, V, one
  <2>11. Entry(rest(k), K) = Entry(one, Entry(M, K))
    <3>1. rest(k) = <<s>> \o M
      BY <2>3 DEF one
    <3>. HIDE DEF rest
    <3>2. Entry(<<s>> \o M, K) = Entry(<<s>>, Entry(M, K))
      BY <2>3, EntryCons
    <3>. QED  BY <3>1, <3>2 DEF one
  <2>12. P[k + 1] = P[k] \o V(k + 1)
    BY <1>3, <2>1
  <2>. HIDE DEF rest, s
  <2>13. /\ P[k] \o V(k + 1) \in Seq(Instruction)
         /\ Passage(P[k] \o V(k + 1), Plain(Entry(L, K), A), Plain(Entry(M, K), A))
    BY <2>2, <2>10, <2>11, Onward
  <2>. QED  BY <2>4, <2>12, <2>13
<1>. HIDE DEF Q
<1>7. \A k \in Nat : k \in S
  <2>. HIDE DEF S
  <2>. QED  BY <1>5, <1>6, Steps
<1>8. Q(n)
  BY <1>1, <1>7
<1>9. rest(n) = <<>>
  BY <1>1 DEF n
<1>10. Entry(rest(n), K) = K
  <2>. HIDE DEF rest
  <2>. QED  BY <1>9, EntryNone
<1>. HIDE DEF rest
<1>. QED  BY <1>1, <1>3, <1>8, <1>10 DEF Q

\* Where a statement may stand no point behind it or aside comes to it next.
LEMMA AwayHere ==
  ASSUME NEW s \in Statements, s.k \notin {"break", "continue"}, NEW x, Fit(<<s>>, x)
  PROVE  Avoids(x, {s.id})
BY OwnFacts DEF Fit, Avoids

\* A part of a piece of code may stand where the whole may.
LEMMA AroundPart ==
  ASSUME NEW a, NEW b, Within(a) \subseteq Within(b), NEW K, NEW A, NEW depths, NEW loops,
         Around(b, K, A, depths, loops)
  PROVE  Around(a, K, A, depths, loops)
<1>1. \A x : Fit(b, x) => Fit(a, x)
  BY PartFacts
<1>. QED  BY <1>1 DEF Around

\* One more level of points aside that a piece of code may run next to.
LEMMA FitPush ==
  ASSUME NEW P, NEW A \in Seq(Rests), \A d \in 1 .. Len(A) : Fit(P, A[d]),
         NEW x \in Rests, Fit(P, x)
  PROVE  \A d \in 1 .. Len(Append(A, x)) : Fit(P, Append(A, x)[d])
<1>. DEFINE B == Append(A, x)
<1>1. /\ Len(B) = Len(A) + 1 /\ Len(A) \in Nat /\ B[Len(B)] = x
      /\ \A i \in 1 .. Len(A) : B[i] = A[i]
  BY AppendFacts
<1>. HIDE DEF B
<1>2. ASSUME NEW d \in 1 .. Len(B)  PROVE Fit(P, B[d])
  <2>1. CASE d = Len(B)
    BY <1>1, <2>1
  <2>2. CASE d # Len(B)
    <3>1. d \in 1 .. Len(A)
      BY <1>1, <2>2
    <3>. QED  BY <1>1, <3>1
  <2>. QED  BY <2>1, <2>2
<1>. QED  BY <1>2 DEF B

\* A piece of code may stand on one more level.
LEMMA AroundPush ==
  ASSUME NEW P, NEW K, NEW A \in Seq(Rests), NEW x \in Rests, NEW depths \in Depths,
         NEW loops \in Nat, Around(P, K, A, depths, loops), Fit(P, x)
  PROVE  /\ Around(P, K, Append(A, x), Code!Pushed(depths), loops)
         /\ Code!Pushed(depths) \in Depths /\ Append(A, x) \in Seq(Rests)
<1>1. /\ loops <= Len(depths) /\ Ways(K, A, depths, loops) /\ Fit(P, K)
      /\ \A d \in 1 .. Len(A) : Fit(P, A[d])
  BY DEF Around
<1>2. /\ Ways(K, Append(A, x), Code!Pushed(depths), loops)
      /\ loops <= Len(Code!Pushed(depths)) /\ Code!Pushed(depths) \in Depths
  BY <1>1, WaysPush
<1>3. \A d \in 1 .. Len(Append(A, x)) : Fit(P, Append(A, x)[d])
  BY <1>1, FitPush
<1>4. Append(A, x) \in Seq(Rests)
  BY AppendProperties
<1>. QED  BY <1>1, <1>2, <1>3, <1>4 DEF Around

\* A list in front changes nothing in who owes the same for every light or ray.
LEMMA SteadyEntry ==
  ASSUME NEW L \in Seq(Statements), NEW x \in Rests
  PROVE  /\ SteadyL(x) => SteadyL(Entry(L, x))
         /\ SteadyR(x) => SteadyR(Entry(L, x))
<1>. DEFINE E == Entry(L, x)
<1>1. /\ DOMAIN E = {e \in DOMAIN x : Shines(L) => ~e.b}
      /\ \A c \in DOMAIN E : E[c] = L \o x[c]
  BY EntryTyped
<1>2. \A c \in DOMAIN x : c \in Counters
  BY RestFacts
<1>. HIDE DEF E
<1>3. ASSUME SteadyL(x), NEW c \in DOMAIN E, NEW l \in Nat
      PROVE  [c EXCEPT !.l = l] \in DOMAIN E /\ E[[c EXCEPT !.l = l]] = E[c]
  <2>. DEFINE d == [c EXCEPT !.l = l]
  <2>1. c \in DOMAIN x /\ c \in Counters /\ (Shines(L) => ~c.b)
    BY <1>1, <1>2
  <2>2. d.b = c.b
    BY <2>1, CounterFacts
  <2>3. d \in DOMAIN x /\ x[d] = x[c]
    BY <1>3, <2>1 DEF SteadyL
  <2>. HIDE DEF d
  <2>. QED  BY <1>1, <2>1, <2>2, <2>3 DEF d
<1>4. ASSUME SteadyR(x), NEW c \in DOMAIN E, NEW r \in Nat
      PROVE  [c EXCEPT !.r = r] \in DOMAIN E /\ E[[c EXCEPT !.r = r]] = E[c]
  <2>. DEFINE d == [c EXCEPT !.r = r]
  <2>1. c \in DOMAIN x /\ c \in Counters /\ (Shines(L) => ~c.b)
    BY <1>1, <1>2
  <2>2. d.b = c.b
    BY <2>1, CounterFacts
  <2>3. d \in DOMAIN x /\ x[d] = x[c]
    BY <1>4, <2>1 DEF SteadyR
  <2>. HIDE DEF d
  <2>. QED  BY <1>1, <2>1, <2>2, <2>3 DEF d
<1>. QED  BY <1>3, <1>4 DEF SteadyL, SteadyR, E

\* A statement that stands before what is left.
LEMMA StandsFirst ==
  ASSUME NEW s \in Item, NEW x \in Seq(Item)
  PROVE  /\ <<s>> \o x \in Seq(Item) /\ <<s>> \o x # <<>>
         /\ Head(<<s>> \o x) = s /\ Tail(<<s>> \o x) = x
BY FrontFacts

\* One side of a branch or the other.
LEMMA BranchDoes ==
  ASSUME NEW s \in Statements, s.k \in {"do", "if", "pick"}, NEW kinds, s.k \in kinds,
         NEW K \in Rests
  PROVE  /\ Does(Entry(<<s>>, K), Entry(s.body, K), Same, kinds, s.id, TRUE)
         /\ Does(Entry(<<s>>, K), Entry(s.other, K), Same, kinds, s.id, FALSE)
<1>. DEFINE E == Entry(<<s>>, K)
            b == Entry(s.body, K)
            o == Entry(s.other, K)
<1>1. s \in Item /\ s.body \in Seq(Statements) /\ s.other \in Seq(Statements)
  BY StatementsAreItems
<1>2. /\ <<s>> \in Seq(Statements)
      /\ Shines(s.body) => Shines(<<s>>)
      /\ Shines(s.other) => Shines(<<s>>)
  BY OwnFacts
<1>3. /\ DOMAIN E = {e \in DOMAIN K : Shines(<<s>>) => ~e.b}
      /\ \A c \in DOMAIN E : E[c] = <<s>> \o K[c]
  BY <1>2, EntryTyped
<1>4. /\ DOMAIN b = {e \in DOMAIN K : Shines(s.body) => ~e.b}
      /\ \A c \in DOMAIN b : b[c] = s.body \o K[c]
  BY <1>1, EntryTyped
<1>5. /\ DOMAIN o = {e \in DOMAIN K : Shines(s.other) => ~e.b}
      /\ \A c \in DOMAIN o : o[c] = s.other \o K[c]
  BY <1>1, EntryTyped
<1>. HIDE DEF E, b, o
<1>6. ASSUME NEW c \in DOMAIN E
      PROVE  /\ c \in Counters /\ Same[c] = c /\ c \in DOMAIN b /\ c \in DOMAIN o
             /\ LET rest == Settle[E[c]]
                IN  /\ rest # <<>> /\ Head(rest).k \in kinds /\ Head(rest).id = s.id
                    /\ Settle[b[c]] = Advance(rest, TRUE)
                    /\ Settle[o[c]] = Advance(rest, FALSE)
  <2>1. c \in DOMAIN K /\ c \in DOMAIN b /\ c \in DOMAIN o
    BY <1>2, <1>3, <1>4, <1>5
  <2>2. c \in Counters /\ K[c] \in Seq(Item)
    BY <2>1, RestFacts
  <2>3. E[c] = <<s>> \o K[c] /\ b[c] = s.body \o K[c] /\ o[c] = s.other \o K[c]
    BY <1>3, <1>4, <1>5, <2>1
  <2>. DEFINE r == <<s>> \o K[c]
  <2>4. r # <<>> /\ Head(r) = s /\ Tail(r) = K[c]
    BY <1>1, <2>2, StandsFirst
  <2>5. Settle[r] = r
    BY <1>1, <2>2, SettleFront
  <2>. HIDE DEF r
  <2>6. Advance(r, TRUE) = Settle[s.body \o K[c]] /\ Advance(r, FALSE) = Settle[s.other \o K[c]]
    BY <2>4 DEF Advance, Scalar!Advance, Settle
  <2>7. Same[c] = c
    BY <2>2 DEF Same
  <2>. QED  BY <2>1, <2>2, <2>3, <2>4, <2>5, <2>6, <2>7 DEF r
<1>7. Does(E, b, Same, kinds, s.id, TRUE)
  BY <1>6 DEF Does
<1>8. Does(E, o, Same, kinds, s.id, FALSE)
  BY <1>6 DEF Does
<1>. QED  BY <1>7, <1>8 DEF E, b, o

-----------------------------------------------------------------------------
\* A statement without control flow.
LEMMA DoCompiles ==
  ASSUME NEW s \in Statements, s.k = "do"
  PROVE  Compiles(s)
<1>. SUFFICES ASSUME NEW loops \in Nat, NEW K \in Rests, NEW A \in Seq(Rests), NEW depths \in Depths,
                     Legal[<<s, loops>>], Around(<<s>>, K, A, depths, loops)
              PROVE  /\ Code!Visit[<<s, depths>>] \in Seq(Instruction)
                     /\ Passage(Code!Visit[<<s, depths>>], Plain(Entry(<<s>>, K), A), Plain(K, A))
  BY DEF Compiles
<1>. DEFINE E == Entry(<<s>>, K)
            in == [op |-> "do", arg |-> s.id]
            n == Plain(E, A)
            m == Plain(K, A)
<1>1. Code!Visit[<<s, depths>>] = Code!I("do", s.id)
  BY VisitDef DEF Visits
<1>2. "do" \in Ops /\ "do" \notin JumpOps /\ s.id \in Int
  BY StatementsAreItems DEF Ops, JumpOps
<1>3. in \in Instruction /\ Code!I("do", s.id) = <<in>> /\ Code!I("do", s.id) \in Seq(Instruction)
  BY <1>2, InstructionFacts
<1>4. E \in Rests
  <2>1. <<s>> \in Seq(Statements)
    OBVIOUS
  <2>. QED  BY <2>1, EntryTyped
<1>5. n \in Notes /\ m \in Notes
  BY <1>4, PlainTyped
<1>6. Does(E, K, Same, {"do"}, s.id, FALSE)
  <2>1. s.other = <<>>
    BY LegalTop DEF Lawful
  <2>2. Entry(s.other, K) = K
    BY <2>1, EntryNone
  <2>3. Does(E, Entry(s.other, K), Same, {"do"}, s.id, FALSE)
    BY BranchDoes
  <2>. QED  BY <2>2, <2>3
<1>7. Fine(in, n, m, m)
  <2>1. n.run = E /\ n.not = E /\ n.aside = A /\ m.run = K /\ m = Plain(K, A)
    BY DEF Plain, Note
  <2>2. Away(n, s.id)
    BY <2>1, AwayHere DEF Away, Around
  <2>. HIDE DEF n, m, E
  <2>. QED  BY <1>6, <2>1, <2>2 DEF Fine
<1>8. in.op \notin JumpOps
  BY <1>2
<1>. HIDE DEF in, n, m
<1>9. Passage(<<in>>, n, m)
  BY <1>3, <1>5, <1>7, <1>8, PassageOne
<1>. QED  BY <1>1, <1>3, <1>9 DEF n, m

\* break and continue: RS_BREAK with the sum of the levels that were pushed in the
\* loops that are left sends each point to where it goes on.
LEMMA ExitCompiles ==
  ASSUME NEW s \in Statements, s.k \in {"break", "continue"}
  PROVE  Compiles(s)
<1>. SUFFICES ASSUME NEW loops \in Nat, NEW K \in Rests, NEW A \in Seq(Rests), NEW depths \in Depths,
                     Legal[<<s, loops>>], Around(<<s>>, K, A, depths, loops)
              PROVE  /\ Code!Visit[<<s, depths>>] \in Seq(Instruction)
                     /\ Passage(Code!Visit[<<s, depths>>], Plain(Entry(<<s>>, K), A), Plain(K, A))
  BY DEF Compiles
<1>. DEFINE E == Entry(<<s>>, K)
            sum == Code!SumLast(depths, s.n)
            a == sum - (IF s.k = "continue" THEN 1 ELSE 0)
            in == [op |-> "RS_BREAK", arg |-> a]
            n == Plain(E, A)
            m == Plain(K, A)
<1>1. Code!Visit[<<s, depths>>] = Code!I("RS_BREAK", a)
  BY VisitDef DEF Visits, Code!VisitLoopMod
<1>2. s.n \in 1 .. loops
  BY LegalTop
<1>3. /\ sum \in 1 .. Len(A) - 1
      /\ \A c \in DOMAIN K : Way(K, s.n, A[Len(A) - sum], A[Len(A) - sum + 1], c)
  BY <1>2 DEF Around, Ways
<1>4. Len(A) \in Nat
  BY LenProperties
<1>. HIDE DEF sum
<1>5. /\ a \in Int /\ a \in 0 .. Len(A) - 1
      /\ Len(A) - a = IF s.k = "break" THEN Len(A) - sum ELSE Len(A) - sum + 1
  BY <1>3, <1>4
<1>. HIDE DEF a
<1>6. "RS_BREAK" \in Ops /\ "RS_BREAK" \notin JumpOps
  BY DEF Ops, JumpOps
<1>7. in \in Instruction /\ Code!I("RS_BREAK", a) = <<in>> /\ Code!I("RS_BREAK", a) \in Seq(Instruction)
  BY <1>5, <1>6, InstructionFacts
<1>8. /\ E \in Rests /\ DOMAIN E \subseteq DOMAIN K
      /\ \A c \in DOMAIN E : E[c] = <<s>> \o K[c]
  <2>1. <<s>> \in Seq(Statements)
    OBVIOUS
  <2>2. /\ E \in Rests /\ DOMAIN E = {e \in DOMAIN K : Shines(<<s>>) => ~e.b}
        /\ \A c \in DOMAIN E : E[c] = <<s>> \o K[c]
    BY <2>1, EntryTyped
  <2>. HIDE DEF E
  <2>. QED  BY <2>2
<1>9. n \in Notes /\ m \in Notes
  BY <1>8, PlainTyped
<1>. HIDE DEF E
<1>10. Leads(E, A[Len(A) - a])
  <2>1. ASSUME NEW c \in DOMAIN E
        PROVE  c \in DOMAIN A[Len(A) - a] /\ Settle[A[Len(A) - a][c]] = Settle[E[c]]
    <3>. DEFINE left == Leave[<<K[c], s.n>>]
    <3>1. c \in DOMAIN K /\ K[c] \in Seq(Item) /\ s \in Item /\ E[c] = <<s>> \o K[c]
      BY <1>8, RestFacts, StatementsAreItems
    <3>2. Way(K, s.n, A[Len(A) - sum], A[Len(A) - sum + 1], c)
      BY <1>3, <3>1
    <3>3. /\ c \in DOMAIN A[Len(A) - sum]
          /\ Settle[A[Len(A) - sum][c]] = Settle[SubSeq(left, 2, Len(left))]
          /\ c \in DOMAIN A[Len(A) - sum + 1]
          /\ Settle[A[Len(A) - sum + 1][c]] = Settle[left]
      BY <3>2 DEF Way
    <3>4. /\ s.k = "break" => Settle[<<s>> \o K[c]] = Settle[SubSeq(left, 2, Len(left))]
          /\ s.k = "continue" => Settle[<<s>> \o K[c]] = Settle[left]
      BY <3>1, SettleFront
    <3>. HIDE DEF left
    <3>5. CASE s.k = "break"
      <4>1. Len(A) - a = Len(A) - sum
        BY <1>5, <3>5
      <4>. QED  BY <3>1, <3>3, <3>4, <3>5, <4>1
    <3>6. CASE s.k = "continue"
      <4>1. Len(A) - a = Len(A) - sum + 1
        BY <1>5, <3>6
      <4>. QED  BY <3>1, <3>3, <3>4, <3>6, <4>1
    <3>. QED  BY <3>5, <3>6
  <2>. QED  BY <2>1 DEF Leads
<1>11. Fine(in, n, m, m)
  <2>1. n.run = E /\ n.not = E /\ n.aside = A /\ m.run = K /\ m = Plain(K, A)
    BY DEF Plain, Note
  <2>. HIDE DEF n, m
  <2>. QED  BY <1>5, <1>10, <2>1 DEF Fine
<1>12. in.op \notin JumpOps
  BY <1>6
<1>. HIDE DEF in, n, m
<1>13. Passage(<<in>>, n, m)
  BY <1>7, <1>9, <1>11, <1>12, PassageOne
<1>. QED  BY <1>1, <1>7, <1>13 DEF n, m, E

\* The code of its parts does.
PartsCompile(s) ==
  /\ \A i \in 1 .. Len(s.body) : Compiles(s.body[i])
  /\ \A i \in 1 .. Len(s.other) : Compiles(s.other[i])

\* What is behind S_CLEAR, with the current state only said to be anything.
LEMMA ThroughClearing ==
  ASSUME NEW x \in Rests, NEW A \in Seq(Rests)
  PROVE  /\ Passage(Code!I("S_CLEAR", 0), Plain(x, A), Plain(x, A))
         /\ Code!I("S_CLEAR", 0) \in Seq(Instruction)
<1>1. /\ Passage(Code!I("S_CLEAR", 0), Plain(x, A), Note(x, x, A, TRUE))
      /\ Code!I("S_CLEAR", 0) \in Seq(Instruction)
  BY ThroughClear
<1>2. Yields(Note(x, x, A, TRUE), Plain(x, A))
  BY LeadsRefl DEF Yields, Plain, Note
<1>3. Yields(Plain(x, A), Plain(x, A))
  BY YieldsRefl
<1>. QED  BY <1>1, <1>2, <1>3, PassageWeaker

\* A condition and S_GET: the points are divided by what they say.
LEMMA TestPassage ==
  ASSUME NEW s \in Statements, NEW x \in Rests, NEW y \in Rests, NEW z \in Rests, NEW A \in Seq(Rests),
         \A d \in 1 .. Len(A) : Avoids(A[d], {s.id}),
         Does(x, y, Same, {"if", "pick", "while"}, s.id, TRUE),
         Does(x, z, Same, {"if", "pick", "while"}, s.id, FALSE),
         (\E i \in 1 .. Len(s.args) : s.args[i] = "diffuse") =>
            SteadyL(x) /\ \A d \in 1 .. Len(A) : SteadyL(A[d])
  PROVE  LET X == Code!I("S_CLEAR", 0) \o Code!Expression(s.args) \o Code!I("S_GET", s.id)
         IN  X \in Seq(Instruction) /\ Passage(X, Plain(x, A), Note(y, z, A, FALSE))
<1>. DEFINE c1 == Code!I("S_CLEAR", 0)
            c2 == c1 \o Code!Expression(s.args)
            c3 == c2 \o Code!I("S_GET", s.id)
            p == Plain(x, A)
<1>1. c1 \in Seq(Instruction) /\ Passage(c1, p, p)
  BY ThroughClearing
<1>2. c2 \in Seq(Instruction) /\ Passage(c2, p, p)
  <2>1. /\ Passage(Code!Expression(s.args), p, p)
        /\ Code!Expression(s.args) \in Seq(Instruction)
    BY ThroughExpression
  <2>. HIDE DEF c1, p
  <2>. QED  BY <1>1, <2>1, Onward
<1>3. c3 \in Seq(Instruction) /\ Passage(c3, p, Note(y, z, A, FALSE))
  <2>1. s.id \in Int
    BY StatementsAreItems
  <2>2. /\ Passage(Code!I("S_GET", s.id), Note(x, x, A, FALSE), Note(y, z, A, FALSE))
        /\ Code!I("S_GET", s.id) \in Seq(Instruction)
    BY <2>1, ThroughTest
  <2>3. p = Note(x, x, A, FALSE)
    BY DEF Plain
  <2>. HIDE DEF c2, p
  <2>. QED  BY <1>2, <2>2, <2>3, Onward
<1>. QED  BY <1>3

\* The same for a condition that has no conditional expression and no diffuse() in it.
LEMMA BareTestPassage ==
  ASSUME NEW s \in Statements, NEW x \in Rests, NEW y \in Rests, NEW z \in Rests, NEW A \in Seq(Rests),
         \A d \in 1 .. Len(A) : Avoids(A[d], {s.id}),
         Does(x, y, Same, {"if", "pick", "while"}, s.id, TRUE),
         Does(x, z, Same, {"if", "pick", "while"}, s.id, FALSE)
  PROVE  LET X == Code!I("S_CLEAR", 0) \o Code!I("S_GET", s.id)
         IN  X \in Seq(Instruction) /\ Passage(X, Plain(x, A), Note(y, z, A, FALSE))
<1>. DEFINE c1 == Code!I("S_CLEAR", 0)
            p == Plain(x, A)
<1>1. c1 \in Seq(Instruction) /\ Passage(c1, p, p)
  BY ThroughClearing
<1>2. s.id \in Int
  BY StatementsAreItems
<1>3. /\ Passage(Code!I("S_GET", s.id), Note(x, x, A, FALSE), Note(y, z, A, FALSE))
      /\ Code!I("S_GET", s.id) \in Seq(Instruction)
  BY <1>2, ThroughTest
<1>4. p = Note(x, x, A, FALSE)
  BY DEF Plain
<1>. HIDE DEF c1, p
<1>. QED  BY <1>1, <1>3, <1>4, Onward DEF c1, p

\* The two sides of a statement, each in its own surroundings.
LEMMA SidesCompile ==
  ASSUME NEW s \in Statements, s.k \in {"if", "pick", "gather"}, PartsCompile(s),
         NEW loops \in Nat, NEW K \in Rests,
         NEW A \in Seq(Rests), NEW depths \in Depths,
         Legal[<<s, loops>>], Around(s.body, K, A, depths, loops), Around(s.other, K, A, depths, loops)
  PROVE  LET b == Entry(s.body, K)
             o == Entry(s.other, K)
             T == Code!VisitAll(Code!Visit, s.body, Code!Pushed(depths))
             F == Code!VisitAll(Code!Visit, s.other, Code!Pushed(depths))
         IN  /\ b \in Rests /\ o \in Rests
             /\ T \in Seq(Instruction) /\ F \in Seq(Instruction)
             /\ Passage(T, Plain(b, Append(A, o)), Plain(K, Append(A, o)))
             /\ Passage(F, Plain(o, Append(A, K)), Plain(K, Append(A, K)))
<1>. DEFINE b == Entry(s.body, K)
            o == Entry(s.other, K)
            T == Code!VisitAll(Code!Visit, s.body, Code!Pushed(depths))
            F == Code!VisitAll(Code!Visit, s.other, Code!Pushed(depths))
<1>1. s.body \in Seq(Statements) /\ s.other \in Seq(Statements)
  BY StatementsAreItems
<1>2. /\ AllLegal(Legal, s.body, loops) /\ AllLegal(Legal, s.other, loops)
      /\ Apart(s.body, s.other)
  BY LegalTop DEF Lawful
<1>3. b \in Rests /\ o \in Rests
  BY <1>1, EntryTyped
<1>4. Fit(s.body, o)
  <2>1. \A i \in 1 .. Len(s.other) : Legal[<<s.other[i], loops>>]
    <3>1. DOMAIN s.other = 1 .. Len(s.other)
      BY <1>1, LenProperties
    <3>. QED  BY <1>2, <3>1 DEF AllLegal
  <2>. QED  BY <1>1, <1>2, <2>1, FitEntry
<1>. HIDE DEF b, o
<1>5. /\ Around(s.body, K, Append(A, o), Code!Pushed(depths), loops)
      /\ Append(A, o) \in Seq(Rests) /\ Code!Pushed(depths) \in Depths
  BY <1>3, <1>4, AroundPush
<1>6. /\ Around(s.other, K, Append(A, K), Code!Pushed(depths), loops)
      /\ Append(A, K) \in Seq(Rests)
  <2>1. Fit(s.other, K)
    BY DEF Around
  <2>. QED  BY <2>1, AroundPush
<1>7. /\ T \in Seq(Instruction)
      /\ Passage(T, Plain(Entry(s.body, K), Append(A, o)), Plain(K, Append(A, o)))
  BY <1>1, <1>2, <1>5, ListCompiles DEF PartsCompile
<1>8. /\ F \in Seq(Instruction)
      /\ Passage(F, Plain(Entry(s.other, K), Append(A, K)), Plain(K, Append(A, K)))
  BY <1>1, <1>2, <1>5, <1>6, ListCompiles DEF PartsCompile
<1>. HIDE DEF T, F
<1>. QED  BY <1>3, <1>7, <1>8 DEF b, o, T, F

-----------------------------------------------------------------------------
\* if, with an else or without.
LEMMA IfCompiles ==
  ASSUME NEW s \in Statements, s.k = "if", PartsCompile(s)
  PROVE  Compiles(s)
<1>. SUFFICES ASSUME NEW loops \in Nat, NEW K \in Rests, NEW A \in Seq(Rests), NEW depths \in Depths,
                     Legal[<<s, loops>>], Around(<<s>>, K, A, depths, loops)
              PROVE  /\ Code!Visit[<<s, depths>>] \in Seq(Instruction)
                     /\ Passage(Code!Visit[<<s, depths>>], Plain(Entry(<<s>>, K), A), Plain(K, A))
  BY DEF Compiles
<1>. DEFINE E == Entry(<<s>>, K)
            b == Entry(s.body, K)
            o == Entry(s.other, K)
            T == Code!VisitAll(Code!Visit, s.body, Code!Pushed(depths))
            F == Code!VisitAll(Code!Visit, s.other, Code!Pushed(depths))
            X == Code!I("S_CLEAR", 0) \o Code!Expression(s.args) \o Code!I("S_GET", s.id)
            all == X \o Code!I("RS_PUSH", 0) \o Code!I("RS_GET", 0)
                     \o Code!I("RS_JZ", Len(T) + 1) \o T
                     \o (IF F = <<>> THEN <<>>
                         ELSE Code!I("RS_INVERSE", 0) \o Code!I("RS_JZ", Len(F) + 1) \o F)
                     \o Code!I("RS_POP", 0)
<1>1. Code!Visit[<<s, depths>>] = all
  BY VisitDef DEF Visits, Code!VisitConditional
<1>2. <<s>> \in Seq(Statements)
  OBVIOUS
<1>3. E \in Rests
  BY <1>2, EntryTyped
<1>4. Around(s.body, K, A, depths, loops) /\ Around(s.other, K, A, depths, loops)
  BY OwnFacts, AroundPart
<1>5. /\ b \in Rests /\ o \in Rests
      /\ T \in Seq(Instruction) /\ F \in Seq(Instruction)
      /\ Passage(T, Plain(b, Append(A, o)), Plain(K, Append(A, o)))
      /\ Passage(F, Plain(o, Append(A, K)), Plain(K, Append(A, K)))
  BY <1>4, SidesCompile
<1>6. X \in Seq(Instruction) /\ Passage(X, Plain(E, A), Note(b, o, A, FALSE))
  <2>1. /\ Does(E, b, Same, {"if", "pick", "while"}, s.id, TRUE)
        /\ Does(E, o, Same, {"if", "pick", "while"}, s.id, FALSE)
    BY BranchDoes
  <2>2. \A d \in 1 .. Len(A) : Avoids(A[d], {s.id})
    BY AwayHere DEF Around
  <2>3. (\E i \in 1 .. Len(s.args) : s.args[i] = "diffuse") =>
            SteadyL(E) /\ \A d \in 1 .. Len(A) : SteadyL(A[d])
    BY <1>2, OwnFacts, SteadyEntry DEF Around, Fit
  <2>. HIDE DEF E, b, o
  <2>. QED  BY <1>3, <1>5, <2>1, <2>2, <2>3, TestPassage
<1>. HIDE DEF E, b, o, T, F, X
<1>7. all \in Seq(Instruction) /\ Passage(all, Plain(E, A), Plain(K, A))
  BY <1>5, <1>6, Branch
<1>. HIDE DEF all
<1>. QED  BY <1>1, <1>7 DEF E

\* A conditional expression computes both sides, whether or not a point is left.
LEMMA PickCompiles ==
  ASSUME NEW s \in Statements, s.k = "pick", PartsCompile(s)
  PROVE  Compiles(s)
<1>. SUFFICES ASSUME NEW loops \in Nat, NEW K \in Rests, NEW A \in Seq(Rests), NEW depths \in Depths,
                     Legal[<<s, loops>>], Around(<<s>>, K, A, depths, loops)
              PROVE  /\ Code!Visit[<<s, depths>>] \in Seq(Instruction)
                     /\ Passage(Code!Visit[<<s, depths>>], Plain(Entry(<<s>>, K), A), Plain(K, A))
  BY DEF Compiles
<1>. DEFINE E == Entry(<<s>>, K)
            b == Entry(s.body, K)
            o == Entry(s.other, K)
            B == Append(A, o)
            C == Append(A, K)
            T == Code!VisitAll(Code!Visit, s.body, Code!Pushed(depths))
            F == Code!VisitAll(Code!Visit, s.other, Code!Pushed(depths))
            X == Code!I("S_CLEAR", 0) \o Code!I("S_GET", s.id)
            c1 == X \o Code!I("RS_PUSH", 0)
            c2 == c1 \o Code!I("RS_GET", 0)
            c3 == c2 \o T
            c4 == c3 \o Code!I("RS_INVERSE", 0)
            c5 == c4 \o F
            c6 == c5 \o Code!I("RS_POP", 0)
            n == Plain(E, A)
<1>1. Code!Visit[<<s, depths>>] = c6
  BY VisitDef DEF Visits, Code!VisitConditionalExpression
<1>2. <<s>> \in Seq(Statements)
  OBVIOUS
<1>3. E \in Rests
  BY <1>2, EntryTyped
<1>4. Around(s.body, K, A, depths, loops) /\ Around(s.other, K, A, depths, loops)
  BY OwnFacts, AroundPart
<1>5. /\ b \in Rests /\ o \in Rests
      /\ T \in Seq(Instruction) /\ F \in Seq(Instruction)
      /\ Passage(T, Plain(b, B), Plain(K, B))
      /\ Passage(F, Plain(o, C), Plain(K, C))
  BY <1>4, SidesCompile
<1>6. X \in Seq(Instruction) /\ Passage(X, n, Note(b, o, A, FALSE))
  <2>1. /\ Does(E, b, Same, {"if", "pick", "while"}, s.id, TRUE)
        /\ Does(E, o, Same, {"if", "pick", "while"}, s.id, FALSE)
    BY BranchDoes
  <2>2. \A d \in 1 .. Len(A) : Avoids(A[d], {s.id})
    BY AwayHere DEF Around
  <2>. HIDE DEF E, b, o
  <2>. QED  BY <1>3, <1>5, <2>1, <2>2, BareTestPassage
<1>. HIDE DEF E, b, o, T, F, X, n
<1>7. c1 \in Seq(Instruction) /\ Passage(c1, n, Note(b, o, B, FALSE))
  BY <1>5, <1>6, ThroughPush, Onward
<1>8. c2 \in Seq(Instruction) /\ Passage(c2, n, Plain(b, B))
  <2>. HIDE DEF c1
  <2>. QED  BY <1>5, <1>7, ThroughGet, Onward
<1>9. c3 \in Seq(Instruction) /\ Passage(c3, n, Plain(K, B))
  <2>. HIDE DEF c2
  <2>. QED  BY <1>5, <1>8, Onward
<1>10. c4 \in Seq(Instruction) /\ Passage(c4, n, Plain(o, C))
  <2>. HIDE DEF c3
  <2>. QED  BY <1>5, <1>9, ThroughInverse, Onward
<1>11. c5 \in Seq(Instruction) /\ Passage(c5, n, Plain(K, C))
  <2>. HIDE DEF c4
  <2>. QED  BY <1>5, <1>10, Onward
<1>12. c6 \in Seq(Instruction) /\ Passage(c6, n, Plain(K, A))
  <2>. HIDE DEF c5
  <2>. QED  BY <1>11, ThroughPop, Onward
<1>. HIDE DEF c6
<1>. QED  BY <1>1, <1>12 DEF n, E

\* A loop that is left at its test.
LEMMA LoopPassage ==
  ASSUME NEW c \in Seq(Instruction), NEW d \in Seq(Instruction), NEW x \in Rests,
         NEW y \in Rests, NEW z \in Rests, NEW A \in Seq(Rests),
         Passage(c, Plain(x, A), Note(y, z, A, FALSE)),
         Passage(d, Note(y, z, A, FALSE), Plain(x, A)),
         NEW back \in Int, back = -(Len(c) + Len(d) + 1)
  PROVE  LET all == c \o Code!I("S_JZ", Len(d) + 2) \o d \o Code!I("jmp", back)
         IN  all \in Seq(Instruction) /\ Passage(all, Plain(x, A), Plain(z, A))
<1>. DEFINE a == Len(d) + 2
            jz == [op |-> "S_JZ", arg |-> a]
            jmp == [op |-> "jmp", arg |-> back]
            n == Plain(x, A)
            m == Note(y, z, A, FALSE)
            o == Plain(z, A)
            c1 == Code!I("S_JZ", a)
            c2 == Code!I("jmp", back)
<1>1. a \in Int
  <2>1. Len(d) \in Nat
    BY LenProperties
  <2>. QED  BY <2>1
<1>2. "S_JZ" \in Ops /\ "jmp" \in Ops
  BY DEF Ops, JumpOps
<1>3. /\ jz \in Instruction /\ c1 = <<jz>> /\ c1 \in Seq(Instruction)
      /\ jmp \in Instruction /\ c2 = <<jmp>> /\ c2 \in Seq(Instruction)
  BY <1>1, <1>2, InstructionFacts
<1>4. n \in Notes /\ m \in Notes /\ o \in Notes
  BY PlainTyped
<1>5. /\ jz.op = "S_JZ" /\ jz.arg = Len(d) + 2
      /\ jmp.op = "jmp" /\ jmp.arg = -(Len(c) + Len(d) + 1)
  OBVIOUS
<1>6. Fine(jz, m, m, o)
  <2>1. m.run = y /\ m.not = z /\ m.aside = A /\ o = Plain(z, A) /\ m = Note(y, z, A, FALSE)
    BY DEF Plain, Note
  <2>. HIDE DEF m, o
  <2>. QED  BY <1>5, <2>1 DEF Fine
<1>7. Fine(jmp, n, n, n)
  <2>1. n.run = x /\ n.not = x /\ n.aside = A /\ n = Plain(x, A)
    BY DEF Plain, Note
  <2>. HIDE DEF n
  <2>. QED  BY <1>5, <2>1 DEF Fine
<1>8. Passage(c, n, m) /\ Passage(d, m, n) /\ Yields(o, o)
  BY YieldsRefl
<1>. HIDE DEF jz, jmp, n, m, o
<1>9. Passage(c \o <<jz>> \o d \o <<jmp>>, n, o)
  BY <1>3, <1>4, <1>5, <1>6, <1>7, <1>8, PassageLoop
<1>. HIDE DEF c1, c2
<1>10. c \o c1 \o d \o c2 \in Seq(Instruction)
  BY <1>3, ConcatProperties
<1>. QED  BY <1>3, <1>9, <1>10 DEF c1, c2, n, o

\* A statement under another kind.
LEMMA AsFacts ==
  ASSUME NEW s \in Item, NEW k \in Scalar!Kinds \cup {"again"}
  PROVE  /\ As(k, s) \in Item /\ As(k, s).k = k /\ As(k, s).id = s.id
         /\ As(k, s).body = s.body /\ As(k, s).other = s.other
         /\ As(s.k, As(k, s)) = s
<1>1. s.k \in Scalar!Kinds \cup {"again"}
  BY DEF Item, Scalar!Item
<1>. QED  BY <1>1 DEF As, Scalar!As, Item, Scalar!Item

\* The points in a loop.
LEMMA LoopRests ==
  ASSUME NEW s \in Statements, s.k = "while", NEW loops \in Nat, Legal[<<s, loops>>], NEW K \in Rests
  PROVE  LET sK == Entry(<<s>>, K)
             aK == Front(s, "again", K)
             bK == Entry(s.body, aK)
             oK == Entry(s.other, sK)
         IN  /\ sK \in Rests /\ aK \in Rests /\ bK \in Rests /\ oK \in Rests
             /\ DOMAIN sK = DOMAIN K /\ DOMAIN aK = DOMAIN K
             /\ DOMAIN bK = DOMAIN K /\ DOMAIN oK = DOMAIN K
             /\ \A c \in DOMAIN K : /\ sK[c] = <<s>> \o K[c]
                                    /\ aK[c] = <<As("again", s)>> \o K[c]
                                    /\ bK[c] = s.body \o (<<As("again", s)>> \o K[c])
                                    /\ oK[c] = s.other \o (<<s>> \o K[c])
<1>. DEFINE sK == Entry(<<s>>, K)
            aK == Front(s, "again", K)
            bK == Entry(s.body, aK)
            oK == Entry(s.other, sK)
<1>1. s \in Item /\ s.body \in Seq(Statements) /\ s.other \in Seq(Statements) /\ <<s>> \in Seq(Statements)
  BY StatementsAreItems
<1>2. ~Shines(s.body) /\ ~Shines(s.other) /\ ~Shines(<<s>>)
  <2>1. ~Shines(s.body) /\ ~Shines(s.other)
    BY LegalTop DEF Lawful
  <2>. QED  BY <2>1, OwnFacts
<1>3. /\ sK \in Rests /\ DOMAIN sK = {e \in DOMAIN K : Shines(<<s>>) => ~e.b}
      /\ \A c \in DOMAIN sK : sK[c] = <<s>> \o K[c]
  BY <1>1, EntryTyped
<1>4. aK \in Rests
  <2>1. 0 \in Int /\ "again" \in Scalar!Kinds \cup {"again"}
    OBVIOUS
  <2>. QED  BY <1>1, <2>1, FrontTyped
<1>5. DOMAIN aK = DOMAIN K /\ \A c \in DOMAIN K : aK[c] = <<As("again", s)>> \o K[c]
  BY DEF Front
<1>. HIDE DEF sK, aK
<1>6. /\ bK \in Rests /\ DOMAIN bK = {e \in DOMAIN aK : Shines(s.body) => ~e.b}
      /\ \A c \in DOMAIN bK : bK[c] = s.body \o aK[c]
  BY <1>1, <1>4, EntryTyped
<1>7. /\ oK \in Rests /\ DOMAIN oK = {e \in DOMAIN sK : Shines(s.other) => ~e.b}
      /\ \A c \in DOMAIN oK : oK[c] = s.other \o sK[c]
  BY <1>1, <1>3, EntryTyped
<1>. HIDE DEF bK, oK
<1>8. /\ DOMAIN sK = DOMAIN K /\ DOMAIN aK = DOMAIN K
      /\ DOMAIN bK = DOMAIN K /\ DOMAIN oK = DOMAIN K
  BY <1>2, <1>3, <1>5, <1>6, <1>7
<1>9. \A c \in DOMAIN K : /\ sK[c] = <<s>> \o K[c]
                          /\ aK[c] = <<As("again", s)>> \o K[c]
                          /\ bK[c] = s.body \o (<<As("again", s)>> \o K[c])
                          /\ oK[c] = s.other \o (<<s>> \o K[c])
  BY <1>3, <1>5, <1>6, <1>7, <1>8
<1>. QED  BY <1>3, <1>4, <1>6, <1>7, <1>8, <1>9 DEF sK, aK, bK, oK

\* The test of a loop, and the way back to it over the increment.
LEMMA LoopDoes ==
  ASSUME NEW s \in Statements, s.k = "while", NEW loops \in Nat, Legal[<<s, loops>>], NEW K \in Rests
  PROVE  LET sK == Entry(<<s>>, K)
             aK == Front(s, "again", K)
         IN  /\ Does(sK, Entry(s.body, aK), Same, {"if", "pick", "while"}, s.id, TRUE)
             /\ Does(sK, K, Same, {"if", "pick", "while"}, s.id, FALSE)
             /\ Leads(aK, Entry(s.other, sK))
             /\ \A c \in DOMAIN K : /\ Settle[sK[c]] = <<s>> \o K[c]
                                    /\ Settle[aK[c]] = s.other \o (<<s>> \o K[c])
<1>. DEFINE sK == Entry(<<s>>, K)
            aK == Front(s, "again", K)
            bK == Entry(s.body, aK)
            oK == Entry(s.other, sK)
            t == As("again", s)
<1>1. /\ sK \in Rests /\ aK \in Rests /\ bK \in Rests /\ oK \in Rests
      /\ DOMAIN sK = DOMAIN K /\ DOMAIN aK = DOMAIN K
      /\ DOMAIN bK = DOMAIN K /\ DOMAIN oK = DOMAIN K
      /\ \A c \in DOMAIN K : /\ sK[c] = <<s>> \o K[c]
                             /\ aK[c] = <<t>> \o K[c]
                             /\ bK[c] = s.body \o (<<t>> \o K[c])
                             /\ oK[c] = s.other \o (<<s>> \o K[c])
  BY LoopRests
<1>2. /\ s \in Item /\ s.body \in Seq(Item) /\ s.other \in Seq(Item)
      /\ s.body \in Seq(Statements) /\ s.other \in Seq(Statements)
  BY StatementsAreItems, ListsAreItems
<1>3. t \in Item /\ t.k = "again" /\ t.other = s.other /\ As("while", t) = s
  <2>1. "again" \in Scalar!Kinds \cup {"again"}
    OBVIOUS
  <2>. QED  BY <1>2, <2>1, AsFacts
<1>. HIDE DEF sK, aK, bK, oK, t
<1>4. ASSUME NEW c \in DOMAIN K
      PROVE  /\ c \in Counters /\ Same[c] = c /\ K[c] \in Seq(Item)
             /\ Settle[sK[c]] = <<s>> \o K[c]
             /\ Settle[aK[c]] = s.other \o (<<s>> \o K[c])
             /\ Settle[oK[c]] = s.other \o (<<s>> \o K[c])
             /\ LET rest == Settle[sK[c]]
                IN  /\ rest # <<>> /\ Head(rest).k = "while" /\ Head(rest).id = s.id
                    /\ Settle[bK[c]] = Advance(rest, TRUE)
                    /\ Settle[K[c]] = Advance(rest, FALSE)
  <2>. DEFINE x == K[c]
              r == <<s>> \o x
  <2>1. c \in Counters /\ x \in Seq(Item)
    BY RestFacts
  <2>2. sK[c] = r /\ aK[c] = <<t>> \o x /\ bK[c] = s.body \o (<<t>> \o x) /\ oK[c] = s.other \o r
    BY <1>1
  <2>. HIDE DEF x
  <2>3. r \in Seq(Item) /\ r # <<>> /\ Head(r) = s /\ Tail(r) = x
    BY <1>2, <2>1, StandsFirst
  <2>4. Settle[r] = r
    BY <1>2, <2>1, SettleFront
  <2>5. Settle[<<t>> \o x] = s.other \o r
    <3>1. Settle[<<t>> \o x] = t.other \o <<As("while", t)>> \o x
      BY <1>3, <2>1, SettleFront
    <3>2. s.other \o <<s>> \o x = s.other \o (<<s>> \o x)
      <4>. DEFINE one == <<s>>
                  w == s.other
      <4>1. one \in Seq(Item) /\ w \in Seq(Item)
        BY <1>2
      <4>. HIDE DEF one, w
      <4>2. (w \o one) \o x = w \o (one \o x)
        BY <2>1, <4>1, ItemsAssociate
      <4>. QED  BY <4>2 DEF one, w
    <3>. QED  BY <1>3, <3>1, <3>2
  <2>. HIDE DEF r
  <2>6. Settle[s.other \o r] = s.other \o r
    <3>1. CASE s.other = <<>>
      <4>1. s.other \o r = r
        BY <2>3, <3>1, ConcatEmptySeq
      <4>. QED  BY <2>4, <4>1
    <3>2. CASE s.other # <<>>
      <4>. DEFINE h == Head(s.other)
                  T == Tail(s.other)
      <4>1. h \in Statements /\ T \in Seq(Statements) /\ s.other = <<h>> \o T /\ h = s.other[1]
            /\ 1 \in 1 .. Len(s.other)
        BY <1>2, <3>2, ConsFacts
      <4>2. h.k \in {"do", "pick"}
        <5>1. \A u \in Within(s.other) : u.k \in {"do", "pick"}
          BY LegalTop DEF Lawful
        <5>2. h \in Within(s.other)
          BY <1>2, <4>1, WithinFacts
        <5>. QED  BY <5>1, <5>2
      <4>. HIDE DEF h, T
      <4>3. (<<h>> \o T) \o r = <<h>> \o (T \o r) /\ T \o r \in Seq(Item) /\ h \in Item
        BY <2>3, <4>1, ConsOver
      <4>4. Settle[<<h>> \o (T \o r)] = <<h>> \o (T \o r)
        BY <4>2, <4>3, SettleFront
      <4>. QED  BY <4>1, <4>3, <4>4
    <3>. QED  BY <3>1, <3>2
  <2>7. /\ Advance(r, TRUE) = Settle[s.body \o <<t>> \o x]
        /\ Advance(r, FALSE) = Settle[<<>> \o x]
    BY <2>3 DEF Advance, Scalar!Advance, Settle, t, As
  <2>8. s.body \o <<t>> \o x = s.body \o (<<t>> \o x)
    <3>. DEFINE one == <<t>>
                w == s.body
    <3>1. one \in Seq(Item) /\ w \in Seq(Item)
      BY <1>2, <1>3
    <3>. HIDE DEF one, w
    <3>2. (w \o one) \o x = w \o (one \o x)
      BY <2>1, <3>1, ItemsAssociate
    <3>. QED  BY <3>2 DEF one, w
  <2>9. <<>> \o x = x
    BY <2>1, ConcatEmptySeq
  <2>10. Same[c] = c
    BY <2>1 DEF Same
  <2>11. Settle[sK[c]] = r /\ Settle[aK[c]] = s.other \o r /\ Settle[oK[c]] = s.other \o r
    BY <2>2, <2>4, <2>5, <2>6
  <2>12. Settle[bK[c]] = Advance(r, TRUE) /\ Settle[x] = Advance(r, FALSE)
    BY <2>2, <2>7, <2>8, <2>9
  <2>. QED  BY <2>1, <2>3, <2>10, <2>11, <2>12 DEF x, r
<1>d. DOMAIN sK = DOMAIN K /\ DOMAIN bK = DOMAIN K /\ "while" \in {"if", "pick", "while"}
  BY <1>1
<1>5. Does(sK, bK, Same, {"if", "pick", "while"}, s.id, TRUE)
  BY <1>d, <1>4 DEF Does
<1>6. Does(sK, K, Same, {"if", "pick", "while"}, s.id, FALSE)
  BY <1>d, <1>4 DEF Does
<1>7. Leads(aK, oK)
  <2>1. DOMAIN aK = DOMAIN K /\ DOMAIN oK = DOMAIN K
    BY <1>1
  <2>2. \A c \in DOMAIN K : Settle[oK[c]] = Settle[aK[c]]
    BY <1>4
  <2>. QED  BY <2>1, <2>2 DEF Leads
<1>. QED  BY <1>4, <1>5, <1>6, <1>7 DEF sK, aK, bK, oK

\* A loop in front changes nothing in who owes the same for every light or ray.
LEMMA SteadyFront ==
  ASSUME NEW s, NEW k, NEW x
  PROVE  /\ SteadyL(x) => SteadyL(Front(s, k, x))
         /\ SteadyR(x) => SteadyR(Front(s, k, x))
BY DEF SteadyL, SteadyR, Front

\* Nothing outside the body and the increment is taken for what is in them.
LEMMA LoopFits ==
  ASSUME NEW s \in Statements, s.k = "while", NEW loops \in Nat, Legal[<<s, loops>>],
         NEW K \in Rests, Fit(<<s>>, K)
  PROVE  Fit(s.body, Front(s, "again", K)) /\ Fit(s.other, Entry(<<s>>, K))
<1>. DEFINE sK == Entry(<<s>>, K)
            aK == Front(s, "again", K)
<1>1. /\ s \in Item /\ s.body \in Seq(Statements) /\ s.other \in Seq(Statements)
      /\ <<s>> \in Seq(Statements) /\ s.other \in Seq(Item)
  BY StatementsAreItems, ListsAreItems
<1>2. /\ ~Shines(s.body) /\ ~Shines(s.other) /\ Ids(s.body) \cap Ids(s.other) = {}
      /\ s.id \notin Ids(s.body) \cup Ids(s.other)
      /\ \A t \in Within(s.other) : t.k \in {"do", "pick"}
  BY LegalTop DEF Lawful, Apart, Scalar!Apart, Ids
<1>3. /\ DOMAIN sK = DOMAIN K /\ DOMAIN aK = DOMAIN K
      /\ \A c \in DOMAIN K : /\ Settle[sK[c]] = <<s>> \o K[c]
                             /\ Settle[aK[c]] = s.other \o (<<s>> \o K[c])
  BY LoopRests, LoopDoes
<1>4. /\ UsesLights(s.body) => SteadyL(K)
      /\ UsesRays(s.body) => SteadyR(K)
      /\ UsesLights(s.other) => SteadyL(K)
      /\ UsesRays(s.other) => SteadyR(K)
  <2>1. /\ UsesLights(s.body) => UsesLights(<<s>>)
        /\ UsesRays(s.body) => UsesRays(<<s>>)
        /\ UsesLights(s.other) => UsesLights(<<s>>)
        /\ UsesRays(s.other) => UsesRays(<<s>>)
    BY OwnFacts, PartFacts
  <2>. QED  BY <2>1 DEF Fit
<1>5. /\ SteadyL(K) => SteadyL(sK) /\ SteadyL(aK)
      /\ SteadyR(K) => SteadyR(sK) /\ SteadyR(aK)
  BY <1>1, SteadyEntry, SteadyFront
<1>. HIDE DEF sK, aK
<1>6. ASSUME NEW c \in DOMAIN K
      PROVE  /\ Settle[sK[c]] # <<>> /\ Head(Settle[sK[c]]) = s
             /\ Settle[aK[c]] # <<>> => Head(Settle[aK[c]]).id \notin Ids(s.body)
  <2>. DEFINE x == K[c]
              r == <<s>> \o x
  <2>1. x \in Seq(Item)
    BY RestFacts
  <2>2. Settle[sK[c]] = r /\ Settle[aK[c]] = s.other \o r
    BY <1>3
  <2>. HIDE DEF x
  <2>3. r \in Seq(Item) /\ r # <<>> /\ Head(r) = s
    BY <1>1, <2>1, StandsFirst
  <2>. HIDE DEF r
  <2>4. Head(s.other \o r).id \notin Ids(s.body)
    <3>1. CASE s.other = <<>>
      <4>1. s.other \o r = r
        BY <2>3, <3>1, ConcatEmptySeq
      <4>. QED  BY <1>2, <2>3, <4>1
    <3>2. CASE s.other # <<>>
      <4>. DEFINE h == Head(s.other)
                  T == Tail(s.other)
      <4>1. h \in Statements /\ T \in Seq(Statements) /\ s.other = <<h>> \o T /\ h = s.other[1]
            /\ 1 \in 1 .. Len(s.other)
        BY <1>1, <3>2, ConsFacts
      <4>2. h \in Within(s.other)
        BY <1>1, <4>1, WithinFacts
      <4>3. h.id \in Ids(s.other)
        BY <1>2, <4>2 DEF Ids, Scalar!Ids, Within
      <4>. HIDE DEF h, T
      <4>4. (<<h>> \o T) \o r = <<h>> \o (T \o r) /\ T \o r \in Seq(Item) /\ h \in Item
        BY <2>3, <4>1, ConsOver
      <4>5. Head(<<h>> \o (T \o r)) = h
        BY <4>4, StandsFirst
      <4>. QED  BY <1>2, <4>1, <4>3, <4>4, <4>5
    <3>. QED  BY <3>1, <3>2
  <2>. QED  BY <2>2, <2>3, <2>4
<1>7. Fit(s.body, aK)
  BY <1>2, <1>3, <1>4, <1>5, <1>6 DEF Fit, Avoids
<1>8. Fit(s.other, sK)
  BY <1>2, <1>3, <1>4, <1>5, <1>6 DEF Fit, Avoids
<1>. QED  BY <1>7, <1>8 DEF sK, aK

\* How pieces of code may be grouped.
Associate(a, b, c) == (a \o b) \o c = a \o (b \o c)
Bracket(a, b, c, d, e) == a \o b \o c \o d \o e = a \o (b \o c \o d \o e)

\* Pieces of code may be put together in any order of grouping.
LEMMA CodeAssociates ==
  \A a, b, c \in Seq(Instruction) : Associate(a, b, c) /\ a \o b \in Seq(Instruction)
<1>. SUFFICES ASSUME NEW a \in Seq(Instruction), NEW b \in Seq(Instruction), NEW c \in Seq(Instruction)
              PROVE  Associate(a, b, c) /\ a \o b \in Seq(Instruction)
  OBVIOUS
<1>1. a \o b \in Seq(Instruction)
  BY ConcatProperties
<1>. QED  BY <1>1, ConcatAssociative, SMTT(30) DEF Associate

\* The same for five pieces, as the code of a loop has them.
LEMMA Regroup ==
  ASSUME NEW a \in Seq(Instruction), NEW b \in Seq(Instruction), NEW c \in Seq(Instruction),
         NEW d \in Seq(Instruction), NEW e \in Seq(Instruction)
  PROVE  Bracket(a, b, c, d, e)
<1>1. Associate(a, b, c) /\ b \o c \in Seq(Instruction)
  BY CodeAssociates
<1>2. Associate(a, b \o c, d) /\ b \o c \o d \in Seq(Instruction)
  BY <1>1, CodeAssociates
<1>3. Associate(a, b \o c \o d, e)
  BY <1>2, CodeAssociates
<1>. QED  BY <1>1, <1>2, <1>3 DEF Associate, Bracket

\* while: the points that say no wait on the level of the loop, those that continue
\* on that of its body.
LEMMA WhileCompiles ==
  ASSUME NEW s \in Statements, s.k = "while", PartsCompile(s)
  PROVE  Compiles(s)
<1>. SUFFICES ASSUME NEW loops \in Nat, NEW K \in Rests, NEW A \in Seq(Rests), NEW depths \in Depths,
                     Legal[<<s, loops>>], Around(<<s>>, K, A, depths, loops)
              PROVE  /\ Code!Visit[<<s, depths>>] \in Seq(Instruction)
                     /\ Passage(Code!Visit[<<s, depths>>], Plain(Entry(<<s>>, K), A), Plain(K, A))
  BY DEF Compiles
<1>. DEFINE sK == Entry(<<s>>, K)
            aK == Front(s, "again", K)
            bK == Entry(s.body, aK)
            oK == Entry(s.other, sK)
            A1 == Append(A, K)
            A2 == Append(A1, aK)
            inner == Append(Code!Pushed(depths), 0)
            P == Code!I("RS_PUSH", 0)
            Q == Code!I("RS_POP", 0)
            cond == Code!I("S_CLEAR", 0) \o Code!Expression(s.args) \o Code!I("S_GET", s.id)
            T == Code!VisitAll(Code!Visit, s.body, Code!Pushed(inner))
            F == Code!VisitAll(Code!Visit, s.other, inner)
            body == Code!I("RS_GET", 0) \o P \o T \o Q \o F
            jz == Code!I("S_JZ", Len(body) + 2)
            jmp == Code!I("jmp", -(Len(cond) + Len(body) + 1))
            all == P \o cond \o jz \o body \o jmp \o Q
            loop == cond \o jz \o body \o jmp
<1>1. Code!Visit[<<s, depths>>] = all
  BY VisitDef DEF Visits, Code!VisitWhileConstruct
<1>2. /\ sK \in Rests /\ aK \in Rests /\ bK \in Rests /\ oK \in Rests
  BY LoopRests
<1>3. /\ s.body \in Seq(Statements) /\ s.other \in Seq(Statements) /\ <<s>> \in Seq(Statements)
      /\ DOMAIN s.other = 1 .. Len(s.other)
  <2>1. s.body \in Seq(Statements) /\ s.other \in Seq(Statements)
    BY StatementsAreItems
  <2>. QED  BY <2>1, LenProperties
<1>4. /\ AllLegal(Legal, s.body, loops + 1) /\ AllLegal(Legal, s.other, 0)
  BY LegalTop DEF Lawful
<1>5. /\ loops <= Len(depths) /\ Fit(<<s>>, K) /\ Ways(K, A, depths, loops)
      /\ \A d \in 1 .. Len(A) : Fit(<<s>>, A[d])
  BY DEF Around
<1>6. A1 \in Seq(Rests) /\ A2 \in Seq(Rests) /\ \A d \in 1 .. Len(A1) : Fit(<<s>>, A1[d])
  BY <1>2, <1>5, FitPush, AppendProperties
<1>7. \A x : Fit(<<s>>, x) => Fit(s.body, x) /\ Fit(s.other, x)
  BY OwnFacts, PartFacts
<1>8. Fit(s.body, aK) /\ Fit(s.other, sK)
  BY <1>5, LoopFits
<1>9. /\ Ways(aK, A2, Code!Pushed(inner), loops + 1)
      /\ loops + 1 <= Len(Code!Pushed(inner)) /\ inner \in Depths
      /\ Code!Pushed(inner) \in Depths
  BY <1>5, WaysLoop
<1>10. Does(sK, bK, Same, {"if", "pick", "while"}, s.id, TRUE)
       /\ Does(sK, K, Same, {"if", "pick", "while"}, s.id, FALSE)
       /\ Leads(aK, oK)
  BY LoopDoes
<1>11. (\E i \in 1 .. Len(s.args) : s.args[i] = "diffuse") =>
            SteadyL(sK) /\ \A d \in 1 .. Len(A1) : SteadyL(A1[d])
  <2>. HIDE DEF A1
  <2>. QED  BY <1>3, <1>5, <1>6, OwnFacts, SteadyEntry DEF Fit
<1>12. \A d \in 1 .. Len(A1) : Avoids(A1[d], {s.id})
  <2>. HIDE DEF A1
  <2>. QED  BY <1>6, AwayHere
<1>. HIDE DEF inner
<1>13. /\ T \in Seq(Instruction) /\ Passage(T, Plain(bK, A2), Plain(aK, A2))
  <2>. HIDE DEF aK, A1
  <2>1. \A d \in 1 .. Len(A2) : Fit(s.body, A2[d])
    BY <1>2, <1>6, <1>7, <1>8, FitPush
  <2>. HIDE DEF A2
  <2>2. Around(s.body, aK, A2, Code!Pushed(inner), loops + 1) /\ loops + 1 \in Nat
    BY <1>8, <1>9, <2>1 DEF Around
  <2>. QED  BY <1>2, <1>3, <1>4, <1>6, <1>9, <2>2, ListCompiles DEF PartsCompile
<1>14. /\ F \in Seq(Instruction) /\ Passage(F, Plain(oK, A1), Plain(sK, A1))
  <2>. HIDE DEF sK, A1
  <2>1. Around(s.other, sK, A1, inner, 0)
    <3>1. 0 <= Len(inner)
      BY <1>9, LenProperties DEF Depths
    <3>2. Ways(sK, A1, inner, 0)
      BY DEF Ways
    <3>. QED  BY <1>6, <1>7, <1>8, <3>1, <3>2 DEF Around
  <2>. QED  BY <1>2, <1>3, <1>4, <1>6, <1>9, <2>1, ListCompiles DEF PartsCompile
<1>. HIDE DEF sK, aK, bK, oK, T, F
<1>15. /\ cond \in Seq(Instruction) /\ Passage(cond, Plain(sK, A1), Note(bK, K, A1, FALSE))
  <2>. HIDE DEF A1
  <2>. QED  BY <1>2, <1>6, <1>10, <1>11, <1>12, TestPassage
<1>. HIDE DEF cond
<1>16. /\ body \in Seq(Instruction) /\ Passage(body, Note(bK, K, A1, FALSE), Plain(sK, A1))
  <2>. DEFINE n == Note(bK, K, A1, FALSE)
              c1 == Code!I("RS_GET", 0)
              c2 == c1 \o P
              c3 == c2 \o T
              c4 == c3 \o Q
              c5 == c4 \o F
  <2>1. c1 \in Seq(Instruction) /\ Passage(c1, n, Plain(bK, A1))
    BY <1>2, ThroughGet
  <2>. HIDE DEF n, c1
  <2>2. c2 \in Seq(Instruction) /\ Passage(c2, n, Plain(bK, A2))
    <3>1. P \in Seq(Instruction) /\ Passage(P, Note(bK, bK, A1, FALSE), Note(bK, bK, Append(A1, aK), FALSE))
      <4>. HIDE DEF A1
      <4>. QED  BY <1>2, <1>6, ThroughPush
    <3>2. Plain(bK, A1) = Note(bK, bK, A1, FALSE) /\ Plain(bK, A2) = Note(bK, bK, A2, FALSE)
      BY DEF Plain
    <3>. HIDE DEF P, A1
    <3>. QED  BY <2>1, <3>1, <3>2, Onward
  <2>. HIDE DEF c2
  <2>3. c3 \in Seq(Instruction) /\ Passage(c3, n, Plain(aK, A2))
    <3>. HIDE DEF A2
    <3>. QED  BY <1>13, <2>2, Onward
  <2>. HIDE DEF c3
  <2>4. c4 \in Seq(Instruction) /\ Passage(c4, n, Plain(aK, A1))
    <3>1. Q \in Seq(Instruction) /\ Passage(Q, Plain(aK, A2), Plain(aK, A1))
      <4>. HIDE DEF A1
      <4>. QED  BY <1>2, <1>6, ThroughPop
    <3>. HIDE DEF Q, A2, A1
    <3>. QED  BY <2>3, <3>1, Onward
  <2>. HIDE DEF c4, A2, A1
  <2>5. Yields(Plain(aK, A1), Plain(oK, A1))
    BY <1>10, LeadsRefl DEF Yields, Plain, Note
  <2>6. Passage(c4, n, Plain(oK, A1))
    <3>1. Yields(n, n)
      BY YieldsRefl
    <3>. QED  BY <2>4, <2>5, <3>1, PassageWeaker
  <2>7. c5 \in Seq(Instruction) /\ Passage(c5, n, Plain(sK, A1))
    BY <1>14, <2>4, <2>6, Onward
  <2>. QED  BY <2>7 DEF c5, c4, c3, c2, c1, n
<1>. HIDE DEF body
<1>17. loop \in Seq(Instruction) /\ Passage(loop, Plain(sK, A1), Plain(K, A1))
  <2>1. -(Len(cond) + Len(body) + 1) \in Int
    <3>1. Len(cond) \in Nat /\ Len(body) \in Nat
      BY <1>15, <1>16, LenProperties
    <3>. QED  BY <3>1
  <2>. HIDE DEF A1
  <2>. QED  BY <1>2, <1>6, <1>15, <1>16, <2>1, LoopPassage
<1>18. /\ jz \in Seq(Instruction) /\ jmp \in Seq(Instruction)
       /\ P \in Seq(Instruction) /\ Q \in Seq(Instruction)
  <2>1. Len(cond) \in Nat /\ Len(body) \in Nat
    BY <1>15, <1>16, LenProperties
  <2>2. Len(body) + 2 \in Int /\ -(Len(cond) + Len(body) + 1) \in Int /\ 0 \in Int
    BY <2>1
  <2>3. "S_JZ" \in Ops /\ "jmp" \in Ops /\ "RS_PUSH" \in Ops /\ "RS_POP" \in Ops
    BY DEF Ops, JumpOps
  <2>. QED  BY <2>2, <2>3, InstructionFacts
<1>. HIDE DEF jz, jmp
<1>19. all = (P \o loop) \o Q
  <2>. HIDE DEF P, Q
  <2>1. /\ P \in Seq(Instruction) /\ cond \in Seq(Instruction) /\ jz \in Seq(Instruction)
        /\ body \in Seq(Instruction) /\ jmp \in Seq(Instruction)
    BY <1>15, <1>16, <1>18
  <2>2. Bracket(P, cond, jz, body, jmp)
    BY <2>1, Regroup
  <2>. QED  BY <2>2 DEF Bracket
<1>20. P \o loop \in Seq(Instruction) /\ Passage(P \o loop, Plain(sK, A), Plain(K, A1))
  <2>1. Passage(P, Note(sK, sK, A, FALSE), Note(sK, sK, A1, FALSE))
    BY <1>2, ThroughPush
  <2>2. Plain(sK, A1) = Note(sK, sK, A1, FALSE) /\ Plain(sK, A) = Note(sK, sK, A, FALSE)
    BY DEF Plain
  <2>. HIDE DEF P, A1, loop
  <2>. QED  BY <1>17, <1>18, <2>1, <2>2, Onward
<1>21. Passage(Q, Plain(K, A1), Plain(K, A))
  BY ThroughPop
<1>. HIDE DEF P, Q, loop, A1, all
<1>22. (P \o loop) \o Q \in Seq(Instruction) /\ Passage((P \o loop) \o Q, Plain(sK, A), Plain(K, A))
  BY <1>18, <1>20, <1>21, Onward
<1>. QED  BY <1>1, <1>19, <1>22 DEF sK

-----------------------------------------------------------------------------
(* illuminate and solar. *)

\* illuminate and solar: done once, and nothing when m_Illuminate is set already.
LEMMA ThroughLight ==
  ASSUME NEW op \in {"illuminate", "solar"}, NEW id \in Int, NEW x \in Rests, NEW y \in Rests,
         NEW z \in Rests, NEW A \in Seq(Rests),
         \A d \in 1 .. Len(A) : Avoids(A[d], {id}) /\ SteadyB(A[d]),
         Does(x, y, Light, {op}, id, TRUE), Does(x, z, Light, {op}, id, FALSE),
         \A c \in DOMAIN x : c.b => c \in DOMAIN z /\ Settle[z[c]] = Settle[x[c]]
  PROVE  /\ Passage(Code!I(op, id), Note(x, x, A, TRUE), Note(y, z, A, FALSE))
         /\ Code!I(op, id) \in Seq(Instruction)
<1>. DEFINE in == [op |-> op, arg |-> id]
            n == Note(x, x, A, TRUE)
            m == Note(y, z, A, FALSE)
<1>1. op \in Ops /\ op \notin JumpOps
  BY DEF Ops, JumpOps
<1>2. in \in Instruction /\ Code!I(op, id) = <<in>> /\ Code!I(op, id) \in Seq(Instruction)
  BY <1>1, InstructionFacts
<1>3. n \in Notes /\ m \in Notes
  BY PlainTyped
<1>4. Waits(A, Light)
  <2>1. ASSUME NEW d \in 1 .. Len(A)  PROVE Goes(A[d], A[d], Light)
    <3>1. A[d] \in Rests /\ SteadyB(A[d])
      BY ElementOfSeq
    <3>2. DOMAIN A[d] \subseteq Counters
      BY <3>1, RestFacts
    <3>. QED  BY <3>1, <3>2 DEF Goes, SteadyB, Light
  <2>. QED  BY <2>1 DEF Waits
<1>5. Fine(in, n, m, m)
  <2>1. /\ n.run = x /\ n.not = x /\ n.aside = A /\ n.clear = TRUE /\ m.run = y /\ m.not = z
        /\ m = Note(y, z, A, FALSE)
    BY DEF Note
  <2>2. Away(n, id)
    BY <2>1 DEF Away
  <2>3. in.op = op /\ in.arg = id
    OBVIOUS
  <2>. HIDE DEF n, m, in
  <2>4. CASE op = "illuminate"
    BY <1>4, <2>1, <2>2, <2>3, <2>4 DEF Fine
  <2>5. CASE op = "solar"
    BY <1>4, <2>1, <2>2, <2>3, <2>5 DEF Fine
  <2>. QED  BY <2>4, <2>5
<1>6. in.op \notin JumpOps
  BY <1>1
<1>. HIDE DEF in, n, m
<1>7. Passage(<<in>>, n, m)
  BY <1>2, <1>3, <1>5, <1>6, PassageOne
<1>. QED  BY <1>2, <1>7 DEF n, m

\* The points in the light and those that the light passes by.
LEMMA LightRests ==
  ASSUME NEW s \in Statements, s.k \in {"illuminate", "solar"}, NEW loops \in Nat,
         Legal[<<s, loops>>], NEW K \in Rests, SteadyB(K)
  PROVE  LET x == Once(s, K)
             z == LitOnly(K)
             y == Entry(s.body, z)
         IN  /\ x \in Rests /\ y \in Rests /\ z \in Rests
             /\ Leads(Entry(<<s>>, K), x) /\ Leads(z, x) /\ Leads(z, K)
             /\ Does(x, y, Light, {s.k}, s.id, TRUE) /\ Does(x, z, Light, {s.k}, s.id, FALSE)
             /\ \A c \in DOMAIN x : c.b => c \in DOMAIN z /\ Settle[z[c]] = Settle[x[c]]
<1>. DEFINE x == Once(s, K)
            z == LitOnly(K)
            y == Entry(s.body, z)
            E == Entry(<<s>>, K)
<1>1. /\ s \in Item /\ s.body \in Seq(Statements) /\ s.other \in Seq(Statements)
      /\ <<s>> \in Seq(Statements)
  BY StatementsAreItems
<1>2. ~Shines(s.body) /\ s.other = <<>> /\ Shines(<<s>>)
  <2>1. ~Shines(s.body) /\ s.other = <<>>
    BY LegalTop DEF Lawful
  <2>. QED  BY <2>1, OwnFacts
<1>3. x \in Rests /\ z \in Rests
  <2>1. 0 \in Int /\ "again" \in Scalar!Kinds \cup {"again"}
    OBVIOUS
  <2>. QED  BY <1>1, <2>1, FrontTyped
<1>4. /\ DOMAIN x = DOMAIN K
      /\ \A c \in DOMAIN K : x[c] = IF c.b THEN K[c] ELSE <<s>> \o K[c]
  BY DEF Once
<1>5. /\ DOMAIN z = {e \in DOMAIN K : e.b} /\ \A c \in DOMAIN z : z[c] = K[c]
  BY DEF LitOnly
<1>. HIDE DEF x, z
<1>6. /\ y \in Rests /\ DOMAIN y = {e \in DOMAIN z : Shines(s.body) => ~e.b}
      /\ \A c \in DOMAIN y : y[c] = s.body \o z[c]
  BY <1>1, <1>3, EntryTyped
<1>7. /\ DOMAIN E = {e \in DOMAIN K : Shines(<<s>>) => ~e.b}
      /\ \A c \in DOMAIN E : E[c] = <<s>> \o K[c]
  BY <1>1, EntryTyped
<1>. HIDE DEF y, E
<1>8. Leads(E, x)
  BY <1>2, <1>4, <1>7 DEF Leads
<1>9. Leads(z, x) /\ Leads(z, K)
  BY <1>4, <1>5 DEF Leads
<1>10. \A c \in DOMAIN x : c.b => c \in DOMAIN z /\ Settle[z[c]] = Settle[x[c]]
  BY <1>4, <1>5
<1>11. ASSUME NEW c \in DOMAIN x, c \in DOMAIN Light
       PROVE  LET rest == Settle[x[c]]
              IN  /\ rest # <<>> /\ Head(rest).k \in {s.k} /\ Head(rest).id = s.id
                  /\ Light[c] \in DOMAIN y /\ Settle[y[Light[c]]] = Advance(rest, TRUE)
                  /\ Light[c] \in DOMAIN z /\ Settle[z[Light[c]]] = Advance(rest, FALSE)
  <2>. DEFINE k == K[c]
              r == <<s>> \o k
              d == [c EXCEPT !.b = TRUE]
  <2>1. c \in DOMAIN K /\ c \in Counters /\ k \in Seq(Item) /\ ~c.b
    <3>1. c \in DOMAIN K /\ c \in Counters /\ k \in Seq(Item)
      BY <1>4, RestFacts
    <3>2. ~c.b
      BY <1>11 DEF Light
    <3>. QED  BY <3>1, <3>2
  <2>2. Light[c] = d
    BY <2>1 DEF Light
  <2>3. d \in DOMAIN K /\ K[d] = k /\ d.b = TRUE
    BY <2>1, CounterFacts DEF SteadyB
  <2>4. x[c] = r
    BY <1>4, <2>1
  <2>. HIDE DEF d, k
  <2>5. /\ d \in DOMAIN z /\ z[d] = k /\ d \in DOMAIN y /\ y[d] = s.body \o k
    BY <1>2, <1>5, <1>6, <2>3
  <2>6. r # <<>> /\ Head(r) = s /\ Tail(r) = k /\ Settle[r] = r
    BY <1>1, <2>1, StandsFirst, SettleFront
  <2>. HIDE DEF r
  <2>7. Advance(r, TRUE) = Settle[s.body \o k] /\ Advance(r, FALSE) = Settle[s.other \o k]
    BY <2>6 DEF Advance, Scalar!Advance, Settle
  <2>8. s.other \o k = k
    BY <1>2, <2>1, ConcatEmptySeq
  <2>. QED  BY <2>2, <2>4, <2>5, <2>6, <2>7, <2>8
<1>12. Does(x, y, Light, {s.k}, s.id, TRUE)
  BY <1>11 DEF Does
<1>13. Does(x, z, Light, {s.k}, s.id, FALSE)
  BY <1>11 DEF Does
<1>. QED  BY <1>3, <1>6, <1>8, <1>9, <1>10, <1>12, <1>13 DEF x, y, z, E

\* illuminate and solar with their body: the second test leaves the loop.
LEMMA ShineCompiles ==
  ASSUME NEW s \in Statements, s.k \in {"illuminate", "solar"}, PartsCompile(s)
  PROVE  Compiles(s)
<1>. SUFFICES ASSUME NEW loops \in Nat, NEW K \in Rests, NEW A \in Seq(Rests), NEW depths \in Depths,
                     Legal[<<s, loops>>], Around(<<s>>, K, A, depths, loops)
              PROVE  /\ Code!Visit[<<s, depths>>] \in Seq(Instruction)
                     /\ Passage(Code!Visit[<<s, depths>>], Plain(Entry(<<s>>, K), A), Plain(K, A))
  BY DEF Compiles
<1>. DEFINE E == Entry(<<s>>, K)
            x == Once(s, K)
            z == LitOnly(K)
            y == Entry(s.body, z)
            T == Code!VisitAll(Code!Visit, s.body, Code!Pushed(depths))
            body == Code!I("RS_PUSH", 0) \o Code!I("RS_GET", 0) \o T \o Code!I("RS_POP", 0)
            c1 == Code!I("S_CLEAR", 0)
            c2 == Code!I(s.k, s.id)
            cond == c1 \o c2
            all == cond \o Code!I("S_JZ", Len(body) + 2) \o body \o Code!I("jmp", -(Len(body) + 3))
<1>1. Code!Visit[<<s, depths>>] = all
  BY VisitDef DEF Visits, Code!VisitSolarConstruct, Code!VisitIlluminateConstruct
<1>2. /\ Fit(<<s>>, K) /\ SteadyB(K) /\ loops <= Len(depths) /\ Ways(K, A, depths, loops)
      /\ \A d \in 1 .. Len(A) : Fit(<<s>>, A[d]) /\ SteadyB(A[d])
  BY OwnFacts DEF Around, Fit
<1>3. /\ x \in Rests /\ y \in Rests /\ z \in Rests
      /\ Leads(E, x) /\ Leads(z, x) /\ Leads(z, K)
      /\ Does(x, y, Light, {s.k}, s.id, TRUE) /\ Does(x, z, Light, {s.k}, s.id, FALSE)
      /\ \A c \in DOMAIN x : c.b => c \in DOMAIN z /\ Settle[z[c]] = Settle[x[c]]
  BY <1>2, LightRests
<1>4. s.id \in Int /\ s.body \in Seq(Statements) /\ AllLegal(Legal, s.body, loops) /\ ~Shines(s.body)
  BY StatementsAreItems, LegalTop DEF Lawful
<1>5. DOMAIN z = {e \in DOMAIN K : e.b} /\ \A c \in DOMAIN z : z[c] = K[c]
  BY DEF LitOnly
<1>6. Around(s.body, z, A, depths, loops)
  <2>1. Around(s.body, K, A, depths, loops)
    BY OwnFacts, AroundPart
  <2>2. Ways(z, A, depths, loops)
    <3>. HIDE DEF z
    <3>. QED  BY <1>2, <1>5, WaysSame
  <2>3. Fit(s.body, z)
    <3>1. Fit(s.body, K)
      BY <2>1 DEF Around
    <3>2. Avoids(z, Ids(s.body))
      <4>. HIDE DEF z
      <4>. QED  BY <1>5, <3>1 DEF Fit, Avoids
    <3>3. \A c \in DOMAIN K : c \in Counters
      BY RestFacts
    <3>4. SteadyL(K) => SteadyL(z)
      <4>1. ASSUME SteadyL(K), NEW c \in DOMAIN z, NEW l \in Nat
            PROVE  [c EXCEPT !.l = l] \in DOMAIN z /\ z[[c EXCEPT !.l = l]] = z[c]
        <5>1. c \in DOMAIN K /\ c.b /\ z[c] = K[c] /\ [c EXCEPT !.l = l].b = c.b
          BY <1>5, <3>3, CounterFacts
        <5>2. [c EXCEPT !.l = l] \in DOMAIN K /\ K[[c EXCEPT !.l = l]] = K[c]
          BY <4>1, <5>1 DEF SteadyL
        <5>. HIDE DEF z
        <5>. QED  BY <1>5, <5>1, <5>2
      <4>. QED  BY <4>1 DEF SteadyL
    <3>5. SteadyR(K) => SteadyR(z)
      <4>1. ASSUME SteadyR(K), NEW c \in DOMAIN z, NEW r \in Nat
            PROVE  [c EXCEPT !.r = r] \in DOMAIN z /\ z[[c EXCEPT !.r = r]] = z[c]
        <5>1. c \in DOMAIN K /\ c.b /\ z[c] = K[c] /\ [c EXCEPT !.r = r].b = c.b
          BY <1>5, <3>3, CounterFacts
        <5>2. [c EXCEPT !.r = r] \in DOMAIN K /\ K[[c EXCEPT !.r = r]] = K[c]
          BY <4>1, <5>1 DEF SteadyR
        <5>. HIDE DEF z
        <5>. QED  BY <1>5, <5>1, <5>2
      <4>. QED  BY <4>1 DEF SteadyR
    <3>. HIDE DEF z
    <3>. QED  BY <1>4, <3>1, <3>2, <3>4, <3>5 DEF Fit
  <2>. QED  BY <1>2, <2>1, <2>2, <2>3 DEF Around
<1>. HIDE DEF E, x, z
<1>7. /\ T \in Seq(Instruction)
      /\ Passage(T, Plain(y, Append(A, z)), Plain(z, Append(A, z)))
  <2>1. Fit(s.body, z)
    BY <1>6 DEF Around
  <2>2. /\ Around(s.body, z, Append(A, z), Code!Pushed(depths), loops)
        /\ Code!Pushed(depths) \in Depths /\ Append(A, z) \in Seq(Rests)
    BY <1>3, <1>6, <2>1, AroundPush
  <2>. QED  BY <1>3, <1>4, <2>2, ListCompiles DEF PartsCompile
<1>. HIDE DEF T, y
<1>8. body \in Seq(Instruction) /\ Passage(body, Note(y, z, A, FALSE), Plain(z, A))
  BY <1>3, <1>7, Masked
<1>9. /\ c1 \in Seq(Instruction) /\ Passage(c1, Plain(x, A), Note(x, x, A, TRUE))
      /\ c2 \in Seq(Instruction) /\ Passage(c2, Note(x, x, A, TRUE), Note(y, z, A, FALSE))
  <2>1. /\ c1 \in Seq(Instruction) /\ Passage(c1, Plain(x, A), Note(x, x, A, TRUE))
    BY <1>3, ThroughClear
  <2>2. \A d \in 1 .. Len(A) : Avoids(A[d], {s.id}) /\ SteadyB(A[d])
    BY <1>2, AwayHere
  <2>3. /\ c2 \in Seq(Instruction) /\ Passage(c2, Note(x, x, A, TRUE), Note(y, z, A, FALSE))
    BY <1>3, <1>4, <2>2, ThroughLight
  <2>. QED  BY <2>1, <2>3
<1>10. Len(c1) = 1 /\ Len(c2) = 1
  <2>1. "S_CLEAR" \in Ops /\ s.k \in Ops /\ 0 \in Int
    BY DEF Ops, JumpOps
  <2>2. c1 = <<[op |-> "S_CLEAR", arg |-> 0]>> /\ c2 = <<[op |-> s.k, arg |-> s.id]>>
    BY <1>4, <2>1, InstructionFacts
  <2>. HIDE DEF c1, c2
  <2>. QED  BY <2>2
<1>. HIDE DEF c1, c2, body
<1>11. cond \in Seq(Instruction) /\ Passage(cond, Plain(x, A), Note(y, z, A, FALSE)) /\ Len(cond) = 2
  <2>1. cond \in Seq(Instruction) /\ Passage(cond, Plain(x, A), Note(y, z, A, FALSE))
    BY <1>9, Onward
  <2>2. Len(cond) = 1 + 1
    <3>1. c1 \in Seq(Instruction) /\ c2 \in Seq(Instruction)
      BY <1>9
    <3>2. Len(c1 \o c2) = Len(c1) + Len(c2)
      BY <3>1, ConcatProperties
    <3>. QED  BY <1>10, <3>2
  <2>3. Len(cond) = 2
    <3>. HIDE DEF cond
    <3>. QED  BY <2>2
  <2>. QED  BY <2>1, <2>3
<1>. HIDE DEF cond
<1>12. Passage(body, Note(y, z, A, FALSE), Plain(x, A))
  <2>1. Yields(Plain(z, A), Plain(x, A))
    BY <1>3, LeadsRefl DEF Yields, Plain, Note
  <2>2. Yields(Note(y, z, A, FALSE), Note(y, z, A, FALSE))
    BY YieldsRefl
  <2>. QED  BY <1>8, <2>1, <2>2, PassageWeaker
<1>13. all \in Seq(Instruction) /\ Passage(all, Plain(x, A), Plain(z, A))
  <2>. DEFINE back == -(Len(body) + 3)
  <2>1. Len(body) \in Nat
    BY <1>8, LenProperties
  <2>2. back \in Int /\ back = -(Len(cond) + Len(body) + 1)
    BY <1>11, <2>1
  <2>. HIDE DEF back
  <2>3. LET it == cond \o Code!I("S_JZ", Len(body) + 2) \o body \o Code!I("jmp", back)
        IN  it \in Seq(Instruction) /\ Passage(it, Plain(x, A), Plain(z, A))
    BY <1>3, <1>8, <1>11, <1>12, <2>2, LoopPassage
  <2>. QED  BY <2>3 DEF back
<1>. HIDE DEF all
<1>14. Yields(Plain(E, A), Plain(x, A)) /\ Yields(Plain(z, A), Plain(K, A))
  BY <1>3, LeadsRefl DEF Yields, Plain, Note
<1>15. Passage(all, Plain(E, A), Plain(K, A))
  BY <1>13, <1>14, PassageWeaker
<1>. QED  BY <1>1, <1>13, <1>15 DEF E

-----------------------------------------------------------------------------
(* illuminance. *)

\* A jump over a piece of code from in front of it.
LEMMA OverPassage ==
  ASSUME NEW op \in JumpOps, op # "jmp", NEW c \in Seq(Instruction), NEW a, a = Len(c) + 1,
         NEW n \in Notes, NEW m \in Notes, NEW o \in Notes,
         Fine([op |-> op, arg |-> a], n, m, o), Passage(c, m, o)
  PROVE  Code!I(op, a) \in Seq(Instruction) /\ Passage(Code!I(op, a) \o c, n, o)
<1>. DEFINE in == [op |-> op, arg |-> a]
<1>1. a \in Int
  <2>1. Len(c) \in Nat
    BY LenProperties
  <2>. QED  BY <2>1
<1>2. op \in Ops
  BY DEF Ops, JumpOps
<1>3. in \in Instruction /\ Code!I(op, a) = <<in>> /\ Code!I(op, a) \in Seq(Instruction)
  BY <1>1, <1>2, InstructionFacts
<1>4. in.op \in JumpOps /\ in.op # "jmp" /\ in.arg = Len(c) + 1 /\ Fine(in, n, m, o)
  OBVIOUS
<1>. HIDE DEF in
<1>5. Passage(<<in>> \o c, n, o)
  BY <1>3, <1>4, PassageOver, YieldsRefl
<1>. QED  BY <1>3, <1>5

\* A jump back to the front of a piece of code.
LEMMA BackPassage ==
  ASSUME NEW op \in JumpOps, op # "jmp", NEW c \in Seq(Instruction), NEW a, a = -Len(c),
         NEW n \in Notes, NEW m \in Notes, NEW o \in Notes,
         Passage(c, n, m), Fine([op |-> op, arg |-> a], m, o, n)
  PROVE  c \o Code!I(op, a) \in Seq(Instruction) /\ Passage(c \o Code!I(op, a), n, o)
<1>. DEFINE in == [op |-> op, arg |-> a]
<1>1. a \in Int
  <2>1. Len(c) \in Nat
    BY LenProperties
  <2>. QED  BY <2>1
<1>2. op \in Ops
  BY DEF Ops, JumpOps
<1>. DEFINE j == Code!I(op, a)
<1>3. in \in Instruction /\ j = <<in>> /\ j \in Seq(Instruction)
  BY <1>1, <1>2, InstructionFacts
<1>4. in.op \in JumpOps /\ in.op # "jmp" /\ in.arg = -Len(c) /\ Fine(in, m, o, n)
  OBVIOUS
<1>. HIDE DEF in
<1>5. Passage(c \o <<in>>, n, o)
  BY <1>3, <1>4, PassageBack, YieldsRefl
<1>. HIDE DEF j
<1>6. c \o j \in Seq(Instruction)
  BY <1>3, ConcatProperties
<1>. QED  BY <1>3, <1>5, <1>6 DEF j

\* A statement with another count.
LEMMA CountedFacts ==
  ASSUME NEW s \in Item, NEW i \in Int, NEW j \in Int
  PROVE  /\ [s EXCEPT !.n = i] \in Item /\ [s EXCEPT !.n = i].n = i
         /\ [s EXCEPT !.n = i].k = s.k /\ [s EXCEPT !.n = i].id = s.id
         /\ [s EXCEPT !.n = i].body = s.body /\ [s EXCEPT !.n = i].other = s.other
         /\ [[s EXCEPT !.n = i] EXCEPT !.n = j] = [s EXCEPT !.n = j]
         /\ [s EXCEPT !.n = s.n] = s
BY DEF Item, Scalar!Item

\* The points in a loop over the lights.
LEMMA LampRests ==
  ASSUME NEW s \in Statements, s.k = "illuminance", NEW loops \in Nat, Legal[<<s, loops>>],
         NEW K \in Rests
  PROVE  LET x == LightAt(s, 0, K)
             z == LightAt(s, 1, K)
             y == Entry(s.body, z)
         IN  /\ x \in Rests /\ y \in Rests /\ z \in Rests
             /\ DOMAIN x = {e \in DOMAIN K : e.l < Lights} /\ DOMAIN z = DOMAIN x /\ DOMAIN y = DOMAIN x
             /\ \A c \in DOMAIN x : /\ x[c] = <<[s EXCEPT !.n = c.l]>> \o K[c]
                                    /\ z[c] = <<[s EXCEPT !.n = c.l + 1]>> \o K[c]
                                    /\ y[c] = s.body \o z[c]
             /\ DOMAIN Entry(<<s>>, K) = DOMAIN K
             /\ \A c \in DOMAIN K : Entry(<<s>>, K)[c] = <<s>> \o K[c]
<1>. DEFINE x == LightAt(s, 0, K)
            z == LightAt(s, 1, K)
            y == Entry(s.body, z)
            E == Entry(<<s>>, K)
<1>1. s \in Item /\ s.body \in Seq(Statements) /\ <<s>> \in Seq(Statements)
  BY StatementsAreItems
<1>2. ~Shines(s.body) /\ ~Shines(<<s>>)
  <2>1. ~Shines(s.body) /\ ~Shines(s.other)
    BY LegalTop DEF Lawful
  <2>. QED  BY <2>1, OwnFacts
<1>3. x \in Rests /\ z \in Rests
  <2>1. 0 \in Int /\ 1 \in Int /\ "again" \in Scalar!Kinds \cup {"again"}
    OBVIOUS
  <2>. QED  BY <1>1, <2>1, FrontTyped
<1>4. \A c \in DOMAIN K : c.l + 0 = c.l
  <2>1. ASSUME NEW c \in DOMAIN K  PROVE c.l + 0 = c.l
    <3>1. c.l \in Nat
      BY RestFacts, CounterFacts
    <3>. QED  BY <3>1
  <2>. QED  BY <2>1
<1>5. /\ DOMAIN x = {e \in DOMAIN K : e.l < Lights}
      /\ \A c \in DOMAIN x : x[c] = <<[s EXCEPT !.n = c.l + 0]>> \o K[c]
  BY DEF LightAt
<1>6. /\ DOMAIN z = {e \in DOMAIN K : e.l < Lights}
      /\ \A c \in DOMAIN z : z[c] = <<[s EXCEPT !.n = c.l + 1]>> \o K[c]
  BY DEF LightAt
<1>. HIDE DEF x, z
<1>7. /\ y \in Rests /\ DOMAIN y = {e \in DOMAIN z : Shines(s.body) => ~e.b}
      /\ \A c \in DOMAIN y : y[c] = s.body \o z[c]
  BY <1>1, <1>3, EntryTyped
<1>8. /\ DOMAIN E = {e \in DOMAIN K : Shines(<<s>>) => ~e.b}
      /\ \A c \in DOMAIN E : E[c] = <<s>> \o K[c]
  BY <1>1, EntryTyped
<1>. HIDE DEF y, E
<1>9. DOMAIN z = DOMAIN x /\ DOMAIN y = DOMAIN x /\ DOMAIN E = DOMAIN K
  BY <1>2, <1>5, <1>6, <1>7, <1>8
<1>10. \A c \in DOMAIN x : x[c] = <<[s EXCEPT !.n = c.l]>> \o K[c]
  <2>1. ASSUME NEW c \in DOMAIN x  PROVE x[c] = <<[s EXCEPT !.n = c.l]>> \o K[c]
    <3>1. c.l + 0 = c.l
      BY <1>4, <1>5
    <3>. QED  BY <1>5, <3>1
  <2>. QED  BY <2>1
<1>. QED  BY <1>3, <1>5, <1>6, <1>7, <1>8, <1>9, <1>10 DEF x, y, z, E

\* How the points go through it.
LEMMA LampDoes ==
  ASSUME NEW s \in Statements, s.k = "illuminance", NEW loops \in Nat, Legal[<<s, loops>>],
         NEW K \in Rests, SteadyL(K)
  PROVE  LET x == LightAt(s, 0, K)
             z == LightAt(s, 1, K)
             y == Entry(s.body, z)
         IN  /\ IF Lights > 0 THEN Goes(Entry(<<s>>, K), x, Lamp(0))
                              ELSE Goes(Entry(<<s>>, K), K, Lamp(0))
             /\ Does(x, y, Same, {"illuminance"}, s.id, TRUE)
             /\ Does(x, z, Same, {"illuminance"}, s.id, FALSE)
             /\ Goes(z, x, NextLamp) /\ Goes(z, K, LastLamp)
             /\ \A c \in DOMAIN z : Settle[z[c]] = IF c.l + 1 = Lights THEN Settle[K[c]]
                                                   ELSE <<[s EXCEPT !.n = c.l + 1]>> \o K[c]
<1>. DEFINE x == LightAt(s, 0, K)
            z == LightAt(s, 1, K)
            y == Entry(s.body, z)
            E == Entry(<<s>>, K)
<1>1. /\ x \in Rests /\ y \in Rests /\ z \in Rests
      /\ DOMAIN x = {e \in DOMAIN K : e.l < Lights} /\ DOMAIN z = DOMAIN x /\ DOMAIN y = DOMAIN x
      /\ \A c \in DOMAIN x : /\ x[c] = <<[s EXCEPT !.n = c.l]>> \o K[c]
                             /\ z[c] = <<[s EXCEPT !.n = c.l + 1]>> \o K[c]
                             /\ y[c] = s.body \o z[c]
      /\ DOMAIN E = DOMAIN K /\ \A c \in DOMAIN K : E[c] = <<s>> \o K[c]
  BY LampRests
<1>2. s \in Item /\ s.n = 0 /\ s.k = "illuminance" /\ s.body \in Seq(Item)
  BY StatementsAreItems, ListsAreItems, LegalTop DEF Lawful
<1>3. Lights \in Nat
  BY LightsNat
<1>. HIDE DEF x, y, z, E
<1>4. ASSUME NEW c \in DOMAIN K
      PROVE  /\ c \in Counters /\ K[c] \in Seq(Item) /\ c.l \in Nat
             /\ \A l \in Nat : /\ [c EXCEPT !.l = l] \in DOMAIN K /\ K[[c EXCEPT !.l = l]] = K[c]
                               /\ [c EXCEPT !.l = l].l = l
             /\ \A i \in Int :
                  Settle[<<[s EXCEPT !.n = i]>> \o K[c]] =
                    IF i = Lights THEN Settle[K[c]] ELSE <<[s EXCEPT !.n = i]>> \o K[c]
  <2>1. c \in Counters /\ K[c] \in Seq(Item) /\ c.l \in Nat
    BY RestFacts, CounterFacts
  <2>2. ASSUME NEW i \in Int
        PROVE  Settle[<<[s EXCEPT !.n = i]>> \o K[c]] =
                 IF i = Lights THEN Settle[K[c]] ELSE <<[s EXCEPT !.n = i]>> \o K[c]
    <3>. DEFINE t == [s EXCEPT !.n = i]
    <3>1. t \in Item /\ t.n = i /\ t.k = "illuminance"
      BY <1>2, CountedFacts
    <3>. HIDE DEF t
    <3>2. Settle[<<t>> \o K[c]] = IF t.n = Lights THEN Settle[K[c]] ELSE <<t>> \o K[c]
      BY <2>1, <3>1, SettleFront
    <3>. QED  BY <3>1, <3>2 DEF t
  <2>3. ASSUME NEW l \in Nat
        PROVE  /\ [c EXCEPT !.l = l] \in DOMAIN K /\ K[[c EXCEPT !.l = l]] = K[c]
               /\ [c EXCEPT !.l = l].l = l
    BY <2>1, CounterFacts DEF SteadyL
  <2>. QED  BY <2>1, <2>2, <2>3
<1>5. ASSUME NEW c \in DOMAIN K, Lights > 0
      PROVE  [c EXCEPT !.l = 0] \in DOMAIN x /\ Settle[x[[c EXCEPT !.l = 0]]] = Settle[E[c]]
  <2>. DEFINE d == [c EXCEPT !.l = 0]
  <2>1. d \in DOMAIN K /\ K[d] = K[c] /\ d.l = 0
    BY <1>4
  <2>. HIDE DEF d
  <2>2. d \in DOMAIN x /\ x[d] = <<[s EXCEPT !.n = 0]>> \o K[c]
    BY <1>1, <1>5, <2>1
  <2>3. [s EXCEPT !.n = 0] = s
    <3>1. 0 \in Int /\ s \in Item /\ s.n = 0
      BY <1>2
    <3>2. [s EXCEPT !.n = s.n] = s
      BY <3>1, CountedFacts
    <3>. QED  BY <3>1, <3>2
  <2>. QED  BY <1>1, <2>2, <2>3 DEF d
<1>6. ASSUME NEW c \in DOMAIN K, ~(Lights > 0)
      PROVE  [c EXCEPT !.l = 0] \in DOMAIN K /\ Settle[K[[c EXCEPT !.l = 0]]] = Settle[E[c]]
  <2>. DEFINE d == [c EXCEPT !.l = 0]
  <2>1. d \in DOMAIN K /\ K[d] = K[c]
    BY <1>4
  <2>. HIDE DEF d
  <2>2. Lights = 0
    BY <1>3, <1>6
  <2>3. Settle[<<s>> \o K[c]] = Settle[K[c]]
    <3>1. K[c] \in Seq(Item)
      BY <1>4
    <3>2. Settle[<<s>> \o K[c]] = IF s.n = Lights THEN Settle[K[c]] ELSE <<s>> \o K[c]
      BY <1>2, <3>1, SettleFront
    <3>. QED  BY <1>2, <2>2, <3>2
  <2>. QED  BY <1>1, <2>1, <2>3 DEF d
<1>7. ASSUME NEW c \in DOMAIN x
      PROVE  /\ c \in DOMAIN K /\ c \in Counters /\ Same[c] = c
             /\ LET rest == Settle[x[c]]
                IN  /\ rest # <<>> /\ Head(rest).k = "illuminance" /\ Head(rest).id = s.id
                    /\ Settle[y[c]] = Advance(rest, TRUE)
                    /\ Settle[z[c]] = Advance(rest, FALSE)
  <2>1. c \in DOMAIN K /\ c.l < Lights
    BY <1>1
  <2>. DEFINE k == K[c]
              t == [s EXCEPT !.n = c.l]
              u == [s EXCEPT !.n = c.l + 1]
              r == <<t>> \o k
  <2>2. /\ c \in Counters /\ k \in Seq(Item) /\ c.l \in Nat /\ c.l \in Int /\ c.l + 1 \in Int
        /\ c.l # Lights
    BY <1>3, <1>4, <2>1
  <2>3. /\ t \in Item /\ t.n = c.l /\ t.k = "illuminance" /\ t.id = s.id /\ t.body = s.body
        /\ u \in Item
    BY <1>2, <2>2, CountedFacts
  <2>4. [t EXCEPT !.n = @ + 1] = u
    <3>1. [t EXCEPT !.n = t.n + 1] = [s EXCEPT !.n = c.l + 1]
      BY <1>2, <2>2, <2>3, CountedFacts
    <3>. QED  BY <3>1
  <2>5. x[c] = r /\ z[c] = <<u>> \o k /\ y[c] = s.body \o (<<u>> \o k)
    BY <1>1
  <2>6. Settle[<<t>> \o k] = <<t>> \o k
    <3>1. \A i \in Int : Settle[<<[s EXCEPT !.n = i]>> \o K[c]] =
                           IF i = Lights THEN Settle[K[c]] ELSE <<[s EXCEPT !.n = i]>> \o K[c]
      BY <1>4, <2>1
    <3>. QED  BY <2>2, <3>1
  <2>. HIDE DEF k, t, u
  <2>7. r # <<>> /\ Head(r) = t /\ Tail(r) = k
    BY <2>2, <2>3, StandsFirst
  <2>. HIDE DEF r
  <2>8. /\ Advance(r, TRUE) = Settle[s.body \o <<u>> \o k]
        /\ Advance(r, FALSE) = Settle[<<>> \o <<u>> \o k]
    BY <2>3, <2>4, <2>7 DEF Advance, Scalar!Advance, Settle
  <2>9. s.body \o <<u>> \o k = s.body \o (<<u>> \o k)
    <3>. DEFINE one == <<u>>
                w == s.body
    <3>1. one \in Seq(Item) /\ w \in Seq(Item)
      BY <1>2, <2>3
    <3>. HIDE DEF one, w
    <3>2. (w \o one) \o k = w \o (one \o k)
      BY <2>2, <3>1, ItemsAssociate
    <3>. QED  BY <3>2 DEF one, w
  <2>10. <<>> \o <<u>> \o k = <<u>> \o k
    <3>1. <<>> \o <<u>> = <<u>>
      BY <2>3, ConcatEmptySeq
    <3>. QED  BY <3>1
  <2>11. Same[c] = c
    BY <2>2 DEF Same
  <2>12. Settle[x[c]] = r
    BY <2>5, <2>6 DEF r
  <2>13. Settle[y[c]] = Advance(r, TRUE)
    BY <2>5, <2>8, <2>9
  <2>14. Settle[z[c]] = Advance(r, FALSE)
    BY <2>5, <2>8, <2>10
  <2>. QED  BY <2>1, <2>2, <2>3, <2>7, <2>11, <2>12, <2>13, <2>14
<1>8. \A c \in DOMAIN z : Settle[z[c]] = IF c.l + 1 = Lights THEN Settle[K[c]]
                                         ELSE <<[s EXCEPT !.n = c.l + 1]>> \o K[c]
  <2>1. ASSUME NEW c \in DOMAIN z
        PROVE  Settle[z[c]] = IF c.l + 1 = Lights THEN Settle[K[c]]
                              ELSE <<[s EXCEPT !.n = c.l + 1]>> \o K[c]
    <3>1. c \in DOMAIN K /\ z[c] = <<[s EXCEPT !.n = c.l + 1]>> \o K[c]
      BY <1>1
    <3>2. c.l + 1 \in Int
      BY <1>4, <3>1
    <3>. QED  BY <1>4, <3>1, <3>2
  <2>. QED  BY <2>1
<1>9. ASSUME NEW c \in DOMAIN z, c \in DOMAIN NextLamp
      PROVE  NextLamp[c] \in DOMAIN x /\ Settle[x[NextLamp[c]]] = Settle[z[c]]
  <2>. DEFINE d == [c EXCEPT !.l = c.l + 1]
  <2>1. c \in DOMAIN K /\ z[c] = <<[s EXCEPT !.n = c.l + 1]>> \o K[c]
    BY <1>1
  <2>2. c.l + 1 < Lights /\ NextLamp[c] = d /\ c.l + 1 \in Nat
    BY <1>4, <1>9, <2>1 DEF NextLamp
  <2>3. d \in DOMAIN K /\ K[d] = K[c] /\ d.l = c.l + 1
    BY <1>4, <2>1, <2>2
  <2>. HIDE DEF d
  <2>4. d \in DOMAIN x /\ x[d] = <<[s EXCEPT !.n = c.l + 1]>> \o K[c]
    <3>1. d \in DOMAIN K /\ d.l < Lights
      BY <2>2, <2>3
    <3>2. d \in DOMAIN x
      BY <1>1, <3>1
    <3>3. x[d] = <<[s EXCEPT !.n = d.l]>> \o K[d]
      BY <1>1, <3>2
    <3>. QED  BY <2>3, <3>2, <3>3
  <2>. QED  BY <2>1, <2>2, <2>4
<1>10. ASSUME NEW c \in DOMAIN z, c \in DOMAIN LastLamp
       PROVE  LastLamp[c] \in DOMAIN K /\ Settle[K[LastLamp[c]]] = Settle[z[c]]
  <2>. DEFINE d == [c EXCEPT !.l = c.l + 1]
  <2>1. c \in DOMAIN K /\ c.l < Lights
    BY <1>1
  <2>2. c.l + 1 >= Lights /\ LastLamp[c] = d /\ c.l + 1 \in Nat
    BY <1>4, <1>10, <2>1 DEF LastLamp
  <2>3. d \in DOMAIN K /\ K[d] = K[c]
    BY <1>4, <2>1, <2>2
  <2>4. c.l + 1 = Lights
    <3>1. c.l \in Nat
      BY <1>4, <2>1
    <3>. QED  BY <1>3, <2>1, <2>2, <3>1
  <2>. HIDE DEF d
  <2>5. Settle[z[c]] = Settle[K[c]]
    BY <1>8, <2>4
  <2>. QED  BY <2>2, <2>3, <2>5 DEF d
<1>11. \A c \in DOMAIN Lamp(0) : Lamp(0)[c] = [c EXCEPT !.l = 0]
  BY DEF Lamp
<1>12. IF Lights > 0 THEN Goes(E, x, Lamp(0)) ELSE Goes(E, K, Lamp(0))
  BY <1>1, <1>5, <1>6, <1>11 DEF Goes
<1>13. Does(x, y, Same, {"illuminance"}, s.id, TRUE)
  BY <1>1, <1>7 DEF Does
<1>14. Does(x, z, Same, {"illuminance"}, s.id, FALSE)
  BY <1>1, <1>7 DEF Does
<1>15. Goes(z, x, NextLamp) /\ Goes(z, K, LastLamp)
  BY <1>9, <1>10 DEF Goes
<1>. QED  BY <1>8, <1>12, <1>13, <1>14, <1>15 DEF x, y, z, E

\* Those aside are not moved by the counter of the lights.
LEMMA LampWaits ==
  ASSUME NEW A \in Seq(Rests), \A d \in 1 .. Len(A) : SteadyL(A[d])
  PROVE  /\ \A l \in Nat : Waits(A, Lamp(l))
         /\ Waits(A, NextLamp) /\ Waits(A, LastLamp)
<1>1. ASSUME NEW d \in 1 .. Len(A), NEW c \in DOMAIN A[d]
      PROVE  /\ c \in Counters /\ c.l + 1 \in Nat
             /\ \A l \in Nat : [c EXCEPT !.l = l] \in DOMAIN A[d] /\ A[d][[c EXCEPT !.l = l]] = A[d][c]
  <2>1. A[d] \in Rests
    BY ElementOfSeq
  <2>2. c \in Counters
    BY <2>1, RestFacts
  <2>3. c.l \in Nat
    BY <2>2, CounterFacts
  <2>4. c.l + 1 \in Nat
    BY <2>3
  <2>. QED  BY <1>1, <2>2, <2>4 DEF SteadyL
<1>2. ASSUME NEW l \in Nat  PROVE Waits(A, Lamp(l))
  BY <1>1 DEF Waits, Goes, Lamp
<1>3. Waits(A, NextLamp)
  <2>1. \A c \in DOMAIN NextLamp : NextLamp[c] = [c EXCEPT !.l = c.l + 1]
    BY DEF NextLamp
  <2>. QED  BY <1>1, <2>1 DEF Waits, Goes
<1>4. Waits(A, LastLamp)
  <2>1. \A c \in DOMAIN LastLamp : LastLamp[c] = [c EXCEPT !.l = c.l + 1]
    BY DEF LastLamp
  <2>. QED  BY <1>1, <2>1 DEF Waits, Goes
<1>. QED  BY <1>2, <1>3, <1>4

\* illuminance: whose surface this light reaches.
LEMMA ThroughLamp ==
  ASSUME NEW id \in Int, NEW x \in Rests, NEW y \in Rests, NEW z \in Rests, NEW A \in Seq(Rests),
         \A d \in 1 .. Len(A) : Avoids(A[d], {id}),
         Does(x, y, Same, {"illuminance"}, id, TRUE), Does(x, z, Same, {"illuminance"}, id, FALSE)
  PROVE  /\ Passage(Code!I("illuminance", id), Note(x, x, A, TRUE), Note(y, z, A, FALSE))
         /\ Code!I("illuminance", id) \in Seq(Instruction)
<1>. DEFINE in == [op |-> "illuminance", arg |-> id]
            n == Note(x, x, A, TRUE)
            m == Note(y, z, A, FALSE)
<1>1. "illuminance" \in Ops /\ "illuminance" \notin JumpOps
  BY DEF Ops, JumpOps
<1>2. /\ in \in Instruction /\ Code!I("illuminance", id) = <<in>>
      /\ Code!I("illuminance", id) \in Seq(Instruction)
  BY <1>1, InstructionFacts
<1>3. n \in Notes /\ m \in Notes
  BY PlainTyped
<1>4. Fine(in, n, m, m)
  <2>1. /\ n.run = x /\ n.not = x /\ n.aside = A /\ n.clear = TRUE /\ m.run = y /\ m.not = z
        /\ m = Note(y, z, A, FALSE)
    BY DEF Note
  <2>2. Away(n, id)
    BY <2>1 DEF Away
  <2>. HIDE DEF n, m
  <2>. QED  BY <2>1, <2>2 DEF Fine
<1>5. in.op \notin JumpOps
  BY <1>1
<1>. HIDE DEF in, n, m
<1>6. Passage(<<in>>, n, m)
  BY <1>2, <1>3, <1>4, <1>5, PassageOne
<1>. QED  BY <1>2, <1>6 DEF n, m

\* init_illuminance: to the first light, or over the loop where there is none.
LEMMA FineInitLamp ==
  ASSUME NEW a, NEW x \in Rests, NEW y \in Rests, NEW z \in Rests, NEW A \in Seq(Rests),
         \A d \in 1 .. Len(A) : SteadyL(A[d]),
         IF Lights > 0 THEN Goes(x, y, Lamp(0)) ELSE Goes(x, z, Lamp(0))
  PROVE  Fine([op |-> "init_illuminance", arg |-> a], Plain(x, A), Plain(y, A), Plain(z, A))
<1>. DEFINE in == [op |-> "init_illuminance", arg |-> a]
            n == Plain(x, A)
            m == Plain(y, A)
            t == Plain(z, A)
<1>1. /\ n.run = x /\ n.not = x /\ n.aside = A /\ m.run = y /\ t.run = z
      /\ m = Plain(y, A) /\ t = Plain(z, A) /\ in.op = "init_illuminance"
  BY DEF Plain, Note
<1>2. Waits(A, Lamp(0))
  <2>1. 0 \in Nat
    OBVIOUS
  <2>. QED  BY <2>1, LampWaits
<1>. HIDE DEF in, n, m, t
<1>3. Fine(in, n, m, t)
  BY <1>1, <1>2 DEF Fine
<1>. QED  BY <1>3 DEF in, n, m, t

\* advance_illuminance: back for the next light, or on behind the last.
LEMMA FineAdvanceLamp ==
  ASSUME NEW a, NEW x \in Rests, NEW y \in Rests, NEW z \in Rests, NEW A \in Seq(Rests),
         \A d \in 1 .. Len(A) : SteadyL(A[d]), Goes(x, z, NextLamp), Goes(x, y, LastLamp)
  PROVE  Fine([op |-> "advance_illuminance", arg |-> a], Plain(x, A), Plain(y, A), Plain(z, A))
<1>. DEFINE in == [op |-> "advance_illuminance", arg |-> a]
            n == Plain(x, A)
            m == Plain(y, A)
            t == Plain(z, A)
<1>1. /\ n.run = x /\ n.not = x /\ n.aside = A /\ m.run = y /\ t.run = z
      /\ m = Plain(y, A) /\ t = Plain(z, A) /\ in.op = "advance_illuminance"
  BY DEF Plain, Note
<1>2. Waits(A, NextLamp) /\ Waits(A, LastLamp)
  BY LampWaits
<1>. HIDE DEF in, n, m, t
<1>3. Fine(in, n, m, t)
  BY <1>1, <1>2 DEF Fine
<1>. QED  BY <1>3 DEF in, n, m, t

\* The surroundings of the body of a loop over the lights.
LEMMA LampAround ==
  ASSUME NEW s \in Statements, s.k = "illuminance", NEW loops \in Nat, NEW K \in Rests,
         NEW A \in Seq(Rests), NEW depths \in Depths,
         Legal[<<s, loops>>], Around(<<s>>, K, A, depths, loops)
  PROVE  Around(s.body, LightAt(s, 1, K), A, depths, loops)
<1>. DEFINE z == LightAt(s, 1, K)
<1>1. /\ Fit(<<s>>, K) /\ SteadyL(K) /\ Ways(K, A, depths, loops)
  BY OwnFacts DEF Around, Fit
<1>2. Around(s.body, K, A, depths, loops) /\ Fit(s.body, K)
  BY OwnFacts, AroundPart DEF Around
<1>3. /\ ~UsesLights(s.body) /\ ~Shines(s.body) /\ s.id \notin Ids(s.body)
  BY LegalTop DEF Lawful
<1>4. s \in Item
  BY StatementsAreItems
<1>5. /\ DOMAIN z \subseteq DOMAIN K
      /\ DOMAIN z = {e \in DOMAIN K : e.l < Lights}
      /\ \A c \in DOMAIN z : z[c] = <<[s EXCEPT !.n = c.l + 1]>> \o K[c]
  BY DEF LightAt
<1>6. \A c \in DOMAIN z : Settle[z[c]] = IF c.l + 1 = Lights THEN Settle[K[c]]
                                         ELSE <<[s EXCEPT !.n = c.l + 1]>> \o K[c]
  BY <1>1, LampDoes
<1>. HIDE DEF z
<1>7. ASSUME NEW c \in DOMAIN z
      PROVE  /\ c \in Counters /\ K[c] \in Seq(Item) /\ c \in DOMAIN K /\ c.l + 1 \in Int
             /\ [s EXCEPT !.n = c.l + 1] \in Item /\ [s EXCEPT !.n = c.l + 1].k = "illuminance"
             /\ [s EXCEPT !.n = c.l + 1].id = s.id
  <2>1. c \in Counters /\ K[c] \in Seq(Item) /\ c \in DOMAIN K
    BY <1>5, RestFacts
  <2>2. c.l \in Nat
    BY <2>1, CounterFacts
  <2>3. c.l + 1 \in Int
    BY <2>2
  <2>. QED  BY <1>4, <2>1, <2>3, CountedFacts
<1>8. Ways(z, A, depths, loops)
  <2>1. ASSUME NEW c \in DOMAIN z, NEW n \in 1 .. loops
        PROVE  Leave[<<z[c], n>>] = Leave[<<K[c], n>>]
    <3>. DEFINE t == [s EXCEPT !.n = c.l + 1]
    <3>1. t \in Item /\ t.k # "again" /\ K[c] \in Seq(Item) /\ n \in Int /\ z[c] = <<t>> \o K[c]
      BY <1>5, <1>7
    <3>. HIDE DEF t
    <3>2. Leave[<<<<t>> \o K[c], n>>] = Leave[<<K[c], n>>]
      BY <3>1, LeaveFront
    <3>. QED  BY <3>1, <3>2
  <2>. QED  BY <1>1, <1>5, <2>1, WaysSame
<1>9. Avoids(z, Ids(s.body))
  <2>1. ASSUME NEW c \in DOMAIN z, Settle[z[c]] # <<>>
        PROVE  Head(Settle[z[c]]).id \notin Ids(s.body)
    <3>1. CASE c.l + 1 = Lights
      <4>1. Settle[z[c]] = Settle[K[c]] /\ c \in DOMAIN K
        BY <1>5, <1>6, <3>1
      <4>. QED  BY <1>2, <2>1, <4>1 DEF Fit, Avoids
    <3>2. CASE c.l + 1 # Lights
      <4>. DEFINE t == [s EXCEPT !.n = c.l + 1]
      <4>1. Settle[z[c]] = <<t>> \o K[c]
        BY <1>6, <3>2
      <4>2. t \in Item /\ t.id = s.id /\ K[c] \in Seq(Item)
        BY <1>7
      <4>. HIDE DEF t
      <4>3. Head(<<t>> \o K[c]) = t
        BY <4>2, StandsFirst
      <4>. QED  BY <1>3, <4>1, <4>2, <4>3
    <3>. QED  BY <3>1, <3>2
  <2>. QED  BY <2>1 DEF Avoids
<1>10. SteadyR(K) => SteadyR(z)
  <2>1. ASSUME SteadyR(K), NEW c \in DOMAIN z, NEW r \in Nat
        PROVE  [c EXCEPT !.r = r] \in DOMAIN z /\ z[[c EXCEPT !.r = r]] = z[c]
    <3>. DEFINE d == [c EXCEPT !.r = r]
    <3>1. c \in DOMAIN K /\ c \in Counters /\ c.l < Lights
      BY <1>5, <1>7
    <3>2. d.l = c.l
      BY <3>1, CounterFacts
    <3>3. d \in DOMAIN K /\ K[d] = K[c]
      BY <2>1, <3>1 DEF SteadyR
    <3>. HIDE DEF d
    <3>4. d \in DOMAIN z
      BY <1>5, <3>1, <3>2, <3>3
    <3>. QED  BY <1>5, <3>2, <3>3, <3>4 DEF d
  <2>. QED  BY <2>1 DEF SteadyR
<1>11. Fit(s.body, z)
  BY <1>2, <1>3, <1>9, <1>10 DEF Fit
<1>. QED  BY <1>2, <1>8, <1>11 DEF Around, z

\* illuminance with its body: a loop over all the lights.
LEMMA IlluminanceCompiles ==
  ASSUME NEW s \in Statements, s.k = "illuminance", PartsCompile(s)
  PROVE  Compiles(s)
<1>. SUFFICES ASSUME NEW loops \in Nat, NEW K \in Rests, NEW A \in Seq(Rests), NEW depths \in Depths,
                     Legal[<<s, loops>>], Around(<<s>>, K, A, depths, loops)
              PROVE  /\ Code!Visit[<<s, depths>>] \in Seq(Instruction)
                     /\ Passage(Code!Visit[<<s, depths>>], Plain(Entry(<<s>>, K), A), Plain(K, A))
  BY DEF Compiles
<1>. DEFINE E == Entry(<<s>>, K)
            x == LightAt(s, 0, K)
            z == LightAt(s, 1, K)
            y == Entry(s.body, z)
            args == Code!Expression(s.args)
            T == Code!VisitAll(Code!Visit, s.body, Code!Pushed(depths))
            body == Code!I("RS_PUSH", 0) \o Code!I("RS_GET", 0) \o T \o Code!I("RS_POP", 0)
            c1 == Code!I("S_CLEAR", 0)
            c2 == c1 \o args
            c3 == c2 \o Code!I("illuminance", s.id)
            loop == c3 \o Code!I("S_JZ", Len(body) + 1) \o body
            first == Code!I("init_illuminance", Len(loop) + 2)
            last == Code!I("advance_illuminance", -Len(loop))
            all == args \o first \o loop \o last
<1>1. Code!Visit[<<s, depths>>] = all
  BY VisitDef DEF Visits, Code!VisitIlluminanceConstruct
<1>2. /\ Fit(<<s>>, K) /\ SteadyL(K)
      /\ \A d \in 1 .. Len(A) : Fit(<<s>>, A[d]) /\ SteadyL(A[d])
  BY OwnFacts DEF Around, Fit
<1>3. /\ s.id \in Int /\ s.body \in Seq(Statements) /\ AllLegal(Legal, s.body, loops)
      /\ s.args = <<>> /\ <<s>> \in Seq(Statements)
  BY StatementsAreItems, LegalTop DEF Lawful
<1>4. args = <<>>
  BY <1>3 DEF Code!Expression
<1>5. x \in Rests /\ y \in Rests /\ z \in Rests /\ E \in Rests
  BY <1>3, LampRests, EntryTyped
<1>6. /\ IF Lights > 0 THEN Goes(E, x, Lamp(0)) ELSE Goes(E, K, Lamp(0))
      /\ Does(x, y, Same, {"illuminance"}, s.id, TRUE)
      /\ Does(x, z, Same, {"illuminance"}, s.id, FALSE)
      /\ Goes(z, x, NextLamp) /\ Goes(z, K, LastLamp)
  BY <1>2, LampDoes
<1>7. Around(s.body, z, A, depths, loops)
  BY LampAround
<1>. HIDE DEF E, x, z
<1>8. /\ T \in Seq(Instruction)
      /\ Passage(T, Plain(y, Append(A, z)), Plain(z, Append(A, z)))
  <2>1. Fit(s.body, z)
    BY <1>7 DEF Around
  <2>2. /\ Around(s.body, z, Append(A, z), Code!Pushed(depths), loops)
        /\ Code!Pushed(depths) \in Depths /\ Append(A, z) \in Seq(Rests)
    BY <1>5, <1>7, <2>1, AroundPush
  <2>. QED  BY <1>3, <1>5, <2>2, ListCompiles DEF PartsCompile
<1>. HIDE DEF T, y
<1>9. body \in Seq(Instruction) /\ Passage(body, Note(y, z, A, FALSE), Plain(z, A))
  BY <1>5, <1>8, Masked
<1>10. c1 \in Seq(Instruction) /\ Passage(c1, Plain(x, A), Note(x, x, A, TRUE))
  BY <1>5, ThroughClear
<1>11. c2 = c1
  <2>. HIDE DEF c1, args
  <2>. QED  BY <1>4, <1>10, ConcatEmptySeq
<1>12. /\ Code!I("illuminance", s.id) \in Seq(Instruction)
       /\ Passage(Code!I("illuminance", s.id), Note(x, x, A, TRUE), Note(y, z, A, FALSE))
  <2>1. \A d \in 1 .. Len(A) : Avoids(A[d], {s.id})
    BY <1>2, AwayHere
  <2>. QED  BY <1>3, <1>5, <1>6, <2>1, ThroughLamp
<1>. HIDE DEF c1, c2, args, body
<1>13. c3 \in Seq(Instruction) /\ Passage(c3, Plain(x, A), Note(y, z, A, FALSE))
  BY <1>10, <1>11, <1>12, Onward
<1>. HIDE DEF c3
<1>14. loop \in Seq(Instruction) /\ Passage(loop, Plain(x, A), Plain(z, A))
  BY <1>5, <1>9, <1>13, SkipFailed
<1>. HIDE DEF loop
<1>15. /\ Plain(x, A) \in Notes /\ Plain(z, A) \in Notes /\ Plain(K, A) \in Notes /\ Plain(E, A) \in Notes
  BY <1>5, PlainTyped
<1>16. loop \o last \in Seq(Instruction) /\ Passage(loop \o last, Plain(x, A), Plain(K, A))
  <2>1. Fine([op |-> "advance_illuminance", arg |-> -Len(loop)], Plain(z, A), Plain(K, A), Plain(x, A))
    BY <1>2, <1>5, <1>6, FineAdvanceLamp
  <2>2. "advance_illuminance" \in JumpOps /\ "advance_illuminance" # "jmp"
    BY DEF JumpOps
  <2>. QED  BY <1>14, <1>15, <2>1, <2>2, BackPassage
<1>17. last \in Seq(Instruction) /\ Len(last) = 1
  <2>1. "advance_illuminance" \in Ops /\ -Len(loop) \in Int
    <3>1. Len(loop) \in Nat
      BY <1>14, LenProperties
    <3>. QED  BY <3>1 DEF Ops
  <2>2. last = <<[op |-> "advance_illuminance", arg |-> -Len(loop)]>> /\ last \in Seq(Instruction)
    BY <2>1, InstructionFacts
  <2>. HIDE DEF last
  <2>. QED  BY <2>2
<1>. HIDE DEF last
<1>18. Len(loop) + 2 = Len(loop \o last) + 1
  <2>1. Len(loop) \in Nat
    BY <1>14, LenProperties
  <2>3. loop \in Seq(Instruction) /\ last \in Seq(Instruction)
    BY <1>14, <1>17
  <2>2. Len(loop \o last) = Len(loop) + Len(last)
    BY <2>3, ConcatProperties
  <2>. QED  BY <1>17, <2>1, <2>2
<1>19. first \in Seq(Instruction) /\ Passage(first \o (loop \o last), Plain(E, A), Plain(K, A))
  <2>. DEFINE a == Len(loop) + 2
              c == loop \o last
  <2>1. Fine([op |-> "init_illuminance", arg |-> a], Plain(E, A), Plain(x, A), Plain(K, A))
    <3>. HIDE DEF a
    <3>. QED  BY <1>2, <1>5, <1>6, FineInitLamp
  <2>2. "init_illuminance" \in JumpOps /\ "init_illuminance" # "jmp" /\ a = Len(c) + 1
    BY <1>18 DEF JumpOps
  <2>3. c \in Seq(Instruction) /\ Passage(c, Plain(x, A), Plain(K, A))
    BY <1>16
  <2>. HIDE DEF a, c
  <2>4. Code!I("init_illuminance", a) \in Seq(Instruction)
        /\ Passage(Code!I("init_illuminance", a) \o c, Plain(E, A), Plain(K, A))
    BY <1>15, <2>1, <2>2, <2>3, OverPassage
  <2>. QED  BY <2>4 DEF a, c
<1>. HIDE DEF first
<1>20. all = first \o (loop \o last)
  <2>1. args \o first = first
    BY <1>4, <1>19, ConcatEmptySeq
  <2>2. (first \o loop) \o last = first \o (loop \o last)
    <3>1. Associate(first, loop, last)
      BY <1>14, <1>17, <1>19, CodeAssociates
    <3>. QED  BY <3>1 DEF Associate
  <2>. QED  BY <2>1, <2>2
<1>21. first \o (loop \o last) \in Seq(Instruction)
  BY <1>16, <1>19, ConcatProperties
<1>. HIDE DEF all
<1>. QED  BY <1>1, <1>19, <1>20, <1>21 DEF E

-----------------------------------------------------------------------------
(* gather. *)

\* Those aside are not moved by the counter of the rays.
LEMMA RayWaits ==
  ASSUME NEW A \in Seq(Rests), \A d \in 1 .. Len(A) : SteadyR(A[d])
  PROVE  /\ \A r \in Nat : Waits(A, Ray(r))
         /\ Waits(A, NextRay) /\ Waits(A, LastRay)
<1>1. ASSUME NEW d \in 1 .. Len(A), NEW c \in DOMAIN A[d]
      PROVE  /\ c \in Counters /\ c.r \in Nat
             /\ \A r \in Nat : [c EXCEPT !.r = r] \in DOMAIN A[d] /\ A[d][[c EXCEPT !.r = r]] = A[d][c]
  <2>1. A[d] \in Rests
    BY ElementOfSeq
  <2>2. c \in Counters
    BY <2>1, RestFacts
  <2>3. c.r \in Nat
    BY <2>2, CounterFacts
  <2>. QED  BY <1>1, <2>2, <2>3 DEF SteadyR
<1>2. ASSUME NEW r \in Nat  PROVE Waits(A, Ray(r))
  BY <1>1 DEF Waits, Goes, Ray
<1>3. Waits(A, NextRay)
  <2>1. \A c \in DOMAIN NextRay : NextRay[c] = [c EXCEPT !.r = c.r - 1] /\ c.r > 1
    BY DEF NextRay
  <2>2. \A k \in Nat : k > 1 => k - 1 \in Nat
    OBVIOUS
  <2>3. ASSUME NEW d \in 1 .. Len(A), NEW c \in DOMAIN A[d], c \in DOMAIN NextRay
        PROVE  NextRay[c] \in DOMAIN A[d] /\ Settle[A[d][NextRay[c]]] = Settle[A[d][c]]
    <3>1. c.r \in Nat /\ c.r > 1
      BY <1>1, <2>1, <2>3
    <3>. DEFINE r == c.r - 1
    <3>2. r \in Nat
      BY <2>2, <3>1
    <3>3. NextRay[c] = [c EXCEPT !.r = r]
      BY <2>1, <2>3
    <3>. HIDE DEF r
    <3>. QED  BY <1>1, <3>2, <3>3
  <2>. QED  BY <2>3 DEF Waits, Goes
<1>4. Waits(A, LastRay)
  <2>1. \A c \in DOMAIN LastRay : LastRay[c] = [c EXCEPT !.r = 0]
    BY DEF LastRay
  <2>2. ASSUME NEW d \in 1 .. Len(A), NEW c \in DOMAIN A[d], c \in DOMAIN LastRay
        PROVE  LastRay[c] \in DOMAIN A[d] /\ Settle[A[d][LastRay[c]]] = Settle[A[d][c]]
    <3>. DEFINE r == 0
    <3>1. r \in Nat
      OBVIOUS
    <3>2. LastRay[c] = [c EXCEPT !.r = r]
      BY <2>1, <2>2
    <3>. HIDE DEF r
    <3>. QED  BY <1>1, <3>1, <3>2
  <2>. QED  BY <2>2 DEF Waits, Goes
<1>. QED  BY <1>2, <1>3, <1>4

\* gather: the points whose ray hits something would go on; SO_gather finds none.
LEMMA ThroughRay ==
  ASSUME NEW id \in Int, NEW x \in Rests, NEW y \in Rests, NEW z \in Rests, NEW A \in Seq(Rests),
         \A d \in 1 .. Len(A) : Avoids(A[d], {id}),
         Does(x, z, Same, {"gather"}, id, FALSE)
  PROVE  /\ Passage(Code!I("gather", id), Plain(x, A), Note(y, z, A, FALSE))
         /\ Code!I("gather", id) \in Seq(Instruction)
<1>. DEFINE in == [op |-> "gather", arg |-> id]
            n == Plain(x, A)
            m == Note(y, z, A, FALSE)
<1>1. "gather" \in Ops /\ "gather" \notin JumpOps
  BY DEF Ops, JumpOps
<1>2. in \in Instruction /\ Code!I("gather", id) = <<in>> /\ Code!I("gather", id) \in Seq(Instruction)
  BY <1>1, InstructionFacts
<1>3. n \in Notes /\ m \in Notes
  BY PlainTyped
<1>4. Fine(in, n, m, m)
  <2>1. /\ n.run = x /\ n.not = x /\ n.aside = A /\ m.run = y /\ m.not = z
        /\ m = Note(y, z, A, FALSE)
    BY DEF Note, Plain
  <2>2. Away(n, id)
    BY <2>1 DEF Away
  <2>. HIDE DEF n, m
  <2>. QED  BY <2>1, <2>2 DEF Fine
<1>5. in.op \notin JumpOps
  BY <1>1
<1>. HIDE DEF in, n, m
<1>6. Passage(<<in>>, n, m)
  BY <1>2, <1>3, <1>4, <1>5, PassageOne
<1>. QED  BY <1>2, <1>6 DEF n, m

\* init_gather: the number of rays.
LEMMA ThroughInitRay ==
  ASSUME NEW r \in Nat, NEW x \in Rests, NEW y \in Rests, NEW A \in Seq(Rests),
         \A d \in 1 .. Len(A) : SteadyR(A[d]), Goes(x, y, Ray(r))
  PROVE  /\ Passage(Code!I("init_gather", r), Plain(x, A), Plain(y, A))
         /\ Code!I("init_gather", r) \in Seq(Instruction)
<1>. DEFINE in == [op |-> "init_gather", arg |-> r]
            n == Plain(x, A)
            m == Plain(y, A)
<1>1. "init_gather" \in Ops /\ "init_gather" \notin JumpOps
  BY DEF Ops, JumpOps
<1>2. /\ in \in Instruction /\ Code!I("init_gather", r) = <<in>>
      /\ Code!I("init_gather", r) \in Seq(Instruction)
  BY <1>1, InstructionFacts
<1>3. n \in Notes /\ m \in Notes
  BY PlainTyped
<1>4. Fine(in, n, m, m)
  <2>1. n.run = x /\ n.not = x /\ n.aside = A /\ m.run = y /\ m = Plain(y, A)
    BY DEF Note, Plain
  <2>2. Waits(A, Ray(r))
    BY RayWaits
  <2>. HIDE DEF n, m
  <2>. QED  BY <2>1, <2>2 DEF Fine
<1>5. in.op \notin JumpOps
  BY <1>1
<1>. HIDE DEF in, n, m
<1>6. Passage(<<in>>, n, m)
  BY <1>2, <1>3, <1>4, <1>5, PassageOne
<1>. QED  BY <1>2, <1>6 DEF n, m

\* advance_gather: back for the next ray, or on behind the last.
LEMMA FineAdvanceRay ==
  ASSUME NEW a, NEW x \in Rests, NEW y \in Rests, NEW z \in Rests, NEW A \in Seq(Rests),
         \A d \in 1 .. Len(A) : SteadyR(A[d]), Goes(x, z, NextRay), Goes(x, y, LastRay),
         \A c \in DOMAIN x : c.r > 0
  PROVE  Fine([op |-> "advance_gather", arg |-> a], Plain(x, A), Plain(y, A), Plain(z, A))
<1>. DEFINE in == [op |-> "advance_gather", arg |-> a]
            n == Plain(x, A)
            m == Plain(y, A)
            t == Plain(z, A)
<1>1. /\ n.run = x /\ n.not = x /\ n.aside = A /\ m.run = y /\ t.run = z
      /\ m = Plain(y, A) /\ t = Plain(z, A) /\ in.op = "advance_gather"
  BY DEF Plain, Note
<1>2. Waits(A, NextRay) /\ Waits(A, LastRay)
  BY RayWaits
<1>. HIDE DEF in, n, m, t
<1>3. Fine(in, n, m, t)
  BY <1>1, <1>2 DEF Fine
<1>. QED  BY <1>3 DEF in, n, m, t

\* The points in a loop over rays.
LEMMA RayRests ==
  ASSUME NEW s \in Statements, s.k = "gather", NEW loops \in Nat, Legal[<<s, loops>>],
         NEW K \in Rests
  PROVE  LET x == RayAt(s, 0, K)
             z == RayAt(s, 1, K)
             o == Entry(s.other, z)
         IN  /\ x \in Rests /\ o \in Rests /\ z \in Rests
             /\ DOMAIN x = {e \in DOMAIN K : e.r > 0} /\ DOMAIN z = DOMAIN x /\ DOMAIN o = DOMAIN x
             /\ \A c \in DOMAIN x : /\ x[c] = <<[s EXCEPT !.n = c.r]>> \o K[c]
                                    /\ z[c] = <<[s EXCEPT !.n = c.r - 1]>> \o K[c]
                                    /\ o[c] = s.other \o z[c]
             /\ DOMAIN Entry(<<s>>, K) = DOMAIN K
             /\ \A c \in DOMAIN K : Entry(<<s>>, K)[c] = <<s>> \o K[c]
<1>. DEFINE x == RayAt(s, 0, K)
            z == RayAt(s, 1, K)
            o == Entry(s.other, z)
            E == Entry(<<s>>, K)
<1>1. s \in Item /\ s.other \in Seq(Statements) /\ <<s>> \in Seq(Statements)
  BY StatementsAreItems
<1>2. ~Shines(s.other) /\ ~Shines(<<s>>)
  <2>1. ~Shines(s.body) /\ ~Shines(s.other)
    BY LegalTop DEF Lawful
  <2>. QED  BY <2>1, OwnFacts
<1>3. x \in Rests /\ z \in Rests
  <2>1. 0 \in Int /\ 1 \in Int /\ "again" \in Scalar!Kinds \cup {"again"}
    OBVIOUS
  <2>. QED  BY <1>1, <2>1, FrontTyped
<1>4. \A c \in DOMAIN K : c.r - 0 = c.r
  <2>1. ASSUME NEW c \in DOMAIN K  PROVE c.r - 0 = c.r
    <3>1. c.r \in Nat
      BY RestFacts, CounterFacts
    <3>. QED  BY <3>1
  <2>. QED  BY <2>1
<1>5. /\ DOMAIN x = {e \in DOMAIN K : e.r > 0}
      /\ \A c \in DOMAIN x : x[c] = <<[s EXCEPT !.n = c.r - 0]>> \o K[c]
  BY DEF RayAt
<1>6. /\ DOMAIN z = {e \in DOMAIN K : e.r > 0}
      /\ \A c \in DOMAIN z : z[c] = <<[s EXCEPT !.n = c.r - 1]>> \o K[c]
  BY DEF RayAt
<1>. HIDE DEF x, z
<1>7. /\ o \in Rests /\ DOMAIN o = {e \in DOMAIN z : Shines(s.other) => ~e.b}
      /\ \A c \in DOMAIN o : o[c] = s.other \o z[c]
  BY <1>1, <1>3, EntryTyped
<1>8. /\ DOMAIN E = {e \in DOMAIN K : Shines(<<s>>) => ~e.b}
      /\ \A c \in DOMAIN E : E[c] = <<s>> \o K[c]
  BY <1>1, EntryTyped
<1>. HIDE DEF o, E
<1>9. DOMAIN z = DOMAIN x /\ DOMAIN o = DOMAIN x /\ DOMAIN E = DOMAIN K
  BY <1>2, <1>5, <1>6, <1>7, <1>8
<1>10. \A c \in DOMAIN x : x[c] = <<[s EXCEPT !.n = c.r]>> \o K[c]
  <2>1. ASSUME NEW c \in DOMAIN x  PROVE x[c] = <<[s EXCEPT !.n = c.r]>> \o K[c]
    <3>1. c.r - 0 = c.r
      BY <1>4, <1>5
    <3>. QED  BY <1>5, <3>1
  <2>. QED  BY <2>1
<1>. QED  BY <1>3, <1>5, <1>6, <1>7, <1>8, <1>9, <1>10 DEF x, o, z, E

\* How the points go through it.
LEMMA RayDoes ==
  ASSUME NEW s \in Statements, s.k = "gather", NEW loops \in Nat, Legal[<<s, loops>>],
         NEW K \in Rests, SteadyR(K)
  PROVE  LET x == RayAt(s, 0, K)
             z == RayAt(s, 1, K)
         IN  /\ Goes(Entry(<<s>>, K), x, Ray(s.n))
             /\ Does(x, Entry(s.other, z), Same, {"gather"}, s.id, FALSE)
             /\ Goes(z, x, NextRay) /\ Goes(z, K, LastRay)
             /\ \A c \in DOMAIN z : c.r > 0 /\
                  Settle[z[c]] = IF c.r = 1 THEN Settle[K[c]]
                                 ELSE <<[s EXCEPT !.n = c.r - 1]>> \o K[c]
<1>. DEFINE x == RayAt(s, 0, K)
            z == RayAt(s, 1, K)
            o == Entry(s.other, z)
            E == Entry(<<s>>, K)
<1>1. /\ x \in Rests /\ o \in Rests /\ z \in Rests
      /\ DOMAIN x = {e \in DOMAIN K : e.r > 0} /\ DOMAIN z = DOMAIN x /\ DOMAIN o = DOMAIN x
      /\ \A c \in DOMAIN x : /\ x[c] = <<[s EXCEPT !.n = c.r]>> \o K[c]
                             /\ z[c] = <<[s EXCEPT !.n = c.r - 1]>> \o K[c]
                             /\ o[c] = s.other \o z[c]
      /\ DOMAIN E = DOMAIN K /\ \A c \in DOMAIN K : E[c] = <<s>> \o K[c]
  BY RayRests
<1>2. s \in Item /\ s.n > 0 /\ s.n \in Nat /\ s.k = "gather" /\ s.other \in Seq(Item)
  BY StatementsAreItems, ListsAreItems, LegalTop
<1>. HIDE DEF x, z, o, E
<1>3. ASSUME NEW c \in DOMAIN K
      PROVE  /\ c \in Counters /\ K[c] \in Seq(Item) /\ c.r \in Nat
             /\ \A r \in Nat : /\ [c EXCEPT !.r = r] \in DOMAIN K /\ K[[c EXCEPT !.r = r]] = K[c]
                               /\ [c EXCEPT !.r = r].r = r
             /\ \A i \in Int :
                  Settle[<<[s EXCEPT !.n = i]>> \o K[c]] =
                    IF i = 0 THEN Settle[K[c]] ELSE <<[s EXCEPT !.n = i]>> \o K[c]
  <2>1. c \in Counters /\ K[c] \in Seq(Item) /\ c.r \in Nat
    BY RestFacts, CounterFacts
  <2>2. ASSUME NEW i \in Int
        PROVE  Settle[<<[s EXCEPT !.n = i]>> \o K[c]] =
                 IF i = 0 THEN Settle[K[c]] ELSE <<[s EXCEPT !.n = i]>> \o K[c]
    <3>. DEFINE t == [s EXCEPT !.n = i]
    <3>1. t \in Item /\ t.n = i /\ t.k = "gather"
      BY <1>2, CountedFacts
    <3>. HIDE DEF t
    <3>2. Settle[<<t>> \o K[c]] = IF t.n = 0 THEN Settle[K[c]] ELSE <<t>> \o K[c]
      BY <2>1, <3>1, SettleFront
    <3>. QED  BY <3>1, <3>2 DEF t
  <2>3. ASSUME NEW r \in Nat
        PROVE  /\ [c EXCEPT !.r = r] \in DOMAIN K /\ K[[c EXCEPT !.r = r]] = K[c]
               /\ [c EXCEPT !.r = r].r = r
    BY <2>1, CounterFacts DEF SteadyR
  <2>. QED  BY <2>1, <2>2, <2>3
<1>4. ASSUME NEW c \in DOMAIN K
      PROVE  [c EXCEPT !.r = s.n] \in DOMAIN x /\ Settle[x[[c EXCEPT !.r = s.n]]] = Settle[E[c]]
  <2>. DEFINE d == [c EXCEPT !.r = s.n]
  <2>1. d \in DOMAIN K /\ K[d] = K[c] /\ d.r = s.n
    BY <1>2, <1>3
  <2>. HIDE DEF d
  <2>2. d \in DOMAIN x /\ x[d] = <<[s EXCEPT !.n = s.n]>> \o K[c]
    BY <1>1, <1>2, <2>1
  <2>3. [s EXCEPT !.n = s.n] = s
    <3>1. s.n \in Int /\ s \in Item
      BY <1>2
    <3>. QED  BY <3>1, CountedFacts
  <2>. QED  BY <1>1, <2>2, <2>3 DEF d
<1>5. ASSUME NEW c \in DOMAIN x
      PROVE  /\ c \in DOMAIN K /\ c \in Counters /\ Same[c] = c
             /\ LET rest == Settle[x[c]]
                IN  /\ rest # <<>> /\ Head(rest).k = "gather" /\ Head(rest).id = s.id
                    /\ Settle[o[c]] = Advance(rest, FALSE)
  <2>1. c \in DOMAIN K /\ c.r > 0
    BY <1>1
  <2>. DEFINE k == K[c]
              t == [s EXCEPT !.n = c.r]
              u == [s EXCEPT !.n = c.r - 1]
              r == <<t>> \o k
  <2>2. /\ c \in Counters /\ k \in Seq(Item) /\ c.r \in Nat /\ c.r \in Int /\ c.r - 1 \in Int
        /\ c.r # 0
    BY <1>3, <2>1
  <2>3. /\ t \in Item /\ t.n = c.r /\ t.k = "gather" /\ t.id = s.id /\ t.other = s.other
        /\ u \in Item
    BY <1>2, <2>2, CountedFacts
  <2>4. [t EXCEPT !.n = @ - 1] = u
    <3>1. [t EXCEPT !.n = t.n - 1] = [s EXCEPT !.n = c.r - 1]
      BY <1>2, <2>2, <2>3, CountedFacts
    <3>. QED  BY <3>1
  <2>5. x[c] = r /\ o[c] = s.other \o (<<u>> \o k)
    BY <1>1
  <2>6. Settle[<<t>> \o k] = <<t>> \o k
    <3>1. \A i \in Int : Settle[<<[s EXCEPT !.n = i]>> \o K[c]] =
                           IF i = 0 THEN Settle[K[c]] ELSE <<[s EXCEPT !.n = i]>> \o K[c]
      BY <1>3, <2>1
    <3>. QED  BY <2>2, <3>1
  <2>. HIDE DEF k, t, u
  <2>7. r # <<>> /\ Head(r) = t /\ Tail(r) = k
    BY <2>2, <2>3, StandsFirst
  <2>. HIDE DEF r
  <2>8. Advance(r, FALSE) = Settle[s.other \o <<u>> \o k]
    BY <2>3, <2>4, <2>7 DEF Advance, Scalar!Advance, Settle
  <2>9. s.other \o <<u>> \o k = s.other \o (<<u>> \o k)
    <3>. DEFINE one == <<u>>
                w == s.other
    <3>1. one \in Seq(Item) /\ w \in Seq(Item)
      BY <1>2, <2>3
    <3>. HIDE DEF one, w
    <3>2. (w \o one) \o k = w \o (one \o k)
      BY <2>2, <3>1, ItemsAssociate
    <3>. QED  BY <3>2 DEF one, w
  <2>11. Same[c] = c
    BY <2>2 DEF Same
  <2>12. Settle[x[c]] = r
    BY <2>5, <2>6 DEF r
  <2>13. Settle[o[c]] = Advance(r, FALSE)
    BY <2>5, <2>8, <2>9
  <2>. QED  BY <2>1, <2>2, <2>3, <2>7, <2>11, <2>12, <2>13
<1>6. ASSUME NEW c \in DOMAIN z
      PROVE  c.r > 0 /\ Settle[z[c]] = IF c.r = 1 THEN Settle[K[c]]
                                       ELSE <<[s EXCEPT !.n = c.r - 1]>> \o K[c]
  <2>1. c \in DOMAIN K /\ c.r > 0 /\ z[c] = <<[s EXCEPT !.n = c.r - 1]>> \o K[c]
    BY <1>1
  <2>2. c.r - 1 \in Int /\ (c.r - 1 = 0 <=> c.r = 1)
    <3>1. c.r \in Nat
      BY <1>3, <2>1
    <3>. QED  BY <3>1
  <2>3. \A i \in Int : Settle[<<[s EXCEPT !.n = i]>> \o K[c]] =
                         IF i = 0 THEN Settle[K[c]] ELSE <<[s EXCEPT !.n = i]>> \o K[c]
    BY <1>3, <2>1
  <2>. QED  BY <2>1, <2>2, <2>3
<1>7. ASSUME NEW c \in DOMAIN z, c \in DOMAIN NextRay
      PROVE  NextRay[c] \in DOMAIN x /\ Settle[x[NextRay[c]]] = Settle[z[c]]
  <2>. DEFINE d == [c EXCEPT !.r = c.r - 1]
  <2>1. c \in DOMAIN K /\ z[c] = <<[s EXCEPT !.n = c.r - 1]>> \o K[c]
    BY <1>1
  <2>2. c.r > 1 /\ NextRay[c] = d
    BY <1>7 DEF NextRay
  <2>3. c.r - 1 \in Nat /\ c.r - 1 > 0
    <3>1. c.r \in Nat
      BY <1>3, <2>1
    <3>. QED  BY <2>2, <3>1
  <2>4. d \in DOMAIN K /\ K[d] = K[c] /\ d.r = c.r - 1
    BY <1>3, <2>1, <2>3
  <2>. HIDE DEF d
  <2>5. d \in DOMAIN x /\ x[d] = <<[s EXCEPT !.n = c.r - 1]>> \o K[c]
    BY <1>1, <2>3, <2>4
  <2>. QED  BY <2>1, <2>2, <2>5
<1>8. ASSUME NEW c \in DOMAIN z, c \in DOMAIN LastRay
      PROVE  LastRay[c] \in DOMAIN K /\ Settle[K[LastRay[c]]] = Settle[z[c]]
  <2>. DEFINE d == [c EXCEPT !.r = 0]
  <2>1. c \in DOMAIN K
    BY <1>1
  <2>2. c.r = 1 /\ LastRay[c] = d
    BY <1>8 DEF LastRay
  <2>3. d \in DOMAIN K /\ K[d] = K[c]
    BY <1>3, <2>1
  <2>. HIDE DEF d
  <2>4. Settle[z[c]] = Settle[K[c]]
    BY <1>6, <2>2
  <2>. QED  BY <2>2, <2>3, <2>4
<1>9. \A c \in DOMAIN Ray(s.n) : Ray(s.n)[c] = [c EXCEPT !.r = s.n]
  BY DEF Ray
<1>10. Goes(E, x, Ray(s.n))
  <2>1. DOMAIN E = DOMAIN K
    BY <1>1
  <2>2. ASSUME NEW c \in DOMAIN E, c \in DOMAIN Ray(s.n)
        PROVE  Ray(s.n)[c] \in DOMAIN x /\ Settle[x[Ray(s.n)[c]]] = Settle[E[c]]
    <3>. DEFINE d == [c EXCEPT !.r = s.n]
    <3>1. d \in DOMAIN x /\ Settle[x[d]] = Settle[E[c]]
      BY <1>4, <2>1
    <3>2. Ray(s.n)[c] = d
      BY <1>9, <2>2
    <3>. HIDE DEF d
    <3>. QED  BY <3>1, <3>2
  <2>. QED  BY <2>2 DEF Goes
<1>11. Does(x, o, Same, {"gather"}, s.id, FALSE)
  BY <1>1, <1>5 DEF Does
<1>12. Goes(z, x, NextRay) /\ Goes(z, K, LastRay)
  BY <1>7, <1>8 DEF Goes
<1>. QED  BY <1>6, <1>10, <1>11, <1>12 DEF x, z, o, E

\* The surroundings of the two bodies of a loop over rays.
LEMMA RayAround ==
  ASSUME NEW s \in Statements, s.k = "gather", NEW loops \in Nat, NEW K \in Rests,
         NEW A \in Seq(Rests), NEW depths \in Depths,
         Legal[<<s, loops>>], Around(<<s>>, K, A, depths, loops)
  PROVE  /\ Around(s.body, RayAt(s, 1, K), A, depths, loops)
         /\ Around(s.other, RayAt(s, 1, K), A, depths, loops)
<1>. DEFINE z == RayAt(s, 1, K)
<1>1. /\ Fit(<<s>>, K) /\ SteadyR(K) /\ Ways(K, A, depths, loops)
  BY OwnFacts DEF Around, Fit
<1>2. /\ Around(s.body, K, A, depths, loops) /\ Fit(s.body, K)
      /\ Around(s.other, K, A, depths, loops) /\ Fit(s.other, K)
  BY OwnFacts, AroundPart DEF Around
<1>3. /\ ~UsesRays(s.body) /\ ~Shines(s.body) /\ s.id \notin Ids(s.body)
      /\ ~UsesRays(s.other) /\ ~Shines(s.other) /\ s.id \notin Ids(s.other)
  BY LegalTop DEF Lawful
<1>4. s \in Item
  BY StatementsAreItems
<1>5. /\ DOMAIN z \subseteq DOMAIN K
      /\ DOMAIN z = {e \in DOMAIN K : e.r > 0}
      /\ \A c \in DOMAIN z : z[c] = <<[s EXCEPT !.n = c.r - 1]>> \o K[c]
  BY DEF RayAt
<1>6. \A c \in DOMAIN z : Settle[z[c]] = IF c.r = 1 THEN Settle[K[c]]
                                         ELSE <<[s EXCEPT !.n = c.r - 1]>> \o K[c]
  BY <1>1, RayDoes
<1>. HIDE DEF z
<1>7. ASSUME NEW c \in DOMAIN z
      PROVE  /\ c \in Counters /\ K[c] \in Seq(Item) /\ c \in DOMAIN K /\ c.r - 1 \in Int
             /\ [s EXCEPT !.n = c.r - 1] \in Item /\ [s EXCEPT !.n = c.r - 1].k = "gather"
             /\ [s EXCEPT !.n = c.r - 1].id = s.id
  <2>1. c \in Counters /\ K[c] \in Seq(Item) /\ c \in DOMAIN K
    BY <1>5, RestFacts
  <2>2. c.r \in Nat
    BY <2>1, CounterFacts
  <2>3. c.r - 1 \in Int
    BY <2>2
  <2>. QED  BY <1>4, <2>1, <2>3, CountedFacts
<1>8. Ways(z, A, depths, loops)
  <2>1. ASSUME NEW c \in DOMAIN z, NEW n \in 1 .. loops
        PROVE  Leave[<<z[c], n>>] = Leave[<<K[c], n>>]
    <3>. DEFINE t == [s EXCEPT !.n = c.r - 1]
    <3>1. t \in Item /\ t.k # "again" /\ K[c] \in Seq(Item) /\ n \in Int /\ z[c] = <<t>> \o K[c]
      BY <1>5, <1>7
    <3>. HIDE DEF t
    <3>2. Leave[<<<<t>> \o K[c], n>>] = Leave[<<K[c], n>>]
      BY <3>1, LeaveFront
    <3>. QED  BY <3>1, <3>2
  <2>. QED  BY <1>1, <1>5, <2>1, WaysSame
<1>9. ASSUME NEW ids, Avoids(K, ids), s.id \notin ids  PROVE Avoids(z, ids)
  <2>1. ASSUME NEW c \in DOMAIN z, Settle[z[c]] # <<>>
        PROVE  Head(Settle[z[c]]).id \notin ids
    <3>1. CASE c.r = 1
      <4>1. Settle[z[c]] = Settle[K[c]] /\ c \in DOMAIN K
        BY <1>5, <1>6, <3>1
      <4>. QED  BY <1>9, <2>1, <4>1 DEF Avoids
    <3>2. CASE c.r # 1
      <4>. DEFINE t == [s EXCEPT !.n = c.r - 1]
      <4>1. Settle[z[c]] = <<t>> \o K[c]
        BY <1>6, <3>2
      <4>2. t \in Item /\ t.id = s.id /\ K[c] \in Seq(Item)
        BY <1>7
      <4>. HIDE DEF t
      <4>3. Head(<<t>> \o K[c]) = t
        BY <4>2, StandsFirst
      <4>. QED  BY <1>9, <4>1, <4>2, <4>3
    <3>. QED  BY <3>1, <3>2
  <2>. QED  BY <2>1 DEF Avoids
<1>10. SteadyL(K) => SteadyL(z)
  <2>1. ASSUME SteadyL(K), NEW c \in DOMAIN z, NEW l \in Nat
        PROVE  [c EXCEPT !.l = l] \in DOMAIN z /\ z[[c EXCEPT !.l = l]] = z[c]
    <3>. DEFINE d == [c EXCEPT !.l = l]
    <3>1. c \in DOMAIN K /\ c \in Counters /\ c.r > 0
      BY <1>5, <1>7
    <3>2. d.r = c.r
      BY <3>1, CounterFacts
    <3>3. d \in DOMAIN K /\ K[d] = K[c]
      BY <2>1, <3>1 DEF SteadyL
    <3>. HIDE DEF d
    <3>4. d \in DOMAIN z
      BY <1>5, <3>1, <3>2, <3>3
    <3>. QED  BY <1>5, <3>2, <3>3, <3>4 DEF d
  <2>. QED  BY <2>1 DEF SteadyL
<1>11. Fit(s.body, z) /\ Fit(s.other, z)
  <2>1. Avoids(z, Ids(s.body)) /\ Avoids(z, Ids(s.other))
    BY <1>2, <1>3, <1>9 DEF Fit
  <2>. QED  BY <1>2, <1>3, <1>10, <2>1 DEF Fit
<1>. QED  BY <1>2, <1>8, <1>11 DEF Around, z

\* gather with both its bodies: a loop over all the rays.
LEMMA GatherCompiles ==
  ASSUME NEW s \in Statements, s.k = "gather", PartsCompile(s)
  PROVE  Compiles(s)
<1>. SUFFICES ASSUME NEW loops \in Nat, NEW K \in Rests, NEW A \in Seq(Rests), NEW depths \in Depths,
                     Legal[<<s, loops>>], Around(<<s>>, K, A, depths, loops)
              PROVE  /\ Code!Visit[<<s, depths>>] \in Seq(Instruction)
                     /\ Passage(Code!Visit[<<s, depths>>], Plain(Entry(<<s>>, K), A), Plain(K, A))
  BY DEF Compiles
<1>. DEFINE E == Entry(<<s>>, K)
            x == RayAt(s, 0, K)
            z == RayAt(s, 1, K)
            b == Entry(s.body, z)
            o == Entry(s.other, z)
            T == Code!VisitAll(Code!Visit, s.body, Code!Pushed(depths))
            F == Code!VisitAll(Code!Visit, s.other, Code!Pushed(depths))
            X == Code!I("S_CLEAR", 0) \o Code!I("gather", s.id)
            loop == X \o Code!I("RS_PUSH", 0) \o Code!I("RS_GET", 0)
                      \o Code!I("RS_JZ", Len(T) + 1) \o T
                      \o (IF F = <<>> THEN <<>>
                          ELSE Code!I("RS_INVERSE", 0) \o Code!I("RS_JZ", Len(F) + 1) \o F)
                      \o Code!I("RS_POP", 0)
            first == Code!I("init_gather", s.n)
            last == Code!I("advance_gather", -Len(loop))
            all == first \o loop \o last
<1>1. Code!Visit[<<s, depths>>] = all
  BY VisitDef DEF Visits, Code!VisitGatherConstruct
<1>2. /\ Fit(<<s>>, K) /\ SteadyR(K)
      /\ \A d \in 1 .. Len(A) : Fit(<<s>>, A[d]) /\ SteadyR(A[d])
  BY OwnFacts DEF Around, Fit
<1>3. s.id \in Int /\ s.n \in Nat /\ <<s>> \in Seq(Statements)
  BY StatementsAreItems, LegalTop DEF Lawful
<1>4. /\ x \in Rests /\ z \in Rests
      /\ DOMAIN x = {e \in DOMAIN K : e.r > 0} /\ DOMAIN z = DOMAIN x
  BY RayRests
<1>5. E \in Rests /\ \A c \in DOMAIN z : c.r > 0
  <2>1. E \in Rests
    BY <1>3, EntryTyped
  <2>. HIDE DEF E, x, z
  <2>. QED  BY <1>4, <2>1
<1>6. /\ Goes(E, x, Ray(s.n))
      /\ Does(x, o, Same, {"gather"}, s.id, FALSE)
      /\ Goes(z, x, NextRay) /\ Goes(z, K, LastRay)
  BY <1>2, RayDoes
<1>7. Around(s.body, z, A, depths, loops) /\ Around(s.other, z, A, depths, loops)
  BY RayAround
<1>. HIDE DEF E, x, z
<1>8. /\ b \in Rests /\ o \in Rests
      /\ T \in Seq(Instruction) /\ F \in Seq(Instruction)
      /\ Passage(T, Plain(b, Append(A, o)), Plain(z, Append(A, o)))
      /\ Passage(F, Plain(o, Append(A, z)), Plain(z, Append(A, z)))
  BY <1>4, <1>5, <1>7, SidesCompile
<1>. HIDE DEF T, F, b, o
<1>9. X \in Seq(Instruction) /\ Passage(X, Plain(x, A), Note(b, o, A, FALSE))
  <2>. DEFINE c1 == Code!I("S_CLEAR", 0)
  <2>1. c1 \in Seq(Instruction) /\ Passage(c1, Plain(x, A), Plain(x, A))
    BY <1>4, <1>5, ThroughClearing
  <2>2. \A d \in 1 .. Len(A) : Avoids(A[d], {s.id})
    BY <1>2, AwayHere
  <2>3. /\ Code!I("gather", s.id) \in Seq(Instruction)
        /\ Passage(Code!I("gather", s.id), Plain(x, A), Note(b, o, A, FALSE))
    BY <1>3, <1>4, <1>5, <1>6, <1>8, <2>2, ThroughRay
  <2>. HIDE DEF c1
  <2>. QED  BY <2>1, <2>3, Onward DEF c1
<1>. HIDE DEF X
<1>10. loop \in Seq(Instruction) /\ Passage(loop, Plain(x, A), Plain(z, A))
  BY <1>4, <1>5, <1>8, <1>9, Branch
<1>. HIDE DEF loop
<1>15. /\ Plain(x, A) \in Notes /\ Plain(z, A) \in Notes /\ Plain(K, A) \in Notes
  BY <1>4, <1>5, PlainTyped
<1>16. loop \o last \in Seq(Instruction) /\ Passage(loop \o last, Plain(x, A), Plain(K, A))
  <2>1. Fine([op |-> "advance_gather", arg |-> -Len(loop)], Plain(z, A), Plain(K, A), Plain(x, A))
    BY <1>2, <1>4, <1>5, <1>6, FineAdvanceRay
  <2>2. "advance_gather" \in JumpOps /\ "advance_gather" # "jmp"
    BY DEF JumpOps
  <2>. QED  BY <1>10, <1>15, <2>1, <2>2, BackPassage
<1>17. last \in Seq(Instruction)
  <2>1. "advance_gather" \in Ops /\ -Len(loop) \in Int
    <3>1. Len(loop) \in Nat
      BY <1>10, LenProperties
    <3>. QED  BY <3>1 DEF Ops
  <2>. QED  BY <2>1, InstructionFacts
<1>. HIDE DEF last
<1>18. first \in Seq(Instruction) /\ Passage(first, Plain(E, A), Plain(x, A))
  BY <1>2, <1>3, <1>4, <1>5, <1>6, ThroughInitRay
<1>. HIDE DEF first
<1>19. /\ first \o (loop \o last) \in Seq(Instruction)
       /\ Passage(first \o (loop \o last), Plain(E, A), Plain(K, A))
  <2>. DEFINE c == loop \o last
  <2>1. c \in Seq(Instruction) /\ Passage(c, Plain(x, A), Plain(K, A))
    BY <1>16
  <2>. HIDE DEF c
  <2>2. Passage(first \o c, Plain(E, A), Plain(K, A)) /\ first \o c \in Seq(Instruction)
    BY <1>18, <2>1, PassageThen, ConcatProperties
  <2>. QED  BY <2>2 DEF c
<1>20. all = first \o (loop \o last)
  <2>1. Associate(first, loop, last)
    BY <1>10, <1>17, <1>18, CodeAssociates
  <2>. QED  BY <2>1 DEF Associate
<1>. HIDE DEF all
<1>. QED  BY <1>1, <1>19, <1>20 DEF E

-----------------------------------------------------------------------------
(* Any shader. *)

\* The code of every statement does what the statement says, wherever it is.
LEMMA StatementsCompile == \A s \in Statements : Compiles(s)
<1>. DEFINE S == {s \in Statements : Compiles(s)}
<1>1. Height \in [Statements -> Nat]
  BY StatementsAreTrees DEF Statements
<1>2. ASSUME NEW s \in Statements, \A t \in Statements : Height[t] < Height[s] => t \in S
      PROVE  s \in S
  <2>1. PartsCompile(s)
    BY <1>2, PartsAreLower DEF PartsCompile
  <2>2. s.k \in Scalar!Kinds
    BY StatementsAreTrees DEF Statements
  <2>3. s.k \in {"do", "if", "pick", "while", "break", "continue", "illuminance", "illuminate",
                 "solar", "gather"}
    BY <2>2 DEF Scalar!Kinds
  <2>. HIDE DEF Statements
  <2>4. CASE s.k = "do"
    BY <2>4, DoCompiles
  <2>5. CASE s.k \in {"break", "continue"}
    BY <2>5, ExitCompiles
  <2>6. CASE s.k = "if"
    BY <2>1, <2>6, IfCompiles
  <2>7. CASE s.k = "pick"
    BY <2>1, <2>7, PickCompiles
  <2>8. CASE s.k = "while"
    BY <2>1, <2>8, WhileCompiles
  <2>9. CASE s.k \in {"illuminate", "solar"}
    BY <2>1, <2>9, ShineCompiles
  <2>10. CASE s.k = "illuminance"
    BY <2>1, <2>10, IlluminanceCompiles
  <2>11. CASE s.k = "gather"
    BY <2>1, <2>11, GatherCompiles
  <2>. QED  BY <2>3, <2>4, <2>5, <2>6, <2>7, <2>8, <2>9, <2>10, <2>11
<1>. HIDE DEF S
<1>3. \A s \in Statements : s \in S
  BY <1>1, <1>2, Descent
<1>. QED  BY <1>3 DEF S

\* Who owes nothing has nothing left.
LEMMA NothingFacts ==
  /\ Nothing \in Rests /\ DOMAIN Nothing = Counters
  /\ \A c \in Counters : Nothing[c] = <<>> /\ Settle[Nothing[c]] = <<>>
<1>1. DOMAIN Nothing = Counters /\ \A c \in Counters : Nothing[c] = <<>>
  BY DEF Nothing
<1>2. Nothing = [c \in DOMAIN Nothing |-> Nothing[c]]
  BY DEF Nothing
<1>3. <<>> \in Seq(Item)
  BY EmptySeq
<1>4. Nothing \in Rests
  <2>. HIDE DEF Nothing
  <2>. QED  BY <1>1, <1>2, <1>3, RestFacts
<1>. QED  BY <1>1, <1>4, SettleEmpty

\* Around a whole shader there is nothing.
LEMMA SourceAround ==
  ASSUME NEW L \in Seq(Statements)
  PROVE  Around(L, Nothing, <<>>, <<>>, 0)
<1>1. Len(<<>>) = 0 /\ 1 .. 0 = {}
  BY EmptySeq
<1>2. \A c \in DOMAIN Nothing : Settle[Nothing[c]] = <<>>
  BY NothingFacts
<1>3. \A c \in Counters : /\ \A l \in Nat : [c EXCEPT !.l = l] \in Counters
                          /\ \A r \in Nat : [c EXCEPT !.r = r] \in Counters
                          /\ [c EXCEPT !.b = TRUE] \in Counters
  BY CounterFacts
<1>4. SteadyL(Nothing) /\ SteadyR(Nothing) /\ SteadyB(Nothing)
  BY <1>3, NothingFacts DEF SteadyL, SteadyR, SteadyB
<1>5. Fit(L, Nothing)
  BY <1>2, <1>4 DEF Fit, Avoids
<1>. QED  BY <1>1, <1>5 DEF Around, Ways

\* The code of a whole shader leads from all of it to nothing.
LEMMA SourceCompiles ==
  ASSUME NEW source, Scalar!IsShader(source)
  PROVE  /\ Code!Compile(source) \in Seq(Instruction)
         /\ Passage(Code!Compile(source), Plain(Entry(source, Nothing), <<>>), Plain(Nothing, <<>>))
<1>1. source \in Seq(Statements) /\ AllLegal(Legal, source, 0)
  BY DEF Scalar!IsShader, AllLegal, Legal, AllApart, Statements
<1>2. \A i \in 1 .. Len(source) : Compiles(source[i])
  <2>1. \A i \in 1 .. Len(source) : source[i] \in Statements
    BY <1>1, ElementOfSeq
  <2>. QED  BY <2>1, StatementsCompile
<1>3. <<>> \in Depths /\ <<>> \in Seq(Rests) /\ 0 \in Nat /\ Nothing \in Rests
  BY EmptySeq, NothingFacts DEF Depths
<1>4. Around(source, Nothing, <<>>, <<>>, 0)
  BY <1>1, SourceAround
<1>5. Code!Compile(source) = Code!VisitAll(Code!Visit, source, <<>>)
  BY DEF Code!Compile
<1>. QED  BY <1>1, <1>2, <1>3, <1>4, <1>5, ListCompiles

-----------------------------------------------------------------------------
(* The code of a shader is Disciplined: the notes that fit it give the height *)
(* of the stack, and where the current state lies within the running state    *)
(* follows from how the pieces of code are put together.                      *)

\* The instructions that leave the current state within the running state whatever it was.
Confines == {"S_CLEAR", "choice", "gather"}
\* Those after which it may not be.
Mixes == {"RS_POP", "RS_INVERSE", "RS_BREAK"}

\* At the addresses B the current state is sure to lie within the running state: the
\* instruction at address i keeps to that.  A jump back leads to S_CLEAR, and
\* what is behind jmp is reached by a jump from further up.
Sure(c, B, i) ==
  LET in == c[i]
      after == in.op \in Confines \/ (i \in B /\ in.op \notin Mixes)
  IN  /\ in.op = "S_CLEAR" => i \notin B
      /\ in.op = "RS_GET" => i \in B
      /\ in.op # "jmp" => (i + 1 \in B => after)
      /\ in.op \in JumpOps =>
           /\ in.arg \in Int /\ i + in.arg \in 1 .. Len(c) + 1
           /\ i + in.arg \in B => after
           /\ i + in.arg <= i => c[i + in.arg].op = "S_CLEAR"
      /\ in.op = "jmp" =>
           \E j \in 1 .. i - 1 : /\ c[j].op \in JumpOps /\ c[j].arg \in Int
                                 /\ j + c[j].arg = i + 1
      /\ in.op = "init_gather" => in.arg \in 0 .. UintLimit - 1

\* The code c can be marked so, from an address that B has only if x to one that it
\* has if y.
Tidy(c, x, y) ==
  /\ c \in Seq(Written)
  /\ \E B \in SUBSET (1 .. Len(c) + 1) :
       /\ 1 \in B => x
       /\ y => Len(c) + 1 \in B
       /\ \A i \in 1 .. Len(c) : Sure(c, B, i)

\* Code that a jump may lead back to.
Starts(c) == c \in Seq(Written) /\ Len(c) > 0 /\ c[1].op = "S_CLEAR"

\* What is sure of a piece of code is sure of it in its place in a longer one.
LEMMA SureShift ==
  ASSUME NEW c \in Seq(Written), NEW d \in Seq(Written), NEW k \in Nat,
         k + Len(c) <= Len(d), \A i \in 1 .. Len(c) : d[i + k] = c[i],
         NEW B, NEW M, \A i \in 1 .. Len(c) : i + k \in M <=> i \in B,
         Len(c) + 1 + k \in M => Len(c) + 1 \in B,
         NEW i \in 1 .. Len(c), Sure(c, B, i)
  PROVE  Sure(d, M, i + k)
<1>. DEFINE a == Len(c)
            b == Len(d)
            in == c[i]
            after == in.op \in Confines \/ (i \in B /\ in.op \notin Mixes)
            to == i + in.arg
<1>1. a \in Nat /\ b \in Nat /\ i \in Nat /\ i <= a /\ k + a <= b /\ d[i + k] = in
  BY LenProperties
<1>2. /\ in.op = "S_CLEAR" => i \notin B
      /\ in.op = "RS_GET" => i \in B
      /\ in.op # "jmp" => (i + 1 \in B => after)
      /\ in.op \in JumpOps => /\ in.arg \in Int /\ to \in 1 .. a + 1
                              /\ to \in B => after
                              /\ to <= i => c[to].op = "S_CLEAR"
      /\ in.op = "jmp" =>
           \E j \in 1 .. i - 1 : /\ c[j].op \in JumpOps /\ c[j].arg \in Int
                                 /\ j + c[j].arg = i + 1
      /\ in.op = "init_gather" => in.arg \in 0 .. UintLimit - 1
  BY DEF Sure
<1>3. \A j \in 1 .. a : j + k \in M <=> j \in B
  OBVIOUS
<1>4. ASSUME NEW j \in 1 .. a + 1, j + k \in M  PROVE j \in B
  <2>1. CASE j = a + 1
    BY <1>4, <2>1
  <2>2. CASE j # a + 1
    <3>1. j \in 1 .. a
      <4>. HIDE DEF a
      <4>. QED  BY <1>1, <2>2
    <3>. QED  BY <1>3, <1>4, <3>1
  <2>. QED  BY <2>1, <2>2
<1>5. i + k \in M <=> i \in B
  BY <1>3
<1>6. in.op # "jmp" => ((i + k) + 1 \in M => after)
  <2>1. i + 1 \in 1 .. a + 1 /\ (i + 1) + k = (i + k) + 1
    <3>. HIDE DEF a
    <3>. QED  BY <1>1
  <2>. HIDE DEF after, in, a
  <2>. QED  BY <1>2, <1>4, <2>1
<1>7. ASSUME in.op \in JumpOps
      PROVE  /\ in.arg \in Int /\ (i + k) + in.arg \in 1 .. b + 1
             /\ (i + k) + in.arg \in M => after
             /\ (i + k) + in.arg <= i + k => d[(i + k) + in.arg].op = "S_CLEAR"
  <2>1. in.arg \in Int /\ to \in 1 .. a + 1 /\ (to \in B => after)
        /\ (to <= i => c[to].op = "S_CLEAR")
    BY <1>2, <1>7
  <2>2. (i + k) + in.arg = to + k
    <3>. HIDE DEF in
    <3>. QED  BY <1>1, <2>1
  <2>. HIDE DEF to, after, a, b
  <2>3. to + k \in 1 .. b + 1
    BY <1>1, <2>1
  <2>4. to + k \in M => after
    BY <1>4, <2>1
  <2>5. ASSUME to + k <= i + k  PROVE d[to + k].op = "S_CLEAR"
    <3>1. to <= i /\ to \in 1 .. a
      BY <1>1, <2>1, <2>5
    <3>2. d[to + k] = c[to]
      BY <3>1 DEF a
    <3>. QED  BY <2>1, <3>1, <3>2
  <2>. QED  BY <2>1, <2>2, <2>3, <2>4, <2>5
<1>8. ASSUME in.op = "jmp"
      PROVE  \E j \in 1 .. (i + k) - 1 : /\ d[j].op \in JumpOps /\ d[j].arg \in Int
                                         /\ j + d[j].arg = (i + k) + 1
  <2>1. PICK j \in 1 .. i - 1 : /\ c[j].op \in JumpOps /\ c[j].arg \in Int
                                /\ j + c[j].arg = i + 1
    BY <1>2, <1>8
  <2>2. j \in 1 .. a /\ j + k \in 1 .. (i + k) - 1
    <3>. HIDE DEF a
    <3>. QED  BY <1>1
  <2>3. d[j + k] = c[j]
    BY <2>2
  <2>4. (j + k) + c[j].arg = (i + k) + 1
    <3>. HIDE DEF a
    <3>. DEFINE g == c[j].arg
    <3>1. j \in Int /\ g \in Int /\ j + g = i + 1 /\ i \in Int
      BY <1>1, <2>1
    <3>. HIDE DEF g
    <3>2. \A u, v, w \in Int : u + v = w + 1 => (u + k) + v = (w + k) + 1
      OBVIOUS
    <3>3. (j + k) + g = (i + k) + 1
      BY <3>1, <3>2
    <3>. QED  BY <3>3 DEF g
  <2>. QED  BY <2>1, <2>2, <2>3, <2>4
<1>. HIDE DEF in, a, b
<1>9. d[i + k].op = in.op /\ d[i + k].arg = in.arg
  BY <1>1
<1>10. after <=> in.op \in Confines \/ (i + k \in M /\ in.op \notin Mixes)
  BY <1>5
<1>. HIDE DEF after
<1>. QED  BY <1>2, <1>5, <1>6, <1>7, <1>8, <1>9, <1>10 DEF Sure, b

\* No code.
LEMMA TidyNone == ASSUME NEW x \in BOOLEAN  PROVE Tidy(<<>>, x, x)
<1>. DEFINE B == IF x THEN {1} ELSE {}
<1>1. Len(<<>>) = 0 /\ <<>> \in Seq(Written) /\ 1 .. Len(<<>>) = {} /\ 1 .. Len(<<>>) + 1 = {1}
  BY EmptySeq
<1>2. B \in SUBSET {1} /\ (1 \in B <=> x)
  OBVIOUS
<1>. HIDE DEF B
<1>. QED  BY <1>1, <1>2 DEF Tidy

\* One piece of code behind another.
LEMMA TidyThen ==
  ASSUME NEW c, NEW d, NEW x \in BOOLEAN, NEW y \in BOOLEAN, NEW z \in BOOLEAN,
         Tidy(c, x, y), Tidy(d, y, z)
  PROVE  Tidy(c \o d, x, z)
<1>. DEFINE a == Len(c)
            b == Len(d)
            e == c \o d
<1>0. c \in Seq(Written) /\ d \in Seq(Written)
  BY DEF Tidy
<1>1. /\ e \in Seq(Written) /\ a \in Nat /\ b \in Nat /\ Len(e) = a + b
      /\ \A i \in 1 .. a : e[i] = c[i]
      /\ \A i \in 1 .. b : e[i + a] = d[i]
  BY <1>0, Joined
<1>2. PICK B \in SUBSET (1 .. a + 1) : /\ 1 \in B => x
                                       /\ y => a + 1 \in B
                                       /\ \A i \in 1 .. a : Sure(c, B, i)
  BY DEF Tidy
<1>3. PICK D \in SUBSET (1 .. b + 1) : /\ 1 \in D => y
                                       /\ z => b + 1 \in D
                                       /\ \A i \in 1 .. b : Sure(d, D, i)
  BY DEF Tidy
<1>. DEFINE M == {i \in 1 .. (a + b) + 1 : IF i <= a THEN i \in B ELSE i - a \in D}
<1>. HIDE DEF a, b, e
<1>4. \A i \in 1 .. a : i \in M <=> i \in B
  <2>1. \A i \in 1 .. a : i \in 1 .. (a + b) + 1 /\ i <= a
    BY <1>1
  <2>. QED  BY <2>1
<1>5. \A i \in 1 .. b + 1 : i + a \in M <=> i \in D
  <2>1. \A i \in 1 .. b + 1 : i + a \in 1 .. (a + b) + 1 /\ ~(i + a <= a) /\ (i + a) - a = i
    BY <1>1
  <2>. QED  BY <2>1
<1>6. M \in SUBSET (1 .. Len(e) + 1)
  BY <1>1
<1>. HIDE DEF M
<1>7. a + 1 \in M => a + 1 \in B
  <2>1. 1 \in 1 .. b + 1 /\ 1 + a = a + 1
    BY <1>1
  <2>2. a + 1 \in M <=> 1 \in D
    BY <1>5, <2>1
  <2>. QED  BY <1>2, <1>3, <2>2
<1>8. 1 \in M => x
  <2>1. CASE a = 0
    <3>1. a + 1 = 1
      BY <2>1
    <3>. QED  BY <1>2, <1>7, <3>1
  <2>2. CASE a # 0
    <3>1. 1 \in 1 .. a
      BY <1>1, <2>2
    <3>. QED  BY <1>2, <1>4, <3>1
  <2>. QED  BY <2>1, <2>2
<1>9. z => Len(e) + 1 \in M
  <2>1. b + 1 \in 1 .. b + 1 /\ (b + 1) + a = Len(e) + 1
    BY <1>1
  <2>. QED  BY <1>3, <1>5, <2>1
<1>10. ASSUME NEW i \in 1 .. a  PROVE Sure(e, M, i + 0)
  <2>1. 0 + a <= Len(e) /\ (a + 1) + 0 = a + 1 /\ 0 \in Nat
        /\ \A j \in 1 .. a : j + 0 = j
    BY <1>1
  <2>2. \A j \in 1 .. a : e[j + 0] = c[j] /\ (j + 0 \in M <=> j \in B)
    BY <1>1, <1>4, <2>1
  <2>3. a + 1 + 0 \in M => a + 1 \in B
    BY <1>7, <2>1
  <2>. QED  BY <1>0, <1>1, <1>2, <2>1, <2>2, <2>3, SureShift DEF a
<1>11. ASSUME NEW i \in 1 .. b  PROVE Sure(e, M, i + a)
  <2>1. a + b <= Len(e) /\ b + 1 \in 1 .. b + 1
    BY <1>1
  <2>2. \A j \in 1 .. b : j + a \in M <=> j \in D
    <3>1. \A j \in 1 .. b : j \in 1 .. b + 1
      BY <1>1
    <3>. QED  BY <1>5, <3>1
  <2>3. b + 1 + a \in M => b + 1 \in D
    BY <1>5, <2>1
  <2>. QED  BY <1>0, <1>1, <1>3, <2>1, <2>2, <2>3, SureShift DEF b
<1>12. ASSUME NEW i \in 1 .. Len(e)  PROVE Sure(e, M, i)
  <2>1. CASE i <= a
    <3>1. i \in 1 .. a /\ i + 0 = i
      BY <1>1, <2>1
    <3>. QED  BY <1>10, <3>1
  <2>2. CASE ~(i <= a)
    <3>1. i - a \in 1 .. b /\ (i - a) + a = i
      BY <1>1, <2>2
    <3>2. Sure(e, M, (i - a) + a)
      BY <1>11, <3>1
    <3>. QED  BY <3>1, <3>2
  <2>. QED  BY <2>1, <2>2
<1>. QED  BY <1>1, <1>6, <1>8, <1>9, <1>12 DEF Tidy, e

\* One instruction that does not jump.
LEMMA TidyOne ==
  ASSUME NEW in \in Written, in.op \notin JumpOps, NEW x \in BOOLEAN, NEW y \in BOOLEAN,
         in.op = "RS_GET" => x,
         y => in.op \in Confines \/ (x /\ in.op \notin Mixes /\ in.op # "S_CLEAR"),
         in.op = "init_gather" => in.arg \in 0 .. UintLimit - 1
  PROVE  Tidy(<<in>>, x, y)
<1>. DEFINE c == <<in>>
            B == {i \in {1, 2} : IF i = 1 THEN x /\ in.op # "S_CLEAR" ELSE y}
<1>1. c \in Seq(Written) /\ Len(c) = 1 /\ c[1] = in
  OBVIOUS
<1>2. B \in SUBSET {1, 2} /\ (1 \in B <=> x /\ in.op # "S_CLEAR") /\ (2 \in B <=> y)
  OBVIOUS
<1>. HIDE DEF B, c
<1>3. 1 .. Len(c) + 1 = {1, 2} /\ Len(c) + 1 = 2 /\ 1 .. Len(c) = {1} /\ 1 + 1 = 2
  BY <1>1
<1>4. in.op # "jmp"
  BY DEF JumpOps
<1>5. Sure(c, B, 1)
  BY <1>1, <1>2, <1>3, <1>4 DEF Sure
<1>. QED  BY <1>1, <1>2, <1>3, <1>5 DEF Tidy, c

\* A jump over a piece of code from in front of it.
LEMMA TidyOver ==
  ASSUME NEW op \in JumpOps, op # "jmp", NEW c, NEW x \in BOOLEAN, Tidy(c, x, FALSE)
  PROVE  Tidy(Code!I(op, Len(c) + 1) \o c, x, FALSE)
<1>. DEFINE a == Len(c)
            in == [op |-> op, arg |-> a + 1]
            one == <<in>>
            e == one \o c
<1>0. c \in Seq(Written) /\ a \in Nat
  BY LenProperties DEF Tidy
<1>1. in \in Written /\ in.op = op /\ in.arg = a + 1
  <2>1. op \in Ops /\ a + 1 \in Int
    BY <1>0 DEF JumpOps, Ops
  <2>. HIDE DEF a
  <2>. QED  BY <2>1 DEF Written
<1>2. Code!I(op, Len(c) + 1) = one
  BY DEF Code!I
<1>. HIDE DEF in
<1>3. one \in Seq(Written) /\ Len(one) = 1 /\ one[1] = in
  BY <1>1
<1>. HIDE DEF one
<1>4. /\ e \in Seq(Written) /\ Len(e) = 1 + a /\ e[1] = in
      /\ \A i \in 1 .. a : e[i + 1] = c[i]
  <2>. HIDE DEF e
  <2>0. one \in Seq(Written) /\ c \in Seq(Written)
    BY <1>0, <1>3
  <2>1. /\ e \in Seq(Written) /\ Len(e) = Len(one) + a
        /\ \A i \in 1 .. Len(one) : e[i] = one[i]
        /\ \A i \in 1 .. a : e[i + Len(one)] = c[i]
    BY <2>0, Joined DEF e
  <2>2. 1 \in 1 .. 1
    OBVIOUS
  <2>3. e[1] = one[1]
    BY <1>3, <2>1, <2>2
  <2>. QED  BY <1>3, <2>1, <2>3
<1>5. PICK B \in SUBSET (1 .. a + 1) : /\ 1 \in B => x
                                       /\ \A i \in 1 .. a : Sure(c, B, i)
  BY DEF Tidy
<1>. DEFINE M == {i \in 1 .. a + 1 : IF i = 1 THEN x ELSE i - 1 \in B}
<1>. HIDE DEF a, e
<1>6. /\ M \in SUBSET (1 .. Len(e) + 1) /\ (1 \in M <=> x) /\ a + 2 \notin M
      /\ (1 + 1 \in M => x)
  <2>1. 1 .. a + 1 \subseteq 1 .. Len(e) + 1 /\ 1 \in 1 .. a + 1 /\ a + 2 \notin 1 .. a + 1
        /\ 1 + 1 # 1 /\ (1 + 1) - 1 = 1
    BY <1>0, <1>4
  <2>. QED  BY <1>5, <2>1
<1>7. \A i \in 1 .. a : i + 1 \in M <=> i \in B
  <2>1. \A i \in 1 .. a : i + 1 \in 1 .. a + 1 /\ i + 1 # 1 /\ (i + 1) - 1 = i
    BY <1>0
  <2>. QED  BY <2>1
<1>. HIDE DEF M
<1>8. ASSUME NEW i \in 1 .. a  PROVE Sure(e, M, i + 1)
  <2>1. 1 + a <= Len(e) /\ (a + 1) + 1 = a + 2 /\ 1 \in Nat
    BY <1>0, <1>4
  <2>2. a + 1 + 1 \in M => a + 1 \in B
    BY <1>6, <2>1
  <2>. QED  BY <1>0, <1>4, <1>5, <1>7, <2>1, <2>2, SureShift DEF a
<1>9. Sure(e, M, 1)
  <2>1. 1 + in.arg = a + 2 /\ 1 + in.arg \in 1 .. Len(e) + 1 /\ in.arg \in Int /\ ~(1 + in.arg <= 1)
    BY <1>0, <1>1, <1>4
  <2>2. /\ op \notin Mixes /\ op # "S_CLEAR" /\ op # "RS_GET" /\ op # "init_gather"
    BY DEF JumpOps, Mixes
  <2>3. (1 \in M /\ op \notin Mixes) <=> x
    BY <1>6, <2>2
  <2>. QED  BY <1>1, <1>4, <1>6, <2>1, <2>2, <2>3 DEF Sure
<1>10. ASSUME NEW i \in 1 .. Len(e)  PROVE Sure(e, M, i)
  <2>1. CASE i = 1
    BY <1>9, <2>1
  <2>2. CASE i # 1
    <3>1. i - 1 \in 1 .. a /\ (i - 1) + 1 = i
      BY <1>0, <1>4, <2>2
    <3>2. Sure(e, M, (i - 1) + 1)
      BY <1>8, <3>1
    <3>. QED  BY <3>1, <3>2
  <2>. QED  BY <2>1, <2>2
<1>. QED  BY <1>2, <1>4, <1>6, <1>10 DEF Tidy, e

\* A test, a body that it jumps over, and a jump back to the test.
LEMMA TidyLoop ==
  ASSUME NEW c, NEW d, Starts(c), NEW x \in BOOLEAN, Tidy(c, FALSE, x), Tidy(d, x, FALSE),
         NEW jz \in Written, jz.op = "S_JZ", jz.arg = Len(d) + 2,
         NEW jmp \in Written, jmp.op = "jmp", jmp.arg = -(Len(c) + Len(d) + 1)
  PROVE  Tidy(c \o <<jz>> \o d \o <<jmp>>, FALSE, FALSE)
<1>. DEFINE a == Len(c)
            b == Len(d)
            e == c \o <<jz>> \o d \o <<jmp>>
<1>0. c \in Seq(Written) /\ d \in Seq(Written)
  BY DEF Tidy
<1>1. /\ a \in Nat /\ b \in Nat /\ e \in Seq(Written) /\ Len(e) = a + b + 2
      /\ \A i \in 1 .. a : e[i] = c[i]
      /\ e[a + 1] = jz /\ e[a + b + 2] = jmp
      /\ \A i \in 1 .. b : e[i + (a + 1)] = d[i]
  BY <1>0, LoopLayout
<1>2. PICK B \in SUBSET (1 .. a + 1) : /\ 1 \notin B /\ (x => a + 1 \in B)
                                       /\ \A i \in 1 .. a : Sure(c, B, i)
  BY DEF Tidy
<1>3. PICK D \in SUBSET (1 .. b + 1) : /\ 1 \in D => x
                                       /\ \A i \in 1 .. b : Sure(d, D, i)
  BY DEF Tidy
<1>4. 1 \in 1 .. a /\ c[1].op = "S_CLEAR" /\ jz.arg = b + 2 /\ jmp.arg = -(a + b + 1)
  BY <1>1 DEF Starts
<1>. DEFINE M == {i \in 1 .. (a + 1) + b : IF i <= a + 1 THEN i \in B ELSE i - (a + 1) \in D}
<1>. HIDE DEF a, b, e
<1>5. \A i \in 1 .. a + 1 : i \in M <=> i \in B
  <2>1. \A i \in 1 .. a + 1 : i \in 1 .. (a + 1) + b /\ i <= a + 1
    BY <1>1
  <2>. QED  BY <2>1
<1>6. \A i \in 1 .. b : i + (a + 1) \in M <=> i \in D
  <2>1. \A i \in 1 .. b : /\ i + (a + 1) \in 1 .. (a + 1) + b /\ ~(i + (a + 1) <= a + 1)
                          /\ (i + (a + 1)) - (a + 1) = i
    BY <1>1
  <2>. QED  BY <2>1
<1>7. /\ M \in SUBSET (1 .. Len(e) + 1) /\ a + b + 2 \notin M /\ a + b + 3 \notin M
      /\ 1 \in 1 .. a + 1 /\ 1 \notin M /\ (x => a + 1 \in M)
  <2>1. /\ 1 .. (a + 1) + b \subseteq 1 .. Len(e) + 1 /\ a + b + 2 \notin 1 .. (a + 1) + b
        /\ a + b + 3 \notin 1 .. (a + 1) + b /\ 1 \in 1 .. a + 1 /\ a + 1 \in 1 .. a + 1
    BY <1>1
  <2>. QED  BY <1>2, <1>5, <2>1
<1>8. a + 2 \in M => a + 1 \in M
  <2>1. CASE b = 0
    <3>1. a + 2 = a + b + 2
      BY <1>1, <2>1
    <3>. QED  BY <1>7, <3>1
  <2>2. CASE b # 0
    <3>1. 1 \in 1 .. b /\ 1 + (a + 1) = a + 2
      BY <1>1, <2>2
    <3>2. a + 2 \in M <=> 1 \in D
      BY <1>6, <3>1
    <3>. QED  BY <1>3, <1>7, <3>2
  <2>. QED  BY <2>1, <2>2
<1>. HIDE DEF M
<1>9. ASSUME NEW i \in 1 .. a  PROVE Sure(e, M, i + 0)
  <2>1. 0 + a <= Len(e) /\ a + 1 + 0 = a + 1 /\ 0 \in Nat /\ a + 1 \in 1 .. a + 1
        /\ \A j \in 1 .. a : j + 0 = j /\ j \in 1 .. a + 1
    BY <1>1
  <2>2. \A j \in 1 .. a : e[j + 0] = c[j] /\ (j + 0 \in M <=> j \in B)
    BY <1>1, <1>5, <2>1
  <2>3. a + 1 + 0 \in M => a + 1 \in B
    BY <1>5, <2>1
  <2>. QED  BY <1>0, <1>1, <1>2, <2>1, <2>2, <2>3, SureShift DEF a
<1>10. ASSUME NEW i \in 1 .. b  PROVE Sure(e, M, i + (a + 1))
  <2>1. (a + 1) + b <= Len(e) /\ b + 1 + (a + 1) = a + b + 2 /\ a + 1 \in Nat
    BY <1>1
  <2>2. b + 1 + (a + 1) \in M => b + 1 \in D
    BY <1>7, <2>1
  <2>. QED  BY <1>0, <1>1, <1>3, <1>6, <2>1, <2>2, SureShift DEF b
<1>n. a \in Nat /\ b \in Nat /\ Len(e) = a + b + 2
  BY <1>1
<1>11. Sure(e, M, a + 1)
  <2>1. /\ (a + 1) + jz.arg = a + b + 3 /\ a + b + 3 \in 1 .. Len(e) + 1 /\ (a + 1) + 1 = a + 2
        /\ jz.arg \in Int /\ ~(a + b + 3 <= a + 1)
    BY <1>n, <1>4
  <2>. QED  BY <1>1, <1>7, <1>8, <2>1 DEF Sure, JumpOps, Mixes
<1>12. Sure(e, M, a + b + 2)
  <2>1. /\ (a + b + 2) + jmp.arg = 1 /\ 1 \in 1 .. Len(e) + 1 /\ jmp.arg \in Int
        /\ (a + b + 2) + 1 = a + b + 3
    BY <1>1, <1>4
  <2>2. e[1].op = "S_CLEAR"
    BY <1>1, <1>4
  <2>3. \E j \in 1 .. (a + b + 2) - 1 : /\ e[j].op \in JumpOps /\ e[j].arg \in Int
                                        /\ j + e[j].arg = (a + b + 2) + 1
    <3>1. /\ a + 1 \in 1 .. (a + b + 2) - 1 /\ jz.arg \in Int
          /\ (a + 1) + jz.arg = (a + b + 2) + 1
      BY <1>n, <1>4
    <3>2. jz.op \in JumpOps
      BY DEF JumpOps
    <3>. QED  BY <1>1, <3>1, <3>2
  <2>. QED  BY <1>1, <1>7, <2>1, <2>2, <2>3 DEF Sure, JumpOps
<1>13. ASSUME NEW i \in 1 .. Len(e)  PROVE Sure(e, M, i)
  <2>1. CASE i <= a
    <3>1. i \in 1 .. a /\ i + 0 = i
      BY <1>1, <2>1
    <3>. QED  BY <1>9, <3>1
  <2>2. CASE i = a + 1
    BY <1>11, <2>2
  <2>3. CASE i = a + b + 2
    BY <1>12, <2>3
  <2>4. CASE ~(i <= a) /\ i # a + 1 /\ i # a + b + 2
    <3>1. i - (a + 1) \in 1 .. b /\ (i - (a + 1)) + (a + 1) = i
      BY <1>1, <2>4
    <3>2. Sure(e, M, (i - (a + 1)) + (a + 1))
      BY <1>10, <3>1
    <3>. QED  BY <3>1, <3>2
  <2>. QED  BY <2>1, <2>2, <2>3, <2>4
<1>. QED  BY <1>1, <1>7, <1>13 DEF Tidy, e

\* A jump back to the front of a piece of code.
LEMMA TidyBack ==
  ASSUME NEW c, Starts(c), Tidy(c, FALSE, FALSE), NEW op \in JumpOps, op # "jmp"
  PROVE  Tidy(c \o Code!I(op, -Len(c)), FALSE, FALSE)
<1>. DEFINE a == Len(c)
            in == [op |-> op, arg |-> -a]
            e == c \o <<in>>
<1>0. c \in Seq(Written) /\ a \in Nat /\ a > 0 /\ c[1].op = "S_CLEAR"
  BY LenProperties DEF Tidy, Starts
<1>1. in \in Written /\ in.op = op /\ in.arg = -a /\ Code!I(op, -Len(c)) = <<in>>
  <2>1. op \in Ops /\ -a \in Int
    BY <1>0 DEF JumpOps, Ops
  <2>. QED  BY <2>1, WrittenFacts DEF Code!I
<1>. HIDE DEF in
<1>2. /\ e \in Seq(Written) /\ Len(e) = a + 1 /\ e[a + 1] = in
      /\ \A i \in 1 .. a : e[i] = c[i]
  BY <1>0, <1>1, OneMore
<1>3. PICK B \in SUBSET (1 .. a + 1) : 1 \notin B /\ \A i \in 1 .. a : Sure(c, B, i)
  BY DEF Tidy
<1>. DEFINE M == B \ {a + 1}
<1>. HIDE DEF a, e
<1>4. /\ M \in SUBSET (1 .. Len(e) + 1) /\ 1 \notin M /\ a + 1 \notin M /\ a + 2 \notin M
      /\ \A i \in 1 .. a : i \in M <=> i \in B
  <2>1. 1 .. a + 1 \subseteq 1 .. Len(e) + 1 /\ a + 2 \notin 1 .. a + 1 /\ \A i \in 1 .. a : i # a + 1
    BY <1>0, <1>2
  <2>. QED  BY <1>3, <2>1
<1>. HIDE DEF M
<1>5. ASSUME NEW i \in 1 .. a  PROVE Sure(e, M, i + 0)
  <2>1. 0 + a <= Len(e) /\ a + 1 + 0 = a + 1 /\ 0 \in Nat /\ \A j \in 1 .. a : j + 0 = j
    BY <1>0, <1>2
  <2>2. \A j \in 1 .. a : e[j + 0] = c[j] /\ (j + 0 \in M <=> j \in B)
    BY <1>2, <1>4, <2>1
  <2>3. a + 1 + 0 \in M => a + 1 \in B
    BY <1>4, <2>1
  <2>. QED  BY <1>0, <1>2, <1>3, <2>1, <2>2, <2>3, SureShift DEF a
<1>6. Sure(e, M, a + 1)
  <2>1. (a + 1) + in.arg = 1 /\ 1 \in 1 .. Len(e) + 1 /\ in.arg \in Int /\ (a + 1) + 1 = a + 2
        /\ 1 \in 1 .. a
    BY <1>0, <1>1, <1>2
  <2>2. op # "S_CLEAR" /\ op # "RS_GET" /\ op # "init_gather"
    BY DEF JumpOps
  <2>3. e[1].op = "S_CLEAR"
    BY <1>0, <1>2, <2>1
  <2>. QED  BY <1>1, <1>2, <1>4, <2>1, <2>2, <2>3 DEF Sure
<1>7. ASSUME NEW i \in 1 .. Len(e)  PROVE Sure(e, M, i)
  <2>1. CASE i = a + 1
    BY <1>6, <2>1
  <2>2. CASE i # a + 1
    <3>1. i \in 1 .. a /\ i + 0 = i
      BY <1>0, <1>2, <2>2
    <3>. QED  BY <1>5, <3>1
  <2>. QED  BY <2>1, <2>2
<1>. QED  BY <1>1, <1>2, <1>4, <1>7 DEF Tidy, e

\* More may be sure in front of a piece of code and less behind it.
LEMMA TidyWeaker ==
  ASSUME NEW c, NEW x \in BOOLEAN, NEW y \in BOOLEAN, NEW v \in BOOLEAN, NEW w \in BOOLEAN,
         Tidy(c, x, y), x => v, w => y
  PROVE  Tidy(c, v, w)
BY DEF Tidy

\* One instruction as the code generator writes it.
LEMMA TidyMark ==
  ASSUME NEW op \in Ops \ (JumpOps \cup {"init_gather"}), NEW arg \in Int,
         NEW x \in BOOLEAN, NEW y \in BOOLEAN,
         op = "RS_GET" => x,
         y => op \in Confines \/ (x /\ op \notin Mixes /\ op # "S_CLEAR")
  PROVE  Tidy(Code!I(op, arg), x, y)
<1>. DEFINE in == [op |-> op, arg |-> arg]
<1>1. in \in Written /\ Code!I(op, arg) = <<in>> /\ in.op = op
  BY WrittenFacts
<1>. HIDE DEF in
<1>. QED  BY <1>1, TidyOne

\* The instructions that the code of the statements is made of.
LEMMA TidyMarks ==
  /\ Tidy(Code!I("S_CLEAR", 0), FALSE, TRUE)
  /\ Tidy(Code!I("RS_PUSH", 0), TRUE, TRUE) /\ Tidy(Code!I("RS_PUSH", 0), FALSE, FALSE)
  /\ Tidy(Code!I("RS_GET", 0), TRUE, TRUE)
  /\ Tidy(Code!I("RS_INVERSE", 0), FALSE, FALSE)
  /\ Tidy(Code!I("RS_POP", 0), FALSE, FALSE)
  /\ \A arg \in Int : /\ Tidy(Code!I("S_GET", arg), TRUE, TRUE)
                      /\ Tidy(Code!I("illuminance", arg), TRUE, TRUE)
                      /\ Tidy(Code!I("illuminate", arg), TRUE, TRUE)
                      /\ Tidy(Code!I("solar", arg), TRUE, TRUE)
                      /\ Tidy(Code!I("gather", arg), TRUE, TRUE)
                      /\ Tidy(Code!I("do", arg), FALSE, FALSE)
<1>0. 0 \in Int /\ TRUE \in BOOLEAN /\ FALSE \in BOOLEAN
  OBVIOUS
<1>. DEFINE Straight == Ops \ (JumpOps \cup {"init_gather"})
            Keep == Straight \ (Mixes \cup {"S_CLEAR"})
<1>1. "S_CLEAR" \in Straight /\ "S_CLEAR" \in Confines /\ "S_CLEAR" # "RS_GET"
  BY DEF Ops, JumpOps, Confines
<1>2. {"RS_PUSH", "RS_GET", "S_GET", "illuminance", "illuminate", "solar", "gather"} \subseteq Keep
  BY DEF Ops, JumpOps, Mixes
<1>3. {"RS_PUSH", "RS_INVERSE", "RS_POP", "do"} \subseteq Straight \ {"RS_GET"}
  BY DEF Ops, JumpOps
<1>4. \A op \in Keep, arg \in Int : Tidy(Code!I(op, arg), TRUE, TRUE)
  BY <1>0, TidyMark
<1>5. \A op \in Straight \ {"RS_GET"}, arg \in Int : Tidy(Code!I(op, arg), FALSE, FALSE)
  BY <1>0, TidyMark
<1>6. Tidy(Code!I("S_CLEAR", 0), FALSE, TRUE)
  BY <1>0, <1>1, TidyMark
<1>. HIDE DEF Straight, Keep
<1>. QED  BY <1>0, <1>2, <1>3, <1>4, <1>5, <1>6

\* An expression leaves the current state where it is, or within the running state.
LEMMA TidyExpression ==
  ASSUME NEW s \in Statements, NEW x \in BOOLEAN  PROVE Tidy(Code!Expression(s.args), x, x)
<1>. DEFINE E == Code!Expression(s.args)
            n == Len(E)
            B == IF x THEN 1 .. n + 1 ELSE {}
<1>1. s.args \in Seq(Scalar!Expressions)
  BY StatementsAreItems
<1>2. /\ Len(s.args) \in Nat /\ DOMAIN s.args = 1 .. Len(s.args)
      /\ \A i \in 1 .. Len(s.args) : s.args[i] \in {"choice", "diffuse"}
  BY <1>1, LenProperties, ElementOfSeq DEF Scalar!Expressions
<1>3. E \in Seq(Written) /\ n \in Nat /\ DOMAIN E = 1 .. n
  BY WrittenFacts, LenProperties
<1>4. \A i \in 1 .. n : E[i].op \in {"choice", "diffuse"}
  <2>1. E = [i \in DOMAIN s.args |-> [op |-> s.args[i], arg |-> 0]]
    BY DEF Code!Expression
  <2>2. DOMAIN E = DOMAIN s.args /\ \A i \in DOMAIN s.args : E[i].op = s.args[i]
    BY <2>1
  <2>. QED  BY <1>2, <1>3, <2>2
<1>. HIDE DEF E, n
<1>5. /\ B \in SUBSET (1 .. n + 1) /\ (1 \in B => x) /\ (x => n + 1 \in B)
      /\ \A i \in 1 .. n : i + 1 \in B => i \in B
  <2>1. n + 1 \in 1 .. n + 1 /\ \A i \in 1 .. n : i \in 1 .. n + 1
    BY <1>3
  <2>. QED  BY <2>1
<1>. HIDE DEF B
<1>6. ASSUME NEW i \in 1 .. n  PROVE Sure(E, B, i)
  <2>1. /\ E[i].op \notin JumpOps /\ E[i].op \notin Mixes /\ E[i].op # "S_CLEAR"
        /\ E[i].op # "RS_GET" /\ E[i].op # "jmp" /\ E[i].op # "init_gather"
    BY <1>4 DEF JumpOps, Mixes
  <2>. QED  BY <1>5, <2>1 DEF Sure
<1>. QED  BY <1>3, <1>5, <1>6 DEF Tidy, E, n

\* The code of a list is tidy when that of each statement is.
LEMMA TidyAll ==
  ASSUME NEW stmts \in Seq(Statements), NEW depths \in Depths,
         \A i \in 1 .. Len(stmts) : Tidy(Code!Visit[<<stmts[i], depths>>], FALSE, FALSE)
  PROVE  Tidy(Code!VisitAll(Code!Visit, stmts, depths), FALSE, FALSE)
<1>. DEFINE K == Len(stmts)
            written(i) == Code!Visit[<<stmts[i], depths>>]
<1>1. K \in Nat
  BY LenProperties
<1>2. \A i \in 1 .. K : written(i) \in Seq(Written)
  BY DEF Tidy
<1>3. PICK P \in [0 .. K -> Seq(Written)] :
        /\ P[0] = <<>> /\ Code!VisitAll(Code!Visit, stmts, depths) = P[K]
        /\ \A i \in 1 .. K : P[i] = P[i - 1] \o written(i)
  BY <1>2, VisitAllFacts
<1>. HIDE DEF K, written
<1>. DEFINE S == {i \in Nat : i \in 0 .. K => Tidy(P[i], FALSE, FALSE)}
<1>4. 0 \in S
  BY <1>3, TidyNone
<1>5. ASSUME NEW i \in Nat, i \in S  PROVE i + 1 \in S
  <2>0. i + 1 \in Nat
    OBVIOUS
  <2>. SUFFICES ASSUME i + 1 \in 0 .. K  PROVE Tidy(P[i + 1], FALSE, FALSE)
    BY <2>0, Zenon
  <2>1. i + 1 \in 1 .. K /\ i \in 0 .. K /\ (i + 1) - 1 = i
    BY <1>1
  <2>2. P[i + 1] = P[i] \o written(i + 1)
    BY <1>3, <2>1
  <2>3. Tidy(P[i], FALSE, FALSE)
    BY <1>5, <2>1
  <2>4. Tidy(written(i + 1), FALSE, FALSE)
    BY <2>1 DEF K, written
  <2>. QED  BY <2>2, <2>3, <2>4, TidyThen
<1>. HIDE DEF S
<1>6. \A i \in Nat : i \in S
  BY <1>4, <1>5, Steps
<1>7. K \in 0 .. K
  BY <1>1
<1>8. Tidy(P[K], FALSE, FALSE)
  BY <1>1, <1>6, <1>7 DEF S
<1>. QED  BY <1>3, <1>8

\* Pieces of code may be put together in any order of grouping.
LEMMA WrittenAssociates ==
  ASSUME NEW a \in Seq(Written), NEW b \in Seq(Written), NEW c \in Seq(Written)
  PROVE  (a \o b) \o c = a \o (b \o c)
BY ConcatAssociative, SMTT(30)

\* A piece of code that is jumped over, behind another.
LEMMA TidyOverThen ==
  ASSUME NEW w, NEW x \in BOOLEAN, NEW y \in BOOLEAN, Tidy(w, x, y),
         NEW op \in JumpOps, op # "jmp", NEW c, Tidy(c, y, FALSE)
  PROVE  Tidy(w \o Code!I(op, Len(c) + 1) \o c, x, FALSE)
<1>. DEFINE J == Code!I(op, Len(c) + 1)
<1>1. w \in Seq(Written) /\ c \in Seq(Written)
  BY DEF Tidy
<1>2. J \in Seq(Written)
  <2>1. Len(c) + 1 \in Int /\ op \in Ops
    BY <1>1, LenProperties DEF JumpOps, Ops
  <2>. QED  BY <2>1, WrittenFacts
<1>3. Tidy(J \o c, y, FALSE)
  BY TidyOver
<1>. HIDE DEF J
<1>4. Tidy(w \o (J \o c), x, FALSE)
  BY <1>3, TidyThen
<1>5. (w \o J) \o c = w \o (J \o c)
  BY <1>1, <1>2, WrittenAssociates
<1>. QED  BY <1>4, <1>5 DEF J

\* A longer piece of code starts as its first part does.
LEMMA StartsThen ==
  ASSUME NEW c, Starts(c), NEW d \in Seq(Written)  PROVE Starts(c \o d)
<1>1. c \in Seq(Written) /\ Len(c) > 0 /\ c[1].op = "S_CLEAR"
  BY DEF Starts
<1>2. /\ c \o d \in Seq(Written) /\ Len(c) \in Nat /\ Len(d) \in Nat
      /\ Len(c \o d) = Len(c) + Len(d) /\ \A i \in 1 .. Len(c) : (c \o d)[i] = c[i]
  BY <1>1, Joined
<1>3. 1 \in 1 .. Len(c) /\ Len(c) + Len(d) > 0
  BY <1>1, <1>2
<1>4. (c \o d)[1] = c[1]
  BY <1>2, <1>3
<1>. QED  BY <1>1, <1>2, <1>3, <1>4 DEF Starts

\* What the points in the current state run.
Masking(T) == Code!I("RS_PUSH", 0) \o Code!I("RS_GET", 0) \o T \o Code!I("RS_POP", 0)

\* A piece of code for the points in the current state.
LEMMA TidyMasking ==
  ASSUME NEW T, Tidy(T, FALSE, FALSE)  PROVE Tidy(Masking(T), TRUE, FALSE)
<1>. DEFINE a == Code!I("RS_PUSH", 0) \o Code!I("RS_GET", 0)
            b == a \o T
<1>0. TRUE \in BOOLEAN /\ FALSE \in BOOLEAN
  OBVIOUS
<1>1. Tidy(a, TRUE, TRUE)
  BY <1>0, TidyMarks, TidyThen
<1>2. Tidy(a, TRUE, FALSE)
  BY <1>0, <1>1, TidyWeaker
<1>. HIDE DEF a
<1>3. Tidy(b, TRUE, FALSE)
  BY <1>0, <1>2, TidyThen
<1>. HIDE DEF b
<1>4. Tidy(b \o Code!I("RS_POP", 0), TRUE, FALSE)
  BY <1>0, <1>3, TidyMarks, TidyThen
<1>. QED  BY <1>4 DEF Masking, a, b

\* The two sides of a branch.
LEMMA TidyBranch ==
  ASSUME NEW w, Tidy(w, FALSE, TRUE), NEW T, Tidy(T, FALSE, FALSE), NEW F, Tidy(F, FALSE, FALSE)
  PROVE  Tidy(w \o Code!I("RS_PUSH", 0) \o Code!I("RS_GET", 0)
                \o Code!I("RS_JZ", Len(T) + 1) \o T
                \o (IF F = <<>> THEN <<>>
                    ELSE Code!I("RS_INVERSE", 0) \o Code!I("RS_JZ", Len(F) + 1) \o F)
                \o Code!I("RS_POP", 0), FALSE, FALSE)
<1>. DEFINE a == w \o Code!I("RS_PUSH", 0)
            b == a \o Code!I("RS_GET", 0)
            c == b \o Code!I("RS_JZ", Len(T) + 1) \o T
            o == Code!I("RS_INVERSE", 0) \o Code!I("RS_JZ", Len(F) + 1) \o F
            d == IF F = <<>> THEN <<>> ELSE o
            e == c \o d
<1>0. TRUE \in BOOLEAN /\ FALSE \in BOOLEAN
  OBVIOUS
<1>n. "RS_JZ" \in JumpOps /\ "RS_JZ" # "jmp"
  BY DEF JumpOps
<1>1. Tidy(a, FALSE, TRUE)
  BY <1>0, TidyMarks, TidyThen
<1>. HIDE DEF a
<1>2. Tidy(b, FALSE, TRUE)
  BY <1>0, <1>1, TidyMarks, TidyThen
<1>. HIDE DEF b
<1>3. Tidy(T, TRUE, FALSE)
  BY <1>0, TidyWeaker
<1>4. Tidy(c, FALSE, FALSE)
  BY <1>0, <1>n, <1>2, <1>3, TidyOverThen
<1>. HIDE DEF c
<1>5. Tidy(d, FALSE, FALSE)
  <2>1. Tidy(<<>>, FALSE, FALSE)
    BY <1>0, TidyNone
  <2>2. Tidy(o, FALSE, FALSE)
    BY <1>0, <1>n, TidyMarks, TidyOverThen
  <2>. HIDE DEF o
  <2>. QED  BY <2>1, <2>2
<1>. HIDE DEF d
<1>6. Tidy(e, FALSE, FALSE)
  BY <1>0, <1>4, <1>5, TidyThen
<1>. HIDE DEF e
<1>7. Tidy(e \o Code!I("RS_POP", 0), FALSE, FALSE)
  BY <1>0, <1>6, TidyMarks, TidyThen
<1>. QED  BY <1>7 DEF a, b, c, o, d, e

\* S_CLEAR starts so.
LEMMA StartsHere == Starts(Code!I("S_CLEAR", 0))
<1>. DEFINE in == [op |-> "S_CLEAR", arg |-> 0]
<1>1. in \in Written /\ Code!I("S_CLEAR", 0) = <<in>> /\ in.op = "S_CLEAR"
  BY WrittenFacts DEF Ops
<1>. HIDE DEF in
<1>. DEFINE one == <<in>>
<1>2. one \in Seq(Written) /\ Len(one) = 1 /\ one[1] = in
  BY <1>1
<1>3. Code!I("S_CLEAR", 0) = one
  BY <1>1
<1>. HIDE DEF one
<1>4. Starts(one)
  BY <1>1, <1>2 DEF Starts
<1>. QED  BY <1>3, <1>4

\* The code in front of a test.
LEMMA TidyTest ==
  ASSUME NEW s \in Statements, NEW op \in {"S_GET", "illuminance"}
  PROVE  /\ Tidy(Code!I("S_CLEAR", 0) \o Code!Expression(s.args) \o Code!I(op, s.id), FALSE, TRUE)
         /\ Starts(Code!I("S_CLEAR", 0) \o Code!Expression(s.args) \o Code!I(op, s.id))
<1>. DEFINE a == Code!I("S_CLEAR", 0) \o Code!Expression(s.args)
<1>0. TRUE \in BOOLEAN /\ FALSE \in BOOLEAN /\ s.id \in Int
  BY StatementsAreItems
<1>1. Tidy(Code!Expression(s.args), TRUE, TRUE)
  BY <1>0, TidyExpression
<1>2. Tidy(a, FALSE, TRUE)
  BY <1>0, <1>1, TidyMarks, TidyThen
<1>3. Starts(a)
  BY <1>1, StartsHere, StartsThen DEF Tidy
<1>. HIDE DEF a
<1>4. Tidy(Code!I(op, s.id), TRUE, TRUE)
  BY <1>0, TidyMarks
<1>5. Tidy(a \o Code!I(op, s.id), FALSE, TRUE)
  BY <1>0, <1>2, <1>4, TidyThen
<1>6. Starts(a \o Code!I(op, s.id))
  BY <1>3, <1>4, StartsThen DEF Tidy
<1>. QED  BY <1>5, <1>6 DEF a

\* A test and the body of its loop.
LEMMA TidyRepeat ==
  ASSUME NEW c, NEW d, Starts(c), Tidy(c, FALSE, TRUE), Tidy(d, TRUE, FALSE)
  PROVE  Tidy(c \o Code!I("S_JZ", Len(d) + 2) \o d \o Code!I("jmp", -(Len(c) + Len(d) + 1)),
              FALSE, FALSE)
<1>. DEFINE jz == [op |-> "S_JZ", arg |-> Len(d) + 2]
            jmp == [op |-> "jmp", arg |-> -(Len(c) + Len(d) + 1)]
<1>0. Len(c) \in Nat /\ Len(d) \in Nat
  BY LenProperties DEF Tidy
<1>1. jz \in Written /\ Code!I("S_JZ", Len(d) + 2) = <<jz>>
  <2>1. Len(d) + 2 \in Int /\ "S_JZ" \in Ops
    BY <1>0 DEF Ops
  <2>. QED  BY <2>1, WrittenFacts
<1>2. jmp \in Written /\ Code!I("jmp", -(Len(c) + Len(d) + 1)) = <<jmp>>
  <2>1. -(Len(c) + Len(d) + 1) \in Int /\ "jmp" \in Ops
    BY <1>0 DEF Ops
  <2>. QED  BY <2>1, WrittenFacts
<1>3. jz.op = "S_JZ" /\ jz.arg = Len(d) + 2 /\ jmp.op = "jmp" /\ jmp.arg = -(Len(c) + Len(d) + 1)
  OBVIOUS
<1>. HIDE DEF jz, jmp
<1>. QED  BY <1>1, <1>2, <1>3, TidyLoop

\* All the parts of a statement, in whatever loops, are tidy.
TidyParts(s) ==
  \A d \in Depths : /\ Tidy(Code!VisitAll(Code!Visit, s.body, d), FALSE, FALSE)
                    /\ Tidy(Code!VisitAll(Code!Visit, s.other, d), FALSE, FALSE)

\* if.
LEMMA TidyIf ==
  ASSUME NEW s \in Statements, NEW depths \in Depths, TidyParts(s)
  PROVE  Tidy(Code!VisitConditional(Code!Visit, s, depths), FALSE, FALSE)
<1>. DEFINE T == Code!VisitAll(Code!Visit, s.body, Code!Pushed(depths))
            F == Code!VisitAll(Code!Visit, s.other, Code!Pushed(depths))
            w == Code!I("S_CLEAR", 0) \o Code!Expression(s.args) \o Code!I("S_GET", s.id)
<1>1. Tidy(T, FALSE, FALSE) /\ Tidy(F, FALSE, FALSE)
  BY SumPushed DEF TidyParts
<1>2. Tidy(w, FALSE, TRUE)
  BY TidyTest
<1>3. Code!VisitConditional(Code!Visit, s, depths)
        = w \o Code!I("RS_PUSH", 0) \o Code!I("RS_GET", 0) \o Code!I("RS_JZ", Len(T) + 1) \o T
            \o (IF F = <<>> THEN <<>>
                ELSE Code!I("RS_INVERSE", 0) \o Code!I("RS_JZ", Len(F) + 1) \o F)
            \o Code!I("RS_POP", 0)
  BY DEF Code!VisitConditional
<1>. HIDE DEF T, F, w
<1>. QED  BY <1>1, <1>2, <1>3, TidyBranch

\* A conditional expression.
LEMMA TidyPick ==
  ASSUME NEW s \in Statements, NEW depths \in Depths, TidyParts(s)
  PROVE  Tidy(Code!VisitConditionalExpression(Code!Visit, s, depths), FALSE, FALSE)
<1>. DEFINE T == Code!VisitAll(Code!Visit, s.body, Code!Pushed(depths))
            F == Code!VisitAll(Code!Visit, s.other, Code!Pushed(depths))
            a == Code!I("S_CLEAR", 0) \o Code!I("S_GET", s.id)
            b == a \o Code!I("RS_PUSH", 0)
            c == b \o Code!I("RS_GET", 0)
            d == c \o T
            e == d \o Code!I("RS_INVERSE", 0)
            f == e \o F
<1>0. TRUE \in BOOLEAN /\ FALSE \in BOOLEAN /\ s.id \in Int
  BY StatementsAreItems
<1>1. Tidy(T, FALSE, FALSE) /\ Tidy(F, FALSE, FALSE)
  BY SumPushed DEF TidyParts
<1>2. Code!VisitConditionalExpression(Code!Visit, s, depths) = f \o Code!I("RS_POP", 0)
  BY DEF Code!VisitConditionalExpression
<1>. HIDE DEF T, F
<1>3. Tidy(a, FALSE, TRUE)
  BY <1>0, TidyMarks, TidyThen
<1>. HIDE DEF a
<1>4. Tidy(b, FALSE, TRUE)
  BY <1>0, <1>3, TidyMarks, TidyThen
<1>. HIDE DEF b
<1>5. Tidy(c, FALSE, TRUE)
  BY <1>0, <1>4, TidyMarks, TidyThen
<1>6. Tidy(c, FALSE, FALSE)
  BY <1>0, <1>5, TidyWeaker
<1>. HIDE DEF c
<1>7. Tidy(d, FALSE, FALSE)
  BY <1>0, <1>1, <1>6, TidyThen
<1>. HIDE DEF d
<1>8. Tidy(e, FALSE, FALSE)
  BY <1>0, <1>7, TidyMarks, TidyThen
<1>. HIDE DEF e
<1>9. Tidy(f, FALSE, FALSE)
  BY <1>0, <1>1, <1>8, TidyThen
<1>. HIDE DEF f
<1>10. Tidy(f \o Code!I("RS_POP", 0), FALSE, FALSE)
  BY <1>0, <1>9, TidyMarks, TidyThen
<1>. QED  BY <1>2, <1>10

\* while.
LEMMA TidyWhile ==
  ASSUME NEW s \in Statements, NEW depths \in Depths, TidyParts(s)
  PROVE  Tidy(Code!VisitWhileConstruct(Code!Visit, s, depths), FALSE, FALSE)
<1>. DEFINE inner == Append(Code!Pushed(depths), 0)
            T == Code!VisitAll(Code!Visit, s.body, Code!Pushed(inner))
            F == Code!VisitAll(Code!Visit, s.other, inner)
            cond == Code!I("S_CLEAR", 0) \o Code!Expression(s.args) \o Code!I("S_GET", s.id)
            a == Code!I("RS_GET", 0) \o Code!I("RS_PUSH", 0)
            b == a \o T
            c == b \o Code!I("RS_POP", 0)
            body == c \o F
            jz == Code!I("S_JZ", Len(body) + 2)
            jmp == Code!I("jmp", -(Len(cond) + Len(body) + 1))
            loop == cond \o jz \o body \o jmp
<1>0. TRUE \in BOOLEAN /\ FALSE \in BOOLEAN
  OBVIOUS
<1>1. Tidy(T, FALSE, FALSE) /\ Tidy(F, FALSE, FALSE)
  <2>1. inner \in Depths
    <3>1. Code!Pushed(depths) \in Depths
      BY SumPushed
    <3>. QED  BY <3>1, SumInner
  <2>. HIDE DEF inner
  <2>. QED  BY <2>1, SumPushed DEF TidyParts
<1>2. Code!VisitWhileConstruct(Code!Visit, s, depths)
        = Code!I("RS_PUSH", 0) \o cond \o jz \o body \o jmp \o Code!I("RS_POP", 0)
  BY DEF Code!VisitWhileConstruct
<1>. HIDE DEF inner, T, F
<1>3. Tidy(cond, FALSE, TRUE) /\ Starts(cond)
  BY TidyTest
<1>. HIDE DEF cond
<1>4. Tidy(a, TRUE, TRUE)
  BY <1>0, TidyMarks, TidyThen
<1>5. Tidy(a, TRUE, FALSE)
  BY <1>0, <1>4, TidyWeaker
<1>. HIDE DEF a
<1>6. Tidy(b, TRUE, FALSE)
  BY <1>0, <1>1, <1>5, TidyThen
<1>. HIDE DEF b
<1>7. Tidy(c, TRUE, FALSE)
  BY <1>0, <1>6, TidyMarks, TidyThen
<1>. HIDE DEF c
<1>8. Tidy(body, TRUE, FALSE)
  BY <1>0, <1>1, <1>7, TidyThen
<1>. HIDE DEF body
<1>9. Tidy(loop, FALSE, FALSE)
  BY <1>3, <1>8, TidyRepeat
<1>10. Tidy(Code!I("RS_PUSH", 0) \o loop, FALSE, FALSE)
  <2>. HIDE DEF loop
  <2>. QED  BY <1>0, <1>9, TidyMarks, TidyThen
<1>11. Code!I("RS_PUSH", 0) \o cond \o jz \o body \o jmp = Code!I("RS_PUSH", 0) \o loop
  <2>1. /\ cond \in Seq(Written) /\ body \in Seq(Written) /\ Code!I("RS_PUSH", 0) \in Seq(Written)
        /\ Len(cond) \in Nat /\ Len(body) \in Nat
    BY <1>3, <1>8, TidyMarks, LenProperties DEF Tidy
  <2>2. jz \in Seq(Written) /\ jmp \in Seq(Written)
    <3>1. Len(body) + 2 \in Int /\ -(Len(cond) + Len(body) + 1) \in Int
          /\ "S_JZ" \in Ops /\ "jmp" \in Ops
      BY <2>1 DEF Ops
    <3>. QED  BY <3>1, WrittenFacts
  <2>. HIDE DEF jz, jmp
  <2>3. cond \o jz \in Seq(Written) /\ cond \o jz \o body \in Seq(Written)
    BY <2>1, <2>2, ConcatProperties
  <2>. DEFINE p == Code!I("RS_PUSH", 0)
  <2>. HIDE DEF p
  <2>4. /\ (p \o cond) \o jz = p \o (cond \o jz)
        /\ (p \o (cond \o jz)) \o body = p \o (cond \o jz \o body)
        /\ (p \o (cond \o jz \o body)) \o jmp = p \o (cond \o jz \o body \o jmp)
    <3>1. p \in Seq(Written)
      BY <2>1 DEF p
    <3>2. (p \o cond) \o jz = p \o (cond \o jz)
      BY <2>1, <2>2, <3>1, WrittenAssociates
    <3>3. (p \o (cond \o jz)) \o body = p \o (cond \o jz \o body)
      BY <2>1, <2>3, <3>1, WrittenAssociates
    <3>4. (p \o (cond \o jz \o body)) \o jmp = p \o (cond \o jz \o body \o jmp)
      BY <2>2, <2>3, <3>1, WrittenAssociates
    <3>. QED  BY <3>2, <3>3, <3>4
  <2>. QED  BY <2>4 DEF p
<1>. HIDE DEF loop, jz, jmp
<1>12. Tidy((Code!I("RS_PUSH", 0) \o loop) \o Code!I("RS_POP", 0), FALSE, FALSE)
  BY <1>0, <1>10, TidyMarks, TidyThen
<1>. QED  BY <1>2, <1>11, <1>12

\* illuminate and solar.
LEMMA TidyShine ==
  ASSUME NEW s \in Statements, NEW depths \in Depths, TidyParts(s), s.k \in {"illuminate", "solar"}
  PROVE  Tidy(Code!VisitIlluminateConstruct(Code!Visit, s, depths), FALSE, FALSE)
<1>. DEFINE T == Code!VisitAll(Code!Visit, s.body, Code!Pushed(depths))
            body == Masking(T)
            cond == Code!I("S_CLEAR", 0) \o Code!I(s.k, s.id)
            loop == cond \o Code!I("S_JZ", Len(body) + 2) \o body
                      \o Code!I("jmp", -(Len(cond) + Len(body) + 1))
<1>0. TRUE \in BOOLEAN /\ FALSE \in BOOLEAN /\ s.id \in Int
  BY StatementsAreItems
<1>1. Tidy(T, FALSE, FALSE)
  BY SumPushed DEF TidyParts
<1>2. Code!VisitIlluminateConstruct(Code!Visit, s, depths)
        = Code!I("S_CLEAR", 0) \o Code!I(s.k, s.id) \o Code!I("S_JZ", Len(body) + 2) \o body
            \o Code!I("jmp", -(Len(body) + 3))
  BY DEF Code!VisitIlluminateConstruct, Masking
<1>. HIDE DEF T
<1>3. Tidy(body, TRUE, FALSE)
  BY <1>1, TidyMasking
<1>. HIDE DEF body
<1>4. Tidy(Code!I(s.k, s.id), TRUE, TRUE)
  BY <1>0, TidyMarks
<1>5. Tidy(cond, FALSE, TRUE)
  BY <1>0, <1>4, TidyMarks, TidyThen
<1>6. Starts(cond)
  BY <1>4, StartsHere, StartsThen DEF Tidy
<1>7. Len(cond) = 2 /\ Len(body) \in Nat
  <2>. DEFINE x == [op |-> "S_CLEAR", arg |-> 0]
              y == [op |-> s.k, arg |-> s.id]
  <2>1. cond = <<x>> \o <<y>>
    BY DEF Code!I
  <2>. HIDE DEF x, y, cond
  <2>. QED  BY <1>3, <2>1, LenProperties DEF Tidy
<1>8. Len(cond) + Len(body) + 1 = Len(body) + 3
  BY <1>7
<1>9. Tidy(loop, FALSE, FALSE)
  <2>. HIDE DEF cond
  <2>. QED  BY <1>3, <1>5, <1>6, TidyRepeat
<1>10. Code!VisitIlluminateConstruct(Code!Visit, s, depths) = loop
  <2>. HIDE DEF body
  <2>. QED  BY <1>2, <1>8
<1>. HIDE DEF loop
<1>. QED  BY <1>9, <1>10

\* A loop that is entered and left by instructions that count.
LEMMA TidyCounted ==
  ASSUME NEW w, Tidy(w, FALSE, FALSE), NEW c, Starts(c), Tidy(c, FALSE, FALSE),
         NEW op \in JumpOps, op # "jmp"
  PROVE  Tidy(w \o c \o Code!I(op, -Len(c)), FALSE, FALSE)
<1>. DEFINE J == Code!I(op, -Len(c))
<1>1. w \in Seq(Written) /\ c \in Seq(Written)
  BY DEF Tidy
<1>2. J \in Seq(Written)
  <2>1. -Len(c) \in Int /\ op \in Ops
    BY <1>1, LenProperties DEF JumpOps, Ops
  <2>. QED  BY <2>1, WrittenFacts
<1>3. Tidy(c \o J, FALSE, FALSE)
  BY TidyBack
<1>. HIDE DEF J
<1>4. Tidy(w \o (c \o J), FALSE, FALSE)
  BY <1>3, TidyThen
<1>5. (w \o c) \o J = w \o (c \o J)
  BY <1>1, <1>2, WrittenAssociates
<1>. QED  BY <1>4, <1>5 DEF J

\* illuminance.
LEMMA TidyIlluminance ==
  ASSUME NEW s \in Statements, NEW depths \in Depths, TidyParts(s)
  PROVE  Tidy(Code!VisitIlluminanceConstruct(Code!Visit, s, depths), FALSE, FALSE)
<1>. DEFINE T == Code!VisitAll(Code!Visit, s.body, Code!Pushed(depths))
            E == Code!Expression(s.args)
            body == Masking(T)
            cond == Code!I("S_CLEAR", 0) \o E \o Code!I("illuminance", s.id)
            loop == cond \o Code!I("S_JZ", Len(body) + 1) \o body
            back == Code!I("advance_illuminance", -Len(loop))
            init == Code!I("init_illuminance", Len(loop) + 2)
            rest == loop \o back
<1>0. TRUE \in BOOLEAN /\ FALSE \in BOOLEAN
  OBVIOUS
<1>n. /\ "S_JZ" \in JumpOps /\ "init_illuminance" \in JumpOps /\ "advance_illuminance" \in JumpOps
      /\ "S_JZ" # "jmp" /\ "init_illuminance" # "jmp" /\ "advance_illuminance" # "jmp"
      /\ "advance_illuminance" \in Ops /\ "init_illuminance" \in Ops
  BY DEF JumpOps, Ops
<1>1. Tidy(T, FALSE, FALSE)
  BY SumPushed DEF TidyParts
<1>2. Code!VisitIlluminanceConstruct(Code!Visit, s, depths) = E \o init \o loop \o back
  BY DEF Code!VisitIlluminanceConstruct, Masking
<1>. HIDE DEF T
<1>3. Tidy(body, TRUE, FALSE)
  BY <1>1, TidyMasking
<1>4. Tidy(cond, FALSE, TRUE) /\ Starts(cond)
  BY TidyTest
<1>5. Tidy(E, FALSE, FALSE)
  BY <1>0, TidyExpression
<1>. HIDE DEF body, cond, E
<1>6. Tidy(loop, FALSE, FALSE)
  BY <1>0, <1>n, <1>3, <1>4, TidyOverThen
<1>7. Starts(loop)
  <2>1. Code!I("S_JZ", Len(body) + 1) \in Seq(Written) /\ body \in Seq(Written)
    <3>1. body \in Seq(Written)
      BY <1>3 DEF Tidy
    <3>2. Len(body) + 1 \in Int /\ "S_JZ" \in Ops
      BY <3>1, LenProperties DEF Ops
    <3>. QED  BY <3>1, <3>2, WrittenFacts
  <2>. QED  BY <1>4, <2>1, StartsThen
<1>. HIDE DEF loop
<1>8. Tidy(rest, FALSE, FALSE)
  BY <1>n, <1>6, <1>7, TidyBack
<1>9. /\ loop \in Seq(Written) /\ E \in Seq(Written) /\ back \in Seq(Written)
      /\ init \in Seq(Written) /\ Len(rest) = Len(loop) + 1 /\ Len(loop) \in Nat
  <2>1. loop \in Seq(Written) /\ E \in Seq(Written)
    BY <1>5, <1>6 DEF Tidy
  <2>2. Len(loop) \in Nat
    BY <2>1, LenProperties
  <2>. DEFINE x == [op |-> "advance_illuminance", arg |-> -Len(loop)]
  <2>3. back = <<x>> /\ x \in Written
    <3>1. -Len(loop) \in Int
      BY <2>2
    <3>. QED  BY <1>n, <3>1, WrittenFacts
  <2>4. back \in Seq(Written) /\ init \in Seq(Written)
    <3>1. -Len(loop) \in Int /\ Len(loop) + 2 \in Int
      BY <2>2
    <3>. QED  BY <1>n, <3>1, WrittenFacts
  <2>. HIDE DEF x, back
  <2>5. Len(rest) = Len(loop) + 1
    BY <2>1, <2>3, OneMore
  <2>. QED  BY <2>1, <2>2, <2>4, <2>5
<1>10. Len(rest) + 1 = Len(loop) + 2
  BY <1>9
<1>. HIDE DEF back
<1>11. Tidy(E \o init \o rest, FALSE, FALSE)
  <2>1. Tidy(E \o Code!I("init_illuminance", Len(rest) + 1) \o rest, FALSE, FALSE)
    <3>. HIDE DEF rest
    <3>. QED  BY <1>0, <1>n, <1>5, <1>8, TidyOverThen
  <2>. QED  BY <1>10, <2>1
<1>. HIDE DEF init
<1>12. E \o init \o loop \o back = E \o init \o rest
  <2>1. E \o init \in Seq(Written)
    BY <1>9, ConcatProperties
  <2>. QED  BY <1>9, <2>1, WrittenAssociates
<1>. QED  BY <1>2, <1>11, <1>12

\* gather.
LEMMA TidyGather ==
  ASSUME NEW s \in Statements, NEW depths \in Depths, TidyParts(s), s.n < UintLimit
  PROVE  Tidy(Code!VisitGatherConstruct(Code!Visit, s, depths), FALSE, FALSE)
<1>. DEFINE T == Code!VisitAll(Code!Visit, s.body, Code!Pushed(depths))
            F == Code!VisitAll(Code!Visit, s.other, Code!Pushed(depths))
            w == Code!I("S_CLEAR", 0) \o Code!I("gather", s.id)
            p == Code!I("RS_PUSH", 0)
            g == Code!I("RS_GET", 0)
            j == Code!I("RS_JZ", Len(T) + 1)
            o == IF F = <<>> THEN <<>>
                 ELSE Code!I("RS_INVERSE", 0) \o Code!I("RS_JZ", Len(F) + 1) \o F
            q == Code!I("RS_POP", 0)
            loop == w \o p \o g \o j \o T \o o \o q
            back == Code!I("advance_gather", -Len(loop))
            init == Code!I("init_gather", s.n)
<1>0. TRUE \in BOOLEAN /\ FALSE \in BOOLEAN /\ s.id \in Int /\ s.n \in Nat
  BY StatementsAreItems
<1>n. "advance_gather" \in JumpOps /\ "advance_gather" # "jmp" /\ "RS_JZ" \in JumpOps /\ "RS_JZ" # "jmp"
  BY DEF JumpOps
<1>1. Tidy(T, FALSE, FALSE) /\ Tidy(F, FALSE, FALSE)
  BY SumPushed DEF TidyParts
<1>2. Code!VisitGatherConstruct(Code!Visit, s, depths) = init \o loop \o back
  BY DEF Code!VisitGatherConstruct
<1>. HIDE DEF T, F
<1>3. Tidy(w, FALSE, TRUE) /\ Tidy(Code!I("gather", s.id), TRUE, TRUE)
  BY <1>0, TidyMarks, TidyThen
<1>4. Starts(w)
  BY <1>3, StartsHere, StartsThen DEF Tidy
<1>. HIDE DEF w
<1>5. Tidy(loop, FALSE, FALSE)
  BY <1>1, <1>3, TidyBranch
<1>6. Tidy(init, FALSE, FALSE)
  <2>. DEFINE in == [op |-> "init_gather", arg |-> s.n]
  <2>1. in \in Written /\ init = <<in>> /\ in.op = "init_gather" /\ in.arg = s.n
    BY <1>0, WrittenFacts DEF Ops
  <2>2. s.n \in 0 .. UintLimit - 1
    BY <1>0, UintLimitNat
  <2>3. in.op \notin JumpOps /\ in.op # "RS_GET"
    BY <2>1 DEF JumpOps
  <2>. HIDE DEF in, init
  <2>. QED  BY <1>0, <2>1, <2>2, <2>3, TidyOne
<1>. HIDE DEF init
<1>7. Starts(loop)
  <2>1. p \in Seq(Written) /\ g \in Seq(Written) /\ q \in Seq(Written) /\ T \in Seq(Written)
    BY <1>1, TidyMarks DEF Tidy
  <2>2. j \in Seq(Written)
    <3>1. Len(T) + 1 \in Int /\ "RS_JZ" \in Ops
      BY <2>1, LenProperties DEF Ops
    <3>. QED  BY <3>1, WrittenFacts
  <2>3. o \in Seq(Written)
    <3>1. <<>> \in Seq(Written)
      BY EmptySeq
    <3>2. Tidy(Code!I("RS_INVERSE", 0) \o Code!I("RS_JZ", Len(F) + 1) \o F, FALSE, FALSE)
      BY <1>0, <1>n, <1>1, TidyMarks, TidyOverThen
    <3>. QED  BY <3>1, <3>2 DEF Tidy
  <2>. HIDE DEF p, g, j, o, q
  <2>4. Starts(w \o p)
    BY <1>4, <2>1, StartsThen
  <2>5. Starts(w \o p \o g)
    BY <2>1, <2>4, StartsThen
  <2>6. Starts(w \o p \o g \o j)
    BY <2>2, <2>5, StartsThen
  <2>7. Starts(w \o p \o g \o j \o T)
    BY <2>1, <2>6, StartsThen
  <2>8. Starts(w \o p \o g \o j \o T \o o)
    BY <2>3, <2>7, StartsThen
  <2>. QED  BY <2>1, <2>8, StartsThen
<1>. HIDE DEF loop
<1>8. Tidy(init \o loop \o back, FALSE, FALSE)
  BY <1>n, <1>5, <1>6, <1>7, TidyCounted
<1>. QED  BY <1>2, <1>8

\* The code of a statement is tidy when that of its parts is.
LEMMA TidyStatement ==
  ASSUME NEW s \in Statements, NEW depths \in Depths, TidyParts(s),
         s.k = "gather" => s.n < UintLimit
  PROVE  Tidy(Code!Visit[<<s, depths>>], FALSE, FALSE)
<1>0. FALSE \in BOOLEAN /\ s.id \in Int /\ s.k \in Scalar!Kinds
  BY StatementsAreItems
<1>1. Code!Visit[<<s, depths>>] = Visits(Code!Visit, s, depths)
  BY VisitDef
<1>2. CASE s.k = "do"
  <2>1. Tidy(Code!I("do", s.id), FALSE, FALSE)
    BY <1>0, TidyMarks
  <2>. QED  BY <1>1, <1>2, <2>1 DEF Visits
<1>3. CASE s.k = "if"
  BY <1>1, <1>3, TidyIf DEF Visits
<1>4. CASE s.k = "pick"
  BY <1>1, <1>4, TidyPick DEF Visits
<1>5. CASE s.k = "while"
  BY <1>1, <1>5, TidyWhile DEF Visits
<1>6. CASE s.k \in {"break", "continue"}
  <2>. DEFINE in == [op |-> "RS_BREAK",
                     arg |-> Code!SumLast(depths, s.n) - (IF s.k = "continue" THEN 1 ELSE 0)]
              c == Visits(Code!Visit, s, depths)
  <2>1. c = <<in>>
    BY <1>6 DEF Visits, Code!VisitLoopMod, Code!I
  <2>2. in.op = "RS_BREAK"
    OBVIOUS
  <2>3. in \in Written
    <3>1. c \in Seq(Written)
      BY VisitDef, VisitsTyped
    <3>. HIDE DEF c, in
    <3>2. Len(<<in>>) = 1 /\ <<in>>[1] = in
      OBVIOUS
    <3>3. Len(c) = 1 /\ c[1] = in /\ 1 \in 1 .. 1
      BY <2>1, <3>2
    <3>4. c[1] \in Written
      BY <3>1, <3>3, ElementOfSeq
    <3>. QED  BY <3>3, <3>4
  <2>4. in.op \notin JumpOps /\ in.op # "RS_GET" /\ in.op # "init_gather"
    BY <2>2 DEF JumpOps
  <2>. HIDE DEF in, c
  <2>5. Tidy(<<in>>, FALSE, FALSE)
    BY <1>0, <2>3, <2>4, TidyOne
  <2>. QED  BY <1>1, <2>1, <2>5 DEF c
<1>7. CASE s.k \in {"illuminate", "solar"}
  <2>1. Visits(Code!Visit, s, depths) = Code!VisitIlluminateConstruct(Code!Visit, s, depths)
    BY <1>7 DEF Visits, Code!VisitSolarConstruct
  <2>. QED  BY <1>1, <1>7, <2>1, TidyShine
<1>8. CASE s.k = "illuminance"
  BY <1>1, <1>8, TidyIlluminance DEF Visits
<1>9. CASE s.k = "gather"
  BY <1>1, <1>9, TidyGather DEF Visits
<1>. QED  BY <1>0, <1>2, <1>3, <1>4, <1>5, <1>6, <1>7, <1>8, <1>9 DEF Scalar!Kinds

\* The counts of the gather statements fit into a TqUint.
FewRays(stmts) == \A t \in Within(stmts) : t.k = "gather" => t.n < UintLimit

\* The code of every statement is tidy, by induction on how deeply it nests.
LEMMA TidyStatements ==
  ASSUME NEW s \in Statements, \A t \in Inside[s] : t.k = "gather" => t.n < UintLimit,
         NEW depths \in Depths
  PROVE  Tidy(Code!Visit[<<s, depths>>], FALSE, FALSE)
<1>. DEFINE Few(x) == \A t \in Inside[x] : t.k = "gather" => t.n < UintLimit
            S == {x \in Statements :
                    Few(x) => \A d \in Depths : Tidy(Code!Visit[<<x, d>>], FALSE, FALSE)}
<1>1. ASSUME NEW x \in Statements, \A y \in Statements : Height[y] < Height[x] => y \in S
      PROVE  x \in S
  <2>. SUFFICES ASSUME Few(x), NEW d \in Depths  PROVE Tidy(Code!Visit[<<x, d>>], FALSE, FALSE)
    OBVIOUS
  <2>. HIDE DEF S
  <2>1. Inside[x] = {x} \cup UNION {Inside[t] : t \in Scalar!Listed(x.body) \cup Scalar!Listed(x.other)}
    BY InsideDef
  <2>2. ASSUME NEW t \in Scalar!Listed(x.body) \cup Scalar!Listed(x.other)
        PROVE  Few(t) /\ t \in S
    <3>1. Inside[t] \subseteq Inside[x]
      BY <2>1
    <3>2. t \in Statements /\ Height[t] < Height[x]
      BY ListedFacts
    <3>. QED  BY <1>1, <3>1, <3>2
  <2>3. TidyParts(x)
    <3>. SUFFICES ASSUME NEW e \in Depths
                  PROVE  /\ Tidy(Code!VisitAll(Code!Visit, x.body, e), FALSE, FALSE)
                         /\ Tidy(Code!VisitAll(Code!Visit, x.other, e), FALSE, FALSE)
      BY DEF TidyParts
    <3>0. x.body \in Seq(Statements) /\ x.other \in Seq(Statements)
      BY PartsAreLower
    <3>1. /\ Scalar!Listed(x.body) = {x.body[i] : i \in 1 .. Len(x.body)}
          /\ Scalar!Listed(x.other) = {x.other[i] : i \in 1 .. Len(x.other)}
      BY <3>0, ListedFacts
    <3>2. \A t \in Scalar!Listed(x.body) \cup Scalar!Listed(x.other) :
            Tidy(Code!Visit[<<t, e>>], FALSE, FALSE)
      BY <2>2 DEF S
    <3>3. /\ \A i \in 1 .. Len(x.body) : Tidy(Code!Visit[<<x.body[i], e>>], FALSE, FALSE)
          /\ \A i \in 1 .. Len(x.other) : Tidy(Code!Visit[<<x.other[i], e>>], FALSE, FALSE)
      BY <3>1, <3>2
    <3>. QED  BY <3>0, <3>3, TidyAll
  <2>4. x.k = "gather" => x.n < UintLimit
    BY <2>1
  <2>. QED  BY <2>3, <2>4, TidyStatement
<1>2. Height \in [Statements -> Nat]
  BY StatementsAreTrees DEF Statements
<1>. HIDE DEF S
<1>3. \A x \in Statements : x \in S
  BY <1>1, <1>2, Descent
<1>4. s \in S
  BY <1>3
<1>. QED  BY <1>4 DEF S

\* The code of a program is tidy.
LEMMA TidySource ==
  ASSUME NEW source \in Seq(Statements), FewRays(source)
  PROVE  Tidy(Code!Compile(source), FALSE, FALSE)
<1>1. \A i \in 1 .. Len(source) : source[i] \in Statements
  BY ElementOfSeq
<1>2. ASSUME NEW i \in 1 .. Len(source)
      PROVE  \A t \in Inside[source[i]] : t.k = "gather" => t.n < UintLimit
  <2>1. source[i] \in Scalar!Listed(source)
    BY ListedFacts
  <2>2. Inside[source[i]] \subseteq Within(source)
    BY <2>1 DEF Within, Inside, Scalar!Within
  <2>. QED  BY <2>2 DEF FewRays
<1>3. <<>> \in Depths
  BY EmptySeq DEF Depths
<1>4. \A i \in 1 .. Len(source) : Tidy(Code!Visit[<<source[i], <<>>>>], FALSE, FALSE)
  BY <1>1, <1>2, <1>3, TidyStatements
<1>5. Tidy(Code!VisitAll(Code!Visit, source, <<>>), FALSE, FALSE)
  BY <1>3, <1>4, TidyAll
<1>. QED  BY <1>5 DEF Code!Compile

\* What the edges into an address bring, and what they agree on.
Into(c, g, i) ==
  IF i = 1 THEN {[depth |-> 0, inside |-> TRUE, below |-> TRUE]}
  ELSE {After(c[j], g[j]) : j \in {k \in 1..(i - 1) : i \in Successors(c, k)}}

\* ... and what the address takes from that.
Joint(c, g, i) ==
  LET any == CHOOSE x \in Into(c, g, i) : TRUE
      kept == i \notin DOMAIN c \/ c[i].op # "S_CLEAR"
  IN  [depth  |-> any.depth,
       inside |-> kept /\ \A x \in Into(c, g, i) : x.inside,
       below  |-> kept /\ \A x \in Into(c, g, i) : x.below]

\* An edge from further up leads to each address but the first.
Reached(c) == \A i \in 2 .. Len(c) + 1 : \E k \in 1 .. i - 1 : i \in Successors(c, k)

\* What the analysis computes, before it is known that no stack is popped empty.
Whole == [depth : Int, inside : BOOLEAN, below : BOOLEAN]

\* The analysis keeps to its types.
LEMMA AfterTyped == ASSUME NEW in, NEW f \in Whole  PROVE After(in, f) \in Whole
<1>1. f.depth \in Int /\ f.depth + 1 \in Int /\ f.depth - 1 \in Int
  BY DEF Whole
<1>2. CASE in.op \in {"S_CLEAR", "choice", "gather"}
  BY <1>2 DEF After, Whole
<1>3. CASE in.op = "RS_PUSH"
  BY <1>1, <1>3 DEF After, Whole
<1>4. CASE in.op = "RS_POP"
  BY <1>1, <1>4 DEF After, Whole
<1>5. CASE in.op = "RS_INVERSE"
  BY <1>5 DEF After, Whole
<1>6. CASE in.op = "RS_BREAK"
  BY <1>6 DEF After, Whole
<1>7. CASE in.op \notin {"S_CLEAR", "choice", "gather", "RS_PUSH", "RS_POP", "RS_INVERSE", "RS_BREAK"}
  BY <1>7 DEF After
<1>. QED  BY <1>2, <1>3, <1>4, <1>5, <1>6, <1>7

\* Something comes into each address, of the right type.
LEMMA IntoTyped ==
  ASSUME NEW c \in Seq(Instruction), Reached(c), NEW g \in [1 .. Len(c) + 1 -> Whole],
         NEW i \in 1 .. Len(c) + 1
  PROVE  /\ Into(c, g, i) \subseteq Whole /\ Into(c, g, i) # {}
         /\ Joint(c, g, i) \in Whole
<1>0. Len(c) \in Nat
  BY LenProperties
<1>1. Into(c, g, i) \subseteq Whole
  <2>1. [depth |-> 0, inside |-> TRUE, below |-> TRUE] \in Whole
    BY DEF Whole
  <2>2. \A k \in 1 .. i - 1 : k \in 1 .. Len(c) + 1
    BY <1>0
  <2>3. \A k \in 1 .. i - 1 : After(c[k], g[k]) \in Whole
    BY <2>2, AfterTyped
  <2>. QED  BY <2>1, <2>3 DEF Into
<1>2. Into(c, g, i) # {}
  <2>1. CASE i = 1
    BY <2>1 DEF Into
  <2>2. CASE i # 1
    <3>1. i \in 2 .. Len(c) + 1
      BY <1>0, <2>2
    <3>2. PICK k \in 1 .. i - 1 : i \in Successors(c, k)
      BY <3>1 DEF Reached
    <3>3. After(c[k], g[k]) \in Into(c, g, i)
      BY <2>2, <3>2 DEF Into
    <3>. QED  BY <3>3
  <2>. QED  BY <2>1, <2>2
<1>. DEFINE any == CHOOSE x \in Into(c, g, i) : TRUE
            kept == i \notin DOMAIN c \/ c[i].op # "S_CLEAR"
<1>3. any \in Into(c, g, i)
  BY <1>2
<1>4. any.depth \in Int
  BY <1>1, <1>3 DEF Whole
<1>5. (kept /\ \A x \in Into(c, g, i) : x.inside) \in BOOLEAN
      /\ (kept /\ \A x \in Into(c, g, i) : x.below) \in BOOLEAN
  OBVIOUS
<1>6. Joint(c, g, i) = [depth  |-> any.depth,
                        inside |-> kept /\ \A x \in Into(c, g, i) : x.inside,
                        below  |-> kept /\ \A x \in Into(c, g, i) : x.below]
  BY DEF Joint
<1>. HIDE DEF any, kept
<1>7. Joint(c, g, i) \in Whole
  BY <1>4, <1>5, <1>6 DEF Whole
<1>. QED  BY <1>1, <1>2, <1>7

\* What an address agrees on depends only on what holds at those before it.
LEMMA JointSame ==
  ASSUME NEW c, NEW g, NEW h, NEW i, \A j \in 1 .. i - 1 : g[j] = h[j]
  PROVE  Joint(c, g, i) = Joint(c, h, i)
<1>1. Into(c, g, i) = Into(c, h, i)
  BY DEF Into
<1>. QED  BY <1>1 DEF Joint

\* Facts is the function that its recursive equation defines.
LEMMA FactsDef ==
  ASSUME NEW c \in Seq(Instruction), Reached(c)
  PROVE  /\ Facts(c) \in [1 .. Len(c) + 1 -> Whole]
         /\ \A i \in 1 .. Len(c) + 1 : Facts(c)[i] = Joint(c, Facts(c), i)
<1>. DEFINE D == 1 .. Len(c) + 1
            V == Whole
            F == [gx \in [D -> V] \X D |-> Joint(c, gx[1], gx[2])]
            rank == [i \in D |-> i]
<1>0. Len(c) \in Nat /\ \A i \in D : i \in Nat /\ 1 .. i - 1 \subseteq D /\ \A j \in 1 .. i - 1 : j < i
  BY LenProperties
<1>1. rank \in [D -> Nat] /\ [depth |-> 0, inside |-> TRUE, below |-> TRUE] \in V
  BY <1>0 DEF Whole
<1>2. ASSUME NEW g \in [D -> V], NEW i \in D
      PROVE  F[<<g, i>>] = Joint(c, g, i) /\ F[<<g, i>>] \in V
  <2>1. F[<<g, i>>] = Joint(c, g, i)
    OBVIOUS
  <2>2. Joint(c, g, i) \in V
    BY IntoTyped
  <2>. QED  BY <2>1, <2>2
<1>3. F \in [[D -> V] \X D -> V]
  <2>1. F = [gx \in [D -> V] \X D |-> F[gx]]
    OBVIOUS
  <2>2. ASSUME NEW gx \in [D -> V] \X D  PROVE F[gx] \in V
    <3>1. gx = <<gx[1], gx[2]>> /\ gx[1] \in [D -> V] /\ gx[2] \in D
      OBVIOUS
    <3>. HIDE DEF F, D, V
    <3>. QED  BY <1>2, <3>1
  <2>. HIDE DEF F, D, V
  <2>. QED  BY <2>1, <2>2
<1>4. ASSUME NEW g, NEW h, NEW i \in D, \A y \in D : rank[y] < rank[i] => g[y] = h[y]
      PROVE  Joint(c, g, i) = Joint(c, h, i)
  <2>1. \A j \in 1 .. i - 1 : j \in D /\ rank[j] < rank[i]
    BY <1>0
  <2>2. \A j \in 1 .. i - 1 : g[j] = h[j]
    <3>. HIDE DEF D, rank
    <3>. QED  BY <1>4, <2>1
  <2>. QED  BY <2>2, JointSame
<1>5. PICK g \in [D -> V] : Solves(g, F, D)
  <2>1. FromLower(F, rank, D, V)
    <3>. HIDE DEF F, rank, D, V
    <3>. QED  BY <1>2, <1>4 DEF FromLower
  <2>. HIDE DEF F, rank, D, V
  <2>. QED  BY <1>1, <1>3, <2>1, Recursion
<1>6. g = [i \in D |-> Joint(c, g, i)]
  <2>. HIDE DEF F, D, V
  <2>. QED  BY <1>2, <1>5 DEF Solves
<1>. DEFINE f == Facts(c)
<1>7. f = [i \in D |-> Joint(c, f, i)]
  <2>. DEFINE H(h) == [i \in D |-> Joint(c, h, i)]
              f0 == CHOOSE h : h = H(h)
  <2>1. f0 = H(f0)
    <3>1. g = H(g)
      BY <1>6, Zenon
    <3>. HIDE DEF H
    <3>. QED  BY <3>1, Zenon
  <2>2. f = f0
    BY Zenon DEF Facts, Joint, Into
  <2>. HIDE DEF f0, f
  <2>. QED  BY <2>1, <2>2, Zenon
<1>. HIDE DEF f
<1>8. \A i \in D : f[i] = g[i]
  <2>. DEFINE S == {i \in D : f[i] = g[i]}
  <2>1. ASSUME NEW i \in D, \A y \in D : rank[y] < rank[i] => y \in S
        PROVE  i \in S
    <3>1. \A y \in D : rank[y] < rank[i] => f[y] = g[y]
      BY <2>1
    <3>2. Joint(c, f, i) = Joint(c, g, i)
      <4>. HIDE DEF D, rank
      <4>. QED  BY <1>4, <3>1
    <3>3. f[i] = Joint(c, f, i) /\ g[i] = Joint(c, g, i)
      <4>. HIDE DEF D, F
      <4>. QED  BY <1>6, <1>7
    <3>. QED  BY <3>2, <3>3
  <2>. HIDE DEF S, rank, D
  <2>2. \A i \in D : i \in S
    BY <1>1, <2>1, Descent
  <2>. QED  BY <2>2 DEF S
<1>9. f = g
  <2>. HIDE DEF D, F
  <2>. QED  BY <1>6, <1>7, <1>8
<1>10. \A i \in D : g[i] = Joint(c, g, i)
  <2>. HIDE DEF D, F
  <2>. QED  BY <1>6
<1>. QED  BY <1>9, <1>10 DEF f

\* How an instruction changes the height of the stack, and what it leaves of inside.
LEMMA AfterFacts ==
  ASSUME NEW in, NEW f \in Whole
  PROVE  /\ in.op = "RS_PUSH" => After(in, f).depth = f.depth + 1
         /\ in.op = "RS_POP" => After(in, f).depth = f.depth - 1
         /\ in.op \notin {"RS_PUSH", "RS_POP"} => After(in, f).depth = f.depth
         /\ in.op \in Confines => After(in, f).inside
         /\ f.inside /\ in.op \notin Mixes => After(in, f).inside
<1>0. f = [depth |-> f.depth, inside |-> f.inside, below |-> f.below]
  BY DEF Whole
<1>2. CASE in.op \in {"S_CLEAR", "choice", "gather"}
  BY <1>0, <1>2 DEF After, Whole, Confines, Mixes
<1>3. CASE in.op = "RS_PUSH"
  BY <1>0, <1>3 DEF After, Whole, Confines, Mixes
<1>4. CASE in.op = "RS_POP"
  BY <1>0, <1>4 DEF After, Whole, Confines, Mixes
<1>5. CASE in.op = "RS_INVERSE"
  BY <1>0, <1>5 DEF After, Whole, Confines, Mixes
<1>6. CASE in.op = "RS_BREAK"
  BY <1>0, <1>6 DEF After, Whole, Confines, Mixes
<1>7. CASE in.op \notin {"S_CLEAR", "choice", "gather", "RS_PUSH", "RS_POP", "RS_INVERSE", "RS_BREAK"}
  BY <1>7 DEF After, Confines, Mixes
<1>. QED  BY <1>2, <1>3, <1>4, <1>5, <1>6, <1>7

\* What notes that fit an instruction say of the height of the stack.
LEMMA FineDepth ==
  ASSUME NEW in \in Instruction, NEW n \in Notes, NEW m \in Notes, NEW t \in Notes, Fine(in, n, m, t)
  PROVE  /\ in.op = "RS_PUSH" => Len(m.aside) = Len(n.aside) + 1
         /\ in.op = "RS_POP" => Len(n.aside) > 0 /\ Len(m.aside) = Len(n.aside) - 1
         /\ in.op \notin {"RS_PUSH", "RS_POP", "jmp"} => Len(m.aside) = Len(n.aside)
         /\ in.op \in JumpOps => Len(t.aside) = Len(n.aside)
         /\ in.op \in {"RS_GET", "RS_INVERSE"} => Len(n.aside) > 0
         /\ in.op = "RS_BREAK" => in.arg \in 0 .. Len(n.aside) - 1
<1>. DEFINE D == Len(n.aside)
<1>0. n.aside \in Seq(Rests) /\ D \in Nat
  BY LenProperties DEF Notes
<1>1. CASE in.op = "RS_PUSH"
  BY <1>1 DEF Fine, JumpOps
<1>2. CASE in.op = "RS_POP"
  <2>1. D > 0 /\ m = Plain(n.run, SubSeq(n.aside, 1, D - 1))
    BY <1>2 DEF Fine
  <2>2. m.aside = SubSeq(n.aside, 1, D - 1)
    BY <2>1 DEF Plain, Note
  <2>3. Len(SubSeq(n.aside, 1, D - 1)) = D - 1
    <3>1. 1 \in 1 .. D + 1 /\ D - 1 \in 0 .. D
      BY <1>0, <2>1
    <3>. QED  BY <1>0, <2>1, <3>1, SubSeqProperties
  <2>. QED  BY <1>2, <2>1, <2>2, <2>3 DEF JumpOps
<1>3. CASE in.op = "RS_INVERSE"
  <2>1. D > 0 /\ m = Plain(n.aside[D], [n.aside EXCEPT ![D] = n.run])
    BY <1>3 DEF Fine
  <2>2. m.aside = [n.aside EXCEPT ![D] = n.run]
    BY <2>1 DEF Plain, Note
  <2>3. Len(m.aside) = D
    <3>1. m.aside \in Seq(Rests) /\ DOMAIN m.aside = DOMAIN n.aside
      BY <2>2 DEF Notes
    <3>. QED  BY <1>0, <3>1, LenProperties
  <2>. QED  BY <1>3, <2>1, <2>3 DEF JumpOps
<1>4. CASE in.op = "RS_GET"
  BY <1>4 DEF Fine, JumpOps, Plain, Note
<1>5. CASE in.op = "RS_BREAK"
  BY <1>5 DEF Fine, JumpOps, Plain, Note
<1>6. CASE in.op \in {"S_JZ", "RS_JZ", "jmp"}
  <2>1. CASE in.op = "S_JZ"
    BY <2>1 DEF Fine, Plain, Note
  <2>2. CASE in.op = "RS_JZ"
    BY <2>2 DEF Fine, Plain, Note
  <2>3. CASE in.op = "jmp"
    BY <2>3 DEF Fine, Plain, Note
  <2>. QED  BY <1>6, <2>1, <2>2, <2>3
<1>7. CASE in.op \in {"init_illuminance", "advance_illuminance", "advance_gather"}
  <2>1. CASE in.op = "init_illuminance"
    BY <2>1 DEF Fine, Plain, Note
  <2>2. CASE in.op = "advance_illuminance"
    BY <2>2 DEF Fine, Plain, Note
  <2>3. CASE in.op = "advance_gather"
    BY <2>3 DEF Fine, Plain, Note
  <2>. QED  BY <1>7, <2>1, <2>2, <2>3
<1>8. CASE in.op \in {"do", "choice", "diffuse", "S_CLEAR", "S_GET"}
  <2>1. CASE in.op = "do"
    BY <2>1 DEF Fine, Plain, Note, JumpOps
  <2>2. CASE in.op = "choice"
    BY <2>2 DEF Fine, Plain, Note, JumpOps
  <2>3. CASE in.op = "diffuse"
    BY <2>3 DEF Fine, Plain, Note, JumpOps
  <2>4. CASE in.op = "S_CLEAR"
    BY <2>4 DEF Fine, Plain, Note, JumpOps
  <2>5. CASE in.op = "S_GET"
    BY <2>5 DEF Fine, Plain, Note, JumpOps
  <2>. QED  BY <1>8, <2>1, <2>2, <2>3, <2>4, <2>5
<1>9. CASE in.op \in {"illuminance", "illuminate", "solar", "init_gather", "gather"}
  <2>1. CASE in.op = "illuminance"
    BY <2>1 DEF Fine, Plain, Note, JumpOps
  <2>2. CASE in.op = "illuminate"
    BY <2>2 DEF Fine, Plain, Note, JumpOps
  <2>3. CASE in.op = "solar"
    BY <2>3 DEF Fine, Plain, Note, JumpOps
  <2>4. CASE in.op = "init_gather"
    BY <2>4 DEF Fine, Plain, Note, JumpOps
  <2>5. CASE in.op = "gather"
    BY <2>5 DEF Fine, Plain, Note, JumpOps
  <2>. QED  BY <1>9, <2>1, <2>2, <2>3, <2>4, <2>5
<1>10. in.op \in Ops
  BY DEF Instruction
<1>. QED  BY <1>1, <1>2, <1>3, <1>4, <1>5, <1>6, <1>7, <1>8, <1>9, <1>10 DEF Ops

\* Notes that fit agree with the analysis on the height of the stack along each edge.
LEMMA NotedDepth ==
  ASSUME NEW c \in Seq(Instruction), NEW N \in [1 .. Len(c) + 1 -> Notes],
         NEW i \in 1 .. Len(c), FineAt(c, N, i), NEW f \in Whole, f.depth = Len(N[i].aside)
  PROVE  /\ \A j \in Successors(c, i) :
              j \in 1 .. Len(c) + 1 /\ After(c[i], f).depth = Len(N[j].aside)
         /\ c[i].op = "RS_POP" => f.depth > 0
         /\ c[i].op = "RS_BREAK" => c[i].arg \in 0 .. f.depth - 1
         /\ c[i].op \in {"RS_GET", "RS_INVERSE"} => f.depth > 0
<1>. DEFINE in == c[i]
            n == N[i]
            to == IF in.op \in JumpOps THEN i + in.arg ELSE i + 1
<1>0. /\ Len(c) \in Nat /\ in \in Instruction /\ n \in Notes /\ i + 1 \in 1 .. Len(c) + 1
  <2>1. Len(c) \in Nat /\ in \in Instruction
    BY LenProperties, ElementOfSeq
  <2>2. i \in 1 .. Len(c) + 1 /\ i + 1 \in 1 .. Len(c) + 1
    BY <2>1
  <2>. QED  BY <2>1, <2>2
<1>1. to \in 1 .. Len(c) + 1
  BY DEF FineAt
<1>2. PICK m \in Notes, t \in Notes : /\ Fine(in, n, m, t)
                                      /\ in.op # "jmp" => Yields(m, N[i + 1])
                                      /\ in.op \in JumpOps => Yields(t, N[to])
  BY DEF FineAt
<1>3. /\ in.op # "jmp" => Len(m.aside) = Len(N[i + 1].aside)
      /\ in.op \in JumpOps => Len(t.aside) = Len(N[to].aside)
  BY <1>2 DEF Yields
<1>4. /\ in.op = "RS_PUSH" => Len(m.aside) = Len(n.aside) + 1
      /\ in.op = "RS_POP" => Len(n.aside) > 0 /\ Len(m.aside) = Len(n.aside) - 1
      /\ in.op \notin {"RS_PUSH", "RS_POP", "jmp"} => Len(m.aside) = Len(n.aside)
      /\ in.op \in JumpOps => Len(t.aside) = Len(n.aside)
      /\ in.op \in {"RS_GET", "RS_INVERSE"} => Len(n.aside) > 0
      /\ in.op = "RS_BREAK" => in.arg \in 0 .. Len(n.aside) - 1
  <2>. HIDE DEF in, n
  <2>. QED  BY <1>0, <1>2, FineDepth
<1>5. /\ in.op = "RS_PUSH" => After(in, f).depth = f.depth + 1
      /\ in.op = "RS_POP" => After(in, f).depth = f.depth - 1
      /\ in.op \notin {"RS_PUSH", "RS_POP"} => After(in, f).depth = f.depth
  BY AfterFacts
<1>6. f.depth = Len(n.aside)
  OBVIOUS
<1>7. in.op \in JumpOps => in.op \notin {"RS_PUSH", "RS_POP"}
  BY DEF JumpOps
<1>8. Successors(c, i) = (IF in.op \in JumpOps THEN {to} ELSE {})
                           \cup (IF in.op = "jmp" THEN {} ELSE {i + 1})
  BY DEF Successors
<1>. HIDE DEF in, n, to
<1>9. in.op # "jmp" => After(in, f).depth = Len(N[i + 1].aside)
  BY <1>3, <1>4, <1>5, <1>6
<1>10. in.op \in JumpOps => After(in, f).depth = Len(N[to].aside)
  BY <1>3, <1>4, <1>5, <1>6, <1>7
<1>11. \A j \in Successors(c, i) :
              j \in 1 .. Len(c) + 1 /\ After(in, f).depth = Len(N[j].aside)
  BY <1>0, <1>1, <1>8, <1>9, <1>10
<1>. QED  BY <1>4, <1>6, <1>11 DEF in

\* An edge from further up leads to each address of tidy code.
LEMMA TidyReached ==
  ASSUME NEW c \in Seq(Instruction), NEW B, \A i \in 1 .. Len(c) : Sure(c, B, i)
  PROVE  Reached(c)
<1>. SUFFICES ASSUME NEW i \in 2 .. Len(c) + 1
              PROVE  \E k \in 1 .. i - 1 : i \in Successors(c, k)
  BY DEF Reached
<1>1. Len(c) \in Nat
  BY LenProperties
<1>2. i - 1 \in 1 .. Len(c) /\ i - 1 \in 1 .. i - 1 /\ (i - 1) + 1 = i
      /\ \A k \in 1 .. (i - 1) - 1 : k \in 1 .. i - 1
  BY <1>1
<1>3. CASE c[i - 1].op # "jmp"
  <2>1. i \in Successors(c, i - 1)
    BY <1>2, <1>3 DEF Successors
  <2>. QED  BY <1>2, <2>1
<1>4. CASE c[i - 1].op = "jmp"
  <2>1. PICK j \in 1 .. (i - 1) - 1 : c[j].op \in JumpOps /\ j + c[j].arg = i
    BY <1>2, <1>4 DEF Sure
  <2>2. i \in Successors(c, j)
    BY <2>1 DEF Successors
  <2>. QED  BY <1>2, <2>1, <2>2
<1>. QED  BY <1>3, <1>4

\* The analysis finds what the notes and the marks say.
LEMMA FactsFound ==
  ASSUME NEW c \in Seq(Instruction), NEW N \in [1 .. Len(c) + 1 -> Notes],
         \A i \in 1 .. Len(c) : FineAt(c, N, i), Len(N[1].aside) = 0,
         NEW B, 1 \notin B, \A i \in 1 .. Len(c) : Sure(c, B, i)
  PROVE  \A i \in 1 .. Len(c) + 1 : /\ Facts(c)[i].depth = Len(N[i].aside)
                                    /\ i \in B => Facts(c)[i].inside
<1>. DEFINE D == 1 .. Len(c) + 1
            f == Facts(c)
            rank == [i \in D |-> i]
            S == {i \in D : f[i].depth = Len(N[i].aside) /\ (i \in B => f[i].inside)}
<1>0. Len(c) \in Nat /\ DOMAIN c = 1 .. Len(c) /\ rank \in [D -> Nat]
  BY LenProperties
<1>1. Reached(c)
  BY TidyReached
<1>2. f \in [D -> Whole] /\ \A i \in D : f[i] = Joint(c, f, i)
  BY <1>1, FactsDef
<1>3. ASSUME NEW i \in D, \A y \in D : rank[y] < rank[i] => y \in S
      PROVE  i \in S
  <2>0. \A k \in 1 .. i - 1 : k \in 1 .. Len(c) /\ k \in D /\ rank[k] < rank[i]
    BY <1>0
  <2>1. ASSUME NEW k \in 1 .. i - 1
        PROVE  f[k] \in Whole /\ f[k].depth = Len(N[k].aside) /\ (k \in B => f[k].inside)
    <3>1. k \in S
      <4>. HIDE DEF S, rank, D
      <4>. QED  BY <1>3, <2>0
    <3>2. k \in D
      BY <2>0
    <3>. HIDE DEF f, D
    <3>. QED  BY <1>2, <3>1, <3>2
  <2>. DEFINE any == CHOOSE x \in Into(c, f, i) : TRUE
              kept == i \notin DOMAIN c \/ c[i].op # "S_CLEAR"
              all == \A x \in Into(c, f, i) : x.inside
  <2>2. any \in Into(c, f, i)
    <3>1. Into(c, f, i) # {}
      <4>. HIDE DEF f
      <4>. QED  BY <1>1, <1>2, IntoTyped
    <3>. HIDE DEF f
    <3>. QED  BY <3>1
  <2>3. f[i].depth = any.depth /\ f[i].inside = (kept /\ all)
    <3>. DEFINE below == kept /\ \A x \in Into(c, f, i) : x.below
    <3>. HIDE DEF f
    <3>1. f[i] = Joint(c, f, i)
      BY <1>2
    <3>2. Joint(c, f, i) = [depth |-> any.depth, inside |-> kept /\ all, below |-> below]
      BY DEF Joint
    <3>. HIDE DEF any, kept, all, below
    <3>. QED  BY <3>1, <3>2
  <2>. HIDE DEF f, any
  <2>4. CASE i = 1
    <3>1. any = [depth |-> 0, inside |-> TRUE, below |-> TRUE]
      BY <2>2, <2>4 DEF Into
    <3>2. f[i].depth = 0
      BY <2>3, <3>1
    <3>. QED  BY <2>4, <3>2
  <2>5. CASE i # 1
    <3>1. Into(c, f, i) = {After(c[j], f[j]) : j \in {k \in 1..(i - 1) : i \in Successors(c, k)}}
      BY <2>5 DEF Into
    <3>2. PICK k \in 1 .. i - 1 : i \in Successors(c, k) /\ any = After(c[k], f[k])
      BY <2>2, <3>1
    <3>3. any.depth = Len(N[i].aside)
      <4>1. k \in 1 .. Len(c) /\ FineAt(c, N, k)
        BY <2>0
      <4>2. f[k] \in Whole /\ f[k].depth = Len(N[k].aside)
        BY <2>1
      <4>3. \A j \in Successors(c, k) : After(c[k], f[k]).depth = Len(N[j].aside)
        BY <4>1, <4>2, NotedDepth
      <4>. QED  BY <3>2, <4>3
    <3>4. ASSUME i \in B  PROVE f[i].inside
      <4>1. ASSUME NEW j \in 1 .. i - 1, i \in Successors(c, j)  PROVE After(c[j], f[j]).inside
        <5>1. j \in 1 .. Len(c) /\ Sure(c, B, j)
          BY <2>0
        <5>2. c[j].op \in Confines \/ (j \in B /\ c[j].op \notin Mixes)
          <6>1. CASE c[j].op \in JumpOps /\ i = j + c[j].arg
            BY <3>4, <5>1, <6>1 DEF Sure
          <6>2. CASE c[j].op # "jmp" /\ i = j + 1
            BY <3>4, <5>1, <6>2 DEF Sure
          <6>3. (c[j].op \in JumpOps /\ i = j + c[j].arg) \/ (c[j].op # "jmp" /\ i = j + 1)
            BY <4>1 DEF Successors
          <6>. QED  BY <6>1, <6>2, <6>3
        <5>. QED  BY <2>1, <5>2, AfterFacts
      <4>2. all
        BY <3>1, <4>1
      <4>3. kept
        <5>. SUFFICES ASSUME i \in 1 .. Len(c)  PROVE c[i].op # "S_CLEAR"
          BY <1>0
        <5>. QED  BY <3>4 DEF Sure
      <4>. QED  BY <2>3, <4>2, <4>3
    <3>. QED  BY <2>3, <3>3, <3>4
  <2>. QED  BY <2>4, <2>5
<1>. HIDE DEF S, rank, D
<1>4. \A i \in D : i \in S
  BY <1>0, <1>3, Descent
<1>. QED  BY <1>4 DEF S, D

\* Tidy code with notes that fit it is disciplined.
LEMMA NotedTidy ==
  ASSUME NEW c \in Seq(Instruction), NEW n \in Notes, NEW m \in Notes, Passage(c, n, m),
         Len(n.aside) = 0, Len(m.aside) = 0, Tidy(c, FALSE, FALSE)
  PROVE  Disciplined(c)
<1>. DEFINE L == Len(c)
            f == Facts(c)
<1>1. PICK N \in [1 .. L + 1 -> Notes] :
        /\ Yields(n, N[1]) /\ Yields(N[L + 1], m)
        /\ \A i \in 1 .. L : FineAt(c, N, i)
  BY DEF Passage
<1>2. PICK B \in SUBSET (1 .. L + 1) : 1 \notin B /\ \A i \in 1 .. L : Sure(c, B, i)
  BY DEF Tidy
<1>0. L \in Nat /\ DOMAIN c = 1 .. L /\ 1 \in 1 .. L + 1 /\ L + 1 \in 1 .. L + 1
  BY LenProperties
<1>3. Len(N[1].aside) = 0 /\ Len(N[L + 1].aside) = 0
  BY <1>1 DEF Yields
<1>4. Reached(c)
  BY <1>2, TidyReached
<1>5. f \in [1 .. L + 1 -> Whole] /\ \A i \in 1 .. L + 1 : f[i] = Joint(c, f, i)
  BY <1>4, FactsDef
<1>6. \A i \in 1 .. L + 1 : f[i].depth = Len(N[i].aside) /\ (i \in B => f[i].inside)
  BY <1>1, <1>2, <1>3, FactsFound
<1>. HIDE DEF f
<1>7. ASSUME NEW i \in 1 .. L + 1  PROVE f[i] \in Fact
  <2>1. N[i].aside \in Seq(Rests)
    BY DEF Notes
  <2>2. Len(N[i].aside) \in Nat
    BY <2>1, LenProperties
  <2>3. f[i].depth \in Nat /\ f[i] \in Whole
    BY <1>5, <1>6, <2>2
  <2>. QED  BY <2>3 DEF Whole, Fact
<1>8. f[1] = [depth |-> 0, inside |-> f[1].inside, below |-> f[1].below] /\ f[L + 1].depth = 0
  <2>1. f[1].depth = 0 /\ f[1] \in Whole /\ f[L + 1].depth = 0
    BY <1>0, <1>3, <1>5, <1>6
  <2>. QED  BY <2>1 DEF Whole
<1>9. ASSUME NEW i \in 1 .. L
      PROVE  /\ \A j \in Successors(c, i) : j \in 1 .. L + 1 /\ Implies(After(c[i], f[i]), f[j])
             /\ c[i].op = "RS_POP" => f[i].depth > 0
             /\ c[i].op = "RS_BREAK" => c[i].arg \in 0 .. (f[i].depth - 1)
             /\ c[i].op = "RS_GET" => f[i].inside
             /\ c[i].op \in {"RS_GET", "RS_INVERSE"} => f[i].depth > 0
             /\ c[i].op = "init_gather" => c[i].arg \in 0 .. (UintLimit - 1)
  <2>0. i \in 1 .. L + 1 /\ i \in Int
    BY <1>0
  <2>1. f[i] \in Whole /\ f[i].depth = Len(N[i].aside) /\ (i \in B => f[i].inside)
    BY <1>5, <1>6, <2>0
  <2>2. /\ \A j \in Successors(c, i) :
              j \in 1 .. L + 1 /\ After(c[i], f[i]).depth = Len(N[j].aside)
        /\ c[i].op = "RS_POP" => f[i].depth > 0
        /\ c[i].op = "RS_BREAK" => c[i].arg \in 0 .. f[i].depth - 1
        /\ c[i].op \in {"RS_GET", "RS_INVERSE"} => f[i].depth > 0
    BY <1>1, <2>1, NotedDepth
  <2>3. /\ c[i].op = "RS_GET" => i \in B
        /\ c[i].op \in JumpOps => (i + c[i].arg <= i => c[i + c[i].arg].op = "S_CLEAR")
        /\ c[i].op = "init_gather" => c[i].arg \in 0 .. (UintLimit - 1)
    BY <1>2 DEF Sure
  <2>4. ASSUME NEW j \in Successors(c, i)  PROVE Implies(After(c[i], f[i]), f[j])
    <3>0. j \in 1 .. L + 1 /\ j \in Int
      BY <1>0, <2>2
    <3>1. After(c[i], f[i]).depth = f[j].depth
      BY <1>6, <2>2, <3>0
    <3>2. f[j] = Joint(c, f, j)
      BY <1>5, <3>0
    <3>. DEFINE kept == j \notin DOMAIN c \/ c[j].op # "S_CLEAR"
                in == \A x \in Into(c, f, j) : x.inside
                un == \A x \in Into(c, f, j) : x.below
                d == (CHOOSE x \in Into(c, f, j) : TRUE).depth
    <3>3. f[j] = [depth |-> d, inside |-> kept /\ in, below |-> kept /\ un]
      BY <3>2 DEF Joint
    <3>4. /\ f[j].inside => kept /\ in
          /\ f[j].below => kept /\ un
      <4>. DEFINE p == kept /\ in
                  q == kept /\ un
      <4>1. f[j] = [depth |-> d, inside |-> p, below |-> q]
        BY <3>3
      <4>. HIDE DEF d, p, q
      <4>2. f[j].inside = p /\ f[j].below = q
        BY <4>1
      <4>. HIDE DEF kept, in, un
      <4>. QED  BY <4>2, Zenon DEF p, q
    <3>5. CASE j <= i
      <4>1. j \in DOMAIN c
        BY <1>0, <2>0, <3>0, <3>5
      <4>2. c[i].op \in JumpOps /\ j = i + c[i].arg
        <5>1. j # i + 1
          BY <2>0, <3>0, <3>5
        <5>. QED  BY <5>1 DEF Successors
      <4>3. ~kept
        BY <2>3, <3>5, <4>1, <4>2
      <4>. HIDE DEF kept, in, un, d
      <4>. QED  BY <3>1, <3>4, <4>3 DEF Implies
    <3>6. CASE ~(j <= i)
      <4>1. j # 1 /\ i \in 1 .. j - 1
        BY <2>0, <3>0, <3>6
      <4>2. After(c[i], f[i]) \in Into(c, f, j)
        BY <4>1 DEF Into
      <4>. HIDE DEF d, kept
      <4>. QED  BY <3>1, <3>4, <4>2 DEF Implies
    <3>. QED  BY <3>5, <3>6
  <2>. QED  BY <2>1, <2>2, <2>3, <2>4
<1>. QED  BY <1>7, <1>8, <1>9 DEF Disciplined, f

\* What the compiler writes for any shader passes the analysis that ShaderVM's
\* proofs rest on (ProgramsDisciplined): levels are popped and broken out of only
\* where there are so many, on every path the same, and the running state is
\* taken from a current state that lies within it.
THEOREM CodeIsDisciplined ==
  \A source : Scalar!IsShader(source) /\ FewRays(source) => Disciplined(Code!Compile(source))
<1>. SUFFICES ASSUME NEW source, Scalar!IsShader(source), FewRays(source)
              PROVE  Disciplined(Code!Compile(source))
  OBVIOUS
<1>. DEFINE c == Code!Compile(source)
            n == Plain(Entry(source, Nothing), <<>>)
            m == Plain(Nothing, <<>>)
<1>1. source \in Seq(Statements)
  BY DEF Scalar!IsShader, Statements
<1>2. c \in Seq(Instruction) /\ Passage(c, n, m)
  BY SourceCompiles
<1>3. <<>> \in Seq(Rests) /\ Nothing \in Rests /\ Len(<<>>) = 0
  BY EmptySeq, NothingFacts
<1>4. n \in Notes /\ m \in Notes
  BY <1>1, <1>3, EntryTyped, PlainTyped
<1>5. Len(n.aside) = 0 /\ Len(m.aside) = 0
  BY <1>3 DEF Plain, Note
<1>6. Tidy(c, FALSE, FALSE)
  BY <1>1, TidySource
<1>. HIDE DEF c, n, m
<1>7. Disciplined(c)
  BY <1>2, <1>4, <1>5, <1>6, NotedTidy
<1>. QED  BY <1>7 DEF c

-----------------------------------------------------------------------------
(* The machine keeps to notes that fit the code. *)

\* The fields of a note.
LEMMA NotesTyped ==
  ASSUME NEW n \in Notes
  PROVE  Len(n.aside) \in Nat /\ n.aside \in Seq(Rests) /\ n.run \in Rests /\ n.not \in Rests
BY LenProperties DEF Notes

\* The machine's counters are counters.
LEMMA NowTyped == IInv => Now \in Counters /\ Same[Now] = Now /\ Now \in DOMAIN Same
BY DEF IInv, TypeOK, Now, Counters, Same

\* A point that waits on some level of the stack is not running.
LEMMA AsideIdle ==
  ASSUME IInv, NEW d \in 1 .. Len(stack), NEW p \in stack[d],
         p \notin (IF d = Len(stack) THEN running ELSE stack[d + 1])
  PROVE  p \notin running
<1>. DEFINE n == Len(stack)
<1>1. n \in Nat /\ n > 0 /\ d \in Nat /\ d >= 1 /\ d <= n /\ running \subseteq stack[n]
  <2>1. n \in Nat /\ (stack = <<>> <=> n = 0) /\ d \in 1 .. n
    BY StackShape DEF IInv
  <2>2. n > 0 /\ d \in Nat /\ d >= 1 /\ d <= n
    <3>. HIDE DEF n
    <3>. QED  BY <2>1
  <2>. QED  BY <2>1, <2>2 DEF IInv, MasksNest, Top
<1>. SUFFICES ASSUME p \in running  PROVE FALSE
  OBVIOUS
<1>2. d # n /\ p \notin stack[d + 1]
  OBVIOUS
<1>3. \A i \in 2 .. n : stack[i] \subseteq stack[i - 1]
  BY DEF IInv, MasksNest
<1>. DEFINE T == {j \in Nat : d + 1 + j <= n => p \notin stack[d + 1 + j]}
<1>4. 0 \in T
  BY <1>2
<1>5. ASSUME NEW j \in Nat, j \in T  PROVE j + 1 \in T
  <2>. SUFFICES ASSUME d + 1 + (j + 1) <= n  PROVE p \notin stack[d + 1 + (j + 1)]
    OBVIOUS
  <2>. HIDE DEF n
  <2>1. d + 1 + j <= n /\ d + 1 + (j + 1) \in 2 .. n /\ (d + 1 + (j + 1)) - 1 = d + 1 + j
    BY <1>1
  <2>. QED  BY <1>3, <1>5, <2>1
<1>6. \A j \in Nat : j \in T
  <2>. HIDE DEF T
  <2>. QED  BY <1>4, <1>5, Steps
<1>7. n - (d + 1) \in Nat /\ d + 1 + (n - (d + 1)) = n
  <2>. HIDE DEF n
  <2>. QED  BY <1>1, <1>2
<1>8. p \notin stack[n]
  <2>1. n - (d + 1) \in T
    BY <1>6, <1>7
  <2>2. d + 1 + (n - (d + 1)) <= n => p \notin stack[d + 1 + (n - (d + 1))]
    BY <2>1
  <2>. HIDE DEF n
  <2>. QED  BY <1>1, <1>7, <2>2
<1>. QED  BY <1>1, <1>8

\* A point that is not running waits on some level of the stack.
LEMMA Somewhere ==
  ASSUME IInv, NEW p \in Points, p \notin running
  PROVE  \E d \in 1 .. Len(stack) :
           p \in stack[d] /\ p \notin (IF d = Len(stack) THEN running ELSE stack[d + 1])
<1>. DEFINE n == Len(stack)
<1>1. n \in Nat /\ (stack = <<>> <=> n = 0)
  BY StackShape DEF IInv
<1>2. n > 0 /\ stack[1] = Points
  BY <1>1 DEF IInv, Tracked
<1>. DEFINE T == {d \in 1 .. n : p \notin (IF d = n THEN running ELSE stack[d + 1])}
<1>3. n \in T
  BY <1>1, <1>2
<1>4. PICK d \in T : \A k \in T : d <= k
  <2>1. T \subseteq Nat /\ T # {}
    BY <1>3
  <2>. HIDE DEF T
  <2>. QED  BY <2>1, LeastNumber
<1>5. p \in stack[d]
  <2>1. CASE d = 1
    BY <1>2, <2>1
  <2>2. CASE d # 1
    <3>1. d - 1 \in 1 .. n /\ d - 1 # n /\ (d - 1) + 1 = d /\ ~(d <= d - 1)
      <4>. HIDE DEF n
      <4>. QED  BY <1>1, <1>4, <2>2
    <3>2. d - 1 \notin T
      <4>. HIDE DEF T
      <4>. QED  BY <1>4, <3>1
    <3>. QED  BY <3>1, <3>2
  <2>. QED  BY <2>1, <2>2
<1>. QED  BY <1>4, <1>5

\* Who owes x owes what x leads to.
LEMMA OwesMore ==
  ASSUME NEW x, NEW y, Leads(x, y), NEW p, Owes(p, x)
  PROVE  Owes(p, y)
BY DEF Leads, Owes

\* What a note says, a weaker one says.
LEMMA SaysLess ==
  ASSUME NEW n, NEW m, Yields(n, m), Says(n)
  PROVE  Says(m)
<1>1. Len(m.aside) = Len(stack) /\ (m.clear => current = {})
  BY DEF Says, Yields
<1>2. ASSUME NEW p \in running  PROVE Owes(p, IF p \in current THEN m.run ELSE m.not)
  BY OwesMore DEF Says, Yields
<1>3. ASSUME NEW d \in 1 .. Len(stack), NEW p \in stack[d],
             p \notin (IF d = Len(stack) THEN running ELSE stack[d + 1])
      PROVE  Owes(p, m.aside[d])
  <2>1. Owes(p, n.aside[d]) /\ Leads(n.aside[d], m.aside[d])
    BY <1>3 DEF Says, Yields
  <2>. QED  BY <2>1, OwesMore
<1>. QED  BY <1>1, <1>2, <1>3 DEF Says

\* The instructions that leave the masks of the running and waiting points.
LEMMA StillSays ==
  ASSUME IInv, NEW n \in Notes, NEW m \in Notes, Says(n), m.aside = n.aside,
         running' = running, stack' = stack, m.clear => current' = {},
         NEW f, Waits(n.aside, f), Now \in DOMAIN f, Now' = f[Now],
         \A p \in Points : p \notin running => todo'[p] = todo[p],
         \A p \in running : Owes(p, IF p \in current THEN n.run ELSE n.not) =>
                            Owes(p, IF p \in current THEN m.run ELSE m.not)'
  PROVE  Says(m)'
<1>1. Len(m.aside) = Len(stack)
  BY DEF Says
<1>2. ASSUME NEW d \in 1 .. Len(stack), NEW p \in stack[d],
             p \notin (IF d = Len(stack) THEN running ELSE stack[d + 1])
      PROVE  Owes(p, m.aside[d])'
  <2>1. Owes(p, n.aside[d]) /\ Goes(n.aside[d], n.aside[d], f)
    BY <1>1, <1>2 DEF Says, Waits
  <2>2. p \notin running
    BY <1>2, AsideIdle
  <2>3. p \in Points
    BY StackShape DEF IInv
  <2>. QED  BY <2>1, <2>2, <2>3 DEF Owes, Goes
<1>. QED  BY <1>1, <1>2 DEF Says

\* Where the next instruction is a statement of the source, the running points
\* are those that come to it.
LEMMA Together ==
  ASSUME IInv, NEW n \in Notes, Says(n), n.run = n.not, Away(n, Arg),
         \A p \in running : /\ todo[p] # <<>> /\ Head(todo[p]).k \in Kinds(code[pc].op)
                            /\ Head(todo[p]).id = Arg
  PROVE  running = Expected
<1>1. running \subseteq Expected
  BY DEF Expected, IInv, TypeOK
<1>2. ASSUME NEW p \in Expected, p \notin running  PROVE FALSE
  <2>1. p \in Points /\ todo[p] # <<>> /\ Head(todo[p]).id = Arg
    BY <1>2 DEF Expected
  <2>2. PICK d \in 1 .. Len(stack) :
          p \in stack[d] /\ p \notin (IF d = Len(stack) THEN running ELSE stack[d + 1])
    BY <1>2, <2>1, Somewhere
  <2>3. Owes(p, n.aside[d]) /\ Avoids(n.aside[d], {Arg})
    BY <2>2 DEF Says, Away
  <2>. QED  BY <2>1, <2>3 DEF Owes, Avoids
<1>. QED  BY <1>1, <1>2

\* When the running points all do the statement that the instruction is for, they owe
\* what is noted behind it, and no point aside has come to the statement.
LEMMA EventSays ==
  ASSUME IInv, NEW n \in Notes, NEW m \in Notes, Says(n), n.run = n.not, Away(n, Arg),
         m.aside = n.aside, ~m.clear, running' = running, stack' = stack,
         NEW yes, Follow(yes), Kinds(code[pc].op) # {},
         NEW f, Waits(n.aside, f), Now \in DOMAIN f, Now' = f[Now],
         \A p \in running : Does(n.run, IF p \in current' THEN m.run ELSE m.not, f,
                                 Kinds(code[pc].op), Arg, p \in yes)
  PROVE  Says(m)' /\ running = Expected
<1>1. ASSUME NEW p \in running
      PROVE  /\ Now \in DOMAIN n.run /\ todo[p] = Settle[n.run[Now]]
             /\ todo[p] # <<>> /\ Head(todo[p]).k \in Kinds(code[pc].op)
             /\ Head(todo[p]).id = Arg
  BY DEF Says, Owes, Does
<1>2. running = Expected
  BY <1>1, Together
<1>3. todo' = [p \in Points |-> IF p \notin running THEN todo[p]
                                ELSE IF p \in Expected THEN Advance(todo[p], p \in yes)
                                ELSE <<Scalar!Stmt("lost", 0, 0, <<>>, <<>>, <<>>)>>]
  BY DEF Follow, Advance
<1>4. \A p \in Points : p \notin running => todo'[p] = todo[p]
  BY <1>3
<1>5. ASSUME NEW p \in running
      PROVE  Owes(p, IF p \in current THEN m.run ELSE m.not)'
  <2>. DEFINE y == IF p \in current' THEN m.run ELSE m.not
  <2>1. todo'[p] = Advance(todo[p], p \in yes)
    BY <1>2, <1>3 DEF IInv, TypeOK
  <2>2. f[Now] \in DOMAIN y /\ Settle[y[f[Now]]] = Advance(Settle[n.run[Now]], p \in yes)
    BY <1>1 DEF Does
  <2>. QED  BY <1>1, <2>1, <2>2 DEF Owes
<1>. QED  BY <1>2, <1>4, <1>5, StillSays

-----------------------------------------------------------------------------
(* One instruction: control goes on to what m notes or jumps to what t does. *)

\* Nothing changes for those aside when no counter does.
LEMMA SameFacts ==
  ASSUME NEW aside \in Seq(Rests)
  PROVE  Waits(aside, Same)
<1>1. ASSUME NEW d \in 1 .. Len(aside)  PROVE DOMAIN aside[d] \subseteq Counters
  BY ElementOfSeq, LenProperties DEF Rests
<1>. QED  BY <1>1 DEF Waits, Goes, Same

\* A statement without control flow.
LEMMA DoSays ==
  ASSUME IInv, NEW n \in Notes, NEW m \in Notes, NEW t \in Notes, Fine(code[pc], n, m, t),
         Says(n), Follow({}), Do
  PROVE  Says(m)'
<1>1. code[pc].op = "do" /\ Kinds(code[pc].op) = {"do"}
  BY DEF Do, At, Kinds
<1>2. /\ n.run = n.not /\ Away(n, Arg) /\ m = Plain(m.run, n.aside)
      /\ Does(n.run, m.run, Same, {"do"}, Arg, FALSE)
  BY <1>1 DEF Fine, Arg
<1>3. m.aside = n.aside /\ ~m.clear /\ m.not = m.run
  BY <1>2 DEF Plain, Note
<1>4. \A p \in running : (p \in {}) = FALSE
  OBVIOUS
<1>5. \A p \in running : Does(n.run, IF p \in current' THEN m.run ELSE m.not, Same,
                                 Kinds(code[pc].op), Arg, p \in {})
  BY <1>1, <1>2, <1>3, <1>4
<1>6. Now' = Now /\ Now \in DOMAIN Same /\ Now' = Same[Now]
  BY NowTyped DEF Now, Do
<1>. QED  BY <1>1, <1>2, <1>3, <1>5, <1>6, SameFacts, NotesTyped, EventSays DEF Do

\* A conditional expression changes the current state alone.
LEMMA ChoiceSays ==
  ASSUME IInv, NEW n \in Notes, NEW m \in Notes, NEW t \in Notes, Fine(code[pc], n, m, t),
         Says(n), NEW yes, Follow(yes), Choice(yes)
  PROVE  Says(m)'
<1>1. code[pc].op = "choice" /\ Kinds(code[pc].op) = {}
  BY DEF Choice, At, Kinds
<1>2. n.run = n.not /\ m = Plain(n.run, n.aside) /\ todo' = todo
  BY <1>1 DEF Fine, Follow
<1>3. m.aside = n.aside /\ ~m.clear /\ m.run = n.run /\ m.not = n.run
  BY <1>2 DEF Plain, Note
<1>4. Now' = Now /\ Now \in DOMAIN Same /\ Now' = Same[Now]
  BY NowTyped DEF Now, Choice
<1>5. \A p \in running : Owes(p, n.run) => Owes(p, n.run)'
  BY <1>2, <1>4 DEF Owes
<1>. QED  BY <1>2, <1>3, <1>4, <1>5, SameFacts, NotesTyped, StillSays DEF Choice

\* diffuse() changes the counter of the lights, which nobody's rest depends on here.
LEMMA DiffuseSays ==
  ASSUME IInv, NEW n \in Notes, NEW m \in Notes, NEW t \in Notes, Fine(code[pc], n, m, t),
         Says(n), NEW yes, Follow(yes), Diffuse(yes)
  PROVE  Says(m)'
<1>1. code[pc].op = "diffuse" /\ Kinds(code[pc].op) = {}
  BY DEF Diffuse, At, Kinds
<1>2. /\ n.run = n.not /\ m = Plain(n.run, n.aside) /\ todo' = todo
      /\ Goes(n.run, n.run, Lamp(Lights)) /\ Waits(n.aside, Lamp(Lights))
  BY <1>1 DEF Fine, Follow
<1>3. m.aside = n.aside /\ ~m.clear /\ m.run = n.run /\ m.not = n.run
  BY <1>2 DEF Plain, Note
<1>4. running' = running /\ stack' = stack
  BY DEF Diffuse
<1>5. CASE running = {}
  <2>1. Now' = Now /\ Now \in DOMAIN Same /\ Now' = Same[Now]
    BY <1>5, NowTyped DEF Now, Diffuse
  <2>. QED  BY <1>2, <1>3, <1>4, <1>5, <2>1, SameFacts, NotesTyped, StillSays
<1>6. CASE running # {}
  <2>1. Now \in DOMAIN Lamp(Lights) /\ Now' = Lamp(Lights)[Now]
    BY <1>6, NowTyped DEF Now, Diffuse, Lamp
  <2>2. \A p \in running : Owes(p, n.run) => Owes(p, n.run)'
    BY <1>2, <2>1 DEF Owes, Goes
  <2>. QED  BY <1>2, <1>3, <1>4, <2>1, <2>2, StillSays
<1>. QED  BY <1>5, <1>6

\* S_CLEAR.
LEMMA ClearSays ==
  ASSUME IInv, NEW n \in Notes, NEW m \in Notes, NEW t \in Notes, Fine(code[pc], n, m, t),
         Says(n), NEW yes, Follow(yes), ClearCurrentState
  PROVE  Says(m)'
<1>1. code[pc].op = "S_CLEAR" /\ Kinds(code[pc].op) = {}
  BY DEF ClearCurrentState, At, Kinds
<1>2. n.run = n.not /\ m = Note(n.run, n.run, n.aside, TRUE) /\ todo' = todo
  BY <1>1 DEF Fine, Follow
<1>3. m.aside = n.aside /\ m.run = n.run /\ m.not = n.run
  BY <1>2 DEF Note
<1>4. Now' = Now /\ Now \in DOMAIN Same /\ Now' = Same[Now]
  BY NowTyped DEF Now, ClearCurrentState
<1>5. \A p \in running : Owes(p, n.run) => Owes(p, n.run)'
  BY <1>2, <1>4 DEF Owes
<1>. QED  BY <1>2, <1>3, <1>4, <1>5, SameFacts, NotesTyped, StillSays DEF ClearCurrentState

\* S_GET: the running points divide into those that say yes and those that say no.
LEMMA GetSays ==
  ASSUME IInv, NEW n \in Notes, NEW m \in Notes, NEW t \in Notes, Fine(code[pc], n, m, t),
         Says(n), NEW yes \in SUBSET running, Follow(yes), SetCurrentState(yes)
  PROVE  Says(m)'
<1>1. code[pc].op = "S_GET" /\ Kinds(code[pc].op) = {"if", "pick", "while"}
  BY DEF SetCurrentState, At, Kinds
<1>2. /\ n.run = n.not /\ Away(n, Arg) /\ m = Note(m.run, m.not, n.aside, FALSE)
      /\ Does(n.run, m.run, Same, {"if", "pick", "while"}, Arg, TRUE)
      /\ Does(n.run, m.not, Same, {"if", "pick", "while"}, Arg, FALSE)
  BY <1>1 DEF Fine, Arg
<1>3. m.aside = n.aside /\ ~m.clear
  BY <1>2 DEF Note
<1>4. \A p \in running : p \in current' <=> p \in yes
  BY DEF SetCurrentState
<1>5. ASSUME NEW p \in running
      PROVE  Does(n.run, IF p \in current' THEN m.run ELSE m.not, Same,
                  Kinds(code[pc].op), Arg, p \in yes)
  <2>1. CASE p \in yes
    <3>1. (p \in yes) = TRUE
      BY <2>1
    <3>. QED  BY <1>1, <1>2, <1>4, <2>1, <3>1
  <2>2. CASE p \notin yes
    <3>1. (p \in yes) = FALSE
      BY <2>2
    <3>. QED  BY <1>1, <1>2, <1>4, <2>2, <3>1
  <2>. QED  BY <2>1, <2>2
<1>6. Now' = Now /\ Now \in DOMAIN Same /\ Now' = Same[Now]
  BY NowTyped DEF Now, SetCurrentState
<1>. QED  BY <1>1, <1>2, <1>3, <1>5, <1>6, SameFacts, NotesTyped, EventSays
          DEF SetCurrentState

\* S_JZ: when it jumps no running point is in the current state.
LEMMA JumpIfNoneSays ==
  ASSUME IInv, NEW n \in Notes, NEW m \in Notes, NEW t \in Notes, Fine(code[pc], n, m, t),
         Says(n), NEW yes, Follow(yes), JumpIfNone
  PROVE  (pc' = pc + 1 /\ Says(m)') \/ (pc' = pc + Arg /\ Says(t)')
<1>1. code[pc].op = "S_JZ" /\ Kinds(code[pc].op) = {}
  BY DEF JumpIfNone, At, Kinds
<1>2. /\ m = Note(n.run, n.not, n.aside, FALSE) /\ t = Plain(n.not, n.aside) /\ todo' = todo
  BY <1>1 DEF Fine, Follow
<1>3. /\ m.aside = n.aside /\ ~m.clear /\ m.run = n.run /\ m.not = n.not
      /\ t.aside = n.aside /\ ~t.clear /\ t.run = n.not /\ t.not = n.not
  BY <1>2 DEF Plain, Note
<1>4. Now' = Now /\ Now \in DOMAIN Same /\ Now' = Same[Now]
  BY NowTyped DEF Now, JumpIfNone
<1>5. running' = running /\ stack' = stack /\ current' = current
  BY DEF JumpIfNone
<1>6. \A p \in running : /\ Owes(p, n.run) => Owes(p, n.run)'
                         /\ Owes(p, n.not) => Owes(p, n.not)'
  BY <1>2, <1>4 DEF Owes
<1>7. CASE current = {}
  <2>1. Says(t)'
    BY <1>2, <1>3, <1>4, <1>5, <1>6, <1>7, SameFacts, NotesTyped, StillSays
  <2>. QED  BY <1>7, <2>1 DEF JumpIfNone, Jump
<1>8. CASE current # {}
  <2>1. Says(m)'
    BY <1>2, <1>3, <1>4, <1>5, <1>6, SameFacts, NotesTyped, StillSays
  <2>. QED  BY <1>8, <2>1 DEF JumpIfNone, Continue
<1>. QED  BY <1>7, <1>8

\* RS_JZ: when it jumps no point is running.
LEMMA JumpIfIdleSays ==
  ASSUME IInv, NEW n \in Notes, NEW m \in Notes, NEW t \in Notes, Fine(code[pc], n, m, t),
         Says(n), NEW yes, Follow(yes), JumpIfIdle
  PROVE  (pc' = pc + 1 /\ Says(m)') \/ (pc' = pc + Arg /\ Says(t)')
<1>1. code[pc].op = "RS_JZ" /\ Kinds(code[pc].op) = {}
  BY DEF JumpIfIdle, At, Kinds
<1>2. /\ n.run = n.not /\ m = Plain(n.run, n.aside) /\ t = Plain(t.run, n.aside)
      /\ todo' = todo
  BY <1>1 DEF Fine, Follow
<1>3. /\ m.aside = n.aside /\ ~m.clear /\ m.run = n.run /\ m.not = n.run
      /\ t.aside = n.aside /\ ~t.clear
  BY <1>2 DEF Plain, Note
<1>4. Now' = Now /\ Now \in DOMAIN Same /\ Now' = Same[Now]
  BY NowTyped DEF Now, JumpIfIdle
<1>5. running' = running /\ stack' = stack /\ current' = current
  BY DEF JumpIfIdle
<1>6. \A p \in running : Owes(p, n.run) => Owes(p, n.run)'
  BY <1>2, <1>4 DEF Owes
<1>7. CASE running = {}
  <2>1. Says(t)'
    BY <1>2, <1>3, <1>4, <1>5, <1>7, SameFacts, NotesTyped, StillSays
  <2>. QED  BY <1>7, <2>1 DEF JumpIfIdle, Jump
<1>8. CASE running # {}
  <2>1. Says(m)'
    BY <1>2, <1>3, <1>4, <1>5, <1>6, SameFacts, NotesTyped, StillSays
  <2>. QED  BY <1>8, <2>1 DEF JumpIfIdle, Continue
<1>. QED  BY <1>7, <1>8

\* jmp.
LEMMA JumpSays ==
  ASSUME IInv, NEW n \in Notes, NEW m \in Notes, NEW t \in Notes, Fine(code[pc], n, m, t),
         Says(n), NEW yes, Follow(yes), JumpAlways
  PROVE  Says(t)'
<1>1. code[pc].op = "jmp" /\ Kinds(code[pc].op) = {}
  BY DEF JumpAlways, At, Kinds
<1>2. n.run = n.not /\ t = Plain(n.run, n.aside) /\ todo' = todo
  BY <1>1 DEF Fine, Follow
<1>3. t.aside = n.aside /\ ~t.clear /\ t.run = n.run /\ t.not = n.run
  BY <1>2 DEF Plain, Note
<1>4. Now' = Now /\ Now \in DOMAIN Same /\ Now' = Same[Now]
  BY NowTyped DEF Now, JumpAlways
<1>5. \A p \in running : Owes(p, n.run) => Owes(p, n.run)'
  BY <1>2, <1>4 DEF Owes
<1>. QED  BY <1>2, <1>3, <1>4, <1>5, SameFacts, NotesTyped, StillSays DEF JumpAlways

\* init_illuminance: to the first light, or over the loop where there is none.
LEMMA InitIlluminanceSays ==
  ASSUME IInv, NEW n \in Notes, NEW m \in Notes, NEW t \in Notes, Fine(code[pc], n, m, t),
         Says(n), NEW yes, Follow(yes), InitIlluminance
  PROVE  (pc' = pc + 1 /\ Says(m)') \/ (pc' = pc + Arg /\ Says(t)')
<1>1. code[pc].op = "init_illuminance" /\ Kinds(code[pc].op) = {}
  BY DEF InitIlluminance, At, Kinds
<1>2. /\ n.run = n.not /\ m = Plain(m.run, n.aside) /\ t = Plain(t.run, n.aside)
      /\ Waits(n.aside, Lamp(0)) /\ todo' = todo
      /\ IF Lights > 0 THEN Goes(n.run, m.run, Lamp(0)) ELSE Goes(n.run, t.run, Lamp(0))
  BY <1>1 DEF Fine, Follow
<1>3. /\ m.aside = n.aside /\ ~m.clear /\ m.not = m.run
      /\ t.aside = n.aside /\ ~t.clear /\ t.not = t.run
  BY <1>2 DEF Plain, Note
<1>4. running' = running /\ stack' = stack /\ current' = current
  BY DEF InitIlluminance
<1>5. CASE running = {}
  <2>1. Now' = Now /\ Now \in DOMAIN Same /\ Now' = Same[Now]
    BY <1>5, NowTyped DEF Now, InitIlluminance
  <2>2. Says(t)'
    BY <1>2, <1>3, <1>4, <1>5, <2>1, SameFacts, NotesTyped, StillSays
  <2>. QED  BY <1>5, <2>2 DEF InitIlluminance, Jump
<1>6. CASE running # {}
  <2>1. Now \in DOMAIN Lamp(0) /\ Now' = Lamp(0)[Now]
    BY <1>6, NowTyped DEF Now, InitIlluminance, Lamp
  <2>2. CASE Lights > 0
    <3>1. \A p \in running : Owes(p, n.run) => Owes(p, m.run)'
      BY <1>2, <2>1, <2>2 DEF Owes, Goes
    <3>2. Says(m)'
      BY <1>2, <1>3, <1>4, <2>1, <3>1, StillSays
    <3>. QED  BY <1>6, <2>2, <3>2 DEF InitIlluminance, Continue
  <2>3. CASE ~(Lights > 0)
    <3>1. \A p \in running : Owes(p, n.run) => Owes(p, t.run)'
      BY <1>2, <2>1, <2>3 DEF Owes, Goes
    <3>2. Says(t)'
      BY <1>2, <1>3, <1>4, <2>1, <3>1, StillSays
    <3>. QED  BY <2>3, <3>2 DEF InitIlluminance, Jump
  <2>. QED  BY <2>2, <2>3
<1>. QED  BY <1>5, <1>6

\* illuminance: the running points divide into those this light reaches and the others.
LEMMA IlluminanceSays ==
  ASSUME IInv, NEW n \in Notes, NEW m \in Notes, NEW t \in Notes, Fine(code[pc], n, m, t),
         Says(n), NEW yes \in SUBSET running, Follow(yes), Illuminance(yes)
  PROVE  Says(m)'
<1>1. code[pc].op = "illuminance" /\ Kinds(code[pc].op) = {"illuminance"}
  BY DEF Illuminance, At, Kinds
<1>2. /\ n.run = n.not /\ n.clear /\ Away(n, Arg) /\ m = Note(m.run, m.not, n.aside, FALSE)
      /\ Does(n.run, m.run, Same, {"illuminance"}, Arg, TRUE)
      /\ Does(n.run, m.not, Same, {"illuminance"}, Arg, FALSE)
  BY <1>1 DEF Fine, Arg
<1>3. m.aside = n.aside /\ ~m.clear
  BY <1>2 DEF Note
<1>4. \A p \in running : p \in current' <=> p \in yes
  BY <1>2 DEF Illuminance, Says
<1>5. ASSUME NEW p \in running
      PROVE  Does(n.run, IF p \in current' THEN m.run ELSE m.not, Same,
                  Kinds(code[pc].op), Arg, p \in yes)
  <2>1. CASE p \in yes
    <3>1. (p \in yes) = TRUE
      BY <2>1
    <3>. QED  BY <1>1, <1>2, <1>4, <2>1, <3>1
  <2>2. CASE p \notin yes
    <3>1. (p \in yes) = FALSE
      BY <2>2
    <3>. QED  BY <1>1, <1>2, <1>4, <2>2, <3>1
  <2>. QED  BY <2>1, <2>2
<1>6. Now' = Now /\ Now \in DOMAIN Same /\ Now' = Same[Now]
  BY NowTyped DEF Now, Illuminance
<1>. QED  BY <1>1, <1>2, <1>3, <1>5, <1>6, SameFacts, NotesTyped, EventSays DEF Illuminance

\* advance_illuminance: when no point is running the counter stays, and it goes back.
LEMMA AdvanceIlluminanceSays ==
  ASSUME IInv, NEW n \in Notes, NEW m \in Notes, NEW t \in Notes, Fine(code[pc], n, m, t),
         Says(n), NEW yes, Follow(yes), AdvanceIlluminance
  PROVE  (pc' = pc + 1 /\ Says(m)') \/ (pc' = pc + Arg /\ Says(t)')
<1>1. code[pc].op = "advance_illuminance" /\ Kinds(code[pc].op) = {}
  BY DEF AdvanceIlluminance, At, Kinds
<1>2. /\ n.run = n.not /\ m = Plain(m.run, n.aside) /\ t = Plain(t.run, n.aside)
      /\ Waits(n.aside, NextLamp) /\ Waits(n.aside, LastLamp) /\ todo' = todo
      /\ Goes(n.run, t.run, NextLamp) /\ Goes(n.run, m.run, LastLamp)
  BY <1>1 DEF Fine, Follow
<1>3. /\ m.aside = n.aside /\ ~m.clear /\ m.not = m.run
      /\ t.aside = n.aside /\ ~t.clear /\ t.not = t.run
  BY <1>2 DEF Plain, Note
<1>4. running' = running /\ stack' = stack /\ current' = current
  BY DEF AdvanceIlluminance
<1>5. CASE running = {}
  <2>1. Now' = Now /\ Now \in DOMAIN Same /\ Now' = Same[Now]
    BY <1>5, NowTyped DEF Now, AdvanceIlluminance
  <2>2. Says(t)'
    BY <1>2, <1>3, <1>4, <1>5, <2>1, SameFacts, NotesTyped, StillSays
  <2>. QED  BY <1>5, <2>2 DEF AdvanceIlluminance, Jump
<1>6. CASE running # {} /\ li + 1 < Lights
  <2>1. Now \in DOMAIN NextLamp /\ Now' = NextLamp[Now]
    BY <1>6, NowTyped DEF Now, AdvanceIlluminance, NextLamp
  <2>2. \A p \in running : Owes(p, n.run) => Owes(p, t.run)'
    BY <1>2, <2>1 DEF Owes, Goes
  <2>3. Says(t)'
    BY <1>2, <1>3, <1>4, <2>1, <2>2, StillSays
  <2>. QED  BY <1>6, <2>3 DEF AdvanceIlluminance, Jump
<1>7. CASE running # {} /\ ~(li + 1 < Lights)
  <2>0. li + 1 >= Lights
    BY <1>7, LightsNat DEF IInv, TypeOK
  <2>1. Now \in DOMAIN LastLamp /\ Now' = LastLamp[Now]
    BY <1>7, <2>0, NowTyped DEF Now, AdvanceIlluminance, LastLamp
  <2>2. \A p \in running : Owes(p, n.run) => Owes(p, m.run)'
    BY <1>2, <2>1 DEF Owes, Goes
  <2>3. Says(m)'
    BY <1>2, <1>3, <1>4, <2>1, <2>2, StillSays
  <2>. QED  BY <1>7, <2>3 DEF AdvanceIlluminance, Continue
<1>. QED  BY <1>5, <1>6, <1>7

\* illuminate and solar.
LEMMA LightSays ==
  ASSUME IInv, NEW n \in Notes, NEW m \in Notes, NEW t \in Notes, Fine(code[pc], n, m, t),
         Says(n), NEW yes \in SUBSET running, Follow(yes),
         code[pc].op \in {"illuminate", "solar"}, UNCHANGED <<running, stack, li, rays>>,
         lit' = TRUE \/ (lit' = lit /\ running = {}),
         current' = IF lit THEN current ELSE (current \ running) \cup yes
  PROVE  Says(m)'
<1>1. /\ n.run = n.not /\ n.clear /\ Away(n, Arg) /\ m = Note(m.run, m.not, n.aside, FALSE)
      /\ Waits(n.aside, Light)
      /\ Does(n.run, m.run, Light, {code[pc].op}, Arg, TRUE)
      /\ Does(n.run, m.not, Light, {code[pc].op}, Arg, FALSE)
      /\ \A c \in DOMAIN n.run : c.b =>
           c \in DOMAIN m.not /\ Settle[m.not[c]] = Settle[n.run[c]]
  <2>1. CASE code[pc].op = "illuminate"
    BY <2>1 DEF Fine, Arg
  <2>2. CASE code[pc].op = "solar"
    BY <2>2 DEF Fine, Arg
  <2>. QED  BY <2>1, <2>2
<1>2. m.aside = n.aside /\ ~m.clear
  BY <1>1 DEF Note
<1>3. current = {} /\ lit \in BOOLEAN
  BY <1>1 DEF Says, IInv, TypeOK
<1>4. Kinds(code[pc].op) = IF lit THEN {} ELSE {code[pc].op}
  BY DEF Kinds
<1>5. CASE lit
  <2>1. Now' = Now /\ Now \in DOMAIN Same /\ Now' = Same[Now] /\ todo' = todo /\ Now.b = TRUE
    BY <1>3, <1>4, <1>5, NowTyped DEF Now, Follow
  <2>2. ASSUME NEW p \in running  PROVE Owes(p, n.run) => Owes(p, m.not)'
    BY <1>1, <2>1 DEF Owes
  <2>3. current' = {}
    BY <1>3, <1>5
  <2>. QED  BY <1>1, <1>2, <2>1, <2>2, <2>3, SameFacts, NotesTyped, StillSays
<1>6. CASE ~lit /\ lit' = lit /\ running = {}
  <2>1. Now' = Now /\ Now \in DOMAIN Same /\ Now' = Same[Now]
    BY <1>6, NowTyped DEF Now
  <2>2. \A p \in Points : p \notin running => todo'[p] = todo[p]
    BY <1>4, <1>6 DEF Follow
  <2>. QED  BY <1>2, <1>6, <2>1, <2>2, SameFacts, NotesTyped, StillSays
<1>7. CASE ~lit /\ lit' = TRUE
  <2>1. Now \in Counters /\ Now.b = FALSE
    BY <1>3, <1>7, NowTyped DEF Now
  <2>2. Now \in DOMAIN Light /\ Light[Now] = [Now EXCEPT !.b = TRUE]
    BY <2>1 DEF Light
  <2>3. Now' = Light[Now]
    BY <1>7, <2>2 DEF Now
  <2>4. \A p \in running : p \in current' <=> p \in yes
    BY <1>7
  <2>5. ASSUME NEW p \in running
        PROVE  Does(n.run, IF p \in current' THEN m.run ELSE m.not, Light,
                    Kinds(code[pc].op), Arg, p \in yes)
    <3>0. Kinds(code[pc].op) = {code[pc].op}
      BY <1>4, <1>7
    <3>1. CASE p \in yes
      <4>1. (p \in yes) = TRUE
        BY <3>1
      <4>. QED  BY <1>1, <2>4, <3>0, <3>1, <4>1
    <3>2. CASE p \notin yes
      <4>1. (p \in yes) = FALSE
        BY <3>2
      <4>. QED  BY <1>1, <2>4, <3>0, <3>2, <4>1
    <3>. QED  BY <3>1, <3>2
  <2>6. Kinds(code[pc].op) # {}
    BY <1>4, <1>7
  <2>. QED  BY <1>1, <1>2, <2>2, <2>3, <2>5, <2>6, EventSays
<1>. QED  BY <1>3, <1>5, <1>6, <1>7

\* init_gather sets the number of rays.
LEMMA InitGatherSays ==
  ASSUME IInv, NEW n \in Notes, NEW m \in Notes, NEW t \in Notes, Fine(code[pc], n, m, t),
         Says(n), NEW yes, Follow(yes), InitGather
  PROVE  Says(m)'
<1>1. code[pc].op = "init_gather" /\ Kinds(code[pc].op) = {}
  BY DEF InitGather, At, Kinds
<1>2. /\ n.run = n.not /\ m = Plain(m.run, n.aside) /\ todo' = todo
      /\ Waits(n.aside, Ray(Arg)) /\ Goes(n.run, m.run, Ray(Arg))
  BY <1>1 DEF Fine, Follow, Arg
<1>3. m.aside = n.aside /\ ~m.clear /\ m.not = m.run
  BY <1>2 DEF Plain, Note
<1>4. running' = running /\ stack' = stack
  BY DEF InitGather
<1>5. CASE running = {}
  <2>1. Now' = Now /\ Now \in DOMAIN Same /\ Now' = Same[Now]
    BY <1>5, NowTyped DEF Now, InitGather
  <2>. QED  BY <1>2, <1>3, <1>4, <1>5, <2>1, SameFacts, NotesTyped, StillSays
<1>6. CASE running # {}
  <2>1. Now \in DOMAIN Ray(Arg) /\ Now' = Ray(Arg)[Now]
    BY <1>6, NowTyped DEF Now, InitGather, Ray
  <2>2. \A p \in running : Owes(p, n.run) => Owes(p, m.run)'
    BY <1>2, <2>1 DEF Owes, Goes
  <2>. QED  BY <1>2, <1>3, <1>4, <2>1, <2>2, StillSays
<1>. QED  BY <1>5, <1>6

\* gather: SO_gather finds no point whose ray hits something.
LEMMA GatherSays ==
  ASSUME IInv, NEW n \in Notes, NEW m \in Notes, NEW t \in Notes, Fine(code[pc], n, m, t),
         Says(n), Follow({}), Gather
  PROVE  Says(m)'
<1>1. code[pc].op = "gather" /\ Kinds(code[pc].op) = {"gather"}
  BY DEF Gather, At, Kinds
<1>2. /\ n.run = n.not /\ Away(n, Arg) /\ m = Note(m.run, m.not, n.aside, FALSE)
      /\ Does(n.run, m.not, Same, {"gather"}, Arg, FALSE)
  BY <1>1 DEF Fine, Arg
<1>3. m.aside = n.aside /\ ~m.clear
  BY <1>2 DEF Note
<1>4. \A p \in running : (p \in {}) = FALSE
  OBVIOUS
<1>5. \A p \in running : Does(n.run, IF p \in current' THEN m.run ELSE m.not, Same,
                                 Kinds(code[pc].op), Arg, p \in {})
  BY <1>1, <1>2, <1>4 DEF Gather
<1>6. Now' = Now /\ Now \in DOMAIN Same /\ Now' = Same[Now]
  BY NowTyped DEF Now, Gather
<1>. QED  BY <1>1, <1>2, <1>3, <1>5, <1>6, SameFacts, NotesTyped, EventSays DEF Gather

\* advance_gather: as for the lights.
LEMMA AdvanceGatherSays ==
  ASSUME IInv, NEW n \in Notes, NEW m \in Notes, NEW t \in Notes, Fine(code[pc], n, m, t),
         Says(n), NEW yes, Follow(yes), AdvanceGather
  PROVE  (pc' = pc + 1 /\ Says(m)') \/ (pc' = pc + Arg /\ Says(t)')
<1>1. code[pc].op = "advance_gather" /\ Kinds(code[pc].op) = {}
  BY DEF AdvanceGather, At, Kinds
<1>2. /\ n.run = n.not /\ m = Plain(m.run, n.aside) /\ t = Plain(t.run, n.aside)
      /\ \A c \in DOMAIN n.run : c.r > 0
      /\ Waits(n.aside, NextRay) /\ Waits(n.aside, LastRay) /\ todo' = todo
      /\ Goes(n.run, t.run, NextRay) /\ Goes(n.run, m.run, LastRay)
  BY <1>1 DEF Fine, Follow
<1>3. /\ m.aside = n.aside /\ ~m.clear /\ m.not = m.run
      /\ t.aside = n.aside /\ ~t.clear /\ t.not = t.run
  BY <1>2 DEF Plain, Note
<1>4. running' = running /\ stack' = stack /\ current' = current
  BY DEF AdvanceGather
<1>5. CASE running = {}
  <2>1. Now' = Now /\ Now \in DOMAIN Same /\ Now' = Same[Now]
    BY <1>5, NowTyped DEF Now, AdvanceGather
  <2>2. Says(t)'
    BY <1>2, <1>3, <1>4, <1>5, <2>1, SameFacts, NotesTyped, StillSays
  <2>. QED  BY <1>5, <2>2 DEF AdvanceGather, Jump
<1>6. CASE running # {}
  <2>1. Now \in DOMAIN n.run /\ Now.r = rays
    BY <1>2, <1>6 DEF Says, Owes, Now
  <2>2. rays \in 1 .. UintLimit - 1 /\ UintLimit \in Nat
    BY <1>2, <2>1, UintLimitNat DEF IInv, TypeOK
  <2>3. rays' = rays - 1
    <3>1. (rays - 1) \in 0 .. UintLimit - 1
      BY <2>2
    <3>2. (rays - 1) % UintLimit = rays - 1
      BY <2>2, <3>1
    <3>. QED  BY <1>6, <3>2 DEF AdvanceGather
  <2>4. CASE rays > 1
    <3>1. Now \in DOMAIN NextRay /\ Now' = NextRay[Now]
      BY <2>3, <2>4, NowTyped DEF Now, AdvanceGather, NextRay
    <3>2. \A p \in running : Owes(p, n.run) => Owes(p, t.run)'
      BY <1>2, <3>1 DEF Owes, Goes
    <3>3. Says(t)'
      BY <1>2, <1>3, <1>4, <3>1, <3>2, StillSays
    <3>4. rays' > 0
      BY <2>2, <2>3, <2>4
    <3>. QED  BY <3>3, <3>4 DEF AdvanceGather, Jump
  <2>5. CASE ~(rays > 1)
    <3>0. rays = 1 /\ rays' = 0
      BY <2>2, <2>3, <2>5
    <3>1. Now \in DOMAIN LastRay /\ Now' = LastRay[Now]
      BY <3>0, NowTyped DEF Now, AdvanceGather, LastRay
    <3>2. \A p \in running : Owes(p, n.run) => Owes(p, m.run)'
      BY <1>2, <3>1 DEF Owes, Goes
    <3>3. Says(m)'
      BY <1>2, <1>3, <1>4, <3>1, <3>2, StillSays
    <3>. QED  BY <1>6, <3>0, <3>3 DEF AdvanceGather, Continue
  <2>. QED  BY <2>4, <2>5
<1>. QED  BY <1>5, <1>6

\* RS_PUSH: the new level keeps the running points, of which none is aside yet.
LEMMA PushSays ==
  ASSUME IInv, NEW n \in Notes, NEW m \in Notes, NEW t \in Notes, Fine(code[pc], n, m, t),
         Says(n), NEW yes, Follow(yes), PushState
  PROVE  Says(m)'
<1>. DEFINE D == Len(stack)
<1>1. code[pc].op = "RS_PUSH" /\ Kinds(code[pc].op) = {}
  BY DEF PushState, At, Kinds
<1>2. /\ Len(n.aside) = D /\ Len(m.aside) = D + 1 /\ todo' = todo
      /\ m = Note(n.run, n.not, Append(n.aside, m.aside[D + 1]), FALSE)
  BY <1>1 DEF Fine, Follow, Says
<1>3. /\ D \in Nat /\ D + 1 \in 1 .. D + 1
      /\ \A d \in 1 .. D : m.aside[d] = n.aside[d]
      /\ m.run = n.run /\ m.not = n.not /\ ~m.clear
  <2>1. m.aside = Append(n.aside, m.aside[D + 1]) /\ m.aside \in Seq(Rests)
    BY <1>2 DEF Note, Notes
  <2>2. m.aside[D + 1] \in Rests
    BY <1>2, <2>1, StackShape, ElementOfSeq DEF IInv
  <2>. QED  BY <1>2, <2>1, <2>2, NotesTyped, StackShape, AppendProperties DEF Note, IInv
<1>4. /\ Len(stack') = D + 1 /\ stack'[D + 1] = running
      /\ \A d \in 1 .. D : stack'[d] = stack[d]
  BY AppendProperties DEF IInv, TypeOK, PushState
<1>5. Now' = Now /\ running' = running /\ current' = current
  BY DEF Now, PushState
<1>6. \A p \in running : Owes(p, IF p \in current THEN m.run ELSE m.not)'
  BY <1>2, <1>3, <1>5 DEF Says, Owes
<1>7. ASSUME NEW d \in 1 .. D + 1, NEW p \in stack'[d],
             p \notin (IF d = D + 1 THEN running ELSE stack'[d + 1])
      PROVE  Owes(p, m.aside[d])'
  <2>1. d # D + 1
    BY <1>4, <1>7
  <2>2. d \in 1 .. D /\ (d # D => d + 1 \in 1 .. D)
    <3>. HIDE DEF D
    <3>. QED  BY <1>3, <2>1
  <2>3. p \in stack[d] /\ p \notin (IF d = D THEN running ELSE stack[d + 1])
    BY <1>4, <1>7, <2>1, <2>2
  <2>4. Owes(p, n.aside[d])
    BY <2>2, <2>3 DEF Says
  <2>. QED  BY <1>2, <1>3, <1>5, <2>2, <2>4 DEF Owes
<1>. QED  BY <1>2, <1>3, <1>4, <1>5, <1>6, <1>7 DEF Says

\* RS_POP: those aside at the level run again, and owe what the others do.
LEMMA PopSays ==
  ASSUME IInv, NEW n \in Notes, NEW m \in Notes, NEW t \in Notes, Fine(code[pc], n, m, t),
         Says(n), NEW yes, Follow(yes), PopState
  PROVE  Says(m)'
<1>. DEFINE D == Len(stack)
<1>1. code[pc].op = "RS_POP" /\ Kinds(code[pc].op) = {}
  BY DEF PopState, At, Kinds
<1>2. /\ Len(n.aside) = D /\ D > 0 /\ n.run = n.not /\ n.aside[D] = n.run /\ todo' = todo
      /\ m = Plain(n.run, SubSeq(n.aside, 1, D - 1))
  BY <1>1 DEF Fine, Follow, Says
<1>3. D \in Nat /\ stack # <<>> /\ D - 1 \in Nat
  <2>1. D \in Nat /\ (stack = <<>> <=> D = 0)
    BY StackShape DEF IInv
  <2>. HIDE DEF D
  <2>. QED  BY <1>2, <2>1
<1>4. /\ Len(m.aside) = D - 1 /\ m.run = n.run /\ m.not = n.run /\ ~m.clear
      /\ \A d \in 1 .. D - 1 : m.aside[d] = n.aside[d]
  <2>1. n.aside \in Seq(Rests) /\ m.aside = SubSeq(n.aside, 1, D - 1)
    BY <1>2 DEF Notes, Plain, Note
  <2>. HIDE DEF D
  <2>. QED  BY <1>2, <1>3, <2>1 DEF Plain, Note
<1>5. /\ Len(stack') = D - 1 /\ \A d \in 1 .. D - 1 : stack'[d] = stack[d]
  <2>1. stack \in Seq(SUBSET Points) /\ stack' = SubSeq(stack, 1, D - 1) /\ Len(stack) = D
    BY DEF IInv, TypeOK, PopState
  <2>. HIDE DEF D
  <2>. QED  BY <1>3, <2>1
<1>6. Now' = Now /\ running' = stack[D]
  BY <1>3 DEF Now, PopState, Top
<1>7. ASSUME NEW p \in running'  PROVE Owes(p, n.run)'
  <2>1. D \in 1 .. D
    BY <1>2, <1>3
  <2>2. CASE p \in running
    BY <1>2, <1>6, <2>2 DEF Says, Owes
  <2>3. CASE p \notin running
    <3>1. Owes(p, n.aside[D])
      BY <1>6, <1>7, <2>1, <2>3 DEF Says
    <3>. QED  BY <1>2, <1>6, <3>1 DEF Owes
  <2>. QED  BY <2>2, <2>3
<1>8. ASSUME NEW d \in 1 .. D - 1, NEW p \in stack'[d],
             p \notin (IF d = D - 1 THEN running' ELSE stack'[d + 1])
      PROVE  Owes(p, m.aside[d])'
  <2>1. d \in 1 .. D /\ d # D /\ (d # D - 1 => d + 1 \in 1 .. D - 1) /\ (d = D - 1 => d + 1 = D)
    <3>. HIDE DEF D
    <3>. QED  BY <1>3
  <2>2. p \in stack[d] /\ p \notin stack[d + 1]
    BY <1>5, <1>6, <1>8, <2>1
  <2>3. Owes(p, n.aside[d])
    BY <2>1, <2>2 DEF Says
  <2>. QED  BY <1>2, <1>4, <1>6, <2>3 DEF Owes
<1>. QED  BY <1>4, <1>5, <1>7, <1>8 DEF Says

\* RS_GET: the running points that are not in the current state are put aside.
LEMMA GetMaskSays ==
  ASSUME IInv, NEW n \in Notes, NEW m \in Notes, NEW t \in Notes, Fine(code[pc], n, m, t),
         Says(n), NEW yes, Follow(yes), GetCurrentState
  PROVE  Says(m)'
<1>. DEFINE D == Len(stack)
<1>1. code[pc].op = "RS_GET" /\ Kinds(code[pc].op) = {} /\ pc \in DOMAIN code
  BY DEF GetCurrentState, At, Kinds
<1>2. /\ Len(n.aside) = D /\ D > 0 /\ n.aside[D] = n.not /\ todo' = todo
      /\ m = Plain(n.run, n.aside)
  BY <1>1 DEF Fine, Follow, Says
<1>3. m.aside = n.aside /\ m.run = n.run /\ m.not = n.run /\ ~m.clear
  BY <1>2 DEF Plain, Note
<1>4. current \subseteq running
  BY <1>1, Demands DEF IInv, Tracked
<1>5. Now' = Now /\ running' = current /\ stack' = stack
  BY DEF Now, GetCurrentState
<1>6. \A p \in running' : Owes(p, n.run)'
  BY <1>2, <1>4, <1>5 DEF Says, Owes
<1>7. ASSUME NEW d \in 1 .. D, NEW p \in stack[d],
             p \notin (IF d = D THEN current ELSE stack[d + 1])
      PROVE  Owes(p, n.aside[d])
  <2>1. CASE p \in running
    <3>1. d = D
      BY <1>7, <2>1, AsideIdle
    <3>2. p \notin current
      BY <1>7, <3>1
    <3>. QED  BY <1>2, <2>1, <3>1, <3>2 DEF Says
  <2>2. CASE p \notin running
    BY <1>7, <2>2 DEF Says
  <2>. QED  BY <2>1, <2>2
<1>8. \A d \in 1 .. D : \A p \in stack[d] :
        p \notin (IF d = D THEN current ELSE stack[d + 1]) => Owes(p, m.aside[d])'
  BY <1>2, <1>3, <1>5, <1>7 DEF Owes
<1>. QED  BY <1>2, <1>3, <1>5, <1>6, <1>8 DEF Says

\* RS_INVERSE: those aside at the top run, and the others are aside.
LEMMA InvertSays ==
  ASSUME IInv, NEW n \in Notes, NEW m \in Notes, NEW t \in Notes, Fine(code[pc], n, m, t),
         Says(n), NEW yes, Follow(yes), InvertRunningState
  PROVE  Says(m)'
<1>. DEFINE D == Len(stack)
<1>1. code[pc].op = "RS_INVERSE" /\ Kinds(code[pc].op) = {}
  BY DEF InvertRunningState, At, Kinds
<1>2. /\ Len(n.aside) = D /\ D > 0 /\ n.run = n.not /\ todo' = todo
      /\ m = Plain(n.aside[D], [n.aside EXCEPT ![D] = n.run])
  BY <1>1 DEF Fine, Follow, Says
<1>3. D \in Nat /\ stack # <<>> /\ D \in 1 .. D
  <2>1. D \in Nat /\ (stack = <<>> <=> D = 0)
    BY StackShape DEF IInv
  <2>. HIDE DEF D
  <2>. QED  BY <1>2, <2>1
<1>4. /\ Len(m.aside) = D /\ m.run = n.aside[D] /\ m.not = n.aside[D] /\ ~m.clear
      /\ \A d \in 1 .. D : m.aside[d] = IF d = D THEN n.run ELSE n.aside[d]
  <2>1. n.aside \in Seq(Rests) /\ m.aside = [n.aside EXCEPT ![D] = n.run]
    BY <1>2 DEF Notes, Plain, Note
  <2>2. DOMAIN n.aside = 1 .. D /\ m.aside \in Seq(Rests)
    BY <1>2, <2>1, LenProperties DEF Notes
  <2>3. Len(m.aside) = D
    BY <1>3, <2>1, <2>2, LenProperties
  <2>. QED  BY <1>2, <2>1, <2>2, <2>3 DEF Plain, Note
<1>5. Now' = Now /\ stack' = stack /\ running' = (Points \ running) \cap stack[D]
  BY <1>3 DEF Now, InvertRunningState, Top
<1>6. ASSUME NEW p \in running'  PROVE Owes(p, n.aside[D])'
  <2>1. Owes(p, n.aside[D])
    BY <1>3, <1>5, <1>6 DEF Says
  <2>. QED  BY <1>2, <1>5, <2>1 DEF Owes
<1>7. ASSUME NEW d \in 1 .. D, NEW p \in stack[d],
             p \notin (IF d = D THEN running' ELSE stack[d + 1])
      PROVE  Owes(p, m.aside[d])
  <2>1. CASE d = D
    <3>1. p \in Points
      BY StackShape DEF IInv
    <3>2. p \in running
      BY <1>5, <1>7, <2>1, <3>1
    <3>. QED  BY <1>2, <1>4, <2>1, <3>2 DEF Says
  <2>2. CASE d # D
    BY <1>4, <1>7, <2>2 DEF Says
  <2>. QED  BY <2>1, <2>2
<1>8. \A d \in 1 .. D : \A p \in stack[d] :
        p \notin (IF d = D THEN running' ELSE stack[d + 1]) => Owes(p, m.aside[d])'
  BY <1>2, <1>5, <1>7 DEF Owes
<1>. QED  BY <1>4, <1>5, <1>6, <1>8 DEF Says

\* RS_BREAK: the running points leave all levels down to the one they go on from.
LEMMA BreakSays ==
  ASSUME IInv, NEW n \in Notes, NEW m \in Notes, NEW t \in Notes, Fine(code[pc], n, m, t),
         Says(n), NEW yes, Follow(yes), RunningStatesBreak
  PROVE  Says(m)'
<1>. DEFINE D == Len(stack)
            e == D - Arg
<1>1. code[pc].op = "RS_BREAK" /\ Kinds(code[pc].op) = {}
  BY DEF RunningStatesBreak, At, Kinds
<1>2. /\ Len(n.aside) = D /\ n.run = n.not /\ todo' = todo /\ m = Plain(m.run, n.aside)
      /\ Arg \in 0 .. D - 1 /\ Leads(n.run, n.aside[e])
  BY <1>1 DEF Fine, Follow, Says, Arg
<1>3. m.aside = n.aside /\ ~m.clear
  BY <1>2 DEF Plain, Note
<1>4. D \in Nat /\ e \in 1 .. D
  <2>1. D \in Nat
    BY StackShape DEF IInv
  <2>. HIDE DEF D
  <2>. QED  BY <1>2, <2>1
<1>5. /\ Len(stack') = D /\ running' = {} /\ Now' = Now
      /\ \A d \in 1 .. D : stack'[d] = IF d > e THEN stack[d] \ running ELSE stack[d]
  <2>1. stack \in Seq(SUBSET Points) /\ DOMAIN stack = 1 .. D
    BY StackShape DEF IInv, TypeOK
  <2>2. stack' = [i \in 1 .. D |-> IF i > e THEN stack[i] \ running ELSE stack[i]]
    BY <2>1 DEF RunningStatesBreak
  <2>3. Len(stack') = D
    <3>. HIDE DEF D, e
    <3>. QED  BY <1>4, <2>2
  <2>. QED  BY <2>2, <2>3 DEF RunningStatesBreak, Now
<1>6. ASSUME NEW d \in 1 .. D, NEW p \in stack'[d],
             p \notin (IF d = D THEN {} ELSE stack'[d + 1])
      PROVE  Owes(p, n.aside[d])
  <2>1. p \in stack[d] /\ (d > e => p \notin running) /\ (d # D => d + 1 \in 1 .. D)
    <3>1. d # D => d + 1 \in 1 .. D
      <4>. HIDE DEF D
      <4>. QED  BY <1>4
    <3>. QED  BY <1>5, <1>6, <3>1
  <2>2. CASE p \in running
    <3>1. d <= e
      <4>. HIDE DEF D, e
      <4>. QED  BY <1>4, <2>1, <2>2
    <3>2. d = e
      <4>1. \A j \in 1 .. D : p \in stack[j]
        <5>. SUFFICES ASSUME NEW j \in 1 .. D, p \notin stack[j]  PROVE FALSE
          OBVIOUS
        <5>. DEFINE T == {k \in 1 .. D : p \notin stack[k]}
        <5>1. PICK k \in T : \A i \in T : k <= i
          <6>1. T \subseteq Nat /\ T # {}
            OBVIOUS
          <6>. HIDE DEF T
          <6>. QED  BY <6>1, LeastNumber
        <5>2. CASE k = 1
          BY <5>2, <2>2, <1>4 DEF IInv, Tracked, TypeOK
        <5>3. CASE k # 1
          <6>1. k - 1 \in 1 .. D /\ ~(k <= k - 1) /\ (k - 1) + 1 = k /\ k - 1 # D
            <7>. HIDE DEF D
            <7>. QED  BY <1>4, <5>1, <5>3
          <6>2. k - 1 \notin T
            <7>. HIDE DEF T
            <7>. QED  BY <5>1, <6>1
          <6>3. p \in stack[k - 1] /\ p \notin stack[(k - 1) + 1]
            BY <5>1, <6>1, <6>2
          <6>. QED  BY <6>1, <6>3, <2>2, AsideIdle
        <5>. QED  BY <5>2, <5>3
      <4>2. CASE d < e
        <5>1. d # D /\ d + 1 \in 1 .. D /\ ~(d + 1 > e)
          <6>. HIDE DEF D, e
          <6>. QED  BY <1>4, <4>2
        <5>. QED  BY <1>5, <1>6, <4>1, <5>1
      <4>3. CASE ~(d < e)
        <5>. HIDE DEF D, e
        <5>. QED  BY <1>4, <3>1, <4>3
      <4>. QED  BY <4>2, <4>3
    <3>. QED  BY <1>2, <2>2, <3>2, OwesMore DEF Says
  <2>3. CASE p \notin running
    <3>1. p \notin (IF d = D THEN running ELSE stack[d + 1])
      BY <1>5, <1>6, <2>1, <2>3
    <3>. QED  BY <2>1, <3>1 DEF Says
  <2>. QED  BY <2>2, <2>3
<1>7. \A d \in 1 .. D : \A p \in stack'[d] :
        p \notin (IF d = D THEN running' ELSE stack'[d + 1]) => Owes(p, m.aside[d])'
  BY <1>2, <1>3, <1>5, <1>6 DEF Owes
<1>. QED  BY <1>2, <1>3, <1>5, <1>7 DEF Says

\* What a note says after a step, a weaker one says.
LEMMA SaysLessThen ==
  ASSUME NEW n, NEW m, Yields(n, m), Says(n)'
  PROVE  Says(m)'
<1>1. Len(m.aside) = Len(stack') /\ (m.clear => current' = {})
  BY DEF Says, Yields
<1>2. ASSUME NEW p \in running'  PROVE Owes(p, IF p \in current THEN m.run ELSE m.not)'
  BY <1>2 DEF Says, Yields, Leads, Owes
<1>3. ASSUME NEW d \in 1 .. Len(stack'), NEW p \in stack'[d],
             p \notin (IF d = Len(stack') THEN running' ELSE stack'[d + 1])
      PROVE  Owes(p, m.aside[d])'
  <2>1. Owes(p, n.aside[d])' /\ Leads(n.aside[d], m.aside[d])
    BY <1>3 DEF Says, Yields
  <2>. QED  BY <2>1 DEF Leads, Owes
<1>. QED  BY <1>1, <1>2, <1>3 DEF Says

\* Every instruction leads to what is noted behind it or where it jumps.
LEMMA StepSays ==
  ASSUME IInv, NEW n \in Notes, NEW m \in Notes, NEW t \in Notes, Fine(code[pc], n, m, t),
         Says(n), NEW yes \in Answers, Step(yes), Follow(yes)
  PROVE  \/ code[pc].op # "jmp" /\ pc' = pc + 1 /\ Says(m)'
         \/ code[pc].op \in JumpOps /\ pc' = pc + Arg /\ Says(t)'
<1>1. CASE Do
  <2>1. yes = {} /\ code[pc].op = "do" /\ pc' = pc + 1
    BY <1>1 DEF Answers, Do, At, Continue
  <2>. QED  BY <1>1, <2>1, DoSays
<1>2. CASE Choice(yes) \/ Diffuse(yes) \/ ClearCurrentState
  <2>1. code[pc].op # "jmp" /\ pc' = pc + 1
    BY <1>2 DEF Choice, Diffuse, ClearCurrentState, At, Continue
  <2>. QED  BY <1>2, <2>1, ChoiceSays, DiffuseSays, ClearSays
<1>3. CASE SetCurrentState(yes)
  <2>1. code[pc].op = "S_GET" /\ pc' = pc + 1
    BY <1>3 DEF SetCurrentState, At, Continue
  <2>2. yes \in SUBSET running
    BY <2>1 DEF Answers
  <2>. QED  BY <1>3, <2>1, <2>2, GetSays
<1>4. CASE PushState \/ PopState \/ GetCurrentState
  <2>1. code[pc].op # "jmp" /\ pc' = pc + 1
    BY <1>4 DEF PushState, PopState, GetCurrentState, At, Continue
  <2>. QED  BY <1>4, <2>1, PushSays, PopSays, GetMaskSays
<1>5. CASE InvertRunningState \/ RunningStatesBreak
  <2>1. code[pc].op # "jmp" /\ pc' = pc + 1
    BY <1>5 DEF InvertRunningState, RunningStatesBreak, At, Continue
  <2>. QED  BY <1>5, <2>1, InvertSays, BreakSays
<1>6. CASE JumpIfIdle \/ JumpIfNone
  <2>1. code[pc].op # "jmp" /\ code[pc].op \in JumpOps
    BY <1>6 DEF JumpIfIdle, JumpIfNone, At, JumpOps
  <2>. QED  BY <1>6, <2>1, JumpIfIdleSays, JumpIfNoneSays
<1>7. CASE JumpAlways
  <2>1. code[pc].op \in JumpOps /\ pc' = pc + Arg
    BY <1>7 DEF JumpAlways, At, JumpOps, Jump
  <2>. QED  BY <1>7, <2>1, JumpSays
<1>8. CASE InitIlluminance \/ AdvanceIlluminance \/ AdvanceGather
  <2>1. code[pc].op # "jmp" /\ code[pc].op \in JumpOps
    BY <1>8 DEF InitIlluminance, AdvanceIlluminance, AdvanceGather, At, JumpOps
  <2>. QED  BY <1>8, <2>1, InitIlluminanceSays, AdvanceIlluminanceSays, AdvanceGatherSays
<1>9. CASE Illuminance(yes)
  <2>1. code[pc].op = "illuminance" /\ pc' = pc + 1
    BY <1>9 DEF Illuminance, At, Continue
  <2>2. yes \in SUBSET running
    BY <2>1 DEF Answers
  <2>. QED  BY <1>9, <2>1, <2>2, IlluminanceSays
<1>10. CASE Illuminate(yes)
  <2>1. code[pc].op = "illuminate" /\ pc' = pc + 1
    BY <1>10 DEF Illuminate, At, Continue
  <2>2. yes \in SUBSET running
    BY <2>1 DEF Answers
  <2>3. lit' = TRUE \/ (lit' = lit /\ running = {})
    BY <1>10 DEF Illuminate, IInv, TypeOK
  <2>. QED  BY <1>10, <2>1, <2>2, <2>3, LightSays DEF Illuminate
<1>11. CASE Solar
  <2>1. code[pc].op = "solar" /\ pc' = pc + 1
    BY <1>11 DEF Solar, At, Continue
  <2>2. yes = running
    BY <2>1 DEF Answers
  <2>3. current' = IF lit THEN current ELSE (current \ running) \cup yes
    BY <1>11, <2>2 DEF Solar
  <2>. QED  BY <1>11, <2>1, <2>2, <2>3, LightSays DEF Solar
<1>12. CASE InitGather
  <2>1. code[pc].op # "jmp" /\ pc' = pc + 1
    BY <1>12 DEF InitGather, At, Continue
  <2>. QED  BY <1>12, <2>1, InitGatherSays
<1>13. CASE Gather
  <2>1. yes = {} /\ code[pc].op = "gather" /\ pc' = pc + 1
    BY <1>13 DEF Answers, Gather, At, Continue
  <2>. QED  BY <1>13, <2>1, GatherSays
<1>. QED  BY <1>1, <1>2, <1>3, <1>4, <1>5, <1>6, <1>7, <1>8, <1>9, <1>10, <1>11, <1>12, <1>13
          DEF Step

\* With notes that fit the code, the machine goes on keeping to them.
LEMMA NotedKeeps ==
  ASSUME IInv, Noted, ShadingNext
  PROVE  Noted'
<1>1. PICK yes \in Answers : Step(yes) /\ Follow(yes)
  BY DEF ShadingNext
<1>2. PICK N \in [1 .. Len(code) + 1 -> Notes] :
        /\ Yields(N[Len(code) + 1], Plain(Nothing, <<>>))
        /\ \A i \in 1 .. Len(code) : FineAt(code, N, i)
        /\ Says(N[pc])
  BY DEF Noted
<1>3. pc \in 1 .. Len(code) /\ Len(code) \in Nat /\ code' = code /\ code[pc].arg \in Int
  <2>1. code \in Seq(Instruction) /\ pc \in DOMAIN code
    BY ProgramsType DEF IInv, TypeOK, ShadingNext
  <2>2. code[pc] \in Instruction
    BY <2>1, ElementOfSeq, LenProperties
  <2>3. code' = code
    <3>1. ASSUME NEW y, Step(y)  PROVE code' = code
      BY <3>1 DEF Step, Do, Choice, Diffuse, ClearCurrentState, SetCurrentState,
         PushState, PopState, GetCurrentState, InvertRunningState, RunningStatesBreak,
         JumpIfIdle, JumpIfNone, JumpAlways, InitIlluminance, Illuminance,
         AdvanceIlluminance, Illuminate, Solar, InitGather, Gather, AdvanceGather
    <3>. QED  BY <1>1, <3>1
  <2>. QED  BY <2>1, <2>2, <2>3, LenProperties DEF Instruction
<1>. DEFINE to == IF code[pc].op \in JumpOps THEN pc + code[pc].arg ELSE pc + 1
<1>4. PICK m \in Notes, t \in Notes :
        /\ to \in 1 .. Len(code) + 1
        /\ Fine(code[pc], N[pc], m, t)
        /\ code[pc].op # "jmp" => Yields(m, N[pc + 1])
        /\ code[pc].op \in JumpOps => Yields(t, N[to])
  BY <1>2, <1>3 DEF FineAt
<1>5. pc \in 1 .. Len(code) + 1 /\ pc + 1 \in 1 .. Len(code) + 1 /\ N[pc] \in Notes
  BY <1>3
<1>6. Says(N[pc])' /\ pc' \in 1 .. Len(code) + 1
  <2>1. CASE code[pc].op # "jmp" /\ pc' = pc + 1 /\ Says(m)'
    <3>1. PICK o : o = N[pc + 1]
      OBVIOUS
    <3>2. Yields(m, o)
      BY <1>4, <2>1, <3>1
    <3>3. Says(o)'
      BY <2>1, <3>2, SaysLessThen
    <3>. QED  BY <1>5, <2>1, <3>1, <3>3
  <2>2. CASE code[pc].op \in JumpOps /\ pc' = pc + Arg /\ Says(t)'
    <3>1. PICK o : o = N[to]
      OBVIOUS
    <3>2. Yields(t, o) /\ pc' = to
      BY <1>4, <2>2, <3>1 DEF Arg
    <3>3. Says(o)'
      BY <2>2, <3>2, SaysLessThen
    <3>. QED  BY <1>4, <3>1, <3>2, <3>3
  <2>3. \/ code[pc].op # "jmp" /\ pc' = pc + 1 /\ Says(m)'
        \/ code[pc].op \in JumpOps /\ pc' = pc + Arg /\ Says(t)'
    <3>1. PICK o : o = N[pc]
      OBVIOUS
    <3>. QED  BY <1>1, <1>2, <1>4, <1>5, <3>1, StepSays
  <2>. QED  BY <2>1, <2>2, <2>3
<1>. QED  BY <1>2, <1>3, <1>6 DEF Noted

-----------------------------------------------------------------------------
(* What the machine does is what every point would do alone. *)

\* Where every running point comes to the statement of the next instruction,
\* no other point does, and they all have the same left to do.
LEMMA Coming ==
  ASSUME IInv, NEW n \in Notes, Says(n), n.run = n.not, Away(n, Arg),
         NEW f, Now \in DOMAIN f, NEW x, NEW yes,
         Does(n.run, x, f, Kinds(code[pc].op), Arg, yes)
  PROVE  running = Expected /\ \A p, q \in running : todo[p] = todo[q]
<1>1. \A p \in running : Owes(p, n.run)
  BY DEF Says
<1>2. \A p \in running : /\ todo[p] = Settle[n.run[Now]]
                         /\ todo[p] # <<>> /\ Head(todo[p]).k \in Kinds(code[pc].op)
                         /\ Head(todo[p]).id = Arg
  BY <1>1 DEF Owes, Does
<1>3. running = Expected
  BY <1>2, Together
<1>. QED  BY <1>2, <1>3

\* Where an instruction carries out a statement it does so for all points that have
\* come to it, and they all have the same left to do.
LEMMA AllTogether ==
  ASSUME IInv, Noted, pc \in DOMAIN code, Kinds(code[pc].op) # {}
  PROVE  running = Expected /\ \A p, q \in running : todo[p] = todo[q]
<1>1. PICK N \in [1 .. Len(code) + 1 -> Notes] :
        /\ \A i \in 1 .. Len(code) : FineAt(code, N, i)
        /\ Says(N[pc])
  BY DEF Noted
<1>2. pc \in 1 .. Len(code) /\ pc \in 1 .. Len(code) + 1
  <2>1. code \in Seq(Instruction)
    BY ProgramsType DEF IInv, TypeOK
  <2>. QED  BY <2>1, LenProperties DEF IInv, TypeOK
<1>. DEFINE n == N[pc]
            op == code[pc].op
<1>3. PICK m \in Notes, t \in Notes : Fine(code[pc], n, m, t)
  BY <1>1, <1>2 DEF FineAt
<1>4. n \in Notes /\ Says(n)
  BY <1>1, <1>2
<1>. HIDE DEF n
<1>5. Now \in DOMAIN Same
  BY NowTyped
<1>6. CASE op = "do"
  <2>1. Kinds(op) = {"do"}
    BY <1>6 DEF Kinds
  <2>2. n.run = n.not /\ Away(n, Arg) /\ Does(n.run, m.run, Same, {"do"}, Arg, FALSE)
    BY <1>3, <1>6 DEF Fine, Arg
  <2>. QED  BY <1>4, <1>5, <2>1, <2>2, Coming
<1>7. CASE op = "S_GET"
  <2>1. Kinds(op) = {"if", "pick", "while"}
    BY <1>7 DEF Kinds
  <2>2. /\ n.run = n.not /\ Away(n, Arg)
        /\ Does(n.run, m.run, Same, {"if", "pick", "while"}, Arg, TRUE)
    BY <1>3, <1>7 DEF Fine, Arg
  <2>. QED  BY <1>4, <1>5, <2>1, <2>2, Coming
<1>8. CASE op = "illuminance"
  <2>1. Kinds(op) = {"illuminance"}
    BY <1>8 DEF Kinds
  <2>2. /\ n.run = n.not /\ Away(n, Arg)
        /\ Does(n.run, m.run, Same, {"illuminance"}, Arg, TRUE)
    BY <1>3, <1>8 DEF Fine, Arg
  <2>. QED  BY <1>4, <1>5, <2>1, <2>2, Coming
<1>9. CASE op = "gather"
  <2>1. Kinds(op) = {"gather"}
    BY <1>9 DEF Kinds
  <2>2. /\ n.run = n.not /\ Away(n, Arg)
        /\ Does(n.run, m.not, Same, {"gather"}, Arg, FALSE)
    BY <1>3, <1>9 DEF Fine, Arg
  <2>. QED  BY <1>4, <1>5, <2>1, <2>2, Coming
<1>10. CASE op \in {"illuminate", "solar"}
  <2>1. Kinds(op) = IF lit THEN {} ELSE {op}
    BY <1>10 DEF Kinds
  <2>2. ~lit /\ Kinds(op) = {op}
    BY <2>1
  <2>3. /\ n.run = n.not /\ Away(n, Arg)
        /\ Does(n.run, m.run, Light, {op}, Arg, TRUE)
    BY <1>3, <1>10 DEF Fine, Arg
  <2>4. Now \in DOMAIN Light
    BY <2>2, NowTyped DEF Light, Now
  <2>. QED  BY <1>4, <2>2, <2>3, <2>4, Coming
<1>11. op \in {"do", "S_GET", "illuminance", "gather", "illuminate", "solar"}
  BY DEF Kinds
<1>. QED  BY <1>6, <1>7, <1>8, <1>9, <1>10, <1>11

\* The notes give Lockstep: at the end nothing is noted to be left.
LEMMA LockstepNow == IInv /\ Noted => Lockstep
<1>. SUFFICES ASSUME IInv, Noted  PROVE Lockstep
  OBVIOUS
<1>1. code \in Seq(Instruction) /\ pc \in 1 .. Len(code) + 1
  BY ProgramsType DEF IInv, TypeOK
<1>2. CASE pc = Len(code) + 1
  <2>1. PICK N \in [1 .. Len(code) + 1 -> Notes] :
          Yields(N[Len(code) + 1], Plain(Nothing, <<>>)) /\ Says(N[pc])
    BY DEF Noted
  <2>. DEFINE end == Plain(Nothing, <<>>)
  <2>2. end.run = Nothing /\ end.not = Nothing /\ end.aside = <<>>
    BY DEF Plain, Note
  <2>. HIDE DEF end
  <2>3. Says(end)
    BY <1>2, <2>1, SaysLess DEF end
  <2>4. stack = <<>>
    <3>1. Len(stack) = Len(<<>>)
      BY <2>2, <2>3 DEF Says
    <3>. QED  BY <3>1, StackShape, EmptySeq DEF IInv
  <2>5. running = Points
    BY <2>4 DEF IInv, Tracked
  <2>6. \A p \in Points : Owes(p, Nothing)
    BY <2>2, <2>3, <2>5 DEF Says
  <2>7. \A p \in Points : todo[p] = <<>>
    BY <2>6, NothingFacts DEF Owes
  <2>. QED  BY <1>2, <2>7 DEF Lockstep
<1>3. CASE pc # Len(code) + 1
  <2>1. pc \in DOMAIN code
    BY <1>1, <1>3, LenProperties
  <2>. QED  BY <1>3, <2>1, AllTogether DEF Lockstep
<1>. QED  BY <1>2, <1>3

\* At the start every point has the whole source to do.
LEMMA StartNoted == ShadingInit => Noted
<1>. SUFFICES ASSUME ShadingInit  PROVE Noted
  OBVIOUS
<1>1. PICK source \in Sources :
        todo = [p \in Points |-> Settle[source]] /\ code = Code!Compile(source)
  BY DEF ShadingInit, Settle
<1>2. Scalar!IsShader(source)
  BY <1>1, SourcesAreShaders
<1>3. source \in Seq(Statements)
  BY <1>2 DEF Scalar!IsShader, Statements
<1>. DEFINE E == Entry(source, Nothing)
            start == Plain(E, <<>>)
<1>4. code \in Seq(Instruction) /\ Passage(code, start, Plain(Nothing, <<>>))
  BY <1>1, <1>2, SourceCompiles
<1>5. start.run = E /\ start.not = E /\ start.aside = <<>> /\ start.clear = FALSE
  BY DEF Plain, Note
<1>6. /\ pc = 1 /\ running = Points /\ stack = <<>> /\ li = 0 /\ lit = FALSE /\ rays = 0
  BY DEF ShadingInit, Init
<1>7. DOMAIN E = {e \in Counters : Shines(source) => ~e.b}
      /\ \A c \in DOMAIN E : E[c] = source \o Nothing[c]
  BY <1>3, NothingFacts, EntryTyped
<1>8. Now \in Counters /\ Now.b = FALSE
  BY <1>6 DEF Now, Counters
<1>9. E[Now] = source /\ Now \in DOMAIN E
  <2>1. Now \in DOMAIN E /\ E[Now] = source \o <<>>
    BY <1>7, <1>8, NothingFacts
  <2>. QED  BY <1>3, <2>1, ConcatEmptySeq
<1>. HIDE DEF E, start
<1>10. Says(start)
  <2>1. Len(start.aside) = Len(stack) /\ 1 .. Len(stack) = {}
    BY <1>5, <1>6, EmptySeq
  <2>2. \A p \in running : Owes(p, E)
    BY <1>1, <1>6, <1>9 DEF Owes
  <2>. QED  BY <1>5, <2>1, <2>2 DEF Says
<1>11. PICK N \in [1 .. Len(code) + 1 -> Notes] :
         /\ Yields(start, N[1]) /\ Yields(N[Len(code) + 1], Plain(Nothing, <<>>))
         /\ \A i \in 1 .. Len(code) : FineAt(code, N, i)
  BY <1>4 DEF Passage
<1>12. Says(N[pc])
  <2>1. PICK o : o = N[1]
    OBVIOUS
  <2>2. Says(o)
    BY <1>10, <1>11, <2>1, SaysLess
  <2>. QED  BY <1>6, <2>1, <2>2
<1>. QED  BY <1>11, <1>12 DEF Noted

\* The history has an entry for every point.
Kept == todo = [p \in Points |-> todo[p]]

\* The invariant of every execution of compiled code.
SInv == IInv /\ Noted /\ Kept

\* The invariant holds at the start.
LEMMA StartSInv == ShadingInit => SInv
<1>. SUFFICES ASSUME ShadingInit  PROVE SInv
  OBVIOUS
<1>1. IInv
  BY InitIInv DEF ShadingInit
<1>2. Kept
  BY DEF ShadingInit, Kept
<1>. QED  BY <1>1, <1>2, StartNoted DEF SInv

\* Only running points say yes.
LEMMA AnswersRun == ASSUME NEW yes \in Answers  PROVE yes \in SUBSET running
BY DEF Answers

\* Every step keeps the invariant.
LEMMA NextSInv == SInv /\ [ShadingNext]_shadingVars => SInv'
<1>1. ASSUME SInv, ShadingNext  PROVE SInv'
  <2>1. PICK yes \in Answers : Step(yes) /\ Follow(yes)
    BY <1>1 DEF ShadingNext
  <2>2. IInv'
    BY <1>1, <2>1, AnswersRun, StepKeeps DEF SInv
  <2>3. Noted'
    BY <1>1, NotedKeeps DEF SInv
  <2>4. Kept'
    <3>1. CASE Kinds(code[pc].op) = {}
      <4>1. todo' = todo
        BY <2>1, <3>1 DEF Follow
      <4>. QED  BY <1>1, <4>1 DEF SInv, Kept
    <3>2. CASE Kinds(code[pc].op) # {}
      BY <2>1, <3>2 DEF Follow, Kept
    <3>. QED  BY <3>1, <3>2
  <2>. QED  BY <2>2, <2>3, <2>4 DEF SInv
<1>2. ASSUME SInv, UNCHANGED shadingVars  PROVE SInv'
  <2>1. UNCHANGED <<code, pc, running, current, stack, li, lit, rays, todo>>
    BY <1>2 DEF shadingVars, vars
  <2>2. IInv'
    BY <1>2, <2>1 DEF SInv, IInv, TypeOK, MasksNest, Tracked, Top
  <2>3. Noted'
    BY <1>2, <2>1 DEF SInv, Noted, Says, Owes, Now
  <2>4. Kept'
    BY <1>2, <2>1 DEF SInv, Kept
  <2>. QED  BY <2>2, <2>3, <2>4 DEF SInv
<1>. QED  BY <1>1, <1>2

\* The invariant holds in every execution.
LEMMA ShadingInvariance == ShadingSpec => []SInv
BY StartSInv, NextSInv, PTL DEF ShadingSpec

\* Whatever shader is compiled, and however deep its branches and loops: each
\* instruction is carried out for exactly the points whose own run of the source
\* has come to its statement, and at the end of the code no point has anything
\* left to do.
THEOREM CompiledRight == ShadingSpec => []Lockstep
<1>1. SInv => Lockstep
  BY LockstepNow DEF SInv
<1>. QED  BY <1>1, ShadingInvariance, PTL

\* The machine with the code of a shader does, step by step, only what the
\* points would do that run its source one by one (EachPointAlone without its
\* fairness).
THEOREM RunsAlone == ShadingSpec => Scalar!Init /\ [][Scalar!Next]_todo
<1>1. ShadingInit => Scalar!Init
  BY DEF ShadingInit, Scalar!Init
<1>2. SInv /\ [ShadingNext]_shadingVars => [Scalar!Next]_todo
  <2>. SUFFICES ASSUME SInv, ShadingNext, todo' # todo  PROVE Scalar!Next
    BY DEF shadingVars
  <2>1. PICK yes \in Answers : Step(yes) /\ Follow(yes)
    BY DEF ShadingNext
  <2>2. Kinds(code[pc].op) # {} /\ pc \in DOMAIN code
    BY <2>1 DEF Follow, ShadingNext
  <2>3. running = Expected /\ \A p, q \in running : todo[p] = todo[q]
    BY <2>2, AllTogether DEF SInv
  <2>4. /\ running \subseteq {p \in Points : todo[p] # <<>>} /\ yes \subseteq running
        /\ \A p, q \in running : Scalar!Event(todo[p]) = Scalar!Event(todo[q])
    BY <2>1, <2>3, AnswersRun DEF Expected
  <2>5. todo' = [p \in Points |->
                  IF p \in running THEN Scalar!Advance(todo[p], p \in yes) ELSE todo[p]]
    BY <2>1, <2>2, <2>3 DEF Follow
  <2>6. running # {}
    <3>. SUFFICES ASSUME running = {}  PROVE FALSE
      OBVIOUS
    <3>1. todo' = [p \in Points |-> todo[p]]
      BY <2>5
    <3>. QED  BY <3>1 DEF SInv, Kept
  <2>7. running \in (SUBSET {p \in Points : todo[p] # <<>>}) \ {{}}
    BY <2>4, <2>6
  <2>8. yes \in SUBSET running
    BY <2>4
  <2>. SUFFICES \E together \in (SUBSET {p \in Points : todo[p] # <<>>}) \ {{}} :
                  \E y \in SUBSET together :
                    /\ \A p, q \in together : Scalar!Event(todo[p]) = Scalar!Event(todo[q])
                    /\ todo' = [p \in Points |->
                                  IF p \in together THEN Scalar!Advance(todo[p], p \in y)
                                  ELSE todo[p]]
    BY DEF Scalar!Next
  <2>. WITNESS running \in (SUBSET {p \in Points : todo[p] # <<>>}) \ {{}}
  <2>. WITNESS yes \in SUBSET running
  <2>. QED  BY <2>4, <2>5
<1>. QED  BY <1>1, <1>2, ShadingInvariance, PTL DEF ShadingSpec
=============================================================================
