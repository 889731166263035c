----------------------------- MODULE ShaderCode -----------------------------
(***************************************************************************)
(* The code generator of the shader compiler (CqCodeGenOutput): the        *)
(* instructions it writes for the statements that change the control flow. *)
(* A jump holds its distance where the assembler text has a label.         *)
(***************************************************************************)
EXTENDS ShaderProgram

I(op, arg) == <<[op |-> op, arg |-> arg]>>

\* rsPush counts the level it pushes for the innermost loop (m_breakDepthStack).
Pushed(depths) ==
  IF depths = <<>> THEN depths ELSE [depths EXCEPT ![Len(depths)] = @ + 1]

SumLast(depths, n) ==
  LET sum[i \in 0 .. n] == IF i = 0 THEN 0 ELSE sum[i - 1] + depths[Len(depths) - i + 1]
  IN  sum[n]

\* A condition or the arguments of a light statement.
Expression(args) == [i \in DOMAIN args |-> [op |-> args[i], arg |-> 0]]

VisitAll(visit, stmts, depths) ==
  LET code[i \in 0 .. Len(stmts)] ==
        IF i = 0 THEN <<>> ELSE code[i - 1] \o visit[<<stmts[i], depths>>]
  IN  code[Len(stmts)]

VisitConditional(visit, s, depths) ==
  LET T == VisitAll(visit, s.body, Pushed(depths))
      F == VisitAll(visit, s.other, Pushed(depths))
  IN  I("S_CLEAR", 0) \o Expression(s.args) \o I("S_GET", s.id)
        \o I("RS_PUSH", 0) \o I("RS_GET", 0) \o I("RS_JZ", Len(T) + 1) \o T
        \o (IF F = <<>> THEN <<>>
            ELSE I("RS_INVERSE", 0) \o I("RS_JZ", Len(F) + 1) \o F)
        \o I("RS_POP", 0)

VisitConditionalExpression(visit, s, depths) ==
  I("S_CLEAR", 0) \o I("S_GET", s.id) \o I("RS_PUSH", 0) \o I("RS_GET", 0)
    \o VisitAll(visit, s.body, Pushed(depths)) \o I("RS_INVERSE", 0)
    \o VisitAll(visit, s.other, Pushed(depths)) \o I("RS_POP", 0)

VisitWhileConstruct(visit, s, depths) ==
  LET inner == Append(Pushed(depths), 0)
      cond == I("S_CLEAR", 0) \o Expression(s.args) \o I("S_GET", s.id)
      body == I("RS_GET", 0) \o I("RS_PUSH", 0) \o VisitAll(visit, s.body, Pushed(inner))
                \o I("RS_POP", 0) \o VisitAll(visit, s.other, inner)
  IN  I("RS_PUSH", 0) \o cond \o I("S_JZ", Len(body) + 2) \o body
        \o I("jmp", -(Len(cond) + Len(body) + 1)) \o I("RS_POP", 0)

\* Mutant: continue leaves as many levels as break.
VisitLoopMod_SameDepth(s, depths) == I("RS_BREAK", SumLast(depths, s.n))

VisitLoopMod(s, depths) ==
  I("RS_BREAK", SumLast(depths, s.n) - (IF s.k = "continue" THEN 1 ELSE 0))

\* A loop that the second test is to leave.
VisitIlluminateConstruct(visit, s, depths) ==
  LET body == I("RS_PUSH", 0) \o I("RS_GET", 0) \o VisitAll(visit, s.body, Pushed(depths))
                \o I("RS_POP", 0)
  IN  I("S_CLEAR", 0) \o I(s.k, s.id) \o I("S_JZ", Len(body) + 2) \o body
        \o I("jmp", -(Len(body) + 3))

VisitSolarConstruct(visit, s, depths) == VisitIlluminateConstruct(visit, s, depths)

\* The point is evaluated for init_illuminance and again with the arguments.
VisitIlluminanceConstruct(visit, s, depths) ==
  LET args == Expression(s.args)
      body == I("RS_PUSH", 0) \o I("RS_GET", 0) \o VisitAll(visit, s.body, Pushed(depths))
                \o I("RS_POP", 0)
      loop == I("S_CLEAR", 0) \o args \o I("illuminance", s.id)
                \o I("S_JZ", Len(body) + 1) \o body
  IN  args \o I("init_illuminance", Len(loop) + 2) \o loop
        \o I("advance_illuminance", -Len(loop))

VisitGatherConstruct(visit, s, depths) ==
  LET hit == VisitAll(visit, s.body, Pushed(depths))
      miss == VisitAll(visit, s.other, Pushed(depths))
      loop == I("S_CLEAR", 0) \o I("gather", s.id) \o I("RS_PUSH", 0) \o I("RS_GET", 0)
                \o I("RS_JZ", Len(hit) + 1) \o hit
                \o (IF miss = <<>> THEN <<>>
                    ELSE I("RS_INVERSE", 0) \o I("RS_JZ", Len(miss) + 1) \o miss)
                \o I("RS_POP", 0)
  IN  I("init_gather", s.n) \o loop \o I("advance_gather", -Len(loop))

Visit[sd \in Statements \X Seq(Nat)] ==
  LET s == sd[1]
      depths == sd[2]
  IN  CASE s.k = "do" -> I("do", s.id)
        [] s.k = "if" -> VisitConditional(Visit, s, depths)
        [] s.k = "pick" -> VisitConditionalExpression(Visit, s, depths)
        [] s.k = "while" -> VisitWhileConstruct(Visit, s, depths)
        [] s.k \in {"break", "continue"} -> VisitLoopMod(s, depths)
        [] s.k = "illuminate" -> VisitIlluminateConstruct(Visit, s, depths)
        [] s.k = "solar" -> VisitSolarConstruct(Visit, s, depths)
        [] s.k = "illuminance" -> VisitIlluminanceConstruct(Visit, s, depths)
        [] s.k = "gather" -> VisitGatherConstruct(Visit, s, depths)

\* The code segment of a shader.
Compile(source) == VisitAll(Visit, source, <<>>)
=============================================================================
