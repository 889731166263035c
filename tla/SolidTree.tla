----------------------------- MODULE SolidTree -----------------------------
(***************************************************************************)
(* Constructive solid geometry: the tree of nodes that the solid blocks    *)
(* leave behind and what it makes of the sorted hits of one sample         *)
(* (CqCSGTreeNode).  A tree is a sequence of nodes, a parent before its    *)
(* children; a sample is a hit and the node it stands for.  Parents are    *)
(* held by their children only, and a child that is gone keeps its place   *)
(* in the list of its parent: it has no samples, so its state never turns. *)
(***************************************************************************)
EXTENDS SampleHits, Sequences

None == 0

Operations == {"union", "intersection", "difference"}
NodeTypes == Operations \cup {"primitive"}

\* SqImageSample, as far as the solids ask.
Listed(tree) == [hit : Hits, node : {None} \cup DOMAIN tree]

IsPrimitive(tree, n) == n # None /\ tree[n].type = "primitive"

\* The constructor of CqSolidModeBlock: a node begun in an operation becomes
\* its last child, one begun elsewhere or in a primitive is a root.
WithNode(tree, type, current) ==
  LET linked == current # None /\ ~IsPrimitive(tree, current)
      more(n) == IF linked /\ n = current THEN Append(tree[n].children, Len(tree) + 1) ELSE tree[n].children
      nodes == [n \in DOMAIN tree |-> [type |-> tree[n].type, parent |-> tree[n].parent, children |-> more(n)]]
  IN  Append(nodes, [type |-> type, parent |-> IF linked THEN current ELSE None, children |-> <<>>])

\* Mutant: the difference asks for the first child only.
EvaluateState_FirstOnly(type, states) ==
  \/ type = "union" /\ \E i \in DOMAIN states : states[i]
  \/ type = "intersection" /\ \A i \in DOMAIN states : states[i]
  \/ type = "difference" /\ states[1]

EvaluateState(type, states) ==
  \/ type = "union" /\ \E i \in DOMAIN states : states[i]
  \/ type = "intersection" /\ \A i \in DOMAIN states : states[i]
  \/ type = "difference" /\ states[1] /\ \A i \in DOMAIN states \ {1} : ~states[i]

\* One sample passes node n: acc has the states of the children, the state of
\* the node, and the samples that remain, promoted to n below the root.
Passed(tree, n, acc, s) ==
  LET children == tree[n].children
      states == [i \in DOMAIN children |-> IF children[i] = s.node THEN ~acc.states[i] ELSE acc.states[i]]
      state == EvaluateState(tree[n].type, states)
      promoted == [hit |-> s.hit, node |-> IF tree[n].parent = None THEN None ELSE n]
  IN  IF \A i \in DOMAIN children : children[i] # s.node
      THEN [states |-> acc.states, state |-> acc.state, samples |-> Append(acc.samples, s)]
      ELSE [states |-> states, state |-> state,
            samples |-> IF state = acc.state THEN acc.samples ELSE Append(acc.samples, promoted)]

\* ProcessSampleList after its children.  The search for solids that the camera
\* is in asks for a node that is primitive and union at once: all states begin
\* outside, against the comment that "you see an odd number of walls" from within.
PassNode(tree, n, samples) ==
  LET outside == [i \in DOMAIN tree[n].children |-> FALSE]
      start == [states |-> outside, state |-> EvaluateState(tree[n].type, outside), samples |-> <<>>]
      pass[i \in 0 .. Len(samples)] == IF i = 0 THEN start ELSE Passed(tree, n, pass[i - 1], samples[i])
  IN  pass[Len(samples)].samples

\* Children that are primitives are passed over, and so are operations
\* without children, which nobody holds.
Below(tree, n, process, samples) ==
  LET children == tree[n].children
      below[k \in 0 .. Len(children)] ==
        IF k = 0 THEN samples
        ELSE IF tree[children[k]].children = <<>> THEN below[k - 1]
        ELSE process[children[k]][below[k - 1]]
  IN  below[Len(children)]

ProcessSampleList(tree) ==
  LET process[n \in DOMAIN tree] ==
        [samples \in Seq(Listed(tree)) |-> PassNode(tree, n, Below(tree, n, process, samples))]
  IN  process

\* A primitive without parent.
Nullified(n, samples) ==
  [i \in DOMAIN samples |-> [hit |-> samples[i].hit, node |-> IF samples[i].node = n THEN None ELSE samples[i].node]]

Roots(tree) ==
  LET root[n \in DOMAIN tree] == IF tree[n].parent = None THEN n ELSE root[tree[n].parent]
  IN  root

ProcessTree(tree, n, samples) ==
  LET top == Roots(tree)[n]
  IN  IF IsPrimitive(tree, top) THEN Nullified(top, samples) ELSE ProcessSampleList(tree)[top][samples]

\* A turn of the loop of Combine: the tree of the first sample with a node.
Turned(tree, samples) ==
  IF \A i \in DOMAIN samples : samples[i].node = None THEN samples
  ELSE LET first == CHOOSE i \in DOMAIN samples : /\ samples[i].node # None
                                                 /\ \A j \in 1 .. i - 1 : samples[j].node = None
       IN  ProcessTree(tree, samples[first].node, samples)

\* The loop, until no sample has a node: every turn is for another one.
Processed(tree, samples) ==
  LET turns[k \in 0 .. Len(samples)] == IF k = 0 THEN samples ELSE Turned(tree, turns[k - 1])
  IN  turns[Len(samples)]
=============================================================================
