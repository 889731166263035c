----------------------- MODULE RenderContext_proofs -----------------------
(***************************************************************************)
(* Theorems about the life of a world, for every image, every number of    *)
(* lights, drivers, displays, surfaces and worlds: what WorldEnd puts      *)
(* back, and the passes over the world, each of which draws each surface   *)
(* once, the shadow passes before the image.                               *)
(***************************************************************************)
EXTENDS RenderContext, SequenceTheorems, FiniteSetTheorems, TLAPS

(*************************** scopes and blocks *****************************)

Scopes == {"BeginEnd", "Frame", "World"}

\* BeginEnd at the bottom.
Nested(s) == s \in Seq(Scopes) /\ s # <<>> /\ s[1] = "BeginEnd"

\* The fields a step of a call reads and sets.
TaskShape ==
  /\ {"stage", "todo", "light", "saved", "display", "cell", "options", "drivers"} \subseteq DOMAIN task
  /\ task.stage \in {"idle", "shadows", "prepare", "open", "render", "close", "finish", "crashed"}

\* The scopes and the blocks are one stack at every step of a call, and a call
\* of WorldEnd works on a world.  It has popped its attributes already.
ScopeInv ==
  /\ Nested(scopes)
  /\ scopes = blocks
  /\ TaskShape
  /\ attributes \in Nat /\ 1 <= attributes /\ attributes <= Len(scopes)
  /\ task.stage # "idle" => Last(scopes) = "World" /\ attributes < Len(scopes)

(* What Front keeps. *)
LEMMA FrontElements ==
  ASSUME NEW S, NEW s \in Seq(S), Len(s) > 1
  PROVE  /\ Front(s) \in Seq(S)
         /\ Len(Front(s)) = Len(s) - 1 /\ DOMAIN Front(s) = 1 .. Len(s) - 1
         /\ \A i \in 1 .. Len(s) - 1 : Front(s)[i] = s[i]
<1>1. Len(s) \in Nat
  BY LenProperties
<1>2. \A n \in Nat : n > 1 => 1 \in Int /\ n - 1 \in Int /\ 1 <= n - 1
  OBVIOUS
<1>3. \A i \in 1 .. Len(s) - 1 : s[i] \in S
  BY <1>1, ElementOfSeq
<1>4. /\ SubSeq(s, 1, Len(s) - 1) \in Seq(S) /\ Len(SubSeq(s, 1, Len(s) - 1)) = Len(s) - 1
      /\ \A i \in 1 .. Len(s) - 1 : SubSeq(s, 1, Len(s) - 1)[i] = s[i]
  BY <1>1, <1>2, <1>3, SubSeqProperties
<1>5. DOMAIN SubSeq(s, 1, Len(s) - 1) = 1 .. Len(s) - 1
  BY <1>4, LenProperties
<1>. QED  BY <1>4, <1>5 DEF Front

(* A pushed scope is the last, and below what is not BeginEnd there is one. *)
LEMMA PushScope ==
  ASSUME NEW s, Nested(s), NEW e \in Scopes
  PROVE  Nested(Append(s, e)) /\ Last(Append(s, e)) = e /\ Len(Append(s, e)) = Len(s) + 1
<1>1. Len(s) \in Nat /\ Len(s) # 0
  BY LenProperties, EmptySeq DEF Nested
<1>2. Append(s, e) \in Seq(Scopes) /\ Append(s, e) # <<>> /\ Len(Append(s, e)) = Len(s) + 1
  BY AppendProperties DEF Nested
<1>3. Append(s, e)[1] = s[1] /\ Append(s, e)[Len(s) + 1] = e
  BY <1>1, AppendProperties DEF Nested
<1>. QED  BY <1>2, <1>3 DEF Nested, Last

LEMMA PopScope ==
  ASSUME NEW s, Nested(s), Last(s) # "BeginEnd"
  PROVE  Nested(Front(s)) /\ Len(Front(s)) = Len(s) - 1 /\ Len(s) > 1
<1>1. Len(s) \in Nat /\ Len(s) > 1
  BY LenProperties, EmptySeq DEF Nested, Last
<1>2. Front(s) \in Seq(Scopes) /\ Len(Front(s)) = Len(s) - 1 /\ Front(s)[1] = s[1]
  BY <1>1, FrontElements DEF Nested
<1>. QED  BY <1>1, <1>2, EmptySeq DEF Nested

LEMMA ScopeInit == Init => ScopeInv
<1>. SUFFICES ASSUME Init  PROVE ScopeInv
  OBVIOUS
<1>1. Nested(<<"BeginEnd">>)
  BY DEF Nested, Scopes
<1>2. TaskShape
  BY DEF Init, TaskShape, Idle
<1>3. Len(<<"BeginEnd">>) = 1
  OBVIOUS
<1>. QED  BY <1>1, <1>2, <1>3 DEF Init, ScopeInv, Idle

LEMMA ScopeStep == ScopeInv /\ [Next]_vars => ScopeInv'
<1>. SUFFICES ASSUME ScopeInv, [Next]_vars  PROVE ScopeInv'
  OBVIOUS
<1>. USE DEF ScopeInv
<1>0. Len(scopes) \in Nat
  BY LenProperties DEF Nested
<1>1. CASE FrameBegin
  BY <1>0, <1>1, PushScope DEF FrameBegin, idle, scope, TaskShape, Scopes
<1>2. CASE FrameEnd
  BY <1>0, <1>2, PopScope DEF FrameEnd, FewerAttributes, idle, scope, TaskShape
<1>3. CASE WorldBegin
  BY <1>0, <1>3, PushScope DEF WorldBegin, idle, scope, Outside, TaskShape, Scopes
<1>4. CASE UNCHANGED <<scopes, attributes, blocks, task>>
  BY <1>4 DEF TaskShape
<1>5. CASE WorldEnd
  <2>1. Len(scopes) > 1
    BY <1>5, PopScope DEF WorldEnd, scope
  <2>. QED  BY <1>0, <1>5, <2>1 DEF WorldEnd, FewerAttributes, scope, TaskShape, Idle
<1>6. CASE StartShadow \/ StartImage \/ Prepare
  BY <1>6 DEF StartShadow, StartImage, Prepare, TaskShape
<1>7. CASE OpenDisplay \/ Crash \/ OpenFails
  BY <1>7 DEF OpenDisplay, Crash, OpenFails, Loading, TaskShape, Idle
<1>8. CASE RenderImage \/ SendBucket \/ Close \/ ShadowDone
  BY <1>8 DEF RenderImage, SendBucket, Close, ShadowDone, TaskShape
<1>9. CASE WorldEndReturns
  <2>1. Last(scopes) = "World"
    BY <1>9 DEF WorldEndReturns
  <2>2. scopes' = Front(scopes) /\ blocks' = Front(blocks) /\ task' = Idle
    BY <1>9, <2>1 DEF WorldEndReturns
  <2>3. attributes' = attributes /\ attributes < Len(scopes)
    BY <1>9 DEF WorldEndReturns
  <2>. QED  BY <1>0, <2>1, <2>2, <2>3, PopScope DEF TaskShape, Idle
<1>10. CASE Primitive
  BY <1>4, <1>10 DEF Primitive
<1>11. ASSUME NEW d, NEW add, Display(d, add)  PROVE ScopeInv'
  BY <1>4, <1>11 DEF Display
<1>12. ASSUME NEW b, Multipass(b) \/ CropWindow(b) \/ LightSource(b)  PROVE ScopeInv'
  BY <1>4, <1>12 DEF Multipass, CropWindow, LightSource
<1>13. CASE UNCHANGED vars
  BY <1>4, <1>13 DEF vars
<1>. QED  BY <1>1, <1>2, <1>3, <1>5, <1>6, <1>7, <1>8, <1>9, <1>10, <1>11, <1>12, <1>13 DEF Next

(* The validator's scopes and the renderer's blocks never drift apart, also    *)
(* when an exception leaves WorldEnd, and its attributes, which such a WorldEnd *)
(* pops each time it is called, are never none and never more than the scopes. *)
THEOREM ScopesHold == Spec => []ScopesAgree
<1>1. ASSUME ScopeInv  PROVE ScopesAgree
  <2>1. Len(scopes) \in Nat
    BY <1>1, LenProperties DEF ScopeInv, Nested
  <2>. QED  BY <1>1, <2>1 DEF ScopeInv, ScopesAgree
<1>. QED  BY <1>1, ScopeInit, ScopeStep, PTL DEF Spec

(************************ the names of the displays ************************)

Named1(r) == "driver" \in DOMAIN r

\* A list of display requests, of which only the drivers matter here.
IsRequests(q) == \E S : q \in Seq(S) /\ \A r \in S : Named1(r)

(* A list with the drivers of a list of requests is one, with the same names. *)
LEMMA SameNames ==
  ASSUME NEW q, IsRequests(q), NEW p, p = [i \in DOMAIN q |-> p[i]],
         \A i \in DOMAIN q : Named1(p[i]) /\ p[i].driver = q[i].driver
  PROVE  IsRequests(p) /\ Named(p) = Named(q)
<1>1. PICK S : q \in Seq(S)
  BY DEF IsRequests
<1>2. Len(q) \in Nat /\ DOMAIN q = 1 .. Len(q)
  BY <1>1, LenProperties
<1>. DEFINE T == {p[i] : i \in DOMAIN q}
<1>3. p \in [1 .. Len(q) -> T]
  BY <1>2
<1>4. p \in Seq(T)
  BY <1>2, <1>3, SeqDef
<1>5. DOMAIN p = DOMAIN q
  OBVIOUS
<1>. QED  BY <1>4, <1>5 DEF IsRequests, Named

(* What the steps of a display request leave alone. *)
LEMMA ReleasedStays ==
  ASSUME NEW r, Named1(r)
  PROVE  Named1(Released(r)) /\ Released(r).driver = r.driver
BY DEF Named1, Released

LEMMA SizedStays ==
  ASSUME NEW r, Named1(r), NEW crop
  PROVE  Named1(Sized(r, crop)) /\ Sized(r, crop).driver = r.driver
BY DEF Named1, Sized

LEMMA FormattedStays ==
  ASSUME NEW r, Named1(r), NEW g
  PROVE  Named1(Formatted(r, g)) /\ Formatted(r, g).driver = r.driver
BY DEF Named1, Formatted

LEMMA OpeningStays ==
  ASSUME NEW r, Named1(r), NEW crop, NEW res
  PROVE  Named1(Opening(r, crop, res)) /\ Opening(r, crop, res).driver = r.driver
BY SizedStays DEF Named1, Opening

LEMMA OpenedStays ==
  ASSUME NEW r, Named1(r), NEW crop, NEW res
  PROVE  /\ Named1([Opening(r, crop, res) EXCEPT !.valid = TRUE])
         /\ [Opening(r, crop, res) EXCEPT !.valid = TRUE].driver = r.driver
BY OpeningStays DEF Named1

LEMMA HollowStays ==
  ASSUME NEW r, Named1(r), NEW crop
  PROVE  /\ Named1([Sized(r, crop) EXCEPT !.methods = "null", !.room = 0, !.row = <<>>])
         /\ [Sized(r, crop) EXCEPT !.methods = "null", !.room = 0, !.row = <<>>].driver = r.driver
BY SizedStays DEF Named1

(* Every element of a list of requests names its driver. *)
LEMMA ElementNamed ==
  ASSUME NEW q, IsRequests(q)
  PROVE  /\ q = [i \in DOMAIN q |-> q[i]]
         /\ \A i \in DOMAIN q : Named1(q[i])
<1>1. PICK S : q \in Seq(S) /\ \A r \in S : Named1(r)
  BY DEF IsRequests
<1>2. q \in [1 .. Len(q) -> S] /\ DOMAIN q = 1 .. Len(q)
  BY <1>1, LenProperties
<1>. QED  BY <1>1, <1>2

(* Opening, feeding and closing the displays keep them and their order. *)
LEMMA RequestsStay ==
  ASSUME IsRequests(requests), OpenDisplay \/ OpenFails \/ SendBucket \/ Close
  PROVE  IsRequests(requests') /\ Named(requests') = Named(requests)
<1>. DEFINE Kept(p) == /\ p = [i \in DOMAIN requests |-> p[i]]
                       /\ \A i \in DOMAIN requests : /\ Named1(p[i])
                                                     /\ p[i].driver = requests[i].driver
<1>. SUFFICES Kept(requests')
  BY SameNames
<1>1. Kept(requests)
  BY ElementNamed
<1>2. ASSUME NEW k \in DOMAIN requests, NEW e, Named1(e), e.driver = requests[k].driver,
             requests' = [requests EXCEPT ![k] = e]
      PROVE  Kept(requests')
  BY <1>1, <1>2
<1>3. CASE OpenDisplay
  <2>1. task.display \in DOMAIN requests
    BY <1>3 DEF OpenDisplay, Loading
  <2>. DEFINE r == requests[task.display]
  <2>2. Named1(r)
    BY <1>1, <2>1
  <2>3. CASE DriverOpens(task.display, window.crop, window.res)
    <3>. DEFINE e == [Opening(r, window.crop, window.res) EXCEPT !.valid = TRUE]
    <3>1. requests' = [requests EXCEPT ![task.display] = e]
      BY <2>3 DEF DriverOpens
    <3>2. Named1(e) /\ e.driver = r.driver
      BY <2>2, OpenedStays
    <3>. HIDE DEF e
    <3>. QED  BY <1>2, <2>1, <3>1, <3>2
  <2>4. CASE DriverRefuses(task.display, window.crop, window.res)
    <3>. DEFINE o == Opening(r, window.crop, window.res)
    <3>. DEFINE e == Released(o)
    <3>1. requests' = [requests EXCEPT ![task.display] = e]
      BY <2>4 DEF DriverRefuses
    <3>2. Named1(o) /\ o.driver = r.driver
      <4>. HIDE DEF r
      <4>. QED  BY <2>2, OpeningStays
    <3>. HIDE DEF o
    <3>3. Named1(e) /\ e.driver = r.driver
      BY <3>2, ReleasedStays
    <3>. HIDE DEF e
    <3>. QED  BY <1>2, <2>1, <3>1, <3>3
  <2>5. CASE DriverSkipped(task.display, window.crop)
    <3>. DEFINE o == Sized(r, window.crop)
    <3>. DEFINE e == Released(o)
    <3>1. requests' = [requests EXCEPT ![task.display] = e]
      BY <2>5 DEF DriverSkipped
    <3>2. Named1(o) /\ o.driver = r.driver
      BY <2>2, SizedStays
    <3>. HIDE DEF o
    <3>3. Named1(e) /\ e.driver = r.driver
      BY <3>2, ReleasedStays
    <3>. HIDE DEF e
    <3>. QED  BY <1>2, <2>1, <3>1, <3>3
  <2>6. CASE DriverHollow(task.display, window.crop)
    <3>. DEFINE e == [Sized(r, window.crop) EXCEPT !.methods = "null", !.room = 0, !.row = <<>>]
    <3>1. requests' = [requests EXCEPT ![task.display] = e]
      BY <2>6 DEF DriverHollow
    <3>2. Named1(e) /\ e.driver = r.driver
      BY <2>2, HollowStays
    <3>. HIDE DEF e
    <3>. QED  BY <1>2, <2>1, <3>1, <3>2
  <2>. QED  BY <1>3, <2>3, <2>4, <2>5, <2>6 DEF OpenDisplay
<1>4. CASE OpenFails
  <2>. DEFINE e == Sized(requests[task.display], window.crop)
  <2>1. task.display \in DOMAIN requests /\ requests' = [requests EXCEPT ![task.display] = e]
    BY <1>4 DEF OpenFails, Loading, DriverThrows
  <2>2. Named1(e) /\ e.driver = requests[task.display].driver
    BY <1>1, <2>1, SizedStays
  <2>. HIDE DEF e
  <2>. QED  BY <1>2, <2>1, <2>2
<1>5. CASE SendBucket
  <2>1. CASE requests' = requests
    BY <1>1, <2>1
  <2>. DEFINE g == DisplayRegion(window, task.cell)
  <2>2. CASE requests' = [i \in DOMAIN requests |-> Formatted(requests[i], g)]
    <3>. HIDE DEF g
    <3>1. \A i \in DOMAIN requests : /\ Named1(Formatted(requests[i], g))
                                     /\ Formatted(requests[i], g).driver = requests[i].driver
      BY <1>1, FormattedStays
    <3>. QED  BY <2>2, <3>1
  <2>. QED  BY <1>5, <2>1, <2>2 DEF SendBucket, DisplayBucket
<1>6. CASE Close
  <2>1. requests' = [i \in DOMAIN requests |-> Released(requests[i])]
    BY <1>6 DEF Close, CloseDisplays
  <2>2. \A i \in DOMAIN requests : /\ Named1(Released(requests[i]))
                                   /\ Released(requests[i]).driver = requests[i].driver
    BY <1>1, ReleasedStays
  <2>. QED  BY <2>1, <2>2
<1>. QED  BY <1>3, <1>4, <1>5, <1>6

LEMMA MadeOf == \A S, q : q \in Seq(S) /\ (\A r \in S : Named1(r)) => IsRequests(q)
BY Zenon DEF IsRequests

(* The lists AddDisplay makes. *)
LEMMA OneRequest ==
  ASSUME NEW d
  PROVE  IsRequests(<<NewRequest(d)>>) /\ IsRequests(NoDisplays)
<1>. DEFINE r == NewRequest(d)
            S == {r}
            q == <<r>>
<1>1. \A x \in S : Named1(x)
  BY DEF NewRequest, Named1
<1>2. q \in Seq(S) /\ NoDisplays \in Seq(S)
  BY DEF NoDisplays
<1>. HIDE DEF S, q
<1>3. IsRequests(q)
  BY <1>1, <1>2, MadeOf
<1>4. IsRequests(NoDisplays)
  BY <1>1, <1>2, MadeOf
<1>. QED  BY <1>3, <1>4 DEF q

LEMMA OneMore ==
  ASSUME NEW d, IsRequests(requests)
  PROVE  IsRequests(AddDisplay(d))
<1>1. PICK S : requests \in Seq(S) /\ \A r \in S : Named1(r)
  BY DEF IsRequests
<1>. DEFINE r == NewRequest(d)
<1>2. Named1(r)
  BY DEF NewRequest, Named1
<1>. HIDE DEF r
<1>3. requests \in Seq(S \cup {r})
  BY <1>1, SeqMonotonic
<1>4. Append(requests, r) \in Seq(S \cup {r})
  BY <1>3, AppendProperties
<1>. QED  BY <1>1, <1>2, <1>4 DEF IsRequests, AddDisplay, r

(**************************** the options stacks ****************************)

OptionSet == [multipass : BOOLEAN,
              res       : {[x |-> XRes, y |-> YRes], [x |-> ShadowRes, y |-> ShadowRes]},
              crop      : Crops \cup {FullCrop}]

\* For every block that has options a stack of them, none empty.
Stacks == Seq(Seq(OptionSet) \ {<<>>}) \ {<<>>}

Top(s) == Last(Last(s))
WithTop(s, o) == [s EXCEPT ![Len(s)] = [@ EXCEPT ![Len(@)] = o]]
Pushed(s, o) == [s EXCEPT ![Len(s)] = Append(@, o)]
Popped(s) == [s EXCEPT ![Len(s)] = Front(@)]

LEMMA StackShape ==
  ASSUME NEW s \in Stacks
  PROVE  /\ Len(s) \in Nat \ {0} /\ DOMAIN s = 1 .. Len(s) /\ Len(s) \in DOMAIN s
         /\ Last(s) = s[Len(s)]
         /\ s \in Seq(Seq(OptionSet) \ {<<>>})
         /\ Last(s) \in Seq(OptionSet) /\ Last(s) # <<>> /\ Len(Last(s)) \in Nat \ {0}
         /\ DOMAIN Last(s) = 1 .. Len(Last(s)) /\ Len(Last(s)) \in DOMAIN Last(s)
         /\ Top(s) = Last(s)[Len(Last(s))] /\ Top(s) \in OptionSet
<1>1. s \in Seq(Seq(OptionSet) \ {<<>>}) /\ s # <<>>
  BY DEF Stacks
<1>2. Len(s) \in Nat \ {0} /\ DOMAIN s = 1 .. Len(s)
  BY <1>1, EmptySeq, LenProperties
<1>3. Len(s) \in 1 .. Len(s)
  BY <1>2
<1>4. s[Len(s)] \in Seq(OptionSet) \ {<<>>}
  BY <1>1, <1>3, ElementOfSeq
<1>5. Last(s) = s[Len(s)]
  BY DEF Last
<1>6. Len(Last(s)) \in Nat \ {0} /\ DOMAIN Last(s) = 1 .. Len(Last(s))
  BY <1>4, <1>5, EmptySeq, LenProperties
<1>7. Len(Last(s)) \in 1 .. Len(Last(s))
  BY <1>6
<1>8. Last(s)[Len(Last(s))] \in OptionSet
  BY <1>4, <1>5, <1>7, ElementOfSeq
<1>9. Top(s) = Last(s)[Len(Last(s))]
  BY DEF Top, Last
<1>. QED  BY <1>1, <1>2, <1>3, <1>4, <1>5, <1>6, <1>7, <1>8, <1>9

(* Replacing the last stack. *)
LEMMA LastReplaced ==
  ASSUME NEW s \in Stacks, NEW e \in Seq(OptionSet) \ {<<>>}
  PROVE  /\ [s EXCEPT ![Len(s)] = e] \in Stacks
         /\ Len([s EXCEPT ![Len(s)] = e]) = Len(s)
         /\ Last([s EXCEPT ![Len(s)] = e]) = e
         /\ \A f : [[s EXCEPT ![Len(s)] = e] EXCEPT ![Len(s)] = f] = [s EXCEPT ![Len(s)] = f]
<1>. DEFINE q == [s EXCEPT ![Len(s)] = e]
<1>1. s \in Seq(Seq(OptionSet) \ {<<>>}) /\ Len(s) \in 1 .. Len(s) /\ Len(s) \in Nat \ {0}
  BY StackShape
<1>2. q \in Seq(Seq(OptionSet) \ {<<>>}) /\ Len(q) = Len(s) /\ q[Len(s)] = e
  BY <1>1, ExceptSeq
<1>3. q # <<>>
  BY <1>1, <1>2, EmptySeq
<1>4. Last(q) = e
  BY <1>2 DEF Last
<1>5. \A f : [q EXCEPT ![Len(s)] = f] = [s EXCEPT ![Len(s)] = f]
  OBVIOUS
<1>. QED  BY <1>2, <1>3, <1>4, <1>5 DEF Stacks

LEMMA WithTopStays ==
  ASSUME NEW s \in Stacks, NEW o \in OptionSet
  PROVE  /\ WithTop(s, o) \in Stacks /\ Len(WithTop(s, o)) = Len(s) /\ Top(WithTop(s, o)) = o
         /\ \A p : WithTop(WithTop(s, o), p) = WithTop(s, p)
<1>. DEFINE e == [Last(s) EXCEPT ![Len(Last(s))] = o]
<1>1. WithTop(s, o) = [s EXCEPT ![Len(s)] = e]
  BY StackShape DEF WithTop
<1>2. Last(s) \in Seq(OptionSet) /\ Len(Last(s)) \in 1 .. Len(Last(s)) /\ Len(Last(s)) \in Nat \ {0}
  BY StackShape
<1>3. e \in Seq(OptionSet) /\ Len(e) = Len(Last(s)) /\ e[Len(Last(s))] = o
  BY <1>2, ExceptSeq
<1>4. e # <<>>
  BY <1>2, <1>3, EmptySeq
<1>5. \A p : [e EXCEPT ![Len(e)] = p] = [Last(s) EXCEPT ![Len(Last(s))] = p]
  BY <1>3
<1>. HIDE DEF e
<1>. DEFINE q == [s EXCEPT ![Len(s)] = e]
<1>6. q \in Stacks /\ Len(q) = Len(s) /\ Last(q) = e
  BY <1>3, <1>4, LastReplaced
<1>7. Top(q) = o
  BY <1>3, <1>6 DEF Top, Last
<1>8. ASSUME NEW p  PROVE WithTop(q, p) = WithTop(s, p)
  <2>1. WithTop(q, p) = [q EXCEPT ![Len(q)] = [Last(q) EXCEPT ![Len(Last(q))] = p]]
    BY <1>6, StackShape DEF WithTop
  <2>2. WithTop(s, p) = [s EXCEPT ![Len(s)] = [Last(s) EXCEPT ![Len(Last(s))] = p]]
    BY StackShape DEF WithTop
  <2>3. WithTop(q, p) = [q EXCEPT ![Len(s)] = [e EXCEPT ![Len(e)] = p]]
    BY <1>6, <2>1
  <2>4. WithTop(q, p) = [s EXCEPT ![Len(s)] = [e EXCEPT ![Len(e)] = p]]
    BY <1>3, <1>4, <2>3, LastReplaced
  <2>. QED  BY <1>5, <2>2, <2>4
<1>. QED  BY <1>1, <1>6, <1>7, <1>8

(* Putting back what was on top changes nothing. *)
LEMMA TopPutBack ==
  ASSUME NEW s \in Stacks
  PROVE  WithTop(s, Top(s)) = s
<1>1. WithTop(s, Top(s)) = [s EXCEPT ![Len(s)] = [Last(s) EXCEPT ![Len(Last(s))] = Top(s)]]
  BY StackShape DEF WithTop
<1>2. [Last(s) EXCEPT ![Len(Last(s))] = Top(s)] = Last(s)
  <2>1. Last(s) \in [1 .. Len(Last(s)) -> OptionSet]
    BY StackShape, LenProperties
  <2>. QED  BY <2>1, StackShape
<1>3. [s EXCEPT ![Len(s)] = Last(s)] = s
  <2>1. s \in [1 .. Len(s) -> Seq(OptionSet) \ {<<>>}]
    BY StackShape, LenProperties
  <2>. QED  BY <2>1, StackShape
<1>. QED  BY <1>1, <1>2, <1>3

LEMMA PushedStays ==
  ASSUME NEW s \in Stacks, NEW o \in OptionSet
  PROVE  /\ Pushed(s, o) \in Stacks /\ Len(Pushed(s, o)) = Len(s) /\ Top(Pushed(s, o)) = o
         /\ \A p \in OptionSet : WithTop(Pushed(s, o), p) = Pushed(s, p)
         /\ Popped(Pushed(s, o)) = s
<1>. DEFINE e == Append(Last(s), o)
<1>1. Pushed(s, o) = [s EXCEPT ![Len(s)] = e]
  BY StackShape DEF Pushed
<1>2. Last(s) \in Seq(OptionSet) /\ Len(Last(s)) \in Nat \ {0}
  BY StackShape
<1>3. /\ e \in Seq(OptionSet) /\ e # <<>> /\ Len(e) = Len(Last(s)) + 1 /\ e[Len(e)] = o
      /\ \A i \in 1 .. Len(Last(s)) : e[i] = Last(s)[i]
  BY <1>2, AppendProperties
<1>4. ASSUME NEW p \in OptionSet  PROVE [e EXCEPT ![Len(e)] = p] = Append(Last(s), p)
  <2>. DEFINE f == [e EXCEPT ![Len(e)] = p]
  <2>. HIDE DEF e
  <2>1. Len(e) \in Nat /\ Len(e) \in 1 .. Len(e)
    BY <1>2, <1>3
  <2>2. /\ f \in Seq(OptionSet) /\ Len(f) = Len(e) /\ f[Len(e)] = p
        /\ \A i \in 1 .. Len(e) : i # Len(e) => f[i] = e[i]
    BY <1>3, <2>1, ExceptSeq
  <2>3. /\ Append(Last(s), p) \in Seq(OptionSet) /\ Len(Append(Last(s), p)) = Len(Last(s)) + 1
        /\ \A i \in 1 .. Len(Last(s)) : Append(Last(s), p)[i] = Last(s)[i]
        /\ Append(Last(s), p)[Len(Last(s)) + 1] = p
    BY <1>2, AppendProperties
  <2>. HIDE DEF f
  <2>4. \A i \in 1 .. Len(e) : f[i] = Append(Last(s), p)[i]
    BY <1>2, <1>3, <2>2, <2>3
  <2>5. Len(f) = Len(Append(Last(s), p)) /\ Len(f) = Len(e)
    BY <1>2, <1>3, <2>2, <2>3
  <2>. HIDE DEF f
  <2>6. f = Append(Last(s), p)
    BY <2>2, <2>3, <2>4, <2>5, SeqEqual
  <2>. QED  BY <2>6 DEF f
<1>5. Front(e) = Last(s)
  BY <1>2, HeadTailAppend, <1>3 DEF Front
<1>. HIDE DEF e
<1>. DEFINE q == [s EXCEPT ![Len(s)] = e]
<1>6. q \in Stacks /\ Len(q) = Len(s) /\ Last(q) = e
  BY <1>3, LastReplaced
<1>7. Top(q) = o
  BY <1>3, <1>6 DEF Top, Last
<1>8. ASSUME NEW p \in OptionSet  PROVE WithTop(q, p) = Pushed(s, p)
  <2>1. WithTop(q, p) = [q EXCEPT ![Len(q)] = [Last(q) EXCEPT ![Len(Last(q))] = p]]
    BY <1>6, StackShape DEF WithTop
  <2>2. WithTop(q, p) = [q EXCEPT ![Len(s)] = Append(Last(s), p)]
    BY <1>4, <1>6, <2>1
  <2>3. Pushed(s, p) = [s EXCEPT ![Len(s)] = Append(Last(s), p)]
    BY StackShape DEF Pushed
  <2>. QED  BY <1>3, <2>2, <2>3, LastReplaced
<1>9. Popped(q) = s
  <2>1. Popped(q) = [q EXCEPT ![Len(q)] = Front(Last(q))]
    BY <1>6, StackShape DEF Popped
  <2>2. Popped(q) = [s EXCEPT ![Len(s)] = Last(s)]
    BY <1>3, <1>5, <1>6, <2>1, LastReplaced
  <2>3. s \in [1 .. Len(s) -> Seq(OptionSet) \ {<<>>}]
    BY StackShape, LenProperties
  <2>. QED  BY <2>2, <2>3, StackShape
<1>. QED  BY <1>1, <1>6, <1>7, <1>8, <1>9


LEMMA FrontStays ==
  ASSUME NEW s \in Stacks, Len(s) >= 2
  PROVE  Front(s) \in Stacks
<1>1. s \in Seq(Seq(OptionSet) \ {<<>>}) /\ Len(s) \in Nat /\ Len(s) > 1
  BY StackShape
<1>2. Front(s) \in Seq(Seq(OptionSet) \ {<<>>}) /\ Len(Front(s)) = Len(s) - 1
  BY <1>1, FrontElements
<1>3. Len(s) - 1 # 0
  <2>1. \A n \in Nat : n > 1 => n - 1 # 0
    OBVIOUS
  <2>. QED  BY <1>1, <2>1
<1>4. Front(s) # <<>>
  BY <1>2, <1>3, EmptySeq
<1>. QED  BY <1>2, <1>4 DEF Stacks

(**************************** WorldEnd puts back ****************************)

\* The current options, the names and the queues in terms of what there was when
\* WorldEnd was called, at every stage of the call.
ForImage == task.light = 0
InPass == {"open", "render", "close"}

OptionsKept ==
  /\ task.stage = "shadows" => options = task.options
  /\ task.stage \in {"prepare", "finish"} /\ ForImage => options = task.options
  /\ task.stage \in InPass /\ ForImage =>
       /\ task.saved = Top(task.options).multipass
       /\ options = WithTop(task.options, [Top(task.options) EXCEPT !.multipass = FALSE])
  /\ task.stage \in InPass \cup {"prepare", "finish"} /\ ~ForImage =>
       \E o \in OptionSet : options = Pushed(task.options, o)

DisplaysKept ==
  /\ task.stage = "shadows" \/ (task.stage \in InPass \cup {"prepare", "finish"} /\ ForImage)
       => Named(requests) = task.drivers
  /\ task.stage \in InPass \cup {"prepare", "finish"} /\ ~ForImage
       => IsRequests(main) /\ Named(main) = task.drivers

WorldSpent ==
  /\ task.stage \in InPass \cup {"finish"} /\ ForImage => world = <<>>
  /\ task.stage \in {"render", "close", "finish"} => queued = <<>>

\* Only the second scope is a frame, and then it has options.
FrameShape ==
  /\ \A i \in DOMAIN scopes : (scopes[i] = "BeginEnd" <=> i = 1) /\ (scopes[i] = "Frame" => i = 2)
  /\ Len(scopes) >= 2 /\ scopes[2] = "Frame" => Len(options) >= 2

WellTyped ==
  /\ options \in Stacks /\ IsRequests(requests)
  /\ lights \subseteq AutoLights /\ task.todo \subseteq AutoLights
  /\ task.saved \in BOOLEAN
  /\ task.stage # "idle" /\ task.stage # "crashed" => task.options \in Stacks

KeepInv == ScopeInv /\ FrameShape /\ WellTyped /\ OptionsKept /\ DisplaysKept /\ WorldSpent

LEMMA KeepInit == Init => KeepInv
<1>. SUFFICES ASSUME Init  PROVE KeepInv
  OBVIOUS
<1>1. ScopeInv
  BY ScopeInit
<1>2. FrameShape
  BY DEF Init, FrameShape
<1>3. options \in Stacks
  <2>. DEFINE o == [multipass |-> FALSE, res |-> [x |-> XRes, y |-> YRes],
                    crop |-> FullCrop]
  <2>1. o \in OptionSet
    BY DEF OptionSet
  <2>2. options = <<<<o>>>>
    BY DEF Init
  <2>. HIDE DEF o
  <2>3. <<o>> \in Seq(OptionSet) /\ <<o>> # <<>>
    BY <2>1
  <2>. DEFINE q == <<o>>
  <2>. HIDE DEF q
  <2>4. <<q>> \in Seq(Seq(OptionSet) \ {<<>>}) /\ <<q>> # <<>>
    BY <2>3 DEF q
  <2>. QED  BY <2>2, <2>4 DEF Stacks, q
<1>4. IsRequests(requests)
  BY OneRequest DEF Init
<1>5. WellTyped
  BY <1>3, <1>4 DEF Init, WellTyped, Idle
<1>6. OptionsKept /\ DisplaysKept /\ WorldSpent
  BY DEF Init, Idle, OptionsKept, DisplaysKept, WorldSpent, InPass
<1>. QED  BY <1>1, <1>2, <1>5, <1>6 DEF KeepInv
LEMMA CurrentIsTop ==
  ASSUME options \in Stacks
  PROVE  current = Top(options) /\ \A o : SetCurrent(o) = WithTop(options, o)
BY DEF current, Top, SetCurrent, WithTop

\* What the calls that set options make of the current ones.
LEMMA OptionsSet ==
  ASSUME NEW o \in OptionSet
  PROVE  /\ o.multipass \in BOOLEAN
         /\ \A b \in BOOLEAN : [o EXCEPT !.multipass = b] \in OptionSet
         /\ \A c \in Crops : [o EXCEPT !.crop = c] \in OptionSet
         /\ [o EXCEPT !.res = [x |-> ShadowRes, y |-> ShadowRes]] \in OptionSet
         /\ \A b : [[o EXCEPT !.multipass = b] EXCEPT !.multipass = o.multipass] = o
BY DEF OptionSet

LEMMA TypedStep ==
  ASSUME KeepInv, [Next]_vars
  PROVE  /\ WellTyped'
         /\ ~(FrameBegin \/ FrameEnd) => Len(options') = Len(options)
<1>. USE DEF KeepInv
<1>0. options \in Stacks /\ current \in OptionSet /\ TaskShape /\ scopes = blocks /\ scopes # <<>>
  BY StackShape, CurrentIsTop DEF WellTyped, ScopeInv, Nested
<1>. DEFINE Goal == WellTyped' /\ (~(FrameBegin \/ FrameEnd) => Len(options') = Len(options))
<1>. SUFFICES Goal
  OBVIOUS
<1>1. CASE FrameBegin
  <2>1. options' = options \/ options' = Append(options, <<current>>)
    BY <1>1 DEF FrameBegin
  <2>2. options' \in Stacks
    <3>. DEFINE q == <<current>>
    <3>1. q \in Seq(OptionSet) \ {<<>>}
      BY <1>0
    <3>. HIDE DEF q
    <3>2. options \in Seq(Seq(OptionSet) \ {<<>>})
      BY <1>0 DEF Stacks
    <3>3. Append(options, q) \in Seq(Seq(OptionSet) \ {<<>>}) /\ Append(options, q) # <<>>
      BY <3>1, <3>2, AppendProperties
    <3>. QED  BY <1>0, <2>1, <3>3 DEF Stacks, q
  <2>. QED  BY <1>1, <2>2 DEF FrameBegin, WellTyped, TaskShape, idle
<1>2. CASE FrameEnd
  <2>1. Last(scopes) = "Frame" /\ scopes[Len(scopes)] = "Frame"
    BY <1>2 DEF FrameEnd, scope, Last
  <2>2. Len(scopes) \in DOMAIN scopes
    BY LenProperties, EmptySeq DEF ScopeInv, Nested
  <2>3. Len(scopes) = 2
    BY <2>1, <2>2 DEF FrameShape
  <2>4. Len(options) >= 2
    BY <2>1, <2>3 DEF FrameShape
  <2>5. Front(options) \in Stacks
    BY <1>0, <2>4, FrontStays
  <2>6. options' = Front(options) /\ requests' = NoDisplays
    BY <1>0, <1>2, <2>1 DEF FrameEnd
  <2>. QED  BY <1>2, <2>5, <2>6, OneRequest DEF FrameEnd, WellTyped, idle
<1>3. CASE WorldBegin \/ Primitive
  BY <1>3 DEF WorldBegin, Primitive, WellTyped
<1>4. CASE WorldEnd
  BY <1>0, <1>4 DEF WorldEnd, WellTyped, Idle, TaskShape
<1>5. CASE StartShadow
  <2>. DEFINE o == [current EXCEPT !.res = [x |-> ShadowRes, y |-> ShadowRes]]
  <2>1. o \in OptionSet
    BY <1>0, OptionsSet
  <2>2. options' = Pushed(options, o)
    BY <1>5 DEF StartShadow, Pushed
  <2>. HIDE DEF o
  <2>3. options' \in Stacks /\ Len(options') = Len(options)
    BY <1>0, <2>1, <2>2, PushedStays
  <2>. QED  BY <1>0, <1>5, <2>3, OneRequest DEF StartShadow, WellTyped, TaskShape
<1>6. CASE StartImage \/ RenderImage
  BY <1>0, <1>6 DEF StartImage, RenderImage, WellTyped, TaskShape
<1>7. CASE Prepare
  <2>. DEFINE o == [current EXCEPT !.multipass = FALSE]
  <2>1. o \in OptionSet /\ current.multipass \in BOOLEAN
    BY <1>0, OptionsSet
  <2>2. options' = WithTop(options, o)
    BY <1>0, <1>7, CurrentIsTop DEF Prepare
  <2>. HIDE DEF o
  <2>3. options' \in Stacks /\ Len(options') = Len(options)
    BY <1>0, <2>1, <2>2, WithTopStays
  <2>. QED  BY <1>0, <1>7, <2>1, <2>3 DEF Prepare, WellTyped, TaskShape
<1>8. CASE OpenDisplay \/ SendBucket
  <2>1. IsRequests(requests')
    BY <1>8, RequestsStay DEF WellTyped
  <2>. QED  BY <1>0, <1>8, <2>1 DEF OpenDisplay, Loading, SendBucket, WellTyped, TaskShape
<1>9. CASE Crash
  BY <1>0, <1>9 DEF Crash, Loading, WellTyped, TaskShape
<1>10. CASE OpenFails
  <2>1. IsRequests(requests')
    BY <1>10, RequestsStay DEF WellTyped
  <2>. QED  BY <1>0, <1>10, <2>1 DEF OpenFails, Loading, WellTyped, Idle
<1>11. CASE Close
  <2>1. IsRequests(requests')
    BY <1>11, RequestsStay DEF WellTyped
  <2>2. Restored \in OptionSet
    BY <1>0, OptionsSet DEF Restored, WellTyped
  <2>3. options' = WithTop(options, Restored)
    BY <1>0, <1>11, CurrentIsTop DEF Close
  <2>4. options' \in Stacks /\ Len(options') = Len(options)
    BY <1>0, <2>2, <2>3, WithTopStays
  <2>. QED  BY <1>0, <1>11, <2>1, <2>4 DEF Close, WellTyped, TaskShape
<1>12. CASE ShadowDone
  <2>1. PICK o \in OptionSet : options = Pushed(task.options, o)
    BY <1>12 DEF ShadowDone, OptionsKept, ForImage
  <2>2. task.options \in Stacks
    BY <1>12 DEF ShadowDone, WellTyped
  <2>3. options' = Popped(options)
    BY <1>12 DEF ShadowDone, Popped
  <2>4. options' = task.options /\ Len(options') = Len(options)
    BY <2>1, <2>2, <2>3, PushedStays
  <2>5. IsRequests(requests')
    BY <1>12 DEF ShadowDone, DisplaysKept, ForImage
  <2>. QED  BY <1>0, <1>12, <2>2, <2>4, <2>5 DEF ShadowDone, WellTyped, TaskShape
<1>13. CASE WorldEndReturns
  BY <1>0, <1>13 DEF WorldEndReturns, WellTyped, Idle
<1>14. ASSUME NEW d, NEW add, Display(d, add)  PROVE Goal
  <2>1. requests' = AddDisplay(d) \/ requests' = <<NewRequest(d)>>
    BY <1>14 DEF Display
  <2>2. IsRequests(requests')
    BY <2>1, OneRequest, OneMore DEF WellTyped
  <2>. QED  BY <1>14, <2>2 DEF Display, WellTyped
<1>15. ASSUME NEW b \in BOOLEAN, Multipass(b)  PROVE Goal
  <2>. DEFINE o == [current EXCEPT !.multipass = b]
  <2>1. o \in OptionSet
    BY <1>0, OptionsSet
  <2>2. options' = WithTop(options, o)
    BY <1>0, <1>15, CurrentIsTop DEF Multipass
  <2>. HIDE DEF o
  <2>3. options' \in Stacks /\ Len(options') = Len(options)
    BY <1>0, <2>1, <2>2, WithTopStays
  <2>. QED  BY <1>15, <2>3 DEF Multipass, WellTyped
<1>16. ASSUME NEW c \in Crops, CropWindow(c)  PROVE Goal
  <2>. DEFINE o == [current EXCEPT !.crop = c]
  <2>1. o \in OptionSet
    BY <1>0, OptionsSet
  <2>2. options' = WithTop(options, o)
    BY <1>0, <1>16, CurrentIsTop DEF CropWindow
  <2>. HIDE DEF o
  <2>3. options' \in Stacks /\ Len(options') = Len(options)
    BY <1>0, <2>1, <2>2, WithTopStays
  <2>. QED  BY <1>16, <2>3 DEF CropWindow, WellTyped
<1>17. ASSUME NEW l \in AutoLights, LightSource(l)  PROVE Goal
  BY <1>17 DEF LightSource, WellTyped
<1>18. CASE UNCHANGED vars
  BY <1>18 DEF vars, WellTyped
<1>. QED  BY <1>1, <1>2, <1>3, <1>4, <1>5, <1>6, <1>7, <1>8, <1>9, <1>10, <1>11, <1>12, <1>13,
             <1>14, <1>15, <1>16, <1>17, <1>18 DEF Next
LEMMA FrameStep == KeepInv /\ [Next]_vars => FrameShape'
<1>. SUFFICES ASSUME KeepInv, [Next]_vars  PROVE FrameShape'
  OBVIOUS
<1>0. /\ Nested(scopes) /\ scopes = blocks /\ FrameShape /\ scopes \in Seq(Scopes)
      /\ Len(scopes) \in DOMAIN scopes /\ DOMAIN scopes = 1 .. Len(scopes) /\ Len(scopes) \in Nat
      /\ Len(options) \in Nat \ {0}
  BY LenProperties, EmptySeq, StackShape DEF KeepInv, ScopeInv, Nested, WellTyped
<1>1. ASSUME NEW e \in Scopes \ {"BeginEnd"}, scopes' = Append(scopes, e), Len(scopes) = 1 \/ e # "Frame",
             e = "Frame" => Len(options') >= 2, e # "Frame" => Len(options') = Len(options)
      PROVE  FrameShape'
  <2>1. /\ Len(scopes') = Len(scopes) + 1 /\ DOMAIN scopes' = 1 .. Len(scopes) + 1
        /\ scopes'[Len(scopes) + 1] = e
        /\ \A i \in 1 .. Len(scopes) : scopes'[i] = scopes[i]
    BY <1>0, <1>1, AppendProperties, LenProperties
  <2>2. \A i \in DOMAIN scopes' : (scopes'[i] = "BeginEnd" <=> i = 1) /\ (scopes'[i] = "Frame" => i = 2)
    BY <1>0, <1>1, <2>1 DEF FrameShape
  <2>3. Len(scopes') >= 2 /\ scopes'[2] = "Frame" => Len(options') >= 2
    BY <1>0, <1>1, <2>1 DEF FrameShape
  <2>. QED  BY <2>2, <2>3 DEF FrameShape
<1>2. ASSUME scopes' = Front(scopes), Len(scopes) > 1, Len(scopes) = 2 \/ Len(options') = Len(options)
      PROVE  FrameShape'
  <2>1. /\ Len(scopes') = Len(scopes) - 1 /\ DOMAIN scopes' = 1 .. Len(scopes) - 1
        /\ \A i \in 1 .. Len(scopes) - 1 : scopes'[i] = scopes[i]
    BY <1>0, <1>2, FrontElements
  <2>2. \A i \in DOMAIN scopes' : (scopes'[i] = "BeginEnd" <=> i = 1) /\ (scopes'[i] = "Frame" => i = 2)
    BY <1>0, <1>2, <2>1 DEF FrameShape
  <2>3. Len(scopes') >= 2 /\ scopes'[2] = "Frame" => Len(options') >= 2
    BY <1>0, <1>2, <2>1 DEF FrameShape
  <2>. QED  BY <2>2, <2>3 DEF FrameShape
<1>3. ASSUME scopes' = scopes, Len(options') = Len(options)  PROVE FrameShape'
  BY <1>0, <1>3 DEF FrameShape
<1>4. CASE FrameBegin
  <2>1. Last(scopes) = "BeginEnd" /\ scopes' = Append(scopes, "Frame") /\ options' = Append(options, <<current>>)
    BY <1>0, <1>4 DEF FrameBegin, scope
  <2>2. scopes[Len(scopes)] = "BeginEnd"
    BY <2>1 DEF Last
  <2>3. Len(scopes) = 1
    BY <1>0, <2>2 DEF FrameShape
  <2>4. Len(options') = Len(options) + 1
    <3>. DEFINE q == <<current>>
    <3>1. options \in Seq(Seq(OptionSet) \ {<<>>})
      BY DEF KeepInv, WellTyped, Stacks
    <3>2. current \in OptionSet
      BY StackShape, CurrentIsTop DEF KeepInv, WellTyped
    <3>3. q \in Seq(OptionSet) \ {<<>>}
      BY <3>2
    <3>. HIDE DEF q
    <3>4. Len(Append(options, q)) = Len(options) + 1
      BY <3>1, <3>3, AppendProperties
    <3>. QED  BY <2>1, <3>4 DEF q
  <2>5. Len(options') >= 2
    BY <1>0, <2>4
  <2>. QED  BY <1>1, <2>1, <2>3, <2>5 DEF Scopes
<1>5. CASE FrameEnd
  <2>1. Last(scopes) = "Frame" /\ scopes' = Front(scopes)
    BY <1>5 DEF FrameEnd, scope
  <2>2. scopes[Len(scopes)] = "Frame"
    BY <2>1 DEF Last
  <2>3. Len(scopes) = 2
    BY <1>0, <2>2 DEF FrameShape
  <2>. QED  BY <1>2, <2>1, <2>3
<1>6. CASE WorldBegin
  BY <1>1, <1>6 DEF WorldBegin, Scopes
<1>7. CASE WorldEndReturns
  <2>1. Last(scopes) = "World" /\ scopes' = Front(scopes) /\ Len(options') = Len(options)
    BY <1>7 DEF WorldEndReturns, KeepInv, ScopeInv
  <2>2. scopes[Len(scopes)] = "World"
    BY <2>1 DEF Last
  <2>3. Len(scopes) > 1
    BY <1>0, <2>2 DEF FrameShape
  <2>. QED  BY <1>2, <2>1, <2>3
<1>8. CASE ~(FrameBegin \/ FrameEnd \/ WorldBegin \/ WorldEndReturns)
  <2>1. Len(options') = Len(options)
    BY <1>8, TypedStep
  <2>2. scopes' = scopes
    BY <1>8 DEF Next, vars, WorldEnd, Primitive, Display, Multipass, CropWindow, LightSource, StartShadow, StartImage,
                Prepare, OpenDisplay, Crash, OpenFails, RenderImage, SendBucket, Close, ShadowDone
  <2>. QED  BY <1>3, <2>1, <2>2
<1>. QED  BY <1>4, <1>5, <1>6, <1>7, <1>8

LEMMA KeptStep ==
  ASSUME KeepInv, [Next]_vars
  PROVE  OptionsKept' /\ DisplaysKept' /\ WorldSpent'
<1>. USE DEF ForImage, InPass
<1>. DEFINE Goal == OptionsKept' /\ DisplaysKept' /\ WorldSpent'
<1>. SUFFICES Goal
  OBVIOUS
<1>0. /\ options \in Stacks /\ TaskShape
      /\ task.stage # "idle" /\ task.stage # "crashed" => task.options \in Stacks
      /\ OptionsKept /\ DisplaysKept /\ WorldSpent
  BY DEF KeepInv, WellTyped, ScopeInv
<1>1. ASSUME task'.stage \in {"idle", "crashed"}  PROVE Goal
  BY <1>1 DEF OptionsKept, DisplaysKept, WorldSpent
<1>2. CASE FrameBegin \/ FrameEnd \/ WorldBegin \/ Primitive
  BY <1>1, <1>2 DEF FrameBegin, FrameEnd, WorldBegin, Primitive, idle
<1>3. ASSUME NEW d, NEW add, Display(d, add)  PROVE Goal
  BY <1>1, <1>3 DEF Display, Setting, idle
<1>4. ASSUME NEW b, Multipass(b) \/ CropWindow(b) \/ LightSource(b)  PROVE Goal
  BY <1>1, <1>4 DEF Multipass, CropWindow, LightSource, Setting, idle
<1>5. CASE WorldEnd
  BY <1>5 DEF WorldEnd, Idle, OptionsKept, DisplaysKept, WorldSpent
<1>6. CASE StartShadow
  <2>. DEFINE o == [current EXCEPT !.res = [x |-> ShadowRes, y |-> ShadowRes]]
  <2>1. o \in OptionSet
    BY <1>0, StackShape, CurrentIsTop, OptionsSet
  <2>2. options' = Pushed(options, o)
    BY <1>6 DEF StartShadow, Pushed
  <2>. HIDE DEF o
  <2>3. /\ task'.stage = "prepare" /\ task'.options = task.options /\ task'.drivers = task.drivers
        /\ task'.light # 0
    BY <1>0, <1>6, SessionConstants DEF StartShadow, TaskShape, KeepInv, WellTyped
  <2>4. OptionsKept'
    BY <1>0, <1>6, <2>1, <2>2, <2>3 DEF StartShadow, OptionsKept
  <2>5. DisplaysKept'
    <3>1. main' = requests /\ Named(main') = Named(requests) /\ IsRequests(requests)
      BY <1>6 DEF StartShadow, KeepInv, WellTyped
    <3>2. IsRequests(main')
      BY <3>1 DEF IsRequests
    <3>3. Named(requests) = task.drivers
      BY <1>0, <1>6 DEF StartShadow, DisplaysKept
    <3>. QED  BY <2>3, <3>1, <3>2, <3>3 DEF DisplaysKept
  <2>. QED  BY <2>3, <2>4, <2>5 DEF WorldSpent
<1>7. CASE StartImage
  <2>1. /\ task'.stage = "prepare" /\ task'.options = task.options /\ task'.drivers = task.drivers
        /\ task'.light = 0
    BY <1>0, <1>7 DEF StartImage, TaskShape
  <2>2. task.stage = "shadows" /\ UNCHANGED <<options, requests, main>>
    BY <1>7 DEF StartImage
  <2>3. Named(requests') = Named(requests)
    BY <2>2 DEF Named
  <2>4. OptionsKept'
    BY <1>0, <2>1, <2>2 DEF OptionsKept
  <2>5. DisplaysKept'
    BY <1>0, <2>1, <2>2, <2>3 DEF DisplaysKept
  <2>. QED  BY <2>1, <2>4, <2>5 DEF WorldSpent
<1>8. CASE Prepare
  <2>. DEFINE o == [current EXCEPT !.multipass = FALSE]
  <2>0. o \in OptionSet
    BY <1>0, StackShape, CurrentIsTop, OptionsSet
  <2>1. /\ task'.stage = "open" /\ task'.options = task.options /\ task'.drivers = task.drivers
        /\ task'.light = task.light /\ task'.saved = current.multipass /\ task.stage = "prepare"
    BY <1>0, <1>8 DEF Prepare, TaskShape
  <2>2. options' = WithTop(options, o) /\ current = Top(options)
    BY <1>0, <1>8, CurrentIsTop DEF Prepare
  <2>3. OptionsKept'
    <3>1. CASE ForImage
      BY <1>0, <2>1, <2>2, <3>1 DEF OptionsKept
    <3>2. CASE ~ForImage
      <4>1. PICK p \in OptionSet : options = Pushed(task.options, p)
        BY <1>0, <2>1, <3>2 DEF OptionsKept
      <4>2. options' = Pushed(task.options, o)
        BY <1>0, <2>0, <2>1, <2>2, <4>1, PushedStays
      <4>. QED  BY <2>0, <2>1, <3>2, <4>2 DEF OptionsKept
    <3>. QED  BY <3>1, <3>2
  <2>4. DisplaysKept'
    BY <1>0, <1>8, <2>1 DEF Prepare, DisplaysKept
  <2>5. WorldSpent'
    BY <1>0, <1>8, <2>1 DEF Prepare, PostedBy, WorldSpent
  <2>. QED  BY <2>3, <2>4, <2>5
<1>9. CASE Crash
  BY <1>0, <1>9 DEF Crash, TaskShape, OptionsKept, DisplaysKept, WorldSpent, InPass
<1>9a. CASE OpenFails
  BY <1>1, <1>9a DEF OpenFails, Idle
<1>10. CASE OpenDisplay
  <2>1. /\ task'.stage = "open" /\ task'.options = task.options /\ task'.drivers = task.drivers
        /\ task'.light = task.light /\ task'.saved = task.saved /\ task.stage = "open"
    BY <1>0, <1>10 DEF OpenDisplay, Loading, TaskShape
  <2>2. Named(requests') = Named(requests)
    BY <1>10, RequestsStay DEF KeepInv, WellTyped
  <2>. QED  BY <1>0, <1>10, <2>1, <2>2 DEF OpenDisplay, Loading, OptionsKept, DisplaysKept, WorldSpent
<1>11. CASE RenderImage
  <2>1. /\ task'.stage = "render" /\ task'.options = task.options /\ task'.drivers = task.drivers
        /\ task'.light = task.light /\ task'.saved = task.saved /\ task.stage = "open"
    BY <1>0, <1>11 DEF RenderImage, TaskShape
  <2>. QED  BY <1>0, <1>11, <2>1 DEF RenderImage, OptionsKept, DisplaysKept, WorldSpent
<1>12. CASE SendBucket
  <2>1. /\ task'.stage \in {"render", "close"} /\ task'.options = task.options
        /\ task'.drivers = task.drivers
        /\ task'.light = task.light /\ task'.saved = task.saved /\ task.stage = "render"
    BY <1>0, <1>12 DEF SendBucket, TaskShape
  <2>2. Named(requests') = Named(requests)
    BY <1>12, RequestsStay DEF KeepInv, WellTyped
  <2>. QED  BY <1>0, <1>12, <2>1, <2>2 DEF SendBucket, OptionsKept, DisplaysKept, WorldSpent
<1>13. CASE Close
  <2>1. /\ task'.stage = "finish" /\ task'.options = task.options /\ task'.drivers = task.drivers
        /\ task'.light = task.light /\ task'.saved = task.saved /\ task.stage = "close"
    BY <1>0, <1>13 DEF Close, TaskShape
  <2>2. Named(requests') = Named(requests)
    BY <1>13, RequestsStay DEF KeepInv, WellTyped
  <2>3. options' = WithTop(options, Restored) /\ current = Top(options) /\ current \in OptionSet
    BY <1>0, <1>13, StackShape, CurrentIsTop DEF Close
  <2>4. Restored \in OptionSet
    BY <2>3, OptionsSet DEF Restored, KeepInv, WellTyped
  <2>5. OptionsKept'
    <3>1. CASE ForImage
      <4>. DEFINE t == task.options
                  o == [Top(t) EXCEPT !.multipass = FALSE]
      <4>1. t \in Stacks /\ options = WithTop(t, o) /\ task.saved = Top(t).multipass
        BY <1>0, <2>1, <3>1 DEF OptionsKept
      <4>2. Top(t) \in OptionSet
        BY <4>1, StackShape
      <4>3. o \in OptionSet
        BY <4>2, OptionsSet
      <4>4. [o EXCEPT !.multipass = Top(t).multipass] = Top(t)
        BY <4>2, OptionsSet
      <4>5. current = o
        BY <2>3, <4>1, <4>3, WithTopStays
      <4>6. Restored = Top(t)
        BY <4>1, <4>4, <4>5 DEF Restored
      <4>7. options' = WithTop(t, Top(t))
        BY <2>3, <4>1, <4>3, <4>6, WithTopStays
      <4>8. options' = t
        BY <4>1, <4>7, TopPutBack
      <4>. QED  BY <2>1, <3>1, <4>8 DEF OptionsKept
    <3>2. CASE ~ForImage
      <4>1. PICK p \in OptionSet : options = Pushed(task.options, p)
        BY <1>0, <2>1, <3>2 DEF OptionsKept
      <4>2. options' = Pushed(task.options, Restored)
        BY <1>0, <2>1, <2>3, <2>4, <4>1, PushedStays
      <4>. QED  BY <2>1, <2>4, <3>2, <4>2 DEF OptionsKept
    <3>. QED  BY <3>1, <3>2
  <2>. QED  BY <1>0, <1>13, <2>1, <2>2, <2>5 DEF Close, DisplaysKept, WorldSpent
<1>14. CASE ShadowDone
  <2>1. /\ task'.stage = "shadows" /\ task'.options = task.options /\ task'.drivers = task.drivers
        /\ task'.light = task.light /\ task.stage = "finish" /\ ~ForImage
    BY <1>0, <1>14 DEF ShadowDone, TaskShape
  <2>2. PICK p \in OptionSet : options = Pushed(task.options, p)
    BY <1>0, <2>1 DEF OptionsKept
  <2>3. options' = Popped(options)
    BY <1>14 DEF ShadowDone, Popped
  <2>4. options' = task.options
    BY <1>0, <2>1, <2>2, <2>3, PushedStays
  <2>. QED  BY <1>0, <1>14, <2>1, <2>4 DEF ShadowDone, OptionsKept, DisplaysKept, WorldSpent
<1>15. CASE WorldEndReturns
  BY <1>1, <1>15 DEF WorldEndReturns, Idle
<1>16. CASE UNCHANGED vars
  BY <1>0, <1>16 DEF vars, OptionsKept, DisplaysKept, WorldSpent, Named
<1>. QED  BY <1>2, <1>3, <1>4, <1>5, <1>6, <1>7, <1>8, <1>9, <1>9a, <1>10, <1>11, <1>12, <1>13, <1>14,
             <1>15, <1>16 DEF Next

(* A WorldEnd that returns has put back the options and the displays there were   *)
(* when it was called, after any number of shadow passes, and leaves no surface   *)
(* for the next world.                                                            *)
THEOREM WorldEndPutsBack == Spec => WorldEndReleases
<1>1. KeepInv /\ [Next]_vars => KeepInv'
  <2>1. KeepInv /\ [Next]_vars => ScopeInv'
    BY ScopeStep DEF KeepInv
  <2>2. KeepInv /\ [Next]_vars => WellTyped'
    BY TypedStep
  <2>3. KeepInv /\ [Next]_vars => OptionsKept' /\ DisplaysKept' /\ WorldSpent'
    BY KeptStep
  <2>. QED  BY <2>1, <2>2, <2>3, FrameStep DEF KeepInv
<1>2. KeepInv /\ [Next]_vars =>
        [task.stage = "finish" /\ task'.stage = "idle" =>
           /\ options' = task.options
           /\ Named(requests') = task.drivers
           /\ world' = <<>> /\ queued' = <<>>]_vars
  <2>. SUFFICES ASSUME KeepInv, [Next]_vars, task.stage = "finish", task'.stage = "idle"
                PROVE  /\ options' = task.options
                       /\ Named(requests') = task.drivers
                       /\ world' = <<>> /\ queued' = <<>>
    OBVIOUS
  <2>1. WorldEndReturns
    BY DEF Next, vars, KeepInv, ScopeInv, TaskShape, FrameBegin, FrameEnd, WorldBegin, WorldEnd, Primitive, Display,
           Multipass, CropWindow, LightSource, Setting, idle, StartShadow, StartImage, Prepare, OpenDisplay, Crash,
           OpenFails, Loading, RenderImage, SendBucket, Close, ShadowDone
  <2>2. ForImage /\ UNCHANGED <<options, requests, world, queued>>
    BY <2>1 DEF WorldEndReturns, ForImage
  <2>3. Named(requests') = Named(requests)
    BY <2>2 DEF Named
  <2>. QED  BY <2>2, <2>3 DEF KeepInv, OptionsKept, DisplaysKept, WorldSpent, InPass
<1>. QED  BY <1>1, <1>2, KeepInit, PTL DEF Spec, WorldEndReleases

(*********************** the passes over a world **************************)

RenderSet == [call : Nat, light : Nat, surfaces : Seq(Nat), before : Nat, created : Nat,
              multipass : BOOLEAN, lights : SUBSET AutoLights]

Counted ==
  /\ created \in Nat /\ before.created \in Nat /\ before.created <= created
  /\ ends \in Nat /\ before.ends \in Nat /\ before.ends <= ends
  /\ world \in Seq(Nat) /\ queued \in Seq(Nat) /\ renders \in Seq(RenderSet)
  /\ task.light \in Nat

\* There is one world at a time.
LoneWorld == \A i \in DOMAIN scopes : scopes[i] = "World" => i = Len(scopes)

\* A call of WorldEnd, and whether it is the first of its world: after one
\* that failed come others.
InCall == task.stage \in {"shadows", "prepare", "open", "render", "close", "finish"}
First == before.ends = ends - 1

CallsCounted == InCall => before.ends < ends

Drawn(s) == Whole(s, before.created, created)

\* The surfaces wait in the world or in the buckets, not in both.
Waiting == IF Top(options).multipass THEN queued = <<>> /\ Drawn(world)
                                     ELSE world = <<>> /\ Drawn(queued)

\* Where they are at every stage.
WorldShape ==
  /\ idle /\ scope # "World" => world = <<>> /\ queued = <<>>
  /\ idle /\ scope = "World" /\ NoneFailed => Waiting
  /\ First =>
       /\ task.stage = "shadows" \/ (task.stage = "prepare" /\ ForImage) => Waiting
       /\ task.stage = "open" => Drawn(queued)
       /\ task.stage \in InPass \cup {"prepare", "finish"} /\ ~ForImage => Drawn(world)
       /\ task.stage = "prepare" /\ ~ForImage => queued = <<>>

\* Shadow passes are for multipass, which each pass turns off.
PassesWanted ==
  /\ InCall /\ (task.todo # {} \/ ~ForImage) => Top(task.options).multipass
  /\ task.stage = "open" => ~Top(options).multipass

\* After a failure every other WorldEnd finds multipass off and fails at the
\* same display.
Doomed ==
  /\ 1 \in DOMAIN requests /\ libraries[requests[1].driver] = "missing"
  /\ ~Top(options).multipass
  /\ idle \/ (/\ task.stage \in {"shadows", "prepare", "open"} /\ task.todo = {} /\ ForImage
              /\ task.stage = "open" => task.display = 1)

FailedStays == (idle /\ scope = "World" /\ ~NoneFailed) \/ (InCall /\ ~First) => Doomed

RendersWhole ==
  \A i \in DOMAIN renders : Whole(renders[i].surfaces, renders[i].before, renders[i].created)

OnceInv == Counted /\ CallsCounted /\ LoneWorld /\ WorldShape /\ PassesWanted /\ FailedStays /\ RendersWhole

-----------------------------------------------------------------------------
(* No surface, and one more. *)
LEMMA WholeNone == ASSUME NEW n \in Nat  PROVE Whole(<<>>, n, n)
<1>1. ToSet(<<>>) = {} /\ Len(<<>>) = 0
  BY DEF ToSet
<1>2. n + 1 .. n = {} /\ n - n = 0
  OBVIOUS
<1>. QED  BY <1>1, <1>2 DEF Whole

LEMMA WholeOneMore ==
  ASSUME NEW s \in Seq(Nat), NEW m \in Nat, NEW n \in Nat, m <= n, Whole(s, m, n)
  PROVE  Append(s, n + 1) \in Seq(Nat) /\ Whole(Append(s, n + 1), m, n + 1)
<1>. DEFINE t == Append(s, n + 1)
<1>1. /\ t \in Seq(Nat) /\ Len(t) = Len(s) + 1 /\ t[Len(s) + 1] = n + 1
      /\ \A i \in 1 .. Len(s) : t[i] = s[i]
      /\ DOMAIN s = 1 .. Len(s) /\ DOMAIN t = 1 .. Len(s) + 1 /\ Len(s) \in Nat
  BY AppendProperties, LenProperties
<1>. HIDE DEF t
<1>2. ToSet(t) = ToSet(s) \cup {n + 1}
  <2>1. \A x : x \in ToSet(s) <=> \E i \in 1 .. Len(s) : x = s[i]
    BY <1>1 DEF ToSet
  <2>2. \A x : x \in ToSet(t) <=> \E i \in 1 .. Len(s) + 1 : x = t[i]
    BY <1>1 DEF ToSet
  <2>3. \A i : i \in 1 .. Len(s) + 1 <=> i \in 1 .. Len(s) \/ i = Len(s) + 1
    BY <1>1
  <2>. QED  BY <1>1, <2>1, <2>2, <2>3
<1>3. m + 1 .. n + 1 = (m + 1 .. n) \cup {n + 1}
  OBVIOUS
<1>4. Len(s) = n - m /\ ToSet(s) = m + 1 .. n
  BY DEF Whole
<1>5. Len(t) = (n + 1) - m /\ ToSet(t) = m + 1 .. n + 1
  BY <1>1, <1>2, <1>3, <1>4
<1>6. t \in Seq(Nat) /\ Whole(t, m, n + 1)
  BY <1>1, <1>5 DEF Whole
<1>. QED  BY <1>6 DEF t

LEMMA KeepStep == KeepInv /\ [Next]_vars => KeepInv'
BY ScopeStep, TypedStep, KeptStep, FrameStep DEF KeepInv

(* What a step of a call does to the task. *)
LEMMA TaskSteps ==
  ASSUME TaskShape
  PROVE  /\ WorldEnd => /\ idle /\ task'.stage = "shadows" /\ task'.options = options /\ task'.light = 0
                        /\ task'.todo = IF current.multipass THEN lights ELSE {}
         /\ StartShadow => /\ task.stage = "shadows" /\ task'.stage = "prepare" /\ task'.options = task.options
                           /\ task'.light \in task.todo /\ task'.todo = task.todo \ {task'.light}
         /\ StartImage => /\ task.stage = "shadows" /\ task.todo = {} /\ task'.stage = "prepare"
                          /\ task'.options = task.options /\ task'.light = 0 /\ task'.todo = task.todo
         /\ Prepare => /\ task.stage = "prepare" /\ task'.stage = "open" /\ task'.options = task.options
                       /\ task'.light = task.light /\ task'.todo = task.todo
                       /\ task'.display = 1 /\ task'.saved = current.multipass
         /\ OpenDisplay => /\ task.stage = "open" /\ task'.stage = "open" /\ task'.options = task.options
                           /\ task'.light = task.light /\ task'.todo = task.todo
         /\ Crash => /\ task.stage = "open" /\ task'.stage = "crashed"
                     /\ task'.light = task.light /\ task'.todo = task.todo
         /\ OpenFails => task.stage = "open" /\ task'.stage = "idle" /\ task'.light = 0
         /\ RenderImage => /\ task.stage = "open" /\ task'.stage = "render" /\ task'.options = task.options
                           /\ task'.light = task.light /\ task'.todo = task.todo
         /\ SendBucket => /\ task.stage = "render" /\ task'.stage \in {"render", "close"}
                          /\ task'.options = task.options
                          /\ task'.light = task.light /\ task'.todo = task.todo
         /\ Close => /\ task.stage = "close" /\ task'.stage = "finish" /\ task'.options = task.options
                     /\ task'.light = task.light /\ task'.todo = task.todo
         /\ ShadowDone => /\ task.stage = "finish" /\ task'.stage = "shadows" /\ task'.options = task.options
                          /\ task.light # 0 /\ task'.light = task.light /\ task'.todo = task.todo
         /\ WorldEndReturns => /\ task.stage = "finish" /\ task'.stage = "idle"
                               /\ task.light = 0 /\ task'.light = 0
<1>1. WorldEnd => /\ idle /\ task'.stage = "shadows" /\ task'.options = options /\ task'.light = 0
                  /\ task'.todo = IF current.multipass THEN lights ELSE {}
  BY DEF WorldEnd, Idle
<1>2. StartShadow => /\ task.stage = "shadows" /\ task'.stage = "prepare" /\ task'.options = task.options
                     /\ task'.light \in task.todo /\ task'.todo = task.todo \ {task'.light}
  BY DEF StartShadow, TaskShape
<1>3. StartImage => /\ task.stage = "shadows" /\ task.todo = {} /\ task'.stage = "prepare"
                    /\ task'.options = task.options /\ task'.light = 0 /\ task'.todo = task.todo
  BY DEF StartImage, TaskShape
<1>4. Prepare => /\ task.stage = "prepare" /\ task'.stage = "open" /\ task'.options = task.options
                 /\ task'.light = task.light /\ task'.todo = task.todo
                 /\ task'.display = 1 /\ task'.saved = current.multipass
  BY DEF Prepare, TaskShape
<1>5. OpenDisplay => /\ task.stage = "open" /\ task'.stage = "open" /\ task'.options = task.options
                     /\ task'.light = task.light /\ task'.todo = task.todo
  BY DEF OpenDisplay, Loading, TaskShape
<1>6. Crash => /\ task.stage = "open" /\ task'.stage = "crashed"
               /\ task'.light = task.light /\ task'.todo = task.todo
  BY DEF Crash, Loading, TaskShape
<1>7. OpenFails => task.stage = "open" /\ task'.stage = "idle" /\ task'.light = 0
  BY DEF OpenFails, Loading, Idle
<1>8. RenderImage => /\ task.stage = "open" /\ task'.stage = "render" /\ task'.options = task.options
                     /\ task'.light = task.light /\ task'.todo = task.todo
  BY DEF RenderImage, TaskShape
<1>9. SendBucket => /\ task.stage = "render" /\ task'.stage \in {"render", "close"}
                    /\ task'.options = task.options
                    /\ task'.light = task.light /\ task'.todo = task.todo
  BY DEF SendBucket, TaskShape
<1>10. Close => /\ task.stage = "close" /\ task'.stage = "finish" /\ task'.options = task.options
                /\ task'.light = task.light /\ task'.todo = task.todo
  BY DEF Close, TaskShape
<1>11. ShadowDone => /\ task.stage = "finish" /\ task'.stage = "shadows" /\ task'.options = task.options
                     /\ task.light # 0 /\ task'.light = task.light /\ task'.todo = task.todo
  BY DEF ShadowDone, TaskShape
<1>12. WorldEndReturns => /\ task.stage = "finish" /\ task'.stage = "idle"
                          /\ task.light = 0 /\ task'.light = 0
  BY DEF WorldEndReturns, Idle
<1>. QED  BY <1>1, <1>2, <1>3, <1>4, <1>5, <1>6, <1>7, <1>8, <1>9, <1>10, <1>11, <1>12

\* The calls that only set something, outside a world or beside it.
Settings == \/ \E d \in Drivers \ {ShadowDriver}, add \in BOOLEAN : Display(d, add)
            \/ \E b \in BOOLEAN \ {current.multipass} : Multipass(b)
            \/ \E c \in Crops \ {current.crop} : CropWindow(c)
            \/ \E l \in AutoLights \ lights : LightSource(l)

LEMMA SettingsKeep ==
  ASSUME Settings
  PROVE  /\ idle /\ UNCHANGED <<libraries, scopes, world, queued, task, created, ends, before, renders>>
         /\ scope = "World" => UNCHANGED <<options, requests>>
<1>1. ASSUME NEW d, NEW add, Display(d, add)
      PROVE /\ idle /\ UNCHANGED <<libraries, scopes, world, queued, task, created, ends, before, renders>>
            /\ scope = "World" => UNCHANGED <<options, requests>>
  BY <1>1 DEF Display, Setting, Outside
<1>2. ASSUME NEW b, Multipass(b) \/ CropWindow(b) \/ LightSource(b)
      PROVE /\ idle /\ UNCHANGED <<libraries, scopes, world, queued, task, created, ends, before, renders>>
            /\ scope = "World" => UNCHANGED <<options, requests>>
  BY <1>2 DEF Multipass, CropWindow, LightSource, Setting, Outside
<1>. QED  BY <1>1, <1>2 DEF Settings

LEMMA NextCases ==
  ASSUME [Next]_vars
  PROVE  \/ FrameBegin \/ FrameEnd \/ WorldBegin \/ WorldEnd \/ Primitive \/ Settings
         \/ StartShadow \/ StartImage \/ Prepare \/ OpenDisplay \/ Crash \/ OpenFails
         \/ RenderImage \/ SendBucket \/ Close \/ ShadowDone \/ WorldEndReturns \/ UNCHANGED vars
BY DEF Next, Settings

-----------------------------------------------------------------------------
LEMMA OnceInit == Init => OnceInv
<1>. SUFFICES ASSUME Init  PROVE OnceInv
  OBVIOUS
<1>1. Counted
  BY DEF Init, Counted, Idle
<1>2. LoneWorld /\ scope = "BeginEnd"
  BY DEF Init, LoneWorld, scope, Last
<1>3. CallsCounted /\ WorldShape /\ PassesWanted /\ FailedStays
  BY <1>2 DEF Init, CallsCounted, WorldShape, PassesWanted, FailedStays, Idle, idle, InCall, First, InPass, NoneFailed
<1>4. RendersWhole
  BY DEF Init, RendersWhole
<1>. QED  BY <1>1, <1>2, <1>3, <1>4 DEF OnceInv

(* The scope on top after a block has begun or ended. *)
LEMMA ScopeSteps ==
  ASSUME KeepInv, LoneWorld, [Next]_vars
  PROVE  /\ LoneWorld'
         /\ FrameBegin \/ FrameEnd \/ WorldEndReturns => scope' # "World"
         /\ ~(FrameBegin \/ FrameEnd \/ WorldEndReturns \/ WorldBegin) => scopes' = scopes /\ scope' = scope
<1>0. /\ Nested(scopes) /\ FrameShape /\ scopes \in Seq(Scopes)
      /\ Len(scopes) \in DOMAIN scopes /\ DOMAIN scopes = 1 .. Len(scopes) /\ Len(scopes) \in Nat
      /\ scope = scopes[Len(scopes)]
  BY LenProperties, EmptySeq DEF KeepInv, ScopeInv, Nested, scope, Last
<1>1. ASSUME NEW e \in Scopes, scopes' = Append(scopes, e), scope # "World"
      PROVE  LoneWorld' /\ scope' = e
  <2>1. /\ Len(scopes') = Len(scopes) + 1 /\ DOMAIN scopes' = 1 .. Len(scopes) + 1
        /\ scopes'[Len(scopes) + 1] = e
        /\ \A i \in 1 .. Len(scopes) : scopes'[i] = scopes[i]
    BY <1>0, <1>1, AppendProperties, LenProperties
  <2>. QED  BY <1>0, <1>1, <2>1 DEF LoneWorld, scope, Last
<1>2. ASSUME scopes' = Front(scopes), scope # "BeginEnd"
      PROVE  LoneWorld' /\ scope' # "World"
  <2>1. Len(scopes) > 1
    BY <1>0, <1>2 DEF FrameShape
  <2>2. /\ Len(scopes') = Len(scopes) - 1 /\ DOMAIN scopes' = 1 .. Len(scopes) - 1
        /\ \A i \in 1 .. Len(scopes) - 1 : scopes'[i] = scopes[i]
    BY <1>0, <1>2, <2>1, FrontElements
  <2>. QED  BY <1>0, <2>1, <2>2 DEF LoneWorld, scope, Last
<1>3. CASE FrameBegin \/ WorldBegin
  <2>1. scope # "World" /\ \E e \in Scopes \ {"BeginEnd"} : scopes' = Append(scopes, e) /\ (FrameBegin => e = "Frame")
    <3>1. CASE FrameBegin
      BY <3>1 DEF FrameBegin, Scopes
    <3>2. CASE WorldBegin /\ ~FrameBegin
      BY <3>2 DEF WorldBegin, Scopes, Outside
    <3>. QED  BY <1>3, <3>1, <3>2
  <2>2. FrameEnd \/ WorldEndReturns => scope # "BeginEnd" /\ scopes' = Front(scopes)
    BY DEF FrameEnd, WorldEndReturns, KeepInv, ScopeInv, scope
  <2>. QED  BY <1>1, <1>2, <1>3, <2>1, <2>2
<1>4. CASE FrameEnd \/ WorldEndReturns
  <2>1. scope # "BeginEnd" /\ scopes' = Front(scopes)
    BY <1>4 DEF FrameEnd, WorldEndReturns, KeepInv, ScopeInv, scope
  <2>2. LoneWorld' /\ scope' # "World"
    BY <1>2, <2>1
  <2>. QED  BY <1>4, <2>2
<1>5. CASE ~(FrameBegin \/ FrameEnd \/ WorldEndReturns \/ WorldBegin)
  <2>1. scopes' = scopes
    BY <1>5, NextCases, SettingsKeep DEF vars, WorldEnd, Primitive, StartShadow, StartImage,
       Prepare, OpenDisplay, Crash, OpenFails, RenderImage, SendBucket, Close, ShadowDone
  <2>. QED  BY <1>5, <2>1 DEF LoneWorld, scope
<1>. QED  BY <1>3, <1>4, <1>5

LEMMA CountStep ==
  ASSUME KeepInv, Counted, [Next]_vars
  PROVE  Counted'
<1>0. TaskShape /\ task.todo \subseteq Nat /\ lights \subseteq AutoLights /\ task.saved \in BOOLEAN
  BY SessionConstants DEF KeepInv, ScopeInv, WellTyped
<1>. USE DEF Counted
<1>1. CASE FrameBegin \/ FrameEnd
  BY <1>1 DEF FrameBegin, FrameEnd
<1>2. CASE WorldBegin
  BY <1>2 DEF WorldBegin
<1>3. CASE Settings
  BY <1>3, SettingsKeep
<1>4. CASE Primitive
  <2>1. created' = created + 1 /\ created' \in Nat
    BY <1>4 DEF Primitive
  <2>2. Append(world, created') \in Seq(Nat) /\ Append(queued, created') \in Seq(Nat)
    BY <2>1, AppendProperties
  <2>3. world' \in Seq(Nat) /\ queued' \in Seq(Nat)
    BY <1>4, <2>2 DEF Primitive
  <2>4. UNCHANGED <<task, before, ends, renders>>
    BY <1>4 DEF Primitive
  <2>. QED  BY <2>1, <2>3, <2>4
<1>5. CASE WorldEnd
  BY <1>5 DEF WorldEnd, Idle
<1>6. CASE StartShadow \/ StartImage
  <2>1. task'.light \in Nat
    BY <1>0, <1>6, TaskSteps
  <2>. QED  BY <1>6, <2>1 DEF StartShadow, StartImage
<1>7. CASE Prepare
  <2>1. queued \o world \in Seq(Nat) /\ <<>> \in Seq(Nat)
    BY ConcatProperties, EmptySeq
  <2>. QED  BY <1>0, <1>7, <2>1, TaskSteps DEF Prepare, PostedBy
<1>8. CASE OpenDisplay \/ Crash \/ OpenFails
  BY <1>0, <1>8, TaskSteps DEF OpenDisplay, Crash, OpenFails, Loading
<1>9. CASE RenderImage
  <2>. DEFINE r == [call |-> ends, light |-> task.light, surfaces |-> queued,
                    before |-> before.created, created |-> created,
                    multipass |-> task.saved, lights |-> lights]
  <2>1. r \in RenderSet
    BY <1>0 DEF RenderSet
  <2>2. renders' = Append(renders, r)
    BY <1>9 DEF RenderImage
  <2>. HIDE DEF r
  <2>3. renders' \in Seq(RenderSet) /\ <<>> \in Seq(Nat)
    BY <2>1, <2>2, AppendProperties, EmptySeq
  <2>. QED  BY <1>0, <1>9, <2>3, TaskSteps DEF RenderImage
<1>10. CASE SendBucket \/ Close \/ ShadowDone
  BY <1>0, <1>10, TaskSteps DEF SendBucket, Close, ShadowDone
<1>11. CASE WorldEndReturns
  <2>1. <<>> \in Seq(RenderSet)
    BY EmptySeq
  <2>. QED  BY <1>11, <2>1 DEF WorldEndReturns, Idle
<1>12. CASE UNCHANGED vars
  BY <1>12 DEF vars
<1>. QED  BY <1>1, <1>2, <1>3, <1>4, <1>5, <1>6, <1>7, <1>8, <1>9, <1>10, <1>11, <1>12, NextCases

LEMMA CallsStep ==
  ASSUME KeepInv, Counted, CallsCounted, [Next]_vars
  PROVE  CallsCounted'
<1>0. TaskShape
  BY DEF KeepInv, ScopeInv
<1>. USE DEF CallsCounted, InCall
<1>1. CASE FrameBegin \/ FrameEnd \/ WorldBegin \/ Primitive \/ Settings
  BY <1>1, SettingsKeep DEF FrameBegin, FrameEnd, WorldBegin, Primitive, idle
<1>2. CASE WorldEnd
  <2>1. ends' = ends + 1 /\ before' = before
    BY <1>2 DEF WorldEnd
  <2>. QED  BY <2>1 DEF Counted
<1>3. CASE \/ StartShadow \/ StartImage \/ Prepare \/ OpenDisplay
           \/ RenderImage \/ SendBucket \/ Close \/ ShadowDone
  BY <1>0, <1>3, TaskSteps DEF StartShadow, StartImage, Prepare, OpenDisplay, Loading, RenderImage,
     SendBucket, Close, ShadowDone
<1>4. CASE Crash \/ OpenFails \/ WorldEndReturns
  BY <1>0, <1>4, TaskSteps
<1>5. CASE UNCHANGED vars
  BY <1>5 DEF vars
<1>. QED  BY <1>1, <1>2, <1>3, <1>4, <1>5, NextCases

\* What is on top of the options when a pass may open displays.
LEMMA PreparedOff ==
  ASSUME KeepInv, Prepare
  PROVE  ~Top(options').multipass
<1>1. options \in Stacks /\ current = Top(options) /\ current \in OptionSet
  BY StackShape, CurrentIsTop DEF KeepInv, WellTyped
<1>. DEFINE o == [current EXCEPT !.multipass = FALSE]
<1>2. o \in OptionSet /\ o.multipass = FALSE
  BY <1>1 DEF OptionSet
<1>3. options' = WithTop(options, o)
  BY <1>1, CurrentIsTop DEF Prepare
<1>. HIDE DEF o
<1>. QED  BY <1>1, <1>2, <1>3, WithTopStays

LEMMA PassesStep ==
  ASSUME KeepInv, Counted, PassesWanted, [Next]_vars
  PROVE  PassesWanted'
<1>0. TaskShape /\ options \in Stacks /\ current = Top(options) /\ task.todo \subseteq Nat \ {0}
      /\ OptionsKept
  BY CurrentIsTop, SessionConstants DEF KeepInv, ScopeInv, WellTyped
<1>. USE DEF PassesWanted, InCall, ForImage
<1>1. ASSUME task' = task, task.stage = "open" => options' = options  PROVE PassesWanted'
  BY <1>1
<1>2. CASE FrameBegin \/ FrameEnd \/ WorldBegin \/ Primitive \/ Settings
  BY <1>1, <1>2, SettingsKeep DEF FrameBegin, FrameEnd, WorldBegin, Primitive, idle
<1>3. CASE WorldEnd
  BY <1>0, <1>3, TaskSteps
<1>4. CASE StartShadow \/ StartImage
  BY <1>0, <1>4, TaskSteps
<1>5. CASE Prepare
  BY <1>0, <1>5, TaskSteps, PreparedOff
<1>6. CASE OpenDisplay
  BY <1>0, <1>6, TaskSteps DEF OpenDisplay, Loading
<1>7. CASE Crash \/ OpenFails \/ RenderImage \/ SendBucket \/ Close \/ ShadowDone \/ WorldEndReturns
  BY <1>0, <1>7, TaskSteps
<1>8. CASE UNCHANGED vars
  BY <1>1, <1>8 DEF vars
<1>. QED  BY <1>2, <1>3, <1>4, <1>5, <1>6, <1>7, <1>8, NextCases

LEMMA FailedStep ==
  ASSUME KeepInv, Counted, LoneWorld, PassesWanted, FailedStays, [Next]_vars
  PROVE  FailedStays'
<1>0. TaskShape /\ options \in Stacks /\ current = Top(options) /\ scope' = Last(scopes')
      /\ (task.stage # "idle" => scope = "World")
  BY CurrentIsTop DEF KeepInv, ScopeInv, WellTyped, scope
<1>. USE DEF InCall, ForImage, idle, NoneFailed, First
<1>1. ASSUME UNCHANGED <<task, ends, before, libraries>>, scope' = scope,
             scope = "World" => UNCHANGED <<options, requests>>
      PROVE  FailedStays'
  BY <1>0, <1>1 DEF FailedStays, Doomed
<1>2. CASE FrameBegin \/ FrameEnd \/ WorldEndReturns
  <2>1. scope' # "World" /\ task'.stage = "idle"
    BY <1>0, <1>2, ScopeSteps, TaskSteps DEF FrameBegin, FrameEnd
  <2>. QED  BY <2>1 DEF FailedStays
<1>3. CASE WorldBegin
  <2>1. before'.ends = ends /\ ends' = ends /\ task'.stage = "idle"
    BY <1>3 DEF WorldBegin
  <2>. QED  BY <2>1 DEF FailedStays
<1>4. CASE Primitive \/ Settings
  <2>1. scope' = scope
    BY <1>4, ScopeSteps, SettingsKeep DEF Primitive, Settings, scope
  <2>. QED  BY <1>1, <1>4, <2>1, SettingsKeep DEF Primitive
<1>5. CASE WorldEnd
  <2>1. idle /\ scope = "World" /\ ends' = ends + 1 /\ UNCHANGED <<before, options, requests, libraries>>
    BY <1>5 DEF WorldEnd
  <2>2. CASE NoneFailed
    BY <1>0, <1>5, <2>1, <2>2, TaskSteps DEF FailedStays, Counted
  <2>3. CASE ~NoneFailed
    BY <1>0, <1>5, <2>1, <2>3, TaskSteps DEF FailedStays, Doomed
  <2>. QED  BY <2>2, <2>3
<1>6. ASSUME task.stage # "idle", InCall, InCall', UNCHANGED <<ends, before>>, First  PROVE FailedStays'
  BY <1>6 DEF FailedStays
<1>7. ASSUME UNCHANGED <<ends, before>>, InCall, ~First, ~Doomed  PROVE FailedStays'
  BY <1>7 DEF FailedStays
<1>8. CASE StartShadow \/ StartImage
  <2>1. InCall /\ InCall' /\ UNCHANGED <<ends, before, libraries>>
    BY <1>0, <1>8, TaskSteps DEF StartShadow, StartImage
  <2>2. CASE ~First /\ Doomed
    <3>1. StartImage /\ UNCHANGED <<options, requests>>
      BY <1>8, <2>2 DEF Doomed, StartShadow, StartImage
    <3>. QED  BY <1>0, <2>1, <2>2, <3>1, TaskSteps DEF FailedStays, Doomed
  <2>. QED  BY <1>6, <1>7, <2>1, <2>2
<1>9. CASE Prepare
  <2>1. InCall /\ InCall' /\ UNCHANGED <<ends, before, libraries, requests>>
    BY <1>0, <1>9, TaskSteps DEF Prepare
  <2>2. CASE ~First /\ Doomed
    BY <1>0, <1>9, <2>1, <2>2, TaskSteps, PreparedOff DEF FailedStays, Doomed
  <2>. QED  BY <1>6, <1>7, <2>1, <2>2
<1>10. CASE OpenDisplay \/ RenderImage
  <2>1. InCall /\ InCall' /\ UNCHANGED <<ends, before>>
    BY <1>0, <1>10, TaskSteps DEF OpenDisplay, Loading, RenderImage
  <2>2. ~Doomed
    BY <1>0, <1>10, TaskSteps
       DEF Doomed, OpenDisplay, Loading, Library, DriverOpens, DriverRefuses, DriverHollow, DriverSkipped, RenderImage
  <2>. QED  BY <1>6, <1>7, <2>1, <2>2
<1>11. CASE Crash
  BY <1>0, <1>11, TaskSteps DEF FailedStays
<1>12. CASE OpenFails
  <2>1. /\ 1 \in DOMAIN requests /\ libraries[requests[1].driver] = "missing"
        /\ requests' = [requests EXCEPT ![1] = Sized(@, window.crop)]
        /\ task.stage = "open" /\ UNCHANGED <<options, libraries>>
    BY <1>12 DEF OpenFails, Loading, Library, DriverThrows
  <2>2. Named1(requests[1])
    BY <2>1, ElementNamed DEF KeepInv, WellTyped
  <2>3. 1 \in DOMAIN requests' /\ libraries'[requests'[1].driver] = "missing"
    BY <2>1, <2>2, SizedStays
  <2>4. ~Top(options').multipass
    BY <2>1 DEF PassesWanted
  <2>. QED  BY <1>0, <1>12, <2>3, <2>4, TaskSteps DEF FailedStays, Doomed
<1>13. CASE SendBucket \/ Close \/ ShadowDone
  <2>1. InCall /\ InCall' /\ UNCHANGED <<ends, before>> /\ ~Doomed
    BY <1>0, <1>13, TaskSteps DEF SendBucket, Close, ShadowDone, Doomed
  <2>. QED  BY <1>6, <1>7, <2>1
<1>14. CASE UNCHANGED vars
  <2>1. scope' = scope
    BY <1>14 DEF vars, scope
  <2>. QED  BY <1>1, <1>14, <2>1 DEF vars
<1>. QED  BY <1>2, <1>3, <1>4, <1>5, <1>8, <1>9, <1>10, <1>11, <1>12, <1>13, <1>14, NextCases

LEMMA WorldStep ==
  ASSUME KeepInv, OnceInv, [Next]_vars
  PROVE  WorldShape'
<1>0. /\ TaskShape /\ options \in Stacks /\ current = Top(options) /\ scope' = Last(scopes')
      /\ (task.stage # "idle" => scope = "World")
      /\ OptionsKept /\ WorldSpent /\ Counted /\ WorldShape /\ PassesWanted /\ CallsCounted
      /\ task.todo \subseteq Nat \ {0}
  BY CurrentIsTop, SessionConstants DEF KeepInv, ScopeInv, WellTyped, scope, OnceInv
<1>. USE DEF InCall, ForImage, idle, NoneFailed, First, InPass
<1>1. ASSUME UNCHANGED <<task, ends, before, world, queued, created>>, scope' = scope,
             scope = "World" => options' = options
      PROVE  WorldShape'
  BY <1>0, <1>1 DEF WorldShape, Waiting, Drawn
<1>2. CASE FrameBegin \/ FrameEnd
  <2>1. /\ scope # "World" /\ scope' # "World" /\ task.stage = "idle"
        /\ UNCHANGED <<task, world, queued>>
    BY <1>2, ScopeSteps DEF FrameBegin, FrameEnd, OnceInv
  <2>. QED  BY <1>0, <2>1 DEF WorldShape
<1>3. CASE WorldBegin
  <2>1. /\ scope # "World" /\ task.stage = "idle" /\ before'.ends = ends /\ before'.created = created
        /\ UNCHANGED <<task, world, queued, created, ends>>
    BY <1>3 DEF WorldBegin, Outside
  <2>2. world = <<>> /\ queued = <<>>
    BY <1>0, <2>1 DEF WorldShape
  <2>3. Whole(<<>>, created, created)
    BY <1>0, WholeNone DEF Counted
  <2>. QED  BY <2>1, <2>2, <2>3 DEF WorldShape, Waiting, Drawn
<1>4. CASE Settings
  <2>1. scope' = scope
    BY <1>4, SettingsKeep DEF scope
  <2>. QED  BY <1>1, <1>4, <2>1, SettingsKeep
<1>5. CASE Primitive
  <2>1. /\ task.stage = "idle" /\ scope = "World" /\ scope' = "World" /\ created' = created + 1
        /\ UNCHANGED <<task, before, ends, options>>
        /\ IF Top(options).multipass THEN world' = Append(world, created + 1) /\ queued' = queued
                                     ELSE queued' = Append(queued, created + 1) /\ world' = world
    BY <1>0, <1>5 DEF Primitive, scope
  <2>2. Drawn(world) => Whole(Append(world, created + 1), before.created, created + 1)
    BY <1>0, WholeOneMore DEF Counted, Drawn
  <2>3. Drawn(queued) => Whole(Append(queued, created + 1), before.created, created + 1)
    BY <1>0, WholeOneMore DEF Counted, Drawn
  <2>4. NoneFailed => Waiting'
    <3>1. SUFFICES ASSUME NoneFailed  PROVE Waiting'
      OBVIOUS
    <3>2. Waiting
      BY <1>0, <2>1, <3>1 DEF WorldShape
    <3>. QED  BY <2>1, <2>2, <2>3, <3>2 DEF Waiting, Drawn
  <2>. QED  BY <2>1, <2>4 DEF WorldShape
<1>6. CASE WorldEnd
  <2>1. /\ scope = "World" /\ ends' = ends + 1
        /\ UNCHANGED <<before, options, world, queued, created>>
    BY <1>6 DEF WorldEnd
  <2>2. before.ends = ends' - 1 => NoneFailed
    BY <1>0, <2>1 DEF Counted
  <2>3. task.stage = "idle" /\ task'.stage = "shadows"
    BY <1>0, <1>6, TaskSteps
  <2>4. before.ends = ends' - 1 => Waiting'
    BY <1>0, <2>1, <2>2, <2>3 DEF WorldShape, Waiting, Drawn
  <2>. QED  BY <2>1, <2>3, <2>4 DEF WorldShape
<1>7. ASSUME task'.stage = "crashed"  PROVE WorldShape'
  BY <1>7 DEF WorldShape
<1>8. CASE StartShadow
  <2>1. UNCHANGED <<before, ends, world, queued, created>>
    BY <1>8 DEF StartShadow
  <2>2. /\ task.stage = "shadows" /\ task'.stage = "prepare" /\ task'.light # 0 /\ task.todo # {}
    BY <1>0, <1>8, TaskSteps
  <2>3. options = task.options /\ Top(options).multipass
    BY <1>0, <2>2 DEF OptionsKept, PassesWanted
  <2>4. First => queued = <<>> /\ Drawn(world)
    BY <1>0, <2>2, <2>3 DEF WorldShape, Waiting
  <2>. QED  BY <2>1, <2>2, <2>4 DEF WorldShape, Drawn
<1>9. CASE StartImage
  <2>1. UNCHANGED <<before, ends, world, queued, created, options>>
    BY <1>9 DEF StartImage
  <2>2. task.stage = "shadows" /\ task'.stage = "prepare" /\ task'.light = 0
    BY <1>0, <1>9, TaskSteps
  <2>. QED  BY <1>0, <2>1, <2>2 DEF WorldShape, Waiting, Drawn
<1>10. CASE Prepare
  <2>1. /\ UNCHANGED <<before, ends, created>>
        /\ queued' = queued \o world
        /\ world' = IF task.light = 0 THEN <<>> ELSE world
    BY <1>10 DEF Prepare, PostedBy
  <2>2. task.stage = "prepare" /\ task'.stage = "open" /\ task'.light = task.light
    BY <1>0, <1>10, TaskSteps
  <2>3. queued = <<>> => queued' = world
    BY <1>0, <2>1, ConcatEmptySeq DEF Counted
  <2>4. world = <<>> => queued' = queued
    BY <1>0, <2>1, ConcatEmptySeq DEF Counted
  <2>5. First => Drawn(queued') /\ (~ForImage => Drawn(world))
    BY <1>0, <2>2, <2>3, <2>4 DEF WorldShape, Waiting
  <2>. QED  BY <2>1, <2>2, <2>5 DEF WorldShape, Drawn
<1>11. CASE OpenDisplay
  <2>1. UNCHANGED <<before, ends, world, queued, created>>
    BY <1>11 DEF OpenDisplay, Loading
  <2>2. task.stage = "open" /\ task'.stage = "open" /\ task'.light = task.light
    BY <1>0, <1>11, TaskSteps
  <2>. QED  BY <1>0, <2>1, <2>2 DEF WorldShape, Drawn
<1>12. CASE Crash
  BY <1>0, <1>7, <1>12, TaskSteps
<1>13. CASE OpenFails
  <2>1. UNCHANGED <<before, ends, scopes>> /\ scope' = scope
    BY <1>13 DEF OpenFails, Loading, scope
  <2>2. task.stage = "open" /\ task'.stage = "idle" /\ scope = "World"
    BY <1>0, <1>13, TaskSteps
  <2>3. before.ends # ends
    BY <1>0, <2>2 DEF CallsCounted, Counted
  <2>. QED  BY <2>1, <2>2, <2>3 DEF WorldShape
<1>14. CASE RenderImage \/ SendBucket \/ Close
  <2>1. UNCHANGED <<before, ends, world, created>>
    BY <1>14 DEF RenderImage, SendBucket, Close
  <2>2. /\ task.stage \in InPass /\ task'.stage \in {"render", "close", "finish"}
        /\ task'.light = task.light
    BY <1>0, <1>14, TaskSteps
  <2>. QED  BY <1>0, <2>1, <2>2 DEF WorldShape, Drawn
<1>15. CASE ShadowDone
  <2>1. UNCHANGED <<before, ends, world, queued, created>>
    BY <1>15 DEF ShadowDone
  <2>2. /\ task.stage = "finish" /\ task'.stage = "shadows" /\ task.light # 0 /\ task'.options = task.options
    BY <1>0, <1>15, TaskSteps
  <2>3. options' = task.options /\ queued = <<>>
    BY <1>0, <2>2, KeepStep DEF KeepInv, OptionsKept, WorldSpent
  <2>4. Top(options').multipass /\ (First => Drawn(world))
    BY <1>0, <2>2, <2>3 DEF PassesWanted, WorldShape
  <2>. QED  BY <2>1, <2>2, <2>3, <2>4 DEF WorldShape, Waiting, Drawn
<1>16. CASE WorldEndReturns
  <2>1. UNCHANGED <<world, queued>> /\ scope' # "World"
    BY <1>16, ScopeSteps DEF WorldEndReturns, OnceInv
  <2>2. task.stage = "finish" /\ task.light = 0 /\ task'.stage = "idle"
    BY <1>0, <1>16, TaskSteps
  <2>3. world = <<>> /\ queued = <<>>
    BY <1>0, <2>2 DEF WorldSpent
  <2>. QED  BY <2>1, <2>2, <2>3 DEF WorldShape
<1>17. CASE UNCHANGED vars
  <2>1. scope' = scope
    BY <1>17 DEF vars, scope
  <2>. QED  BY <1>1, <1>17, <2>1 DEF vars
<1>. QED  BY <1>2, <1>3, <1>4, <1>5, <1>6, <1>8, <1>9, <1>10, <1>11, <1>12, <1>13, <1>14, <1>15, <1>16,
             <1>17, NextCases

LEMMA RendersStep ==
  ASSUME KeepInv, OnceInv, [Next]_vars
  PROVE  /\ RendersWhole'
         /\ ~(RenderImage \/ WorldEndReturns) => renders' = renders
<1>1. CASE RenderImage
  <2>. DEFINE r == [call |-> ends, light |-> task.light, surfaces |-> queued,
                    before |-> before.created, created |-> created,
                    multipass |-> task.saved, lights |-> lights]
  <2>0. TaskShape /\ Counted /\ FailedStays /\ WorldShape
    BY DEF KeepInv, ScopeInv, OnceInv
  <2>1. r \in RenderSet /\ renders' = Append(renders, r)
    BY <1>1, <2>0 DEF RenderImage, RenderSet, Counted, KeepInv, WellTyped
  <2>2. task.stage = "open" /\ task.display \notin DOMAIN requests
    BY <1>1 DEF RenderImage
  <2>3. First
    BY <2>0, <2>2 DEF FailedStays, Doomed, InCall, idle
  <2>4. Whole(r.surfaces, r.before, r.created)
    BY <2>0, <2>2, <2>3 DEF WorldShape, Drawn
  <2>. HIDE DEF r
  <2>5. /\ DOMAIN renders = 1 .. Len(renders) /\ Len(renders) \in Nat
        /\ DOMAIN renders' = 1 .. Len(renders) + 1
        /\ renders'[Len(renders) + 1] = r
        /\ \A i \in 1 .. Len(renders) : renders'[i] = renders[i]
    BY <2>0, <2>1, AppendProperties, LenProperties DEF Counted
  <2>6. RendersWhole'
    BY <2>4, <2>5 DEF RendersWhole, OnceInv
  <2>. QED  BY <1>1, <2>6
<1>2. CASE WorldEndReturns
  BY <1>2 DEF WorldEndReturns, RendersWhole
<1>3. CASE ~(RenderImage \/ WorldEndReturns)
  <2>1. renders' = renders
    BY <1>3, NextCases, SettingsKeep DEF FrameBegin, FrameEnd, WorldBegin, WorldEnd, Primitive,
       StartShadow, StartImage, Prepare, OpenDisplay, Crash, OpenFails, Loading, SendBucket, Close,
       ShadowDone, vars
  <2>. QED  BY <1>3, <2>1 DEF RendersWhole, OnceInv
<1>. QED  BY <1>1, <1>2, <1>3

LEMMA OnceInvariance == Spec => [](KeepInv /\ OnceInv)
<1>1. Init => KeepInv /\ OnceInv
  BY KeepInit, OnceInit
<1>2. KeepInv /\ OnceInv /\ [Next]_vars => OnceInv'
  BY CountStep, CallsStep, ScopeSteps, WorldStep, PassesStep, FailedStep, RendersStep DEF OnceInv
<1>. QED  BY <1>1, <1>2, KeepStep, PTL DEF Spec

(* Every pass over a world draws each of its surfaces once and none of another *)
(* world, and until WorldEnd each is in one place, the world or the buckets,   *)
(* with and without multipass, also in the worlds after one that failed.       *)
THEOREM EachSurfaceOnce == Spec => []EverySurfaceOnce
<1>1. KeepInv /\ OnceInv => EverySurfaceOnce
  <2>. SUFFICES ASSUME KeepInv, OnceInv  PROVE EverySurfaceOnce
    OBVIOUS
  <2>1. \A r \in ToSet(renders) : Whole(r.surfaces, r.before, r.created)
    BY DEF OnceInv, RendersWhole, ToSet
  <2>2. ASSUME idle, scope = "World", NoneFailed  PROVE Whole(world \o queued, before.created, created)
    <3>1. Waiting /\ world \in Seq(Nat) /\ queued \in Seq(Nat)
      BY <2>2 DEF OnceInv, WorldShape, Counted
    <3>2. world = <<>> => world \o queued = queued
      BY <3>1, ConcatEmptySeq
    <3>3. queued = <<>> => world \o queued = world
      BY <3>1, ConcatEmptySeq
    <3>. QED  BY <3>1, <3>2, <3>3 DEF Waiting, Drawn
  <2>. QED  BY <2>1, <2>2 DEF EverySurfaceOnce
<1>. QED  BY <1>1, OnceInvariance, PTL

-----------------------------------------------------------------------------
(* The shadow passes of a call. *)

Wanted == IF Top(task.options).multipass THEN lights ELSE {}
ImageDrawn == ForImage /\ task.stage \in {"render", "close", "finish"}

\* Until the image is drawn, renders holds the passes of this call, one for
\* each light that is done.
LightDone(l) ==
  l \in Wanted \ task.todo /\ ~(task.stage \in {"prepare", "open"} /\ l = task.light)

PassesSoFar ==
  /\ idle /\ (scope # "World" \/ NoneFailed) => renders = <<>>
  /\ InCall /\ First =>
       /\ task.todo \subseteq Wanted
       /\ ~ForImage => task.light \in Wanted \ task.todo
       /\ ForImage /\ task.stage # "shadows" => task.todo = {}
       /\ ~ImageDrawn =>
            /\ \A i \in DOMAIN renders : renders[i].call = ends /\ renders[i].light # 0
            /\ \A l : (\E i \in DOMAIN renders : renders[i].light = l) <=> LightDone(l)
            /\ \A i, k \in DOMAIN renders : renders[i].light = renders[k].light => i = k

\* ShadowsFirst for render i of a list.
Earlier(q, i) == {k \in 1 .. i - 1 : q[k].call = q[i].call}
LightsBefore(q, i) == {q[k].light : k \in Earlier(q, i)}
AfterShadows(q, i) ==
  q[i].light = 0 => /\ LightsBefore(q, i) = IF q[i].multipass THEN q[i].lights ELSE {}
                    /\ Cardinality(Earlier(q, i)) = Cardinality(LightsBefore(q, i))

LEMMA ShadowsFirstAgain == ShadowsFirst <=> \A i \in DOMAIN renders : AfterShadows(renders, i)
BY Zenon DEF ShadowsFirst, AfterShadows, Earlier, LightsBefore

(* It asks for nothing behind i. *)
LEMMA SameBefore ==
  ASSUME NEW p, NEW q, NEW i \in Nat, \A k \in 1 .. i : p[k] = q[k], i # 0, AfterShadows(p, i)
  PROVE  AfterShadows(q, i)
<1>1. p[i] = q[i] /\ \A k \in 1 .. i - 1 : p[k] = q[k]
  OBVIOUS
<1>2. Earlier(p, i) = Earlier(q, i)
  BY <1>1 DEF Earlier
<1>3. LightsBefore(p, i) = LightsBefore(q, i)
  BY <1>1, <1>2 DEF LightsBefore, Earlier
<1>. QED  BY <1>1, <1>2, <1>3 DEF AfterShadows

(* As many lights as passes, when no two have the same. *)
LEMMA OneLightEach ==
  ASSUME NEW q, NEW n \in Nat, \A i, k \in 1 .. n : q[i].light = q[k].light => i = k
  PROVE  Cardinality(1 .. n) = Cardinality({q[k].light : k \in 1 .. n})
<1>. DEFINE S == 1 .. n
            T == {q[k].light : k \in S}
            f == [k \in S |-> q[k].light]
<1>1. f \in [S -> T] /\ IsInjective(f)
  BY DEF IsInjective
<1>2. f \in Surjection(S, T)
  BY <1>1 DEF Surjection
<1>3. f \in Injection(S, T)
  BY <1>1 DEF Injection
<1>4. IsFiniteSet(S)
  BY FS_Interval
<1>. HIDE DEF S, T, f
<1>5. Cardinality(T) = Cardinality(S)
  BY <1>2, <1>3, <1>4, FS_Surjection
<1>. QED  BY <1>5 DEF S, T

(* Only the first call of a world draws. *)
LEMMA DrawnFirst ==
  ASSUME OnceInv, InCall, task.stage \notin {"shadows", "prepare"}, task.stage = "open" => RenderImage
  PROVE  First
BY DEF OnceInv, FailedStays, Doomed, RenderImage, idle, InCall

LEMMA PassesSoFarInit == Init => PassesSoFar /\ ShadowsFirst
BY DEF Init, PassesSoFar, ShadowsFirst, Idle, idle, InCall

LEMMA SoFarStep ==
  ASSUME KeepInv, OnceInv, PassesSoFar, [Next]_vars
  PROVE  PassesSoFar'
<1>0. /\ TaskShape /\ current = Top(options) /\ Counted /\ CallsCounted
      /\ 0 \notin Wanted /\ (task.stage # "idle" => scope = "World")
  BY CurrentIsTop, SessionConstants DEF KeepInv, ScopeInv, WellTyped, scope, OnceInv, Wanted
<1>. USE DEF InCall, ForImage, idle, NoneFailed, First
<1>2. CASE FrameBegin \/ FrameEnd
  <2>1. scope # "World" /\ idle /\ renders' = renders /\ task' = task
    BY <1>2 DEF FrameBegin, FrameEnd
  <2>. QED  BY <2>1 DEF PassesSoFar
<1>3. CASE WorldBegin
  <2>1. scope # "World" /\ idle /\ renders' = renders /\ task' = task
    BY <1>3 DEF WorldBegin, Outside
  <2>. QED  BY <2>1 DEF PassesSoFar
<1>4. CASE Settings \/ Primitive
  <2>1. scope' = scope /\ idle /\ UNCHANGED <<task, before, ends, renders>>
    BY <1>4, SettingsKeep DEF Primitive, scope
  <2>. QED  BY <2>1 DEF PassesSoFar
<1>5. CASE WorldEnd
  <2>1. /\ idle /\ scope = "World" /\ ends' = ends + 1 /\ UNCHANGED <<before, renders, lights>>
    BY <1>5 DEF WorldEnd
  <2>2. /\ task'.stage = "shadows" /\ task'.options = options /\ task'.light = 0
        /\ task'.todo = IF Top(options).multipass THEN lights ELSE {}
    BY <1>0, <1>5, TaskSteps
  <2>3. First' => renders = <<>>
    BY <1>0, <2>1 DEF PassesSoFar, Counted
  <2>4. Wanted' = task'.todo
    BY <2>1, <2>2 DEF Wanted
  <2>. QED  BY <2>1, <2>2, <2>3, <2>4 DEF PassesSoFar, LightDone
<1>6. ASSUME InCall, InCall', UNCHANGED <<before, ends, renders, lights>>, task'.options = task.options,
             First => /\ task'.todo \subseteq Wanted
                      /\ ~ForImage' => task'.light \in Wanted \ task'.todo
                      /\ ForImage' /\ task'.stage # "shadows" => task'.todo = {}
                      /\ ~ImageDrawn' => ~ImageDrawn /\ \A l : LightDone(l)' <=> LightDone(l)
      PROVE  PassesSoFar'
  <2>1. Wanted' = Wanted
    BY <1>6 DEF Wanted
  <2>2. First' <=> First
    BY <1>6
  <2>3. \A l : LightDone(l)' <=> (l \in Wanted' \ task'.todo
                                    /\ ~(task'.stage \in {"prepare", "open"} /\ l = task'.light))
    BY DEF LightDone
  <2>. QED  BY <1>6, <2>1, <2>2 DEF PassesSoFar
<1>7. CASE StartShadow
  <2>1. UNCHANGED <<before, ends, renders, lights>>
    BY <1>7 DEF StartShadow
  <2>2. /\ task.stage = "shadows" /\ task'.stage = "prepare" /\ task'.options = task.options
        /\ task'.light \in task.todo /\ task'.todo = task.todo \ {task'.light}
    BY <1>0, <1>7, TaskSteps
  <2>3. Wanted' = Wanted
    BY <2>1, <2>2 DEF Wanted
  <2>4. First => task.todo \subseteq Wanted
    BY <2>2 DEF PassesSoFar
  <2>5. First => \A l : LightDone(l)' <=> LightDone(l)
    BY <2>2, <2>3, <2>4 DEF LightDone
  <2>. QED  BY <1>0, <1>6, <2>1, <2>2, <2>3, <2>4, <2>5 DEF ImageDrawn
<1>8. CASE StartImage
  <2>1. UNCHANGED <<before, ends, renders, lights>>
    BY <1>8 DEF StartImage
  <2>2. /\ task.stage = "shadows" /\ task.todo = {} /\ task'.stage = "prepare"
        /\ task'.options = task.options /\ task'.light = 0 /\ task'.todo = task.todo
    BY <1>0, <1>8, TaskSteps
  <2>3. Wanted' = Wanted
    BY <2>1, <2>2 DEF Wanted
  <2>4. \A l : LightDone(l)' <=> LightDone(l)
    BY <1>0, <2>2, <2>3 DEF LightDone
  <2>. QED  BY <1>6, <2>1, <2>2, <2>4 DEF ImageDrawn
<1>9. CASE Prepare \/ OpenDisplay \/ SendBucket \/ Close \/ ShadowDone
  <2>1. UNCHANGED <<before, ends, renders, lights>>
    BY <1>9 DEF Prepare, OpenDisplay, Loading, SendBucket, Close, ShadowDone
  <2>2. /\ task'.options = task.options /\ task'.light = task.light /\ task'.todo = task.todo
        /\ InCall /\ InCall' /\ task.stage # "shadows"
        /\ task'.stage \in {"prepare", "open"} <=> task.stage \in {"prepare", "open"}
        /\ task'.stage = "shadows" => task.light # 0
        /\ task'.stage = "shadows" \/ (ImageDrawn' <=> ImageDrawn)
    BY <1>0, <1>9, TaskSteps DEF ImageDrawn
  <2>3. Wanted' = Wanted
    BY <2>1, <2>2 DEF Wanted
  <2>4. \A l : LightDone(l)' <=> LightDone(l)
    BY <2>2, <2>3 DEF LightDone
  <2>5. First => /\ task.todo \subseteq Wanted
                 /\ ~ForImage => task.light \in Wanted \ task.todo
                 /\ ForImage => task.todo = {}
    BY <2>2 DEF PassesSoFar
  <2>. QED  BY <1>6, <2>1, <2>2, <2>4, <2>5 DEF ImageDrawn
<1>10. CASE Crash
  BY <1>0, <1>10, TaskSteps DEF PassesSoFar
<1>11. CASE OpenFails
  <2>1. UNCHANGED <<before, ends, scopes>> /\ scope' = scope
    BY <1>11 DEF OpenFails, Loading, scope
  <2>2. task.stage = "open" /\ task'.stage = "idle" /\ scope = "World"
    BY <1>0, <1>11, TaskSteps
  <2>3. before.ends # ends
    BY <1>0, <2>2 DEF CallsCounted, Counted
  <2>. QED  BY <2>1, <2>2, <2>3 DEF PassesSoFar
<1>12. CASE RenderImage
  <2>. DEFINE r == [call |-> ends, light |-> task.light, surfaces |-> queued,
                    before |-> before.created, created |-> created,
                    multipass |-> task.saved, lights |-> lights]
  <2>1. r \in RenderSet /\ renders' = Append(renders, r) /\ r.call = ends /\ r.light = task.light
    BY <1>0, <1>12 DEF RenderImage, RenderSet, Counted, KeepInv, WellTyped
  <2>. HIDE DEF r
  <2>2. /\ DOMAIN renders = 1 .. Len(renders) /\ Len(renders) \in Nat
        /\ DOMAIN renders' = 1 .. Len(renders) + 1
        /\ renders'[Len(renders) + 1] = r
        /\ \A i \in 1 .. Len(renders) : renders'[i] = renders[i]
    BY <1>0, <2>1, AppendProperties, LenProperties DEF Counted
  <2>3. /\ task.stage = "open" /\ task'.stage = "render" /\ task'.options = task.options
        /\ task'.light = task.light /\ task'.todo = task.todo
    BY <1>0, <1>12, TaskSteps
  <2>4. First
    BY <1>12, <2>3, DrawnFirst
  <2>5. UNCHANGED <<before, ends, lights>>
    BY <1>12 DEF RenderImage
  <2>6. Wanted' = Wanted
    BY <2>3, <2>5 DEF Wanted
  <2>7. /\ task.todo \subseteq Wanted /\ (~ForImage => task.light \in Wanted \ task.todo)
        /\ (ForImage => task.todo = {})
        /\ \A i \in DOMAIN renders : renders[i].call = ends /\ renders[i].light # 0
        /\ \A l : (\E i \in DOMAIN renders : renders[i].light = l) <=> LightDone(l)
        /\ \A i, k \in DOMAIN renders : renders[i].light = renders[k].light => i = k
    BY <2>3, <2>4 DEF PassesSoFar, ImageDrawn
  <2>8. CASE ForImage
    BY <2>3, <2>5, <2>6, <2>7, <2>8 DEF PassesSoFar, ImageDrawn
  <2>9. CASE ~ForImage
    <3>1. \A i : i \in DOMAIN renders' <=> i \in DOMAIN renders \/ i = Len(renders) + 1
      BY <2>2
    <3>2. ~LightDone(task.light)
      BY <2>3 DEF LightDone
    <3>3. \A i \in DOMAIN renders : renders'[i] = renders[i] /\ renders[i].light # task.light
      BY <2>2, <2>7, <3>2
    <3>4. \A i \in DOMAIN renders' : renders'[i].call = ends' /\ renders'[i].light # 0
      BY <2>1, <2>2, <2>5, <2>7, <2>9, <3>1, <3>3
    <3>5. \A l : LightDone(l)' <=> LightDone(l) \/ l = task.light
      BY <2>3, <2>6, <2>7, <2>9 DEF LightDone
    <3>6. \A l : (\E i \in DOMAIN renders' : renders'[i].light = l) <=> LightDone(l)'
      <4>1. ASSUME NEW l  PROVE (\E i \in DOMAIN renders' : renders'[i].light = l)
                                  <=> (\E i \in DOMAIN renders : renders[i].light = l) \/ l = task.light
        BY <2>1, <2>2, <3>1, <3>3
      <4>. QED  BY <2>7, <3>5, <4>1
    <3>7. \A i, k \in DOMAIN renders' : renders'[i].light = renders'[k].light => i = k
      BY <2>1, <2>2, <2>7, <3>1, <3>3
    <3>. QED  BY <2>3, <2>5, <2>6, <2>7, <2>9, <3>4, <3>6, <3>7 DEF PassesSoFar, ImageDrawn
  <2>. QED  BY <2>8, <2>9
<1>13. CASE WorldEndReturns
  <2>1. renders' = <<>> /\ task'.stage = "idle"
    BY <1>0, <1>13, TaskSteps DEF WorldEndReturns
  <2>. QED  BY <2>1 DEF PassesSoFar
<1>14. CASE UNCHANGED vars
  BY <1>14 DEF vars, PassesSoFar, scope, LightDone, Wanted, ImageDrawn
<1>. QED  BY <1>2, <1>3, <1>4, <1>5, <1>7, <1>8, <1>9, <1>10, <1>11, <1>12, <1>13, <1>14, NextCases

LEMMA ShadowsStep ==
  ASSUME KeepInv, OnceInv, PassesSoFar, ShadowsFirst, [Next]_vars
  PROVE  ShadowsFirst'
<1>1. CASE RenderImage
  <2>. DEFINE r == [call |-> ends, light |-> task.light, surfaces |-> queued,
                    before |-> before.created, created |-> created,
                    multipass |-> task.saved, lights |-> lights]
              n == Len(renders)
  <2>0. TaskShape /\ Counted /\ OptionsKept
    BY DEF KeepInv, ScopeInv, OnceInv
  <2>1. /\ r \in RenderSet /\ renders' = Append(renders, r) /\ r.call = ends /\ r.light = task.light
        /\ r.multipass = task.saved /\ r.lights = lights
    BY <1>1, <2>0 DEF RenderImage, RenderSet, Counted, KeepInv, WellTyped
  <2>. HIDE DEF r
  <2>2. /\ DOMAIN renders = 1 .. n /\ n \in Nat
        /\ DOMAIN renders' = 1 .. n + 1
        /\ renders'[n + 1] = r
        /\ \A i \in 1 .. n : renders'[i] = renders[i]
    BY <2>0, <2>1, AppendProperties, LenProperties DEF Counted
  <2>3. First /\ task.stage = "open"
    BY <1>1, DrawnFirst DEF RenderImage, InCall
  <2>4. ASSUME NEW i \in 1 .. n  PROVE AfterShadows(renders', i)
    <3>1. AfterShadows(renders, i)
      BY <2>2, ShadowsFirstAgain
    <3>2. i \in Nat /\ i # 0 /\ \A k \in 1 .. i : renders[k] = renders'[k]
      BY <2>2
    <3>. HIDE DEF n
    <3>. QED  BY <3>1, <3>2, SameBefore
  <2>5. AfterShadows(renders', n + 1)
    <3>. SUFFICES ASSUME ForImage  PROVE AfterShadows(renders', n + 1)
      BY <2>1, <2>2 DEF AfterShadows, ForImage
    <3>1. /\ task.todo = {}
          /\ \A i \in 1 .. n : renders[i].call = ends /\ renders[i].light # 0
          /\ \A l : (\E i \in 1 .. n : renders[i].light = l) <=> LightDone(l)
          /\ \A i, k \in 1 .. n : renders[i].light = renders[k].light => i = k
      BY <2>2, <2>3 DEF PassesSoFar, ImageDrawn, InCall
    <3>2. \A l : l \in Wanted <=> \E i \in 1 .. n : renders[i].light = l
      <4>1. ~LightDone(0) /\ 0 \notin Wanted
        BY <2>3, SessionConstants DEF LightDone, ForImage, Wanted, KeepInv, WellTyped
      <4>. QED  BY <3>1, <4>1 DEF LightDone, ForImage
    <3>3. Earlier(renders', n + 1) = 1 .. n
      BY <2>1, <2>2, <3>1 DEF Earlier
    <3>4. LightsBefore(renders', n + 1) = {renders[k].light : k \in 1 .. n}
      BY <2>2, <3>3 DEF LightsBefore
    <3>5. {renders[k].light : k \in 1 .. n} = Wanted
      BY <3>2
    <3>6. Cardinality(1 .. n) = Cardinality({renders[k].light : k \in 1 .. n})
      <4>. HIDE DEF n
      <4>. QED  BY <2>2, <3>1, OneLightEach
    <3>7. Wanted = IF r.multipass THEN r.lights ELSE {}
      BY <2>0, <2>1, <2>3 DEF Wanted, OptionsKept, InPass, ForImage
    <3>. QED  BY <2>2, <3>3, <3>4, <3>5, <3>6, <3>7 DEF AfterShadows
  <2>6. \A i \in DOMAIN renders' : AfterShadows(renders', i)
    <3>1. \A i : i \in 1 .. n + 1 <=> i \in 1 .. n \/ i = n + 1
      BY <2>2
    <3>. HIDE DEF n
    <3>. QED  BY <2>2, <2>4, <2>5, <3>1
  <2>. QED  BY <2>6, Zenon DEF ShadowsFirst, AfterShadows, Earlier, LightsBefore
<1>2. CASE WorldEndReturns
  BY <1>2 DEF WorldEndReturns, ShadowsFirst
<1>3. CASE ~(RenderImage \/ WorldEndReturns)
  <2>1. renders' = renders
    BY <1>3, RendersStep
  <2>. QED  BY <2>1 DEF ShadowsFirst
<1>. QED  BY <1>1, <1>2, <1>3

(* When an image is drawn with multipass on, each light with an automatic      *)
(* shadow has had exactly one pass in the same WorldEnd before it; with        *)
(* multipass off there was none.                                               *)
THEOREM ShadowsComeFirst == Spec => []ShadowsFirst
<1>1. KeepInv /\ OnceInv /\ PassesSoFar /\ ShadowsFirst /\ [Next]_vars => (PassesSoFar /\ ShadowsFirst)'
  BY SoFarStep, ShadowsStep
<1>. QED  BY <1>1, PassesSoFarInit, OnceInvariance, PTL DEF Spec


(******************************** geometry *********************************)

\* One axis: buckets of some size, of an image of res pixels of which
\* lo .. hi - 1 are wanted.
AxisOf(size, res, lo, hi) ==
  size \in Nat \ {0} /\ res \in Nat /\ lo \in Nat /\ hi \in Nat /\ lo < hi /\ hi <= res

Column(i, size, lo, hi) == i \in Int /\ lo \div size <= i /\ i < (hi - 1) \div size + 1

LEMMA Strides ==
  ASSUME NEW s \in Nat \ {0}, NEW a \in Int, NEW b \in Int, a < b
  PROVE  (a + 1) * s <= b * s /\ a * s \in Int /\ b * s \in Int /\ (a + 1) * s = a * s + s
OBVIOUS

LEMMA Floors ==
  ASSUME NEW s \in Nat \ {0}, NEW v \in Nat
  PROVE  v \div s \in Nat /\ (v \div s) * s <= v /\ v < (v \div s + 1) * s
OBVIOUS

LEMMA FloorsGrow ==
  ASSUME NEW s \in Nat \ {0}, NEW v \in Nat, NEW w \in Nat, v <= w
  PROVE  v \div s <= w \div s
OBVIOUS

(* A place is in the column its quotient names and in no other. *)
LEMMA OneColumn ==
  ASSUME NEW s \in Nat \ {0}, NEW v \in Nat, NEW i \in Int
  PROVE  i * s <= v /\ v < (i + 1) * s <=> i = v \div s
<1>1. v \div s \in Nat /\ (v \div s) * s <= v /\ v < (v \div s + 1) * s
  BY Floors
<1>2. CASE i < v \div s
  <2>1. (i + 1) * s <= (v \div s) * s /\ (v \div s) * s \in Int
    BY <1>1, <1>2, Strides
  <2>2. (i + 1) * s \in Int
    OBVIOUS
  <2>. QED  BY <1>1, <1>2, <2>1, <2>2
<1>3. CASE v \div s < i
  <2>1. (v \div s + 1) * s <= i * s /\ i * s \in Int
    BY <1>1, <1>3, Strides
  <2>2. (v \div s + 1) * s \in Int
    BY <1>1
  <2>. QED  BY <1>1, <1>3, <2>1, <2>2
<1>. QED  BY <1>1, <1>2, <1>3

(* The columns of the wanted places, the first as wide as any. *)
LEMMA ColumnFacts ==
  ASSUME NEW s, NEW res, NEW lo, NEW hi, AxisOf(s, res, lo, hi), NEW i, Column(i, s, lo, hi)
  PROVE  /\ i \in Nat /\ i * s \in Nat /\ (i + 1) * s = i * s + s
         /\ lo < (i + 1) * s /\ i * s <= hi - 1
         /\ lo \div s \in Nat /\ (lo \div s) * s \in Nat /\ (lo \div s + 1) * s = (lo \div s) * s + s
         /\ (lo \div s) * s <= i * s /\ (lo \div s) * s <= lo
<1>1. /\ s \in Nat \ {0} /\ lo \in Nat /\ hi \in Nat /\ hi - 1 \in Nat
      /\ lo \div s \in Nat /\ (lo \div s) * s <= lo /\ lo < (lo \div s + 1) * s
      /\ (hi - 1) \div s \in Nat /\ ((hi - 1) \div s) * s <= hi - 1
  BY Floors DEF AxisOf
<1>2. i \in Nat /\ lo \div s <= i /\ i <= (hi - 1) \div s
  BY <1>1 DEF Column
<1>3. /\ i * s \in Nat /\ (i + 1) * s = i * s + s
      /\ (lo \div s) * s \in Nat /\ (lo \div s + 1) * s = (lo \div s) * s + s
      /\ ((hi - 1) \div s) * s \in Nat
  BY <1>1, <1>2
<1>4. (lo \div s) * s <= i * s
  <2>1. CASE lo \div s = i
    BY <1>3, <2>1
  <2>2. CASE lo \div s < i
    <3>1. (lo \div s + 1) * s <= i * s
      BY <1>1, <1>2, <2>2, Strides
    <3>. QED  BY <1>1, <1>3, <3>1
  <2>. QED  BY <1>1, <1>2, <2>1, <2>2
<1>5. i * s <= ((hi - 1) \div s) * s
  <2>1. CASE i = (hi - 1) \div s
    BY <1>3, <2>1
  <2>2. CASE i < (hi - 1) \div s
    <3>1. (i + 1) * s <= ((hi - 1) \div s) * s
      BY <1>1, <1>2, <2>2, Strides
    <3>. QED  BY <1>1, <1>3, <3>1
  <2>. QED  BY <1>1, <1>2, <2>1, <2>2
<1>6. lo < (i + 1) * s /\ i * s <= hi - 1
  <2>. DEFINE a == (lo \div s) * s  b == i * s  c == ((hi - 1) \div s) * s
  <2>. HIDE DEF a, b, c
  <2>1. a \in Nat /\ b \in Nat /\ c \in Nat /\ lo < a + s /\ a <= b /\ b <= c /\ c <= hi - 1
    BY <1>1, <1>3, <1>4, <1>5 DEF a, b, c
  <2>2. lo < b + s /\ b <= hi - 1
    BY <1>1, <2>1
  <2>. QED  BY <1>3, <2>2 DEF b
<1>. QED  BY <1>1, <1>2, <1>3, <1>4, <1>6
\* A window as SetImage and initialiseCropWindow make it.
IsWindow(w) == /\ w \in [res : Cells, crop : Regions] /\ NonEmpty(w.crop)
               /\ w.crop.xMax <= w.res.x /\ w.crop.yMax <= w.res.y

LEMMA WindowShape ==
  ASSUME NEW o \in OptionSet
  PROVE  IsWindow(Window(o))
<1>. DEFINE p == [res |-> o.res, crop |-> o.crop]
<1>1. /\ o.res \in {[x |-> XRes, y |-> YRes], [x |-> ShadowRes, y |-> ShadowRes]}
      /\ o.crop \in Crops \cup {FullCrop}
  BY DEF OptionSet
<1>2. /\ Window(p).crop \in Regions /\ NonEmpty(Window(p).crop)
      /\ Window(p).crop.xMax <= o.res.x /\ Window(p).crop.yMax <= o.res.y
  BY <1>1, ImageConstants
<1>3. Window(o) = Window(p) /\ Window(p) = [res |-> o.res, crop |-> Window(p).crop]
  BY DEF Window
<1>4. o.res \in Cells
  BY <1>1, ImageConstants DEF Cells
<1>. HIDE DEF p
<1>. QED  BY <1>2, <1>3, <1>4 DEF IsWindow

(* The axes of a window and the cells of its bucket region. *)
LEMMA WindowAxes ==
  ASSUME NEW w, IsWindow(w)
  PROVE  /\ AxisOf(BucketSize, w.res.x, w.crop.xMin, w.crop.xMax)
         /\ AxisOf(BucketSize, w.res.y, w.crop.yMin, w.crop.yMax)
         /\ \A c : c \in BucketsIn(BucketRegion(w)) <=>
              /\ c = [x |-> c.x, y |-> c.y]
              /\ Column(c.x, BucketSize, w.crop.xMin, w.crop.xMax)
              /\ Column(c.y, BucketSize, w.crop.yMin, w.crop.yMax)
         /\ BucketRegion(w) \in Regions /\ NonEmpty(BucketRegion(w))
<1>1. /\ AxisOf(BucketSize, w.res.x, w.crop.xMin, w.crop.xMax)
      /\ AxisOf(BucketSize, w.res.y, w.crop.yMin, w.crop.yMax)
  BY ImageConstants DEF IsWindow, AxisOf, Regions, NonEmpty, Cells
<1>. DEFINE xlo == w.crop.xMin \div BucketSize
            xhi == (w.crop.xMax - 1) \div BucketSize
            ylo == w.crop.yMin \div BucketSize
            yhi == (w.crop.yMax - 1) \div BucketSize
<1>2. /\ BucketSize \in Nat \ {0}
      /\ w.crop.xMin \in Nat /\ w.crop.xMax - 1 \in Nat /\ w.crop.xMin <= w.crop.xMax - 1
      /\ w.crop.yMin \in Nat /\ w.crop.yMax - 1 \in Nat /\ w.crop.yMin <= w.crop.yMax - 1
  BY <1>1 DEF AxisOf
<1>3. xlo \in Nat /\ xhi \in Nat /\ ylo \in Nat /\ yhi \in Nat
  BY <1>2, Floors
<1>4. xlo <= xhi /\ ylo <= yhi
  BY <1>2, FloorsGrow
<1>5. BucketRegion(w) = [xMin |-> xlo, yMin |-> ylo, xMax |-> xhi + 1, yMax |-> yhi + 1]
  BY DEF BucketRegion
<1>6. \A i : /\ Column(i, BucketSize, w.crop.xMin, w.crop.xMax) <=> i \in Int /\ xlo <= i /\ i < xhi + 1
             /\ Column(i, BucketSize, w.crop.yMin, w.crop.yMax) <=> i \in Int /\ ylo <= i /\ i < yhi + 1
  BY DEF Column
<1>. HIDE DEF xlo, xhi, ylo, yhi
<1>7. BucketRegion(w) \in Regions /\ NonEmpty(BucketRegion(w))
  BY <1>3, <1>4, <1>5 DEF Regions, NonEmpty
<1>8. \A c : c \in BucketsIn(BucketRegion(w)) <=>
               /\ c = [x |-> c.x, y |-> c.y]
               /\ c.x \in Int /\ xlo <= c.x /\ c.x < xhi + 1
               /\ c.y \in Int /\ ylo <= c.y /\ c.y < yhi + 1
  BY <1>3, <1>5 DEF BucketsIn
<1>. QED  BY <1>1, <1>6, <1>7, <1>8

(* The bounds of a column or row of buckets in an image. *)
LEMMA Extent ==
  ASSUME NEW s, NEW res, NEW lo, NEW hi, AxisOf(s, res, lo, hi), NEW i, Column(i, s, lo, hi)
  PROVE  /\ Least((i + 1) * s, res) \in Nat /\ Least((i + 1) * s, res) <= res
         /\ i * s < Least((i + 1) * s, res) /\ lo < Least((i + 1) * s, res)
         /\ Least((i + 1) * s, res) - i * s <= Least((lo \div s + 1) * s, res) - (lo \div s) * s
         /\ (lo \div s) * s < Least((lo \div s + 1) * s, res)
         /\ Least((lo \div s + 1) * s, res) \in Nat
<1>. DEFINE a == (lo \div s) * s  b == i * s
<1>. HIDE DEF a, b
<1>1. /\ b \in Nat /\ (i + 1) * s = b + s /\ lo < b + s /\ b <= hi - 1
      /\ a \in Nat /\ (lo \div s + 1) * s = a + s /\ a <= b /\ a <= lo
  BY ColumnFacts DEF a, b
<1>2. s \in Nat \ {0} /\ res \in Nat /\ lo \in Nat /\ hi \in Nat /\ lo < hi /\ hi <= res
  BY DEF AxisOf
<1>3. /\ Least(b + s, res) \in Nat /\ Least(b + s, res) <= res
      /\ b < Least(b + s, res) /\ lo < Least(b + s, res)
      /\ Least(b + s, res) - b <= Least(a + s, res) - a
      /\ a < Least(a + s, res) /\ Least(a + s, res) \in Nat
  BY <1>1, <1>2 DEF Least
<1>. QED  BY <1>1, <1>3 DEF a, b

LEMMA Products ==
  ASSUME NEW a \in Nat, NEW b \in Nat, NEW c \in Nat, NEW d \in Nat, a <= c, b <= d
  PROVE  a * b <= c * d
<1>1. a * b \in Int /\ c * b \in Int /\ c * d \in Int
  OBVIOUS
<1>2. a * b <= c * b
  OBVIOUS
<1>3. c * b <= c * d
  OBVIOUS
<1>. QED  BY <1>1, <1>2, <1>3

(* A bucket is in the image and touches the crop window; the first is as       *)
(* large as any.                                                               *)
LEMMA CellFacts ==
  ASSUME NEW w, IsWindow(w), NEW c \in BucketsIn(BucketRegion(w)), NEW g, g = DisplayRegion(w, c)
  PROVE  /\ c = [x |-> c.x, y |-> c.y] /\ c.x \in Nat /\ c.y \in Nat
         /\ g \in Regions /\ NonEmpty(g)
         /\ g.xMin = c.x * BucketSize /\ g.yMin = c.y * BucketSize
         /\ w.crop.xMin < g.xMax /\ g.xMin < w.crop.xMax /\ g.xMax <= w.res.x
         /\ w.crop.yMin < g.yMax /\ g.yMin < w.crop.yMax /\ g.yMax <= w.res.y
         /\ ~Beside(g, w.crop)
         /\ Area(g) <= Area(DisplayRegion(w, FirstCell(BucketRegion(w))))
         /\ Area(g) \in Nat \ {0}
<1>. DEFINE f == DisplayRegion(w, FirstCell(BucketRegion(w)))
            fx == w.crop.xMin \div BucketSize
            fy == w.crop.yMin \div BucketSize
<1>1. /\ AxisOf(BucketSize, w.res.x, w.crop.xMin, w.crop.xMax)
      /\ AxisOf(BucketSize, w.res.y, w.crop.yMin, w.crop.yMax)
      /\ c = [x |-> c.x, y |-> c.y]
      /\ Column(c.x, BucketSize, w.crop.xMin, w.crop.xMax)
      /\ Column(c.y, BucketSize, w.crop.yMin, w.crop.yMax)
  BY WindowAxes
<1>2. /\ c.x \in Nat /\ c.x * BucketSize \in Nat /\ c.x * BucketSize <= w.crop.xMax - 1
      /\ c.y \in Nat /\ c.y * BucketSize \in Nat /\ c.y * BucketSize <= w.crop.yMax - 1
      /\ fx * BucketSize \in Nat /\ fy * BucketSize \in Nat
  BY <1>1, ColumnFacts
<1>3. g = [xMin |-> c.x * BucketSize, yMin |-> c.y * BucketSize,
           xMax |-> Least((c.x + 1) * BucketSize, w.res.x),
           yMax |-> Least((c.y + 1) * BucketSize, w.res.y)]
  BY DEF DisplayRegion
<1>4. f = [xMin |-> fx * BucketSize, yMin |-> fy * BucketSize,
           xMax |-> Least((fx + 1) * BucketSize, w.res.x),
           yMax |-> Least((fy + 1) * BucketSize, w.res.y)]
  BY DEF DisplayRegion, FirstCell, BucketRegion
<1>. HIDE DEF f, fx, fy
<1>5. /\ g.xMax \in Nat /\ g.xMax <= w.res.x /\ g.xMin < g.xMax /\ w.crop.xMin < g.xMax
      /\ g.xMax - g.xMin <= f.xMax - f.xMin /\ f.xMin < f.xMax /\ f.xMax \in Nat
  BY <1>1, <1>3, <1>4, Extent DEF fx
<1>6. /\ g.yMax \in Nat /\ g.yMax <= w.res.y /\ g.yMin < g.yMax /\ w.crop.yMin < g.yMax
      /\ g.yMax - g.yMin <= f.yMax - f.yMin /\ f.yMin < f.yMax /\ f.yMax \in Nat
  BY <1>1, <1>3, <1>4, Extent DEF fy
<1>7. /\ g.xMin \in Nat /\ g.yMin \in Nat /\ f.xMin \in Nat /\ f.yMin \in Nat
      /\ g.xMin <= w.crop.xMax - 1 /\ g.yMin <= w.crop.yMax - 1
      /\ w.crop.xMin \in Nat /\ w.crop.xMax \in Nat /\ w.crop.yMin \in Nat /\ w.crop.yMax \in Nat
  BY <1>1, <1>2, <1>3, <1>4 DEF AxisOf
<1>8. Area(g) <= Area(f) /\ Area(g) \in Nat \ {0}
  <2>. DEFINE a == g.xMax - g.xMin  b == g.yMax - g.yMin  d == f.xMax - f.xMin  e == f.yMax - f.yMin
  <2>1. /\ a \in Nat \ {0} /\ b \in Nat \ {0} /\ d \in Nat /\ e \in Nat /\ a <= d /\ b <= e
    BY <1>5, <1>6, <1>7
  <2>2. Area(g) = a * b /\ Area(f) = d * e
    BY DEF Area
  <2>. HIDE DEF a, b, d, e
  <2>3. a * b <= d * e
    BY <2>1, Products
  <2>4. a * b \in Nat \ {0}
    BY <2>1
  <2>. QED  BY <2>2, <2>3, <2>4
<1>9. g \in Regions /\ NonEmpty(g) /\ ~Beside(g, w.crop)
  BY <1>3, <1>5, <1>6, <1>7 DEF Regions, NonEmpty, Beside
<1>10. Area(g) <= Area(DisplayRegion(w, FirstCell(BucketRegion(w))))
  BY <1>8 DEF f
<1>11. g.xMin < w.crop.xMax /\ g.yMin < w.crop.yMax
  BY <1>7
<1>. QED  BY <1>1, <1>2, <1>3, <1>5, <1>6, <1>8, <1>9, <1>10, <1>11
(************************** requests and images ****************************)

\* A sequence, whatever it holds.
IsList(q) == q \in Seq({q[i] : i \in DOMAIN q})

LEMMA ListOf ==
  ASSUME NEW S, NEW q \in Seq(S)
  PROVE  IsList(q) /\ Len(q) \in Nat /\ DOMAIN q = 1 .. Len(q)
<1>1. Len(q) \in Nat /\ DOMAIN q = 1 .. Len(q)
  BY LenProperties
<1>2. q = [i \in 1 .. Len(q) |-> q[i]]
  BY <1>1, LenProperties
<1>. DEFINE T == {q[i] : i \in DOMAIN q}
<1>3. q \in [1 .. Len(q) -> T]
  BY <1>1, <1>2
<1>4. q \in Seq(T)
  BY <1>1, <1>3, SeqDef
<1>. QED  BY <1>1, <1>4 DEF IsList

LEMMA ListLength ==
  ASSUME NEW q, IsList(q)
  PROVE  Len(q) \in Nat /\ DOMAIN q = 1 .. Len(q) /\ q = [i \in DOMAIN q |-> q[i]]
<1>1. Len(q) \in Nat /\ DOMAIN q = 1 .. Len(q) /\ q \in [1 .. Len(q) -> {q[i] : i \in DOMAIN q}]
  BY LenProperties DEF IsList
<1>. QED  BY <1>1

LEMMA ListReplaced ==
  ASSUME NEW q, IsList(q), NEW p, p = [i \in DOMAIN q |-> p[i]]
  PROVE  IsList(p) /\ Len(p) = Len(q) /\ DOMAIN p = DOMAIN q
<1>1. Len(q) \in Nat /\ DOMAIN p = 1 .. Len(q)
  BY ListLength
<1>. DEFINE T == {p[i] : i \in DOMAIN p}
<1>2. p \in [1 .. Len(q) -> T]
  BY <1>1
<1>3. p \in Seq(T)
  BY <1>1, <1>2, SeqDef
<1>4. DOMAIN p = 1 .. Len(p) /\ Len(p) \in Nat
  BY <1>3, LenProperties
<1>. QED  BY <1>1, <1>3, <1>4, ListLength DEF IsList

LEMMA ListLonger ==
  ASSUME NEW q, IsList(q), NEW e
  PROVE  /\ IsList(Append(q, e)) /\ Len(Append(q, e)) = Len(q) + 1
         /\ DOMAIN Append(q, e) = 1 .. Len(q) + 1
         /\ Append(q, e)[Len(q) + 1] = e
         /\ \A i \in DOMAIN q : Append(q, e)[i] = q[i]
<1>. DEFINE T == {q[i] : i \in DOMAIN q} \cup {e}
<1>0. Len(q) \in Nat /\ DOMAIN q = 1 .. Len(q)
  BY ListLength
<1>1. q \in Seq(T) /\ e \in T
  BY SeqMonotonic DEF IsList
<1>. HIDE DEF T
<1>2. /\ Append(q, e) \in Seq(T) /\ Len(Append(q, e)) = Len(q) + 1
      /\ Append(q, e)[Len(q) + 1] = e
      /\ \A i \in 1 .. Len(q) : Append(q, e)[i] = q[i]
  BY <1>1, AppendProperties
<1>. QED  BY <1>0, <1>2, ListOf

ParamSet == [origin : Cells, size : Cells]
RequestWith(row) ==
  [driver : Drivers, valid : BOOLEAN, methods : {"wild", "bound", "null"}, handle : Nat,
   params : Seq(ParamSet), wide : Int, high : Int, room : Int, row : {row}]
IsRequest(r) == \E row : r \in RequestWith(row)

\* The pixels an image can hold are those of its crop window.
ImageStates == {"open", "refused", "abandoned", "closed", "misused"}
ImageWith(data) ==
  [driver : Drivers, state : ImageStates, crop : Regions, channels : Nat,
   origin : Cells, whole : BOOLEAN, stale : BOOLEAN, data : {data}]
IsImage(m) == (\E data : m \in ImageWith(data)) /\ DOMAIN m.data = Places(m.crop)

Bound(r) == r.methods = "bound"

\* A request with no buffer.
Unused(r) == r.room = 0 /\ r.row = <<>>

\* The fields that no bucket changes.
SameRequest(r, s) == /\ s.driver = r.driver /\ s.valid = r.valid /\ s.methods = r.methods
                     /\ s.handle = r.handle /\ s.params = r.params
                     /\ s.wide = r.wide /\ s.high = r.high

LEMMA NewRequestTyped ==
  ASSUME NEW d \in Drivers
  PROVE  IsRequest(NewRequest(d)) /\ ~Bound(NewRequest(d)) /\ Unused(NewRequest(d))
<1>1. <<>> \in Seq(ParamSet)
  BY EmptySeq
<1>2. NewRequest(d) \in RequestWith(<<>>)
  BY <1>1 DEF NewRequest, RequestWith
<1>. QED  BY <1>2 DEF IsRequest, NewRequest, Bound, Unused

LEMMA ReleasedTyped ==
  ASSUME NEW r, IsRequest(r)
  PROVE  /\ IsRequest(Released(r)) /\ ~Bound(Released(r)) /\ Unused(Released(r))
         /\ Released(r).methods = "null"
<1>1. PICK row : r \in RequestWith(row)
  BY DEF IsRequest
<1>. DEFINE none == <<>>
            r1 == [r EXCEPT !.methods = "null"]
            r2 == [r1 EXCEPT !.handle = 0]
            r3 == [r2 EXCEPT !.room = 0]
            r4 == [r3 EXCEPT !.row = none]
<1>2. Released(r) = r4
  BY DEF Released
<1>. HIDE DEF none
<1>3. r1 \in RequestWith(row) /\ r1.methods = "null"
  BY <1>1 DEF RequestWith
<1>. HIDE DEF r1
<1>4. r2 \in RequestWith(row) /\ r2.methods = "null"
  BY <1>3 DEF RequestWith
<1>. HIDE DEF r2
<1>5. r3 \in RequestWith(row) /\ r3.methods = "null" /\ r3.room = 0
  BY <1>4 DEF RequestWith
<1>. HIDE DEF r3
<1>6. r4 \in RequestWith(none) /\ r4.methods = "null" /\ r4.room = 0 /\ r4.row = none
  BY <1>5 DEF RequestWith
<1>. HIDE DEF r4
<1>. QED  BY <1>2, <1>6 DEF IsRequest, Bound, Unused, none

LEMMA SizedTyped ==
  ASSUME NEW r, IsRequest(r), NEW crop \in Regions
  PROVE  /\ IsRequest(Sized(r, crop))
         /\ Bound(Sized(r, crop)) <=> Bound(r)
         /\ Unused(Sized(r, crop)) <=> Unused(r)
         /\ Sized(r, crop).driver = r.driver /\ Sized(r, crop).params = r.params
         /\ Sized(r, crop).wide = Wide(crop) /\ Sized(r, crop).high = High(crop)
         /\ Sized(r, crop).methods = r.methods /\ Sized(r, crop).valid = r.valid
<1>1. PICK row : r \in RequestWith(row)
  BY DEF IsRequest
<1>2. Wide(crop) \in Int /\ High(crop) \in Int
  BY DEF Wide, High, Regions
<1>3. /\ Sized(r, crop) \in RequestWith(row)
      /\ Sized(r, crop).methods = r.methods /\ Sized(r, crop).room = r.room /\ Sized(r, crop).row = r.row
      /\ Sized(r, crop).driver = r.driver /\ Sized(r, crop).params = r.params
      /\ Sized(r, crop).wide = Wide(crop) /\ Sized(r, crop).high = High(crop)
      /\ Sized(r, crop).valid = r.valid
  BY <1>1, <1>2 DEF Sized, RequestWith
<1>. QED  BY <1>3 DEF IsRequest, Bound, Unused

\* A request whose library has no methods.
Hollow(r, crop) == [Sized(r, crop) EXCEPT !.methods = "null", !.room = 0, !.row = <<>>]

LEMMA HollowTyped ==
  ASSUME NEW r, IsRequest(r), NEW crop \in Regions
  PROVE  LET e == Hollow(r, crop)
         IN  IsRequest(e) /\ ~Bound(e) /\ Unused(e) /\ e.methods = "null"
<1>. DEFINE s == Sized(r, crop)
            none == <<>>
            r1 == [s EXCEPT !.methods = "null"]
            r2 == [r1 EXCEPT !.room = 0]
            r3 == [r2 EXCEPT !.row = none]
<1>1. Hollow(r, crop) = r3
  BY DEF Hollow
<1>2. IsRequest(s)
  BY SizedTyped
<1>. HIDE DEF s
<1>3. PICK row : s \in RequestWith(row)
  BY <1>2 DEF IsRequest
<1>. HIDE DEF none
<1>4. r1 \in RequestWith(row) /\ r1.methods = "null"
  BY <1>3 DEF RequestWith
<1>. HIDE DEF r1
<1>5. r2 \in RequestWith(row) /\ r2.methods = "null" /\ r2.room = 0
  BY <1>4 DEF RequestWith
<1>. HIDE DEF r2
<1>6. r3 \in RequestWith(none) /\ r3.methods = "null" /\ r3.room = 0 /\ r3.row = none
  BY <1>5 DEF RequestWith
<1>. HIDE DEF r3
<1>. QED  BY <1>1, <1>6 DEF IsRequest, Bound, Unused, none

\* The parameters of an opening, and the request of one that succeeds.
ParamOf(crop, res) == [origin |-> [x |-> crop.xMin, y |-> crop.yMin], size |-> res]
Opened(r, crop, res) == [Opening(r, crop, res) EXCEPT !.valid = TRUE]
Restated(m, s) == [m EXCEPT !.state = s]

LEMMA OpeningTyped ==
  ASSUME NEW r, IsRequest(r), NEW crop \in Regions, NEW res \in Cells, IsList(images)
  PROVE  LET p == ParamOf(crop, res)
             o == Opening(r, crop, res)
             e == Opened(r, crop, res)
         IN  /\ IsRequest(o) /\ o.driver = r.driver /\ o.params = Append(r.params, p)
             /\ o.methods = "bound" /\ o.handle = Len(images) + 1
             /\ IsRequest(e) /\ e.driver = r.driver /\ e.params = Append(r.params, p)
             /\ Bound(e) /\ Live(e) /\ Unused(e)
             /\ e.handle = Len(images) + 1 /\ e.wide = Wide(crop) /\ e.high = High(crop)
             /\ p \in ParamSet /\ r.params \in Seq(ParamSet)
<1>. DEFINE p == ParamOf(crop, res)
            o == Opening(r, crop, res)
            e == Opened(r, crop, res)
<1>. DEFINE s == Sized(r, crop)
<1>1. IsRequest(s) /\ s.driver = r.driver /\ s.params = r.params /\ s.wide = Wide(crop) /\ s.high = High(crop)
  BY SizedTyped
<1>2. p \in ParamSet
  BY DEF ParamSet, Cells, Regions, ParamOf
<1>3. Len(images) + 1 \in Nat
  BY ListLength
<1>4. /\ o = [s EXCEPT !.methods = "bound", !.handle = Len(images) + 1, !.room = 0, !.row = <<>>,
                       !.params = Append(@, p)]
      /\ e = [o EXCEPT !.valid = TRUE]
  BY DEF Opening, Opened, ParamOf
<1>. HIDE DEF s, p, o, e
<1>5. PICK row : s \in RequestWith(row)
  BY <1>1 DEF IsRequest
<1>6. s.params \in Seq(ParamSet)
  BY <1>5 DEF RequestWith
<1>. DEFINE q == Append(s.params, p)
<1>7. q \in Seq(ParamSet)
  BY <1>2, <1>6, AppendProperties
<1>. DEFINE none == <<>>
            o1 == [s EXCEPT !.methods = "bound"]
            o2 == [o1 EXCEPT !.handle = Len(images) + 1]
            o3 == [o2 EXCEPT !.room = 0]
            o4 == [o3 EXCEPT !.row = none]
<1>8. o = [o4 EXCEPT !.params = q]
  BY <1>4, <1>5 DEF RequestWith
<1>. HIDE DEF q, none, o
<1>9. /\ o \in RequestWith(none) /\ o.params = q /\ o.driver = s.driver /\ o.methods = "bound"
      /\ o.handle = Len(images) + 1 /\ o.room = 0 /\ o.row = none /\ o.wide = s.wide /\ o.high = s.high
  <2>. DEFINE Like(t) == t.driver = s.driver /\ t.wide = s.wide /\ t.high = s.high
  <2>1. o1 \in RequestWith(row) /\ Like(o1) /\ o1.methods = "bound"
    BY <1>5 DEF RequestWith
  <2>. HIDE DEF o1
  <2>2. o2 \in RequestWith(row) /\ Like(o2) /\ o2.methods = "bound" /\ o2.handle = Len(images) + 1
    BY <1>3, <2>1 DEF RequestWith
  <2>. HIDE DEF o2
  <2>3. o3 \in RequestWith(row) /\ Like(o3) /\ o3.methods = "bound" /\ o3.handle = Len(images) + 1 /\ o3.room = 0
    BY <2>2 DEF RequestWith
  <2>. HIDE DEF o3
  <2>4. /\ o4 \in RequestWith(none) /\ Like(o4) /\ o4.methods = "bound" /\ o4.handle = Len(images) + 1
        /\ o4.room = 0 /\ o4.row = none
    BY <2>3 DEF RequestWith
  <2>. HIDE DEF o4
  <2>. QED  BY <1>7, <1>8, <2>4 DEF RequestWith
<1>10. /\ e \in RequestWith(none) /\ e.params = q /\ e.driver = s.driver /\ e.methods = "bound"
       /\ e.handle = Len(images) + 1 /\ e.room = 0 /\ e.row = none /\ e.wide = s.wide /\ e.high = s.high
       /\ e.valid = TRUE
  BY <1>4, <1>9 DEF RequestWith
<1>11. Bound(e) /\ Live(e) /\ Unused(e)
  BY <1>10 DEF Bound, Live, Unused, none
<1>12. /\ IsRequest(o) /\ o.driver = r.driver /\ o.params = Append(r.params, p)
       /\ o.methods = "bound" /\ o.handle = Len(images) + 1
       /\ IsRequest(e) /\ e.driver = r.driver /\ e.params = Append(r.params, p)
       /\ Bound(e) /\ Live(e) /\ Unused(e)
       /\ e.handle = Len(images) + 1 /\ e.wide = Wide(crop) /\ e.high = High(crop)
       /\ p \in ParamSet /\ r.params \in Seq(ParamSet)
  BY <1>1, <1>2, <1>6, <1>9, <1>10, <1>11 DEF IsRequest, q
<1>. QED  BY <1>12 DEF p, o, e
(* A bucket fills the buffers of a request and changes nothing else of it. *)
LEMMA FormattedFacts ==
  ASSUME NEW r, IsRequest(r), NEW g \in Regions, Area(g) \in Nat
  PROVE  LET f == Formatted(r, g)
         IN  /\ IsRequest(f) /\ SameRequest(r, f)
             /\ ~Live(r) => f = r
             /\ Live(r) => /\ f.room = IF r.room = 0 THEN Area(g) ELSE r.room
                           /\ f.row = IF r.driver \in Scanline THEN Collapsed(r, g) ELSE r.row
<1>. DEFINE f == Formatted(r, g)
<1>1. PICK row : r \in RequestWith(row)
  BY DEF IsRequest
<1>2. CASE ~Live(r)
  BY <1>2 DEF Formatted, SameRequest
<1>3. CASE Live(r)
  <2>. DEFINE room == IF r.room = 0 THEN Area(g) ELSE r.room
              filled == IF r.driver \in Scanline THEN Collapsed(r, g) ELSE r.row
              f1 == [r EXCEPT !.room = room]
  <2>1. f = [f1 EXCEPT !.row = filled]
    BY <1>1, <1>3 DEF Formatted, RequestWith
  <2>2. room \in Int
    BY <1>1 DEF RequestWith
  <2>. HIDE DEF room, filled
  <2>3. f1 \in RequestWith(row) /\ SameRequest(r, f1) /\ f1.room = room
    BY <1>1, <2>2 DEF RequestWith, SameRequest
  <2>. HIDE DEF f1
  <2>4. f \in RequestWith(filled) /\ SameRequest(f1, f) /\ f.room = room /\ f.row = filled
    BY <2>1, <2>3 DEF RequestWith, SameRequest
  <2>5. SameRequest(r, f)
    BY <2>3, <2>4 DEF SameRequest
  <2>. QED  BY <1>3, <2>4, <2>5 DEF IsRequest, room, filled
<1>. QED  BY <1>2, <1>3

\* All of an image but its state and what it holds.
SameImage(m, n) == /\ n.driver = m.driver /\ n.crop = m.crop /\ n.origin = m.origin
                   /\ n.whole = m.whole /\ n.stale = m.stale

(* A driver asked to open an image gets the parameters of this opening, unless *)
(* there are older ones.                                                       *)
LEMMA NewImageFacts ==
  ASSUME NEW r, IsRequest(r), NEW crop \in Regions, NEW old \in Seq(ParamSet), NEW p \in ParamSet,
         r.params = Append(old, p)
  PROVE  LET m == NewImage(r, crop)
         IN  /\ IsImage(m) /\ m.driver = r.driver /\ m.state = "open" /\ m.crop = crop
             /\ ~m.stale => m.origin = p.origin
                              /\ (m.whole <=> p.size = [x |-> Wide(crop), y |-> High(crop)])
<1>. DEFINE m == NewImage(r, crop)
<1>. DEFINE data == [q \in Places(crop) |-> Blank]
<1>1. /\ r.params \in Seq(ParamSet) /\ Len(r.params) = Len(old) + 1 /\ r.params[Len(old) + 1] = p
      /\ Len(old) \in Nat
  BY AppendProperties, LenProperties
<1>2. Last(r.params) = p
  BY <1>1 DEF Last
<1>3. Head(r.params) \in ParamSet
  <2>1. r.params # <<>>
    BY <1>1, EmptySeq
  <2>. QED  BY <1>1, <2>1, HeadTailProperties
<1>. DEFINE h == Head(r.params)
            st == h # p
            wh == h.size = [x |-> Wide(crop), y |-> High(crop)]
<1>4. m = [driver |-> r.driver, state |-> "open", crop |-> crop, origin |-> h.origin,
           whole |-> wh, stale |-> st, channels |-> Len(r.params), data |-> data]
  BY <1>2 DEF NewImage
<1>5. /\ r.driver \in Drivers /\ h.origin \in Cells /\ st \in BOOLEAN /\ wh \in BOOLEAN
      /\ Len(r.params) \in Nat
  BY <1>1, <1>3 DEF IsRequest, RequestWith, ParamSet, h
<1>. HIDE DEF data, h, st, wh, m
<1>6. /\ m \in ImageWith(data) /\ m.data = data /\ m.crop = crop /\ m.driver = r.driver
      /\ m.state = "open" /\ m.origin = h.origin /\ m.stale = st /\ m.whole = wh
  BY <1>4, <1>5 DEF ImageWith, ImageStates
<1>7. DOMAIN data = Places(crop)
  BY DEF data
<1>8. IsImage(m)
  BY <1>6, <1>7 DEF IsImage
<1>9. ~m.stale => h = p
  BY <1>6, Zenon DEF st
<1>10. ~m.stale => m.origin = p.origin /\ (m.whole <=> p.size = [x |-> Wide(crop), y |-> High(crop)])
  BY <1>6, <1>9, Zenon DEF wh
<1>. QED  BY <1>6, <1>8, <1>10 DEF m

(* Data and the closing of an image change its state and its pixels. *)
LEMMA RestatedFacts ==
  ASSUME NEW m, IsImage(m), NEW s \in ImageStates
  PROVE  LET n == Restated(m, s)
         IN  IsImage(n) /\ SameImage(m, n) /\ n.state = s /\ n.data = m.data
<1>. DEFINE n == Restated(m, s)
<1>1. PICK data : m \in ImageWith(data)
  BY DEF IsImage
<1>2. n \in ImageWith(data) /\ SameImage(m, n) /\ n.state = s /\ n.data = m.data
  BY <1>1 DEF ImageWith, ImageStates, SameImage, Restated
<1>. QED  BY <1>2 DEF IsImage, SameImage

LEMMA ClosedFacts ==
  ASSUME NEW m, IsImage(m)
  PROVE  LET n == Closed(m)
         IN  /\ IsImage(n) /\ SameImage(m, n) /\ n.data = m.data /\ n.state \notin {"open", "refused"}
             /\ m.state = "open" => n.state = "closed"
             /\ m.state = "misused" => n.state = "misused"
             /\ m.state = "refused" => n.state = "abandoned"
<1>. DEFINE n == Closed(m)
<1>. DEFINE s == CASE m.state = "open" -> "closed" [] m.state = "refused" -> "abandoned" [] OTHER -> "misused"
<1>1. n = Restated(m, s)
  BY DEF Closed, Restated
<1>2. /\ s \in ImageStates /\ s \notin {"open", "refused"}
      /\ m.state = "open" => s = "closed"
      /\ m.state = "misused" => s = "misused"
      /\ m.state = "refused" => s = "abandoned"
  BY DEF ImageStates
<1>. HIDE DEF s, n
<1>3. /\ IsImage(n) /\ SameImage(m, n) /\ n.data = m.data /\ n.state \notin {"open", "refused"}
      /\ m.state = "open" => n.state = "closed"
      /\ m.state = "misused" => n.state = "misused"
      /\ m.state = "refused" => n.state = "abandoned"
  BY <1>1, <1>2, RestatedFacts
<1>. QED  BY <1>3 DEF n

LEMMA FedFacts ==
  ASSUME NEW m, IsImage(m), NEW g, NEW data
  PROVE  LET n == Fed(m, g, data)
         IN  /\ IsImage(n) /\ SameImage(m, n)
             /\ m.state = "open" /\ ~Negative(m, g) => n.state = "open" /\ n.data = Stored(m, g, data)
             /\ ~(m.state = "open" /\ ~Negative(m, g)) => n.state = "misused"
<1>. DEFINE n == Fed(m, g, data)
<1>1. PICK d : m \in ImageWith(d)
  BY DEF IsImage
<1>2. CASE m.state = "open" /\ ~Negative(m, g)
  <2>. DEFINE e == Stored(m, g, data)
  <2>1. n = [m EXCEPT !.data = e]
    BY <1>2 DEF Fed
  <2>2. DOMAIN e = DOMAIN m.data
    BY DEF Stored
  <2>. HIDE DEF e
  <2>3. n \in ImageWith(e) /\ SameImage(m, n) /\ n.state = "open" /\ n.data = e
    BY <1>1, <1>2, <2>1 DEF ImageWith, SameImage
  <2>4. IsImage(n)
    BY <2>2, <2>3 DEF IsImage, SameImage
  <2>. QED  BY <1>2, <2>3, <2>4 DEF e
<1>3. CASE ~(m.state = "open" /\ ~Negative(m, g))
  <2>1. n = Restated(m, "misused")
    BY <1>3 DEF Fed, Restated
  <2>. QED  BY <1>3, <2>1, RestatedFacts DEF ImageStates
<1>. QED  BY <1>2, <1>3
(************************** requests and their images **********************)

RequestsTyped(q) == IsList(q) /\ \A i \in DOMAIN q : IsRequest(q[i])
ImagesTyped(q) == IsList(q) /\ \A h \in DOMAIN q : IsImage(q[h])

DisplaysTyped ==
  /\ RequestsTyped(requests) /\ RequestsTyped(main) /\ ImagesTyped(images) /\ IsWindow(window)
  /\ task.stage = "open" => task.display \in Nat \ {0}
  /\ task.stage = "render" => task.cell \in BucketsIn(BucketRegion(window))

\* Request r was opened for the window of this pass and got image m.
Serves(r, m) ==
  /\ Live(r) /\ m.driver = r.driver /\ m.crop = window.crop
  /\ r.wide = Wide(window.crop) /\ r.high = High(window.crop)
  /\ ~m.stale => /\ m.origin = [x |-> window.crop.xMin, y |-> window.crop.yMin]
                 /\ m.whole <=> window.res = [x |-> Wide(window.crop), y |-> High(window.crop)]

\* Only during a pass has a request an image, each its own, and only then is an
\* image open.
NoneBound(q) == \A i \in DOMAIN q : ~Bound(q[i])
NoneOpen(q) == \A h \in DOMAIN q : q[h].state # "open"

\* An image a driver refuses is closed at once.
NoneRefused(q) == \A h \in DOMAIN q : q[h].state # "refused"

OneEach(q) == \A i, k \in DOMAIN q : Bound(q[i]) /\ Bound(q[k]) /\ q[i].handle = q[k].handle => i = k
Serving(q, imgs) ==
  \A i \in DOMAIN q : Bound(q[i]) => /\ q[i].handle \in DOMAIN imgs
                                     /\ Serves(q[i], imgs[q[i].handle])
                                     /\ imgs[q[i].handle].state \in {"open", "misused"}
OpenServed(q, imgs) ==
  \A h \in DOMAIN imgs : imgs[h].state = "open" => \E i \in DOMAIN q : Bound(q[i]) /\ q[i].handle = h

Handles ==
  /\ NoneBound(main) /\ NoneRefused(images)
  /\ task.stage \notin InPass \cup {"crashed"} => NoneBound(requests) /\ NoneOpen(images)
  /\ task.stage \in InPass => /\ Serving(requests, images) /\ OneEach(requests)
                              /\ OpenServed(requests, images)
  /\ task.stage = "open" => \A i \in DOMAIN requests : Bound(requests[i]) => i < task.display
  /\ \A h \in DOMAIN images : Ordinary(images[h]) => images[h].state # "misused"

\* The buffers are made for the first bucket and given up at the close.
FirstArea == Area(DisplayRegion(window, FirstCell(BucketRegion(window))))
AllUnused(q) == \A i \in DOMAIN q : Unused(q[i])
Rooms ==
  /\ AllUnused(main)
  /\ task.stage \notin {"render", "close", "crashed"} => AllUnused(requests)
  /\ task.stage = "render" =>
       IF task.cell = FirstCell(BucketRegion(window)) THEN AllUnused(requests)
       ELSE \A i \in DOMAIN requests :
              requests[i].room = IF Live(requests[i]) THEN FirstArea ELSE 0

DisplayInv == DisplaysTyped /\ Handles /\ Rooms

(* An image that is closed as soon as it is made. *)
LEMMA LastClosed ==
  ASSUME NEW q, IsList(q), NEW m
  PROVE  [Append(q, m) EXCEPT ![Len(q) + 1] = Closed(@)] = Append(q, Closed(m))
<1>. DEFINE n == Closed(m)
            a == Append(q, m)
            b == Append(q, n)
            k == Len(q) + 1
<1>1. /\ IsList(a) /\ DOMAIN a = 1 .. k /\ a[k] = m /\ \A i \in DOMAIN q : a[i] = q[i]
      /\ IsList(b) /\ DOMAIN b = 1 .. k /\ b[k] = n /\ \A i \in DOMAIN q : b[i] = q[i]
  BY ListLonger
<1>2. Len(q) \in Nat /\ DOMAIN q = 1 .. Len(q)
  BY ListLength
<1>3. \A i \in 1 .. k : i \in DOMAIN q \/ i = k
  BY <1>2
<1>4. a = [i \in 1 .. k |-> a[i]] /\ b = [i \in 1 .. k |-> b[i]]
  BY <1>1, ListLength
<1>5. k \in 1 .. k
  BY <1>2
<1>6. Closed(a[k]) = n
  BY <1>1
<1>. HIDE DEF n, a, b, k
<1>7. [a EXCEPT ![k] = Closed(@)] = [i \in 1 .. k |-> IF i = k THEN n ELSE a[i]]
  BY <1>4, <1>5, <1>6
<1>8. \A i \in 1 .. k : b[i] = IF i = k THEN n ELSE a[i]
  BY <1>1, <1>3
<1>9. [a EXCEPT ![k] = Closed(@)] = b
  BY <1>4, <1>7, <1>8
<1>. QED  BY <1>9 DEF n, a, b, k

(* How a display is opened. *)
LEMMA OpenStep ==
  ASSUME TaskShape, DisplaysTyped, OpenDisplay, ~Bound(requests[task.display])
  PROVE  /\ task.display \in DOMAIN requests
         /\ \E e : /\ IsRequest(e) /\ Unused(e) /\ e.methods # "wild"
                   /\ requests' = [requests EXCEPT ![task.display] = e]
                   /\ \/ ~Bound(e) /\ images' = images
                      \/ \E m : /\ IsImage(m) /\ images' = Append(images, m)
                                /\ \/ ~Bound(e) /\ m.state = "abandoned"
                                   \/ /\ Bound(e) /\ m.state = "open" /\ e.handle = Len(images) + 1
                                      /\ Serves(e, m)
<1>. DEFINE k == task.display
            r == requests[k]
            p == ParamOf(window.crop, window.res)
<1>1. k \in DOMAIN requests
  BY DEF OpenDisplay, Loading
<1>2. IsRequest(r) /\ IsList(images) /\ window.crop \in Regions /\ window.res \in Cells
  BY <1>1 DEF DisplaysTyped, RequestsTyped, ImagesTyped, IsWindow
<1>3. CASE DriverOpens(k, window.crop, window.res)
  <2>. DEFINE o == Opening(r, window.crop, window.res)
              e == Opened(r, window.crop, window.res)
              m == NewImage(e, window.crop)
  <2>1. requests' = [requests EXCEPT ![k] = e]
    BY <1>3 DEF DriverOpens, Opened
  <2>2. requests'[k] = e
    BY <1>1, <2>1
  <2>3. images' = Append(images, m)
    BY <1>3, <2>2 DEF DriverOpens
  <2>4. /\ p = ParamOf(window.crop, window.res) /\ e = Opened(r, window.crop, window.res)
        /\ m = NewImage(e, window.crop)
    OBVIOUS
  <2>. HIDE DEF o, e, m, p, r, k
  <2>5. /\ IsRequest(e) /\ e.driver = r.driver /\ e.params = Append(r.params, p)
        /\ Bound(e) /\ Live(e) /\ Unused(e) /\ e.handle = Len(images) + 1
        /\ e.wide = Wide(window.crop) /\ e.high = High(window.crop)
        /\ p \in ParamSet /\ r.params \in Seq(ParamSet)
    BY <1>2, <2>4, OpeningTyped
  <2>6. /\ IsImage(m) /\ m.driver = e.driver /\ m.state = "open" /\ m.crop = window.crop
        /\ ~m.stale => m.origin = p.origin
                         /\ (m.whole <=> p.size = [x |-> Wide(window.crop), y |-> High(window.crop)])
    BY <1>2, <2>4, <2>5, NewImageFacts
  <2>7. Serves(e, m)
    BY <2>5, <2>6 DEF Serves, p, ParamOf
  <2>8. e.methods # "wild"
    BY <2>5 DEF Bound
  <2>. QED  BY <1>1, <2>1, <2>3, <2>5, <2>6, <2>7, <2>8 DEF k
<1>4. CASE DriverRefuses(k, window.crop, window.res)
  <2>. DEFINE o == Opening(r, window.crop, window.res)
              e == Released(o)
              n == NewImage(o, window.crop)
              f == Restated(n, "refused")
              m == Closed(f)
  <2>1. requests' = [requests EXCEPT ![k] = e] /\ images' = AfterClose(o, Append(images, f))
    BY <1>4 DEF DriverRefuses, Restated
  <2>2. /\ p = ParamOf(window.crop, window.res) /\ o = Opening(r, window.crop, window.res)
        /\ n = NewImage(o, window.crop) /\ f = Restated(n, "refused")
    OBVIOUS
  <2>. HIDE DEF o, n, f, p, r, k
  <2>3. /\ IsRequest(o) /\ o.params = Append(r.params, p)
        /\ o.methods = "bound" /\ o.handle = Len(images) + 1
        /\ p \in ParamSet /\ r.params \in Seq(ParamSet)
    BY <1>2, <2>2, OpeningTyped
  <2>4. IsImage(m) /\ m.state = "abandoned"
    <3>. HIDE DEF m
    <3>1. /\ window.crop \in Regions /\ r.params \in Seq(ParamSet) /\ p \in ParamSet
          /\ IsRequest(o) /\ o.params = Append(r.params, p)
      BY <1>2, <2>3
    <3>2. IsImage(n)
      BY <2>2, <3>1, NewImageFacts
    <3>3. IsImage(f) /\ f.state = "refused"
      BY <2>2, <3>2, RestatedFacts DEF ImageStates
    <3>. QED  BY <3>3, ClosedFacts DEF m
  <2>5. images' = Append(images, m)
    BY <1>2, <2>1, <2>3, LastClosed DEF AfterClose
  <2>6. IsRequest(e) /\ ~Bound(e) /\ Unused(e) /\ e.methods # "wild"
    BY <2>3, ReleasedTyped
  <2>. HIDE DEF e, m
  <2>. QED  BY <1>1, <2>1, <2>4, <2>5, <2>6 DEF k
<1>5. CASE DriverSkipped(k, window.crop)
  <2>. DEFINE s == Sized(r, window.crop)
              e == Released(s)
  <2>1. requests' = [requests EXCEPT ![k] = e] /\ images' = images
    BY <1>5 DEF DriverSkipped, AfterClose, Bound
  <2>2. IsRequest(s)
    <3>. HIDE DEF r
    <3>. QED  BY <1>2, SizedTyped
  <2>. HIDE DEF s
  <2>3. IsRequest(e) /\ ~Bound(e) /\ Unused(e) /\ e.methods # "wild"
    BY <2>2, ReleasedTyped
  <2>. HIDE DEF e
  <2>. QED  BY <1>1, <2>1, <2>3
<1>6. CASE DriverHollow(k, window.crop)
  <2>. DEFINE e == Hollow(r, window.crop)
  <2>1. requests' = [requests EXCEPT ![k] = e] /\ images' = images
    BY <1>6 DEF DriverHollow, Hollow
  <2>2. IsRequest(e) /\ ~Bound(e) /\ Unused(e) /\ e.methods # "wild"
    <3>. HIDE DEF r
    <3>. QED  BY <1>2, HollowTyped
  <2>. HIDE DEF e
  <2>. QED  BY <1>1, <2>1, <2>2
<1>. QED  BY <1>3, <1>4, <1>5, <1>6 DEF OpenDisplay

(* One request replaced. *)
LEMMA OneReplaced ==
  ASSUME NEW q, RequestsTyped(q), NEW k \in DOMAIN q, NEW e, IsRequest(e), NEW p, p = [q EXCEPT ![k] = e]
  PROVE  /\ RequestsTyped(p) /\ DOMAIN p = DOMAIN q /\ p[k] = e
         /\ \A i \in DOMAIN q : i # k => p[i] = q[i]
<1>1. /\ p = [i \in DOMAIN q |-> p[i]] /\ DOMAIN p = DOMAIN q /\ p[k] = e
      /\ \A i \in DOMAIN q : i # k => p[i] = q[i]
  BY ListLength DEF RequestsTyped
<1>2. IsList(p)
  BY <1>1, ListReplaced DEF RequestsTyped
<1>. QED  BY <1>1, <1>2 DEF RequestsTyped

LEMMA OneImageMore ==
  ASSUME NEW q, ImagesTyped(q), NEW m, IsImage(m)
  PROVE  LET p == Append(q, m)
         IN  /\ ImagesTyped(p) /\ DOMAIN p = DOMAIN q \cup {Len(q) + 1} /\ Len(q) + 1 \notin DOMAIN q
             /\ p[Len(q) + 1] = m /\ \A h \in DOMAIN q : p[h] = q[h]
<1>. DEFINE p == Append(q, m)
<1>1. Len(q) \in Nat /\ DOMAIN q = 1 .. Len(q)
  BY ListLength DEF ImagesTyped
<1>2. /\ IsList(p) /\ DOMAIN p = 1 .. Len(q) + 1 /\ p[Len(q) + 1] = m
      /\ \A h \in DOMAIN q : p[h] = q[h]
  BY ListLonger DEF ImagesTyped
<1>3. DOMAIN p = DOMAIN q \cup {Len(q) + 1} /\ Len(q) + 1 \notin DOMAIN q
  BY <1>1, <1>2
<1>. QED  BY <1>2, <1>3 DEF ImagesTyped
(* The origin of an image that is not stale is the corner of the crop window,  *)
(* and a whole image begins at 0, 0.                                           *)
LEMMA OriginIsCorner ==
  ASSUME IsWindow(window), NEW r, NEW m, Serves(r, m), ~m.stale
  PROVE  /\ Origin(m) = [x |-> window.crop.xMin, y |-> window.crop.yMin]
         /\ m.whole => /\ window.crop.xMin = 0 /\ window.crop.xMax = window.res.x
                       /\ window.crop.yMin = 0 /\ window.crop.yMax = window.res.y
<1>1. /\ window.crop.xMin \in Nat /\ window.crop.xMax \in Nat
      /\ window.crop.yMin \in Nat /\ window.crop.yMax \in Nat
      /\ window.res.x \in Int /\ window.res.y \in Int
      /\ window.crop.xMax <= window.res.x /\ window.crop.yMax <= window.res.y
  BY DEF IsWindow, Regions, Cells
<1>2. CASE m.whole
  <2>1. window.res = [x |-> Wide(window.crop), y |-> High(window.crop)]
    BY <1>2 DEF Serves
  <2>2. window.res.x = window.crop.xMax - window.crop.xMin /\ window.res.y = window.crop.yMax - window.crop.yMin
    BY <2>1 DEF Wide, High
  <2>3. /\ window.crop.xMin = 0 /\ window.crop.xMax = window.res.x
        /\ window.crop.yMin = 0 /\ window.crop.yMax = window.res.y
    BY <1>1, <2>2
  <2>. QED  BY <1>2, <2>3 DEF Origin
<1>3. CASE ~m.whole
  BY <1>3 DEF Origin, Serves
<1>. QED  BY <1>2, <1>3

(* A bucket of the image, or the rows of one, is never beside the image it is  *)
(* meant for.                                                                  *)
LEMMA NeverNegative ==
  ASSUME IsWindow(window), NEW c \in BucketsIn(BucketRegion(window)), NEW g, g = DisplayRegion(window, c),
         NEW r, NEW m, Serves(r, m), ~m.stale
  PROVE  /\ ~Negative(m, g)
         /\ m.whole => \A f : f.wide = r.wide => ~Negative(m, Rows(f, g))
<1>1. /\ window.crop.xMin \in Nat /\ window.crop.xMax \in Nat /\ window.crop.xMin < window.crop.xMax
      /\ g.xMin \in Nat /\ g.xMax \in Nat /\ window.crop.xMin < g.xMax /\ g.xMin < window.crop.xMax
  BY CellFacts DEF IsWindow, Regions, NonEmpty
<1>2. Origin(m).x = window.crop.xMin /\ (m.whole => window.crop.xMin = 0)
  BY OriginIsCorner
<1>3. Wide(m.crop) = window.crop.xMax - window.crop.xMin /\ r.wide = Wide(m.crop)
  BY DEF Serves, Wide
<1>4. ~Negative(m, g)
  BY <1>1, <1>2, <1>3 DEF Negative
<1>5. ASSUME m.whole, NEW f, f.wide = r.wide  PROVE ~Negative(m, Rows(f, g))
  BY <1>1, <1>2, <1>3, <1>5 DEF Negative, Rows
<1>. QED  BY <1>4, <1>5

(* What a bucket does to the image of a request.                               *)
LEMMA SentFacts ==
  ASSUME IsWindow(window), NEW c \in BucketsIn(BucketRegion(window)), NEW g, g = DisplayRegion(window, c),
         NEW r, IsRequest(r), NEW m, IsImage(m), Serves(r, m), m.state \in {"open", "misused"}
  PROVE  LET f == Formatted(r, g)
             n == Sent(f, g, m)
         IN  /\ IsImage(n) /\ SameImage(m, n) /\ n.state \in {"open", "misused"}
             /\ n.state = "open" => m.state = "open"
             /\ Ordinary(m) /\ m.state = "open" =>
                  /\ n.state = "open"
                  /\ n.data = IF r.driver \notin Scanline THEN Stored(m, g, BucketData(g))
                              ELSE IF RowFull(r, g) THEN Stored(m, Rows(r, g), RowData(f, g))
                              ELSE m.data
<1>. DEFINE f == Formatted(r, g)
            n == Sent(f, g, m)
<1>1. g \in Regions /\ Area(g) \in Nat
  BY CellFacts
<1>2. f.driver = r.driver /\ f.wide = r.wide /\ m.driver = r.driver
  BY <1>1, FormattedFacts DEF SameRequest, Serves
<1>. HIDE DEF f
<1>3. (RowFull(f, g) <=> RowFull(r, g)) /\ Rows(f, g) = Rows(r, g)
  BY <1>2 DEF RowFull, Rows
<1>4. SameImage(m, m)
  BY DEF SameImage
<1>. DEFINE Goal(d) ==
       /\ IsImage(n) /\ SameImage(m, n) /\ n.state \in {"open", "misused"}
       /\ n.state = "open" => m.state = "open"
       /\ Ordinary(m) /\ m.state = "open" => n.state = "open" /\ n.data = d
<1>5. CASE r.driver \notin Scanline
  <2>1. n = Fed(m, g, BucketData(g))
    BY <1>2, <1>5 DEF Sent
  <2>2. Ordinary(m) => ~Negative(m, g)
    BY NeverNegative DEF Ordinary
  <2>. HIDE DEF n
  <2>3. Goal(Stored(m, g, BucketData(g)))
    BY <2>1, <2>2, FedFacts
  <2>. QED  BY <1>5, <2>3 DEF f, n
<1>6. CASE r.driver \in Scanline /\ RowFull(r, g)
  <2>1. n = Fed(m, Rows(r, g), RowData(f, g))
    BY <1>2, <1>3, <1>6 DEF Sent
  <2>2. Ordinary(m) => ~Negative(m, Rows(r, g))
    BY <1>2, <1>6, NeverNegative DEF Ordinary
  <2>. HIDE DEF n
  <2>3. Goal(Stored(m, Rows(r, g), RowData(f, g)))
    BY <2>1, <2>2, FedFacts
  <2>. QED  BY <1>6, <2>3 DEF f, n
<1>7. CASE r.driver \in Scanline /\ ~RowFull(r, g)
  <2>1. n = m
    BY <1>2, <1>3, <1>7 DEF Sent
  <2>. HIDE DEF n
  <2>2. Goal(m.data)
    BY <2>1, <1>4
  <2>. QED  BY <1>7, <2>2 DEF f, n
<1>. QED  BY <1>5, <1>6, <1>7

LEMMA ImagesReplaced ==
  ASSUME NEW q, ImagesTyped(q), NEW p, p = [h \in DOMAIN q |-> p[h]], \A h \in DOMAIN q : IsImage(p[h])
  PROVE  ImagesTyped(p) /\ DOMAIN p = DOMAIN q
BY ListReplaced DEF ImagesTyped

LEMMA RequestsReplaced ==
  ASSUME NEW q, RequestsTyped(q), NEW p, p = [i \in DOMAIN q |-> p[i]], \A i \in DOMAIN q : IsRequest(p[i])
  PROVE  RequestsTyped(p) /\ DOMAIN p = DOMAIN q
BY ListReplaced DEF RequestsTyped

(* A bucket goes to every request, and through it to the image it has.         *)
LEMMA SendStep ==
  ASSUME TaskShape, DisplaysTyped, Handles, SendBucket, NEW g, g = DisplayRegion(window, task.cell)
  PROVE  /\ task.stage = "render" /\ task.cell \in BucketsIn(BucketRegion(window))
         /\ requests' = [i \in DOMAIN requests |-> Formatted(requests[i], g)]
         /\ images' = [h \in DOMAIN images |-> images'[h]]
         /\ \A h \in DOMAIN images :
              (\A i \in DOMAIN requests : ~(Bound(requests[i]) /\ requests[i].handle = h)) => images'[h] = images[h]
         /\ \A i \in DOMAIN requests : Bound(requests[i]) =>
              images'[requests[i].handle] =
                Sent(Formatted(requests[i], g), g, images[requests[i].handle])
<1>1. task.stage = "render" /\ task.cell \in BucketsIn(BucketRegion(window)) /\ IsWindow(window)
  BY DEF SendBucket, DisplaysTyped
<1>2. g \in Regions /\ Area(g) \in Nat /\ ~Beside(g, window.crop)
  BY <1>1, CellFacts
<1>3. \A i \in DOMAIN requests :
        LET f == Formatted(requests[i], g)
        IN  /\ f.handle = requests[i].handle
            /\ Live(f) <=> Live(requests[i])
            /\ Live(f) => Bound(requests[i])
  BY <1>2, FormattedFacts DEF DisplaysTyped, RequestsTyped, SameRequest, Live, Bound
<1>4. Serving(requests, images) /\ OneEach(requests)
  BY <1>1 DEF Handles, InPass
<1>. DEFINE after == [i \in DOMAIN requests |-> Formatted(requests[i], g)]
            Feeds(h) == {i \in DOMAIN after : Live(after[i]) /\ after[i].handle = h}
<1>5. /\ requests' = after
      /\ images' = [h \in DOMAIN images |->
                      IF Feeds(h) = {} THEN images[h]
                      ELSE Sent(after[CHOOSE i \in Feeds(h) : TRUE], g, images[h])]
  <2>1. DisplayBucket(g, window.crop)
    BY DEF SendBucket
  <2>2. IF Beside(g, window.crop) THEN UNCHANGED <<requests, images>>
        ELSE /\ requests' = after
             /\ images' = [h \in DOMAIN images |->
                              IF Feeds(h) = {} THEN images[h]
                              ELSE Sent(after[CHOOSE i \in Feeds(h) : TRUE], g, images[h])]
    BY <2>1, Zenon DEF DisplayBucket
  <2>. QED  BY <1>2, <2>2
<1>6. \A h : Feeds(h) = {i \in DOMAIN requests : Bound(requests[i]) /\ requests[i].handle = h}
  BY <1>3, <1>4 DEF Serving, Serves
<1>. HIDE DEF Feeds
<1>7. ASSUME NEW i \in DOMAIN requests, Bound(requests[i])
      PROVE  images'[requests[i].handle] = Sent(Formatted(requests[i], g), g, images[requests[i].handle])
  <2>. DEFINE h == requests[i].handle
  <2>1. h \in DOMAIN images /\ Feeds(h) = {i}
    BY <1>4, <1>6, <1>7 DEF Serving, OneEach
  <2>2. (CHOOSE k \in Feeds(h) : TRUE) = i
    BY <2>1
  <2>. QED  BY <1>5, <2>1, <2>2
<1>8. ASSUME NEW h \in DOMAIN images,
             \A i \in DOMAIN requests : ~(Bound(requests[i]) /\ requests[i].handle = h)
      PROVE  images'[h] = images[h]
  <2>1. Feeds(h) = {}
    BY <1>6, <1>8
  <2>. QED  BY <1>5, <2>1
<1>9. images' = [h \in DOMAIN images |-> images'[h]]
  BY <1>5
<1>10. requests' = [i \in DOMAIN requests |-> Formatted(requests[i], g)]
  BY <1>5
<1>. QED  BY <1>1, <1>7, <1>8, <1>9, <1>10

(* Every image a request has is closed, once.                                  *)
LEMMA CloseStep ==
  ASSUME DisplaysTyped, Handles, Close
  PROVE  /\ requests' = [i \in DOMAIN requests |-> Released(requests[i])]
         /\ images' = [h \in DOMAIN images |-> images'[h]]
         /\ \A h \in DOMAIN images :
              IF \E i \in DOMAIN requests : Bound(requests[i]) /\ requests[i].handle = h
              THEN images'[h] = Closed(images[h]) /\ images[h].state \in {"open", "misused"}
              ELSE images'[h] = images[h] /\ images[h].state # "open"
<1>1. Serving(requests, images) /\ OneEach(requests) /\ OpenServed(requests, images)
  BY DEF Close, Handles, InPass
<1>2. /\ requests' = [i \in DOMAIN requests |-> Released(requests[i])]
      /\ images' = [h \in DOMAIN images |->
                      CASE Closing(h) = {} -> images[h]
                        [] \E i \in DOMAIN requests : Closing(h) = {i} -> Closed(images[h])
                        [] OTHER -> [images[h] EXCEPT !.state = "misused"]]
  BY DEF Close, CloseDisplays
<1>3. \A h : Closing(h) = {i \in DOMAIN requests : Bound(requests[i]) /\ requests[i].handle = h}
  BY DEF Closing, Bound
<1>4. ASSUME NEW h \in DOMAIN images, NEW i \in DOMAIN requests, Bound(requests[i]), requests[i].handle = h
      PROVE  images'[h] = Closed(images[h]) /\ images[h].state \in {"open", "misused"}
  <2>1. Closing(h) = {i}
    BY <1>1, <1>3, <1>4 DEF OneEach
  <2>2. Closing(h) # {} /\ \E k \in DOMAIN requests : Closing(h) = {k}
    BY <2>1
  <2>. HIDE DEF Closing
  <2>3. images'[h] = Closed(images[h])
    BY <1>2, <2>2
  <2>. QED  BY <1>1, <1>4, <2>3 DEF Serving
<1>5. ASSUME NEW h \in DOMAIN images,
             ~\E i \in DOMAIN requests : Bound(requests[i]) /\ requests[i].handle = h
      PROVE  images'[h] = images[h] /\ images[h].state # "open"
  <2>1. Closing(h) = {}
    BY <1>3, <1>5
  <2>2. images'[h] = images[h]
    BY <1>2, <2>1
  <2>. QED  BY <1>1, <1>5, <2>2 DEF OpenServed
<1>6. images' = [h \in DOMAIN images |-> images'[h]]
  BY <1>2
<1>7. requests' = [i \in DOMAIN requests |-> Released(requests[i])]
  BY <1>2
<1>. QED  BY <1>4, <1>5, <1>6, <1>7
(**************************** the invariant ********************************)

\* Requests nothing is open for.
Quiet(q) == RequestsTyped(q) /\ NoneBound(q) /\ AllUnused(q)

LEMMA NewQuiet ==
  ASSUME NEW d \in Drivers
  PROVE  /\ Quiet(<<NewRequest(d)>>) /\ Quiet(NoDisplays)
         /\ \A q : Quiet(q) => Quiet(Append(q, NewRequest(d)))
<1>. DEFINE e == NewRequest(d)
<1>1. IsRequest(e) /\ ~Bound(e) /\ Unused(e)
  BY NewRequestTyped
<1>. HIDE DEF e
<1>2. Quiet(<<e>>)
  <2>. DEFINE q == <<e>>
  <2>1. q \in Seq({e}) /\ DOMAIN q = {1} /\ q[1] = e
    OBVIOUS
  <2>. HIDE DEF q
  <2>2. IsList(q)
    BY <2>1, ListOf
  <2>3. Quiet(q)
    BY <1>1, <2>1, <2>2 DEF Quiet, RequestsTyped, NoneBound, AllUnused
  <2>. QED  BY <2>3 DEF q
<1>3. Quiet(NoDisplays)
  <2>. DEFINE q == <<>>
  <2>1. q \in Seq({e}) /\ DOMAIN q = {}
    OBVIOUS
  <2>2. NoDisplays = q
    BY DEF NoDisplays
  <2>. HIDE DEF q
  <2>3. IsList(q)
    BY <2>1, ListOf
  <2>. QED  BY <2>1, <2>2, <2>3 DEF Quiet, RequestsTyped, NoneBound, AllUnused
<1>4. ASSUME NEW q, Quiet(q)  PROVE Quiet(Append(q, e))
  <2>1. /\ IsList(Append(q, e)) /\ DOMAIN Append(q, e) = DOMAIN q \cup {Len(q) + 1}
        /\ Append(q, e)[Len(q) + 1] = e
        /\ \A i \in DOMAIN q : Append(q, e)[i] = q[i]
    <3>1. Len(q) \in Nat /\ DOMAIN q = 1 .. Len(q)
      BY <1>4, ListLength DEF Quiet, RequestsTyped
    <3>2. 1 .. Len(q) + 1 = (1 .. Len(q)) \cup {Len(q) + 1}
      BY <3>1
    <3>. QED  BY <1>4, <3>1, <3>2, ListLonger DEF Quiet, RequestsTyped
  <2>. QED  BY <1>1, <1>4, <2>1 DEF Quiet, RequestsTyped, NoneBound, AllUnused
<1>. QED  BY <1>2, <1>3, <1>4 DEF e

(* Between passes.                                                             *)
LEMMA OffStep ==
  ASSUME DisplayInv, task.stage \notin InPass \cup {"crashed"},
         task'.stage \notin {"render", "close", "crashed"}, task'.stage = "open" => task'.display = 1,
         IsWindow(window)', Quiet(requests) => Quiet(requests)', Quiet(main) /\ Quiet(requests) => Quiet(main)',
         images' = images \/ images' = <<>>
  PROVE  DisplayInv' /\ Quiet(requests)
<1>1. Quiet(requests) /\ Quiet(main) /\ NoneOpen(images) /\ NoneRefused(images) /\ ImagesTyped(images)
  BY DEF DisplayInv, DisplaysTyped, Handles, Rooms, Quiet, InPass
<1>2. Quiet(requests)' /\ Quiet(main)'
  BY <1>1
<1>3. /\ NoneOpen(images)' /\ NoneRefused(images)' /\ ImagesTyped(images)'
      /\ \A h \in DOMAIN images' : Ordinary(images'[h]) => images'[h].state # "misused"
  <2>1. CASE images' = images
    BY <1>1, <2>1 DEF DisplayInv, Handles, NoneOpen, NoneRefused, Ordinary
  <2>2. CASE images' = <<>>
    <3>. DEFINE q == <<>>
    <3>1. q \in Seq({}) /\ DOMAIN q = {}
      OBVIOUS
    <3>2. images' = q
      BY <2>2
    <3>. HIDE DEF q
    <3>3. IsList(q)
      BY <3>1, ListOf
    <3>. QED  BY <3>1, <3>2, <3>3 DEF NoneOpen, NoneRefused, ImagesTyped
  <2>. QED  BY <2>1, <2>2
<1>4. DisplaysTyped'
  BY <1>2, <1>3 DEF DisplaysTyped, Quiet
<1>5. Handles'
  BY <1>2, <1>3 DEF Handles, Quiet, NoneBound, NoneOpen, NoneRefused, InPass, Serving, OneEach, OpenServed
<1>6. Rooms'
  BY <1>2 DEF Rooms, Quiet
<1>. QED  BY <1>1, <1>4, <1>5, <1>6 DEF DisplayInv

LEMMA DisplayInit == Init => DisplayInv
<1>. SUFFICES ASSUME Init  PROVE DisplayInv
  OBVIOUS
<1>1. Quiet(requests) /\ Quiet(main)
  BY NewQuiet, SessionConstants DEF Init, NoDisplays
<1>2. IsWindow(window)
  BY KeepInit, CurrentIsTop, StackShape, WindowShape DEF Init, KeepInv, WellTyped
<1>3. ImagesTyped(images) /\ DOMAIN images = {}
  <2>. DEFINE q == <<>>
  <2>1. q \in Seq({}) /\ DOMAIN q = {}
    OBVIOUS
  <2>2. images = q
    BY DEF Init
  <2>. HIDE DEF q
  <2>3. IsList(q)
    BY <2>1, ListOf
  <2>. QED  BY <2>1, <2>2, <2>3 DEF ImagesTyped
<1>4. task.stage = "idle"
  BY DEF Init, Idle
<1>. QED  BY <1>1, <1>2, <1>3, <1>4 DEF DisplayInv, DisplaysTyped, Handles, Rooms, Quiet, NoneOpen, NoneRefused, InPass

LEMMA OpenKeeps ==
  ASSUME TaskShape, DisplayInv, OpenDisplay
  PROVE  DisplayInv'
<1>. DEFINE k == task.display
<1>1. /\ task.stage = "open" /\ task'.stage = "open" /\ task'.display = k + 1 /\ k \in Nat \ {0}
      /\ window' = window /\ main' = main
  BY DEF OpenDisplay, Loading, TaskShape, DisplayInv, DisplaysTyped
<1>2. /\ RequestsTyped(requests) /\ ImagesTyped(images) /\ AllUnused(requests)
      /\ Serving(requests, images) /\ OneEach(requests) /\ OpenServed(requests, images)
      /\ NoneRefused(images)
      /\ \A i \in DOMAIN requests : Bound(requests[i]) => i < k
      /\ \A h \in DOMAIN images : Ordinary(images[h]) => images[h].state # "misused"
  BY <1>1 DEF DisplayInv, DisplaysTyped, Handles, Rooms, InPass
<1>3. k \in DOMAIN requests /\ ~Bound(requests[k])
  BY <1>1, <1>2 DEF OpenDisplay, Loading
<1>4. PICK e : /\ IsRequest(e) /\ Unused(e) /\ requests' = [requests EXCEPT ![task.display] = e]
               /\ \/ ~Bound(e) /\ images' = images
                  \/ \E m : /\ IsImage(m) /\ images' = Append(images, m)
                            /\ \/ ~Bound(e) /\ m.state = "abandoned"
                               \/ /\ Bound(e) /\ m.state = "open" /\ e.handle = Len(images) + 1
                                  /\ Serves(e, m)
  BY <1>1, <1>2, <1>3, OpenStep DEF DisplayInv
<1>5. /\ RequestsTyped(requests') /\ DOMAIN requests' = DOMAIN requests /\ requests'[k] = e
      /\ \A i \in DOMAIN requests : i # k => requests'[i] = requests[i]
  BY <1>2, <1>3, <1>4, OneReplaced
<1>6. AllUnused(requests') /\ \A i \in DOMAIN requests' : Bound(requests'[i]) => i < k + 1
  <2>1. \A i \in DOMAIN requests : i \in Int
    BY <1>2, ListLength DEF RequestsTyped
  <2>. QED  BY <1>1, <1>2, <1>4, <1>5, <2>1 DEF AllUnused
<1>. DEFINE Goal == /\ ImagesTyped(images') /\ Serving(requests', images') /\ OneEach(requests')
                    /\ OpenServed(requests', images') /\ NoneRefused(images')
                    /\ \A h \in DOMAIN images' : Ordinary(images'[h]) => images'[h].state # "misused"
<1>7. ASSUME ~Bound(e), images' = images
      PROVE  Goal
  BY <1>2, <1>3, <1>5, <1>7 DEF Serving, OneEach, OpenServed, NoneRefused
<1>8. ASSUME NEW m, IsImage(m), images' = Append(images, m), ~Bound(e), m.state = "abandoned"
      PROVE  Goal
  <2>1. /\ ImagesTyped(images') /\ DOMAIN images' = DOMAIN images \cup {Len(images) + 1}
        /\ images'[Len(images) + 1] = m /\ \A h \in DOMAIN images : images'[h] = images[h]
    BY <1>2, <1>8, OneImageMore
  <2>. QED  BY <1>2, <1>3, <1>5, <1>8, <2>1 DEF Serving, OneEach, OpenServed, NoneRefused
<1>9. ASSUME NEW m, IsImage(m), images' = Append(images, m), Bound(e), m.state = "open",
             e.handle = Len(images) + 1, Serves(e, m)
      PROVE  Goal
  <2>1. /\ ImagesTyped(images') /\ DOMAIN images' = DOMAIN images \cup {Len(images) + 1}
        /\ Len(images) + 1 \notin DOMAIN images
        /\ images'[Len(images) + 1] = m /\ \A h \in DOMAIN images : images'[h] = images[h]
    BY <1>2, <1>9, OneImageMore
  <2>2. Serving(requests', images')
    BY <1>2, <1>3, <1>5, <1>9, <2>1 DEF Serving
  <2>3. OneEach(requests')
    BY <1>2, <1>3, <1>5, <1>9, <2>1 DEF OneEach, Serving
  <2>4. OpenServed(requests', images')
    BY <1>2, <1>3, <1>5, <1>9, <2>1 DEF OpenServed
  <2>5. \A h \in DOMAIN images' : Ordinary(images'[h]) => images'[h].state # "misused"
    BY <1>2, <1>9, <2>1
  <2>6. NoneRefused(images')
    BY <1>2, <1>9, <2>1 DEF NoneRefused
  <2>. QED  BY <2>1, <2>2, <2>3, <2>4, <2>5, <2>6
<1>10. Goal
  <2>. HIDE DEF Goal
  <2>. QED  BY <1>4, <1>7, <1>8, <1>9
<1>11. Serving(requests, images)'
  BY <1>1, <1>10 DEF Serving, Serves
<1>12. DisplaysTyped'
  BY <1>1, <1>5, <1>10 DEF DisplayInv, DisplaysTyped
<1>13. Handles'
  BY <1>1, <1>6, <1>10, <1>11 DEF DisplayInv, Handles, NoneBound, NoneRefused, OneEach, OpenServed, InPass, Ordinary
<1>14. Rooms'
  BY <1>1, <1>6 DEF DisplayInv, Rooms, AllUnused
<1>. QED  BY <1>12, <1>13, <1>14 DEF DisplayInv
(* The walk over the buckets.                                                  *)
LEMMA CellShape ==
  ASSUME NEW r \in Regions, NEW c
  PROVE  c \in BucketsIn(r) <=> /\ c = [x |-> c.x, y |-> c.y] /\ c.x \in Int /\ c.y \in Int
                                /\ r.xMin <= c.x /\ c.x < r.xMax /\ r.yMin <= c.y /\ c.y < r.yMax
BY DEF Regions, BucketsIn

LEMMA Walk ==
  ASSUME NEW r \in Regions, NonEmpty(r)
  PROVE  /\ FirstCell(r) \in BucketsIn(r) /\ \A a \in BucketsIn(r) : ~Before(a, FirstCell(r))
         /\ \A c \in BucketsIn(r) :
              /\ HasNext(r, c) => NextCell(r, c) \in BucketsIn(r) /\ NextCell(r, c) # FirstCell(r)
              /\ \A a \in BucketsIn(r) : /\ Before(a, NextCell(r, c)) <=> a = c \/ Before(a, c)
                                         /\ ~HasNext(r, c) => a = c \/ Before(a, c)
<1>. USE DEF Regions
<1>1. FirstCell(r) \in BucketsIn(r)
  BY DEF FirstCell, BucketsIn, NonEmpty
<1>2. \A a \in BucketsIn(r) : ~Before(a, FirstCell(r))
  BY CellShape DEF FirstCell, Before
<1>3. ASSUME NEW c \in BucketsIn(r), NEW a \in BucketsIn(r)
      PROVE  /\ Before(a, NextCell(r, c)) <=> a = c \/ Before(a, c)
             /\ ~HasNext(r, c) => a = c \/ Before(a, c)
  <2>1. a = c <=> a.x = c.x /\ a.y = c.y
    BY CellShape
  <2>. QED  BY <2>1, CellShape DEF NextCell, HasNext, Before
<1>4. ASSUME NEW c \in BucketsIn(r), HasNext(r, c)  PROVE NextCell(r, c) \in BucketsIn(r)
  BY <1>4, CellShape DEF HasNext, NextCell, BucketsIn, NonEmpty
<1>5. ASSUME NEW c \in BucketsIn(r)  PROVE NextCell(r, c) # FirstCell(r)
  BY <1>2, <1>3
<1>. QED  BY <1>1, <1>2, <1>3, <1>4, <1>5

(* Where SendBucket leaves the task.                                           *)
LEMMA SendTask ==
  ASSUME TaskShape, DisplaysTyped, SendBucket
  PROVE  /\ UNCHANGED <<window, main>>
         /\ \/ /\ task'.stage = "render" /\ HasNext(BucketRegion(window), task.cell)
               /\ task'.cell = NextCell(BucketRegion(window), task.cell)
               /\ task'.cell \in BucketsIn(BucketRegion(window)) /\ task'.cell # FirstCell(BucketRegion(window))
            \/ task'.stage = "close" /\ ~HasNext(BucketRegion(window), task.cell)
<1>1. /\ task.stage = "render" /\ task.cell \in BucketsIn(BucketRegion(window))
      /\ BucketRegion(window) \in Regions /\ NonEmpty(BucketRegion(window))
  BY WindowAxes DEF SendBucket, DisplaysTyped
<1>. DEFINE c == task.cell
            r == BucketRegion(window)
<1>2. CASE HasNext(r, c)
  <2>1. task' = [task EXCEPT !.cell = NextCell(r, task.cell)]
    BY <1>2 DEF SendBucket
  <2>2. task'.stage = "render" /\ task'.cell = NextCell(r, c)
    BY <1>1, <2>1 DEF TaskShape
  <2>3. NextCell(r, c) \in BucketsIn(r) /\ NextCell(r, c) # FirstCell(r)
    BY <1>1, <1>2, Walk
  <2>. QED  BY <1>2, <2>2, <2>3 DEF SendBucket
<1>3. CASE ~HasNext(r, c)
  BY <1>3 DEF SendBucket, TaskShape
<1>. QED  BY <1>2, <1>3

LEMMA SendKeeps ==
  ASSUME TaskShape, DisplayInv, SendBucket
  PROVE  /\ DisplayInv'
         /\ \A i \in DOMAIN requests' : requests'[i].room \in {0, FirstArea}
<1>. DEFINE c == task.cell
            g == DisplayRegion(window, c)
<1>0. DisplaysTyped /\ Handles /\ Rooms /\ IsWindow(window)
  BY DEF DisplayInv, DisplaysTyped
<1>1. /\ task.stage = "render" /\ c \in BucketsIn(BucketRegion(window))
      /\ requests' = [i \in DOMAIN requests |-> Formatted(requests[i], g)]
      /\ images' = [h \in DOMAIN images |-> images'[h]]
      /\ \A h \in DOMAIN images :
           (\A i \in DOMAIN requests : ~(Bound(requests[i]) /\ requests[i].handle = h)) => images'[h] = images[h]
      /\ \A i \in DOMAIN requests : Bound(requests[i]) =>
           images'[requests[i].handle] = Sent(Formatted(requests[i], g), g, images[requests[i].handle])
  BY <1>0, SendStep
<1>2. g \in Regions /\ Area(g) \in Nat \ {0} /\ FirstArea \in Nat \ {0}
  <2>1. FirstCell(BucketRegion(window)) \in BucketsIn(BucketRegion(window))
    BY <1>0, WindowAxes, Walk
  <2>. QED  BY <1>0, <1>1, <2>1, CellFacts DEF FirstArea
<1>3. /\ UNCHANGED <<window, main>>
      /\ \/ /\ task'.stage = "render"
            /\ task'.cell \in BucketsIn(BucketRegion(window)) /\ task'.cell # FirstCell(BucketRegion(window))
         \/ task'.stage = "close"
  BY <1>0, SendTask
<1>4. /\ RequestsTyped(requests) /\ ImagesTyped(images)
      /\ Serving(requests, images) /\ OneEach(requests) /\ OpenServed(requests, images)
      /\ NoneRefused(images)
      /\ \A h \in DOMAIN images : Ordinary(images[h]) => images[h].state # "misused"
  BY <1>0, <1>1 DEF DisplaysTyped, Handles, InPass
<1>. HIDE DEF g
<1>5. ASSUME NEW i \in DOMAIN requests
      PROVE  LET r == requests[i]
                 f == requests'[i]
             IN  /\ f = Formatted(r, g) /\ IsRequest(f) /\ SameRequest(r, f)
                 /\ ~Live(r) => f = r
                 /\ Live(r) => f.room = IF r.room = 0 THEN Area(g) ELSE r.room
                 /\ Bound(f) <=> Bound(r)
                 /\ Live(f) <=> Live(r)
  <2>1. IsRequest(requests[i]) /\ requests'[i] = Formatted(requests[i], g)
    BY <1>1, <1>4 DEF RequestsTyped
  <2>. QED  BY <1>2, <2>1, FormattedFacts DEF SameRequest, Bound, Live
<1>6. ASSUME NEW i \in DOMAIN requests, Bound(requests[i])
      PROVE  LET m == images[requests[i].handle]
                 n == images'[requests[i].handle]
             IN  /\ requests[i].handle \in DOMAIN images
                 /\ IsImage(n) /\ SameImage(m, n) /\ n.state \in {"open", "misused"}
                 /\ n.state = "open" => m.state = "open"
                 /\ Ordinary(m) /\ m.state = "open" => n.state = "open"
  <2>. DEFINE r == requests[i]
              m == images[r.handle]
  <2>1. r.handle \in DOMAIN images /\ Serves(r, m) /\ m.state \in {"open", "misused"}
    BY <1>4, <1>6 DEF Serving
  <2>2. IsRequest(r) /\ IsImage(m) /\ images'[r.handle] = Sent(Formatted(r, g), g, m)
    BY <1>1, <1>4, <1>6, <2>1 DEF RequestsTyped, ImagesTyped
  <2>. HIDE DEF r, m
  <2>3. LET n == Sent(Formatted(r, g), g, m)
        IN  /\ IsImage(n) /\ SameImage(m, n) /\ n.state \in {"open", "misused"}
            /\ n.state = "open" => m.state = "open"
            /\ Ordinary(m) /\ m.state = "open" => n.state = "open"
    BY <1>0, <1>1, <2>1, <2>2, SentFacts DEF g
  <2>. QED  BY <2>1, <2>2, <2>3 DEF r, m
<1>7. RequestsTyped(requests') /\ DOMAIN requests' = DOMAIN requests
  BY <1>1, <1>4, <1>5, ListReplaced DEF RequestsTyped
<1>8. \A h \in DOMAIN images : IsImage(images'[h]) /\ SameImage(images[h], images'[h])
                               /\ (images'[h].state = "open" => images[h].state = "open")
                               /\ images'[h].state # "refused"
                               /\ (Ordinary(images'[h]) => images'[h].state # "misused")
  <2>. SUFFICES ASSUME NEW h \in DOMAIN images
                PROVE  IsImage(images'[h]) /\ SameImage(images[h], images'[h])
                       /\ (images'[h].state = "open" => images[h].state = "open")
                       /\ images'[h].state # "refused"
                       /\ (Ordinary(images'[h]) => images'[h].state # "misused")
    OBVIOUS
  <2>1. CASE \A i \in DOMAIN requests : ~(Bound(requests[i]) /\ requests[i].handle = h)
    BY <1>1, <1>4, <2>1 DEF ImagesTyped, NoneRefused, SameImage
  <2>2. ASSUME NEW i \in DOMAIN requests, Bound(requests[i]), requests[i].handle = h
        PROVE  IsImage(images'[h]) /\ SameImage(images[h], images'[h])
               /\ (images'[h].state = "open" => images[h].state = "open")
               /\ images'[h].state # "refused"
               /\ (Ordinary(images'[h]) => images'[h].state # "misused")
    <3>1. /\ IsImage(images'[h]) /\ SameImage(images[h], images'[h])
          /\ images'[h].state \in {"open", "misused"}
          /\ images'[h].state = "open" => images[h].state = "open"
          /\ Ordinary(images[h]) /\ images[h].state = "open" => images'[h].state = "open"
      BY <1>6, <2>2
    <3>2. images[h].state \in {"open", "misused"} /\ (Ordinary(images[h]) => images[h].state # "misused")
      BY <1>4, <2>2 DEF Serving
    <3>3. Ordinary(images'[h]) => Ordinary(images[h])
      BY <3>1, Zenon DEF Ordinary, SameImage
    <3>. QED  BY <3>1, <3>2, <3>3
  <2>. QED  BY <2>1, <2>2
<1>9. ImagesTyped(images') /\ DOMAIN images' = DOMAIN images
  BY <1>1, <1>4, <1>8, ImagesReplaced
<1>10. Serving(requests', images')
  <2>. SUFFICES ASSUME NEW i \in DOMAIN requests, Bound(requests[i])
                PROVE  /\ requests'[i].handle \in DOMAIN images
                       /\ Serves(requests'[i], images'[requests'[i].handle])
                       /\ images'[requests'[i].handle].state \in {"open", "misused"}
    BY <1>5, <1>7, <1>9 DEF Serving
  <2>. DEFINE r == requests[i]
              f == requests'[i]
              m == images[r.handle]
              n == images'[r.handle]
  <2>1. /\ Live(f) <=> Live(r)
        /\ f.handle = r.handle /\ f.driver = r.driver /\ f.wide = r.wide /\ f.high = r.high
    BY <1>5 DEF SameRequest
  <2>2. r.handle \in DOMAIN images /\ SameImage(m, n) /\ n.state \in {"open", "misused"}
    BY <1>6
  <2>3. Serves(r, m)
    BY <1>4 DEF Serving
  <2>. HIDE DEF r, f, m, n
  <2>4. Serves(f, n)
    BY <2>1, <2>2, <2>3 DEF Serves, SameImage
  <2>. QED  BY <2>1, <2>2, <2>4 DEF r, f, n
<1>11. OneEach(requests') /\ OpenServed(requests', images')
  <2>1. \A i \in DOMAIN requests : /\ Bound(requests'[i]) <=> Bound(requests[i])
                                   /\ requests'[i].handle = requests[i].handle
    BY <1>5 DEF SameRequest
  <2>. QED  BY <1>4, <1>7, <1>8, <1>9, <2>1 DEF OneEach, OpenServed
<1>12. \A i \in DOMAIN requests' : requests'[i].room = IF Live(requests'[i]) THEN FirstArea ELSE 0
  <2>. SUFFICES ASSUME NEW i \in DOMAIN requests
                PROVE  requests'[i].room = IF Live(requests'[i]) THEN FirstArea ELSE 0
    BY <1>7
  <2>1. CASE c = FirstCell(BucketRegion(window))
    BY <1>0, <1>1, <1>2, <1>5, <2>1 DEF Rooms, AllUnused, Unused, g, FirstArea
  <2>2. CASE c # FirstCell(BucketRegion(window))
    <3>1. requests[i].room = IF Live(requests[i]) THEN FirstArea ELSE 0
      BY <1>0, <1>1, <2>2 DEF Rooms
    <3>. QED  BY <1>2, <1>5, <3>1
  <2>. QED  BY <2>1, <2>2
<1>13. DisplaysTyped'
  BY <1>0, <1>3, <1>7, <1>9 DEF DisplaysTyped
<1>14. Serving(requests, images)'
  BY <1>3, <1>10 DEF Serving, Serves
<1>15. Handles'
  BY <1>0, <1>3, <1>8, <1>9, <1>11, <1>14 DEF Handles, NoneBound, NoneRefused, OneEach, OpenServed, InPass, Ordinary
<1>16. Rooms'
  BY <1>0, <1>3, <1>12 DEF Rooms, AllUnused, FirstArea
<1>. QED  BY <1>12, <1>13, <1>15, <1>16 DEF DisplayInv
LEMMA CloseKeeps ==
  ASSUME TaskShape, DisplayInv, Close
  PROVE  DisplayInv'
<1>0. /\ DisplaysTyped /\ Handles /\ Rooms
      /\ task'.stage = "finish" /\ UNCHANGED <<window, main>>
  BY DEF DisplayInv, Close, TaskShape
<1>1. /\ RequestsTyped(requests) /\ ImagesTyped(images) /\ NoneRefused(images)
      /\ \A h \in DOMAIN images : Ordinary(images[h]) => images[h].state # "misused"
  BY <1>0 DEF DisplaysTyped, Handles
<1>2. /\ requests' = [i \in DOMAIN requests |-> Released(requests[i])]
      /\ images' = [h \in DOMAIN images |-> images'[h]]
      /\ \A h \in DOMAIN images :
           IF \E i \in DOMAIN requests : Bound(requests[i]) /\ requests[i].handle = h
           THEN images'[h] = Closed(images[h]) /\ images[h].state \in {"open", "misused"}
           ELSE images'[h] = images[h] /\ images[h].state # "open"
  BY <1>0, CloseStep
<1>3. \A i \in DOMAIN requests : IsRequest(requests'[i]) /\ ~Bound(requests'[i]) /\ Unused(requests'[i])
  BY <1>1, <1>2, ReleasedTyped DEF RequestsTyped
<1>4. \A h \in DOMAIN images : /\ IsImage(images'[h]) /\ images'[h].state \notin {"open", "refused"}
                               /\ Ordinary(images'[h]) => images'[h].state # "misused"
  <2>. SUFFICES ASSUME NEW h \in DOMAIN images
                PROVE  /\ IsImage(images'[h]) /\ images'[h].state \notin {"open", "refused"}
                       /\ Ordinary(images'[h]) => images'[h].state # "misused"
    OBVIOUS
  <2>1. CASE images'[h] = images[h] /\ images[h].state # "open"
    BY <1>1, <2>1 DEF ImagesTyped, NoneRefused
  <2>2. CASE images'[h] = Closed(images[h]) /\ images[h].state \in {"open", "misused"}
    <3>1. /\ IsImage(images'[h]) /\ SameImage(images[h], images'[h])
          /\ images'[h].state \notin {"open", "refused"}
          /\ images[h].state = "open" => images'[h].state = "closed"
      BY <1>1, <2>2, ClosedFacts DEF ImagesTyped
    <3>2. Ordinary(images'[h]) => Ordinary(images[h])
      BY <3>1, Zenon DEF Ordinary, SameImage
    <3>. QED  BY <1>1, <2>2, <3>1, <3>2
  <2>. QED  BY <1>2, <2>1, <2>2
<1>5. RequestsTyped(requests') /\ DOMAIN requests' = DOMAIN requests
  BY <1>1, <1>2, <1>3, ListReplaced DEF RequestsTyped
<1>6. ImagesTyped(images') /\ DOMAIN images' = DOMAIN images
  BY <1>1, <1>2, <1>4, ImagesReplaced
<1>7. DisplaysTyped'
  BY <1>0, <1>5, <1>6 DEF DisplaysTyped
<1>8. Handles'
  BY <1>0, <1>3, <1>4, <1>5, <1>6 DEF Handles, NoneBound, NoneOpen, NoneRefused, InPass, Ordinary
<1>9. Rooms'
  BY <1>0, <1>3, <1>5 DEF Rooms, AllUnused
<1>. QED  BY <1>7, <1>8, <1>9 DEF DisplayInv

(* No library for the first display: nothing had been opened.                  *)
LEMMA FailKeeps ==
  ASSUME TaskShape, DisplayInv, OpenFails
  PROVE  DisplayInv'
<1>. DEFINE e == Sized(requests[1], window.crop)
<1>1. /\ task.stage = "open" /\ task.display = 1 /\ 1 \in DOMAIN requests /\ task'.stage = "idle"
      /\ UNCHANGED <<window, images>> /\ main' = <<>>
      /\ requests' = [requests EXCEPT ![1] = e]
  BY DEF OpenFails, Loading, DriverThrows, Idle
<1>2. /\ RequestsTyped(requests) /\ AllUnused(requests) /\ ImagesTyped(images) /\ IsWindow(window)
      /\ OpenServed(requests, images)
      /\ \A h \in DOMAIN images : Ordinary(images[h]) => images[h].state # "misused"
  BY <1>1 DEF DisplayInv, DisplaysTyped, Handles, Rooms, InPass
<1>3. NoneBound(requests)
  <2>1. \A i \in DOMAIN requests : i \in Nat \ {0} /\ (Bound(requests[i]) => i < 1)
    BY <1>1, <1>2, ListLength DEF DisplayInv, Handles, RequestsTyped
  <2>. QED  BY <2>1 DEF NoneBound
<1>4. NoneOpen(images)
  BY <1>2, <1>3 DEF NoneOpen, OpenServed, NoneBound
<1>5. IsRequest(e) /\ ~Bound(e) /\ Unused(e)
  BY <1>1, <1>2, <1>3, SizedTyped DEF RequestsTyped, NoneBound, AllUnused, IsWindow
<1>. HIDE DEF e
<1>6. /\ RequestsTyped(requests') /\ DOMAIN requests' = DOMAIN requests /\ requests'[1] = e
      /\ \A i \in DOMAIN requests : i # 1 => requests'[i] = requests[i]
  BY <1>1, <1>2, <1>5, OneReplaced
<1>7. Quiet(requests')
  BY <1>2, <1>3, <1>5, <1>6 DEF Quiet, NoneBound, AllUnused
<1>8. Quiet(main')
  BY <1>1, NewQuiet, SessionConstants DEF NoDisplays
<1>9. DisplaysTyped'
  BY <1>1, <1>2, <1>7, <1>8 DEF DisplaysTyped, Quiet
<1>10. Handles'
  BY <1>1, <1>2, <1>4, <1>7, <1>8 DEF DisplayInv, Handles, Quiet, NoneBound, NoneOpen, NoneRefused, InPass
<1>11. Rooms'
  BY <1>1, <1>7, <1>8 DEF Rooms, Quiet
<1>. QED  BY <1>9, <1>10, <1>11 DEF DisplayInv

(* The steps that are taken between passes.                                    *)
LEMMA QuietStep ==
  ASSUME KeepInv, DisplayInv,
         FrameBegin \/ FrameEnd \/ WorldBegin \/ WorldEnd \/ Primitive \/ Settings \/ StartShadow
           \/ StartImage \/ Prepare \/ ShadowDone \/ WorldEndReturns
  PROVE  DisplayInv'
<1>0. TaskShape /\ IsWindow(window) /\ IsWindow(Window(current))
  BY StackShape, CurrentIsTop, WindowShape DEF KeepInv, ScopeInv, WellTyped, DisplayInv, DisplaysTyped
<1>. USE DEF idle, InPass
<1>1. CASE FrameBegin \/ WorldEnd \/ Primitive
  <2>1. /\ task.stage = "idle" /\ task'.stage \in {"idle", "shadows"}
        /\ UNCHANGED <<requests, main, images, window>>
    BY <1>0, <1>1, TaskSteps DEF FrameBegin, WorldEnd, Primitive
  <2>. QED  BY <1>0, <2>1, OffStep
<1>2. CASE FrameEnd
  <2>1. /\ task.stage = "idle" /\ task'.stage = "idle" /\ requests' = NoDisplays
        /\ UNCHANGED <<main, images, window>>
    BY <1>2 DEF FrameEnd
  <2>2. Quiet(requests)'
    BY <2>1, NewQuiet, SessionConstants
  <2>. QED  BY <1>0, <2>1, <2>2, OffStep
<1>3. CASE WorldBegin
  <2>1. /\ task.stage = "idle" /\ task'.stage = "idle" /\ window' = Window(current)
        /\ UNCHANGED <<requests, main, images>>
    BY <1>3 DEF WorldBegin
  <2>. QED  BY <1>0, <2>1, OffStep
<1>4. ASSUME NEW d \in Drivers, NEW add, Display(d, add)  PROVE DisplayInv'
  <2>1. /\ task.stage = "idle" /\ task'.stage = "idle" /\ UNCHANGED <<main, images, window>>
        /\ requests' = Append(requests, NewRequest(d)) \/ requests' = <<NewRequest(d)>>
    BY <1>4 DEF Display, Setting, AddDisplay
  <2>2. Quiet(requests) => Quiet(requests)'
    BY <2>1, NewQuiet
  <2>. QED  BY <1>0, <2>1, <2>2, OffStep
<1>5. ASSUME NEW b, Multipass(b) \/ CropWindow(b) \/ LightSource(b)  PROVE DisplayInv'
  <2>1. /\ task.stage = "idle" /\ task'.stage = "idle"
        /\ UNCHANGED <<requests, main, images, window>>
    BY <1>5 DEF Multipass, CropWindow, LightSource, Setting
  <2>. QED  BY <1>0, <2>1, OffStep
<1>6. CASE StartShadow
  <2>1. /\ task.stage = "shadows" /\ task'.stage = "prepare" /\ UNCHANGED <<images, window>>
        /\ main' = requests /\ requests' = <<NewRequest(ShadowDriver)>>
    BY <1>0, <1>6, TaskSteps DEF StartShadow
  <2>2. Quiet(requests)'
    BY <2>1, NewQuiet, SessionConstants
  <2>. QED  BY <1>0, <2>1, <2>2, OffStep
<1>7. CASE StartImage
  <2>1. /\ task.stage = "shadows" /\ task'.stage = "prepare" /\ UNCHANGED <<requests, main, images, window>>
    BY <1>0, <1>7, TaskSteps DEF StartImage
  <2>. QED  BY <1>0, <2>1, OffStep
<1>8. CASE Prepare
  <2>1. /\ task.stage = "prepare" /\ task'.stage = "open" /\ task'.display = 1
        /\ UNCHANGED <<requests, main, images>> /\ window' = Window(current)
    BY <1>0, <1>8, TaskSteps DEF Prepare
  <2>. QED  BY <1>0, <2>1, OffStep
<1>9. CASE ShadowDone
  <2>1. /\ task.stage = "finish" /\ task'.stage = "shadows" /\ UNCHANGED <<images, window>>
        /\ requests' = main /\ main' = <<>>
    BY <1>0, <1>9, TaskSteps DEF ShadowDone
  <2>2. Quiet(main) /\ Quiet(main)'
    BY <2>1, NewQuiet, SessionConstants DEF NoDisplays, DisplayInv, DisplaysTyped, Handles, Rooms, Quiet
  <2>3. Quiet(requests)'
    BY <2>1, <2>2
  <2>. QED  BY <1>0, <2>1, <2>2, <2>3, OffStep
<1>10. CASE WorldEndReturns
  <2>1. /\ task.stage = "finish" /\ task'.stage = "idle" /\ UNCHANGED <<requests, main, window>>
        /\ images' = <<>>
    BY <1>0, <1>10, TaskSteps DEF WorldEndReturns
  <2>. QED  BY <1>0, <2>1, OffStep
<1>11. CASE Settings
  BY <1>4, <1>5, <1>11 DEF Settings
<1>. QED  BY <1>1, <1>2, <1>3, <1>6, <1>7, <1>8, <1>9, <1>10, <1>11

LEMMA DisplayStep == KeepInv /\ DisplayInv /\ [Next]_vars => DisplayInv'
<1>. SUFFICES ASSUME KeepInv, DisplayInv, [Next]_vars  PROVE DisplayInv'
  OBVIOUS
<1>0. TaskShape
  BY DEF KeepInv, ScopeInv
<1>1. CASE RenderImage
  <2>1. /\ task.stage = "open" /\ task'.stage = "render" /\ task'.cell = FirstCell(BucketRegion(window))
        /\ UNCHANGED <<requests, main, images, window>>
    BY <1>0, <1>1 DEF RenderImage, TaskShape
  <2>2. FirstCell(BucketRegion(window)) \in BucketsIn(BucketRegion(window))
    BY WindowAxes, Walk DEF DisplayInv, DisplaysTyped
  <2>3. DisplaysTyped'
    BY <2>1, <2>2 DEF DisplayInv, DisplaysTyped
  <2>4. Handles'
    BY <2>1 DEF DisplayInv, Handles, InPass, NoneBound, NoneOpen, NoneRefused, Serving, Serves, OneEach, OpenServed, Ordinary
  <2>5. Rooms'
    BY <2>1 DEF DisplayInv, Rooms, AllUnused
  <2>. QED  BY <2>3, <2>4, <2>5 DEF DisplayInv
<1>2. CASE Crash
  <2>1. task'.stage = "crashed" /\ UNCHANGED <<requests, main, images, window>>
    BY <1>2 DEF Crash, Loading, TaskShape
  <2>2. DisplaysTyped'
    BY <2>1 DEF DisplayInv, DisplaysTyped
  <2>3. Handles'
    BY <2>1 DEF DisplayInv, Handles, InPass, NoneBound, NoneRefused, Ordinary
  <2>4. Rooms'
    BY <2>1 DEF DisplayInv, Rooms, AllUnused
  <2>. QED  BY <2>2, <2>3, <2>4 DEF DisplayInv
<1>3. CASE UNCHANGED vars
  <2>1. UNCHANGED <<requests, main, images, window, task>>
    BY <1>3 DEF vars
  <2>2. DisplaysTyped'
    BY <2>1 DEF DisplayInv, DisplaysTyped
  <2>3. Handles'
    BY <2>1 DEF DisplayInv, Handles, InPass, NoneBound, NoneOpen, NoneRefused, Serving, Serves, OneEach, OpenServed, Ordinary
  <2>4. Rooms'
    BY <2>1 DEF DisplayInv, Rooms, AllUnused, FirstArea
  <2>. QED  BY <2>2, <2>3, <2>4 DEF DisplayInv
<1>. QED  BY <1>0, <1>1, <1>2, <1>3, NextCases, QuietStep, OpenKeeps, FailKeeps, SendKeeps, CloseKeeps

LEMMA DisplayInvariance == Spec => [](KeepInv /\ DisplayInv)
<1>1. KeepInv /\ DisplayInv /\ [Next]_vars => (KeepInv /\ DisplayInv)'
  BY KeepStep, DisplayStep
<1>. QED  BY <1>1, KeepInit, DisplayInit, PTL DEF Spec

(********************** the call through wild pointers *********************)

\* Pointers nothing has set are those of a request nothing was ever called for.
Fresh(r) == r.methods = "wild" => NeverCalled(r)
AllFresh(q) == \A i \in DOMAIN q : Fresh(q[i])

\* A shadow pass has one display, the first, whose library is asked for by an
\* exception or not at all; and what is there when the program crashes.
WildInv ==
  /\ AllFresh(requests) /\ AllFresh(main)
  /\ task.stage \in InPass \cup {"prepare", "finish"} /\ ~ForImage => DOMAIN requests = {1}
  /\ task.stage = "crashed" =>
       /\ ForImage /\ NeverCalled(requests[task.display])
       /\ \A h \in DOMAIN images : images[h].state = "open" =>
            \E k \in 1 .. task.display - 1 : requests[k].handle = h /\ Live(requests[k])

LEMMA NewFresh ==
  ASSUME NEW d
  PROVE  /\ AllFresh(<<NewRequest(d)>>) /\ AllFresh(<<>>) /\ AllFresh(NoDisplays)
         /\ DOMAIN <<NewRequest(d)>> = {1}
         /\ \A q : IsList(q) /\ AllFresh(q) => AllFresh(Append(q, NewRequest(d)))
<1>. DEFINE e == NewRequest(d)
<1>1. Fresh(e)
  BY DEF NewRequest, Fresh, NeverCalled
<1>. HIDE DEF e
<1>2. AllFresh(<<e>>) /\ DOMAIN <<e>> = {1}
  <2>. DEFINE q == <<e>>
  <2>1. DOMAIN q = {1} /\ q[1] = e
    OBVIOUS
  <2>. HIDE DEF q
  <2>2. AllFresh(q) /\ DOMAIN q = {1}
    BY <1>1, <2>1 DEF AllFresh
  <2>. QED  BY <2>2 DEF q
<1>3. AllFresh(<<>>) /\ AllFresh(NoDisplays)
  BY DEF AllFresh, NoDisplays
<1>4. ASSUME NEW q, IsList(q), AllFresh(q)  PROVE AllFresh(Append(q, e))
  <2>1. Len(q) \in Nat /\ DOMAIN q = 1 .. Len(q)
    BY <1>4, ListLength
  <2>2. \A i \in 1 .. Len(q) + 1 : i \in DOMAIN q \/ i = Len(q) + 1
    BY <2>1
  <2>3. /\ DOMAIN Append(q, e) = 1 .. Len(q) + 1 /\ Append(q, e)[Len(q) + 1] = e
        /\ \A i \in DOMAIN q : Append(q, e)[i] = q[i]
    BY <1>4, ListLonger
  <2>. QED  BY <1>1, <1>4, <2>2, <2>3 DEF AllFresh
<1>. QED  BY <1>2, <1>3, <1>4 DEF e

LEMMA WildInit == Init => WildInv
<1>. SUFFICES ASSUME Init  PROVE WildInv
  OBVIOUS
<1>1. AllFresh(requests) /\ AllFresh(main)
  BY NewFresh DEF Init
<1>. QED  BY <1>1 DEF Init, Idle, WildInv, InPass

(* The crash: the displays before the one that is closed may have images.      *)
LEMMA CrashWild ==
  ASSUME TaskShape, DisplayInv, WildInv, Crash
  PROVE  WildInv'
<1>. DEFINE k == task.display
<1>1. /\ task.stage = "open" /\ task'.stage = "crashed" /\ task'.display = k /\ task'.light = task.light
      /\ k \in DOMAIN requests /\ k \in Nat /\ k > 1 /\ requests[k].methods = "wild"
      /\ UNCHANGED <<requests, main, images>>
  BY DEF Crash, Loading, DriverWild, TaskShape, DisplayInv, DisplaysTyped
<1>2. ForImage /\ NeverCalled(requests[k])
  BY <1>1 DEF WildInv, InPass, AllFresh, Fresh
<1>3. /\ Serving(requests, images) /\ OpenServed(requests, images)
      /\ \A i \in DOMAIN requests : Bound(requests[i]) => i < k
      /\ Len(requests) \in Nat /\ DOMAIN requests = 1 .. Len(requests)
  BY <1>1, ListLength DEF DisplayInv, DisplaysTyped, RequestsTyped, Handles, InPass
<1>4. ASSUME NEW h \in DOMAIN images, images[h].state = "open"
      PROVE  \E i \in 1 .. k - 1 : requests[i].handle = h /\ Live(requests[i])
  <2>1. PICK i \in DOMAIN requests : Bound(requests[i]) /\ requests[i].handle = h
    BY <1>3, <1>4 DEF OpenServed
  <2>2. Live(requests[i])
    BY <1>3, <2>1 DEF Serving, Serves
  <2>3. i \in Nat /\ 1 <= i /\ i < k
    BY <1>3, <2>1
  <2>4. i \in 1 .. k - 1
    BY <1>1, <2>3
  <2>. QED  BY <2>1, <2>2, <2>4
<1>5. AllFresh(requests) /\ AllFresh(main)
  BY DEF WildInv
<1>. HIDE DEF k
<1>6. AllFresh(requests') /\ AllFresh(main')
  BY <1>1, <1>5
<1>7. /\ task'.light = 0 /\ NeverCalled(requests'[task'.display])
      /\ \A h \in DOMAIN images' : images'[h].state = "open" =>
           \E i \in 1 .. task'.display - 1 : requests'[i].handle = h /\ Live(requests'[i])
  BY <1>1, <1>2, <1>4 DEF ForImage
<1>. QED  BY <1>1, <1>6, <1>7 DEF WildInv, InPass, ForImage

LEMMA WildStep ==
  ASSUME KeepInv, DisplayInv, WildInv, [Next]_vars
  PROVE  WildInv'
<1>0. /\ TaskShape /\ DisplaysTyped /\ Handles /\ IsWindow(window)
      /\ RequestsTyped(requests) /\ RequestsTyped(main)
      /\ AllFresh(requests) /\ AllFresh(main)
  BY DEF KeepInv, ScopeInv, DisplayInv, DisplaysTyped, WildInv
<1>. DEFINE Shadowing == task.stage \in InPass \cup {"prepare", "finish"} /\ ~ForImage
<1>1. ASSUME AllFresh(requests'), AllFresh(main'), task'.stage # "crashed",
             Shadowing' => DOMAIN requests' = {1}
      PROVE  WildInv'
  BY <1>1 DEF WildInv
<1>. USE DEF InPass, ForImage
<1>2. ASSUME UNCHANGED <<requests, main>>, task'.stage # "crashed", Shadowing' => Shadowing
      PROVE  WildInv'
  BY <1>0, <1>1, <1>2 DEF WildInv
<1>3. CASE FrameBegin \/ WorldBegin \/ Primitive
  BY <1>2, <1>3 DEF FrameBegin, WorldBegin, Primitive, idle
<1>4. CASE WorldEnd \/ StartImage \/ Prepare \/ RenderImage \/ WorldEndReturns
  <2>1. UNCHANGED <<requests, main>>
    BY <1>4 DEF WorldEnd, StartImage, Prepare, RenderImage, WorldEndReturns
  <2>2. task'.stage # "crashed" /\ (Shadowing' => Shadowing)
    BY <1>0, <1>4, TaskSteps
  <2>. QED  BY <1>2, <2>1, <2>2
<1>5. CASE FrameEnd
  <2>1. task.stage = "idle" /\ task'.stage = "idle" /\ requests' = NoDisplays /\ main' = main
    BY <1>5 DEF FrameEnd, idle
  <2>2. AllFresh(requests')
    BY <2>1, NewFresh
  <2>. QED  BY <1>0, <1>1, <2>1, <2>2
<1>6. ASSUME NEW d, NEW add, Display(d, add)  PROVE WildInv'
  <2>1. /\ task.stage = "idle" /\ task'.stage = "idle" /\ main' = main
        /\ requests' = Append(requests, NewRequest(d)) \/ requests' = <<NewRequest(d)>>
    BY <1>6 DEF Display, Setting, AddDisplay, idle
  <2>2. AllFresh(requests')
    BY <1>0, <2>1, NewFresh DEF RequestsTyped
  <2>. QED  BY <1>0, <1>1, <2>1, <2>2
<1>7. ASSUME NEW b, Multipass(b) \/ CropWindow(b) \/ LightSource(b)  PROVE WildInv'
  BY <1>2, <1>7 DEF Multipass, CropWindow, LightSource, Setting, idle
<1>8. CASE Settings
  BY <1>6, <1>7, <1>8 DEF Settings
<1>9. CASE StartShadow
  <2>1. main' = requests /\ requests' = <<NewRequest(ShadowDriver)>> /\ task'.stage = "prepare"
    BY <1>0, <1>9, TaskSteps DEF StartShadow
  <2>2. AllFresh(requests') /\ DOMAIN requests' = {1}
    BY <2>1, NewFresh
  <2>. QED  BY <1>0, <1>1, <2>1, <2>2
<1>10. CASE OpenDisplay
  <2>1. /\ task.stage = "open" /\ task'.stage = "open" /\ task'.light = task.light /\ main' = main
    BY <1>0, <1>10, TaskSteps DEF OpenDisplay
  <2>2. task.display \in DOMAIN requests
    BY <1>10 DEF OpenDisplay, Loading
  <2>3. ~Bound(requests[task.display])
    BY <1>0, <2>1, <2>2 DEF Handles, DisplaysTyped
  <2>4. PICK e : IsRequest(e) /\ e.methods # "wild" /\ requests' = [requests EXCEPT ![task.display] = e]
    BY <1>0, <1>10, <2>3, OpenStep
  <2>5. /\ DOMAIN requests' = DOMAIN requests /\ requests'[task.display] = e
        /\ \A i \in DOMAIN requests : i # task.display => requests'[i] = requests[i]
    BY <1>0, <2>2, <2>4, OneReplaced
  <2>6. AllFresh(requests')
    BY <1>0, <2>4, <2>5 DEF AllFresh, Fresh
  <2>7. Shadowing' => DOMAIN requests' = {1}
    BY <2>1, <2>5 DEF WildInv
  <2>. QED  BY <1>0, <1>1, <2>1, <2>6, <2>7
<1>11. CASE OpenFails
  <2>. DEFINE e == Sized(requests[1], window.crop)
  <2>1. /\ task.stage = "open" /\ task'.stage = "idle" /\ main' = <<>> /\ 1 \in DOMAIN requests
        /\ requests' = [requests EXCEPT ![1] = e]
    BY <1>11 DEF OpenFails, Loading, DriverThrows, Idle
  <2>2. /\ IsRequest(requests[1]) /\ window.crop \in Regions
    BY <1>0, <2>1 DEF RequestsTyped, IsWindow
  <2>3. /\ IsRequest(e) /\ e.methods = requests[1].methods /\ e.params = requests[1].params
        /\ e.valid = requests[1].valid
    BY <2>2, SizedTyped
  <2>. HIDE DEF e
  <2>4. /\ DOMAIN requests' = DOMAIN requests /\ requests'[1] = e
        /\ \A i \in DOMAIN requests : i # 1 => requests'[i] = requests[i]
    BY <1>0, <2>1, <2>3, OneReplaced
  <2>5. AllFresh(requests') /\ AllFresh(main')
    BY <1>0, <2>1, <2>3, <2>4, NewFresh DEF AllFresh, Fresh, NeverCalled
  <2>. QED  BY <1>1, <2>1, <2>5
<1>12. CASE SendBucket
  <2>. DEFINE g == DisplayRegion(window, task.cell)
  <2>1. /\ task.stage = "render" /\ task.cell \in BucketsIn(BucketRegion(window))
        /\ requests' = [i \in DOMAIN requests |-> Formatted(requests[i], g)]
    BY <1>0, <1>12, SendStep
  <2>2. g \in Regions /\ Area(g) \in Nat
    BY <1>0, <2>1, CellFacts
  <2>. HIDE DEF g
  <2>3. \A i \in DOMAIN requests : SameRequest(requests[i], Formatted(requests[i], g))
    BY <1>0, <2>2, FormattedFacts DEF RequestsTyped
  <2>4. AllFresh(requests') /\ DOMAIN requests' = DOMAIN requests
    BY <1>0, <2>1, <2>3 DEF AllFresh, Fresh, NeverCalled, SameRequest
  <2>5. task'.stage # "crashed" /\ (Shadowing' => Shadowing) /\ main' = main
    BY <1>0, <1>12, <2>1, TaskSteps DEF SendBucket
  <2>. QED  BY <1>0, <1>1, <2>4, <2>5 DEF WildInv
<1>13. CASE Close
  <2>1. requests' = [i \in DOMAIN requests |-> Released(requests[i])] /\ main' = main
    BY <1>13 DEF Close, CloseDisplays
  <2>2. \A i \in DOMAIN requests : Released(requests[i]).methods = "null"
    BY <1>0, ReleasedTyped DEF RequestsTyped
  <2>3. AllFresh(requests') /\ DOMAIN requests' = DOMAIN requests
    BY <2>1, <2>2 DEF AllFresh, Fresh
  <2>4. task'.stage # "crashed" /\ (Shadowing' => Shadowing)
    BY <1>0, <1>13, TaskSteps
  <2>. QED  BY <1>0, <1>1, <2>1, <2>3, <2>4 DEF WildInv
<1>14. CASE ShadowDone
  <2>1. requests' = main /\ main' = <<>> /\ task'.stage = "shadows"
    BY <1>0, <1>14, TaskSteps DEF ShadowDone
  <2>. QED  BY <1>0, <1>1, <2>1, NewFresh
<1>15. CASE Crash
  BY <1>0, <1>15, CrashWild
<1>16. CASE UNCHANGED vars
  <2>1. UNCHANGED <<requests, main, images, task>>
    BY <1>16 DEF vars
  <2>. QED  BY <2>1 DEF WildInv, AllFresh, Fresh, NeverCalled, Live
<1>. QED  BY <1>3, <1>4, <1>5, <1>8, <1>9, <1>10, <1>11, <1>12, <1>13, <1>14, <1>15, <1>16, NextCases

(* A driver that was asked to open an image gets data only while it is open,   *)
(* for images whose parameters are those of this opening, and is told to close *)
(* it once, also when it has refused; nothing is left unclosed when the passes *)
(* are over or an exception has ended them.  The call through pointers nothing *)
(* has set is made for no shadow map and for no display opened before, and of  *)
(* the others only those ahead of it are open then.                            *)
THEOREM DriversInOrder == Spec => []DriversCalledInOrder
<1>1. KeepInv /\ DisplayInv /\ WildInv => DriversCalledInOrder
  <2>. SUFFICES ASSUME KeepInv, DisplayInv, WildInv  PROVE DriversCalledInOrder
    OBVIOUS
  <2>1. \A i \in DOMAIN images : Ordinary(images[i]) => images[i].state # "misused"
    BY DEF DisplayInv, Handles
  <2>2. idle \/ task.stage = "finish" => NoneOpen(images) /\ NoneRefused(images)
    BY DEF DisplayInv, Handles, InPass, idle
  <2>3. task.stage = "crashed" =>
          /\ task.light = 0 /\ NeverCalled(requests[task.display])
          /\ \A i \in DOMAIN images : images[i].state = "open" =>
               \E k \in 1 .. task.display - 1 : requests[k].handle = i /\ Live(requests[k])
    BY DEF WildInv, ForImage
  <2>. QED  BY <2>1, <2>2, <2>3 DEF DriversCalledInOrder, NoneOpen, NoneRefused
<1>2. KeepInv /\ DisplayInv /\ WildInv /\ [Next]_vars => (KeepInv /\ DisplayInv /\ WildInv)'
  BY KeepStep, DisplayStep, WildStep
<1>. QED  BY <1>1, <1>2, KeepInit, DisplayInit, WildInit, PTL DEF Spec

(* Every bucket fits in the buffer a request has made for the first one.       *)
THEOREM BucketsFit == Spec => FitsBuffer
<1>1. KeepInv /\ DisplayInv /\ [Next]_vars =>
        [task.stage = "render" =>
           \A i \in DOMAIN requests' :
             requests'[i].room = 0 \/ Area(DisplayRegion(window, task.cell)) <= requests'[i].room]_vars
  <2>. SUFFICES ASSUME KeepInv, DisplayInv, Next, task.stage = "render", NEW i \in DOMAIN requests'
                PROVE  requests'[i].room = 0 \/ Area(DisplayRegion(window, task.cell)) <= requests'[i].room
    OBVIOUS
  <2>0. TaskShape
    BY DEF KeepInv, ScopeInv
  <2>1. SendBucket
    BY DEF Next, FrameBegin, FrameEnd, WorldBegin, WorldEnd, Primitive, Display, Multipass, CropWindow, LightSource,
           Setting, idle, StartShadow, StartImage, Prepare, OpenDisplay, Crash, OpenFails, Loading, RenderImage,
           Close, ShadowDone, WorldEndReturns
  <2>2. requests'[i].room \in {0, FirstArea}
    BY <2>0, <2>1, SendKeeps
  <2>3. Area(DisplayRegion(window, task.cell)) <= FirstArea
    BY CellFacts DEF DisplayInv, DisplaysTyped, FirstArea
  <2>. QED  BY <2>2, <2>3
<1>. QED  BY <1>1, DisplayInvariance, PTL DEF Spec, FitsBuffer
(************************* the pixels of an image **************************)

\* The bucket a pixel is in.
CellOf(q) == [x |-> q.x \div BucketSize, y |-> q.y \div BucketSize]

(* One axis: which bucket a place is in, and which bucket is the last.         *)
LEMMA PlaceInColumn ==
  ASSUME NEW s, NEW res, NEW lo, NEW hi, AxisOf(s, res, lo, hi), NEW v \in Int, lo <= v, v < hi
  PROVE  /\ Column(v \div s, s, lo, hi) /\ v \div s \in Nat
         /\ \A i : Column(i, s, lo, hi) =>
              (i * s <= v /\ v < Least((i + 1) * s, res) <=> i = v \div s)
<1>1. /\ s \in Nat \ {0} /\ res \in Nat /\ lo \in Nat /\ hi \in Nat /\ hi <= res
      /\ v \in Nat /\ hi - 1 \in Nat /\ v <= hi - 1 /\ v < res
  BY DEF AxisOf
<1>2. v \div s \in Nat /\ lo \div s \in Nat /\ (hi - 1) \div s \in Nat
  BY <1>1, Floors
<1>3. lo \div s <= v \div s /\ v \div s <= (hi - 1) \div s
  BY <1>1, FloorsGrow
<1>4. Column(v \div s, s, lo, hi)
  BY <1>2, <1>3 DEF Column
<1>5. ASSUME NEW i, Column(i, s, lo, hi)
      PROVE  i * s <= v /\ v < Least((i + 1) * s, res) <=> i = v \div s
  <2>1. i \in Int
    BY <1>5 DEF Column
  <2>2. i * s <= v /\ v < (i + 1) * s <=> i = v \div s
    BY <1>1, <2>1, OneColumn
  <2>3. (i + 1) * s \in Int
    BY <1>1, <2>1
  <2>4. v < Least((i + 1) * s, res) <=> v < (i + 1) * s
    BY <1>1, <2>3 DEF Least
  <2>. QED  BY <2>2, <2>4
<1>. QED  BY <1>2, <1>4, <1>5

LEMMA LastColumn ==
  ASSUME NEW s, NEW res, NEW lo, NEW hi, AxisOf(s, res, lo, hi), hi = res, NEW i, Column(i, s, lo, hi)
  PROVE  Least((i + 1) * s, res) >= res <=> i = (hi - 1) \div s
<1>1. s \in Nat \ {0} /\ res \in Nat /\ hi - 1 \in Nat /\ hi \in Nat
  BY DEF AxisOf
<1>2. i \in Nat /\ i * s \in Nat /\ (i + 1) * s = i * s + s /\ i * s <= hi - 1
  BY ColumnFacts
<1>3. i * s <= hi - 1 /\ hi - 1 < (i + 1) * s <=> i = (hi - 1) \div s
  BY <1>1, <1>2, OneColumn
<1>4. (i + 1) * s \in Int
  BY <1>1, <1>2
<1>5. Least((i + 1) * s, res) >= res <=> hi - 1 < (i + 1) * s
  BY <1>1, <1>4 DEF Least
<1>. QED  BY <1>2, <1>3, <1>5

(* Which bucket a pixel of the crop window is in, and when a row of buckets is *)
(* complete.                                                                   *)
LEMMA PixelCell ==
  ASSUME NEW w, IsWindow(w), NEW c \in BucketsIn(BucketRegion(w)), NEW g, g = DisplayRegion(w, c),
         NEW q \in BucketsIn(w.crop)
  PROVE  /\ CellOf(q) \in BucketsIn(BucketRegion(w))
         /\ q.x \in Nat /\ q.y \in Nat /\ q = [x |-> q.x, y |-> q.y]
         /\ g.xMin <= q.x /\ q.x < g.xMax <=> CellOf(q).x = c.x
         /\ g.yMin <= q.y /\ q.y < g.yMax <=> CellOf(q).y = c.y
         /\ CellOf(q) = c <=> CellOf(q).x = c.x /\ CellOf(q).y = c.y
<1>1. /\ AxisOf(BucketSize, w.res.x, w.crop.xMin, w.crop.xMax)
      /\ AxisOf(BucketSize, w.res.y, w.crop.yMin, w.crop.yMax)
      /\ c = [x |-> c.x, y |-> c.y]
      /\ Column(c.x, BucketSize, w.crop.xMin, w.crop.xMax)
      /\ Column(c.y, BucketSize, w.crop.yMin, w.crop.yMax)
  BY WindowAxes
<1>2. /\ q = [x |-> q.x, y |-> q.y] /\ q.x \in Int /\ q.y \in Int
      /\ w.crop.xMin <= q.x /\ q.x < w.crop.xMax /\ w.crop.yMin <= q.y /\ q.y < w.crop.yMax
  BY CellShape DEF IsWindow
<1>3. /\ Column(q.x \div BucketSize, BucketSize, w.crop.xMin, w.crop.xMax)
      /\ c.x * BucketSize <= q.x /\ q.x < Least((c.x + 1) * BucketSize, w.res.x) <=> c.x = q.x \div BucketSize
  BY <1>1, <1>2, PlaceInColumn
<1>4. /\ Column(q.y \div BucketSize, BucketSize, w.crop.yMin, w.crop.yMax)
      /\ c.y * BucketSize <= q.y /\ q.y < Least((c.y + 1) * BucketSize, w.res.y) <=> c.y = q.y \div BucketSize
  BY <1>1, <1>2, PlaceInColumn
<1>5. /\ g.xMin = c.x * BucketSize /\ g.xMax = Least((c.x + 1) * BucketSize, w.res.x)
      /\ g.yMin = c.y * BucketSize /\ g.yMax = Least((c.y + 1) * BucketSize, w.res.y)
  BY DEF DisplayRegion
<1>6. CellOf(q) = [x |-> CellOf(q).x, y |-> CellOf(q).y] /\ CellOf(q).x = q.x \div BucketSize
      /\ CellOf(q).y = q.y \div BucketSize
  BY DEF CellOf
<1>. HIDE DEF CellOf
<1>7. CellOf(q) \in BucketsIn(BucketRegion(w))
  BY <1>3, <1>4, <1>6, WindowAxes
<1>8. q.x \in Nat /\ q.y \in Nat
  BY <1>1, <1>2 DEF AxisOf
<1>. QED  BY <1>1, <1>2, <1>3, <1>4, <1>5, <1>6, <1>7, <1>8

LEMMA LastOfRow ==
  ASSUME NEW w, IsWindow(w), w.crop.xMax = w.res.x, NEW c \in BucketsIn(BucketRegion(w))
  PROVE  DisplayRegion(w, c).xMax >= w.res.x <=> c.x = BucketRegion(w).xMax - 1
<1>1. /\ AxisOf(BucketSize, w.res.x, w.crop.xMin, w.crop.xMax)
      /\ Column(c.x, BucketSize, w.crop.xMin, w.crop.xMax)
  BY WindowAxes
<1>2. Least((c.x + 1) * BucketSize, w.res.x) >= w.res.x <=> c.x = (w.crop.xMax - 1) \div BucketSize
  BY <1>1, LastColumn
<1>3. (w.crop.xMax - 1) \div BucketSize \in Nat
  BY <1>1, Floors DEF AxisOf
<1>4. /\ BucketRegion(w).xMax = (w.crop.xMax - 1) \div BucketSize + 1
      /\ DisplayRegion(w, c).xMax = Least((c.x + 1) * BucketSize, w.res.x)
  BY DEF BucketRegion, DisplayRegion
<1>. QED  BY <1>2, <1>3, <1>4

(* No two pixels of some rows have one place in the data of the rows.          *)
LEMMA OnePlaceEach ==
  ASSUME NEW n \in Nat, NEW a \in Nat, NEW b \in Nat, NEW x \in Nat, NEW y \in Nat, x < n, y < n,
         n * a + x = n * b + y
  PROVE  a = b /\ x = y
<1>1. n * a \in Nat /\ n * b \in Nat /\ n * a = a * n /\ n * b = b * n /\ n \in Nat \ {0}
  OBVIOUS
<1>2. CASE a < b
  <2>1. a * n + n <= b * n
    BY <1>1, <1>2, Strides
  <2>. QED  BY <1>1, <2>1
<1>3. CASE b < a
  <2>1. b * n + n <= a * n
    BY <1>1, <1>3, Strides
  <2>. QED  BY <1>1, <2>1
<1>4. CASE a = b
  BY <1>1, <1>4
<1>. QED  BY <1>2, <1>3, <1>4

LEMMA PlaceInData ==
  ASSUME NEW n \in Nat, NEW k \in Nat, NEW a \in Nat, NEW x \in Nat, x < n, a < k
  PROVE  n * a + x \in 0 .. n * k - 1
<1>1. n * a \in Nat /\ n * k \in Nat /\ n * a = a * n /\ n * k = k * n /\ n \in Nat \ {0}
  OBVIOUS
<1>2. a * n + n <= k * n
  BY <1>1, Strides
<1>. QED  BY <1>1, <1>2
\* The pixel that belongs at a place of an image.
At(m, p) == [x |-> p.x + m.crop.xMin, y |-> p.y + m.crop.yMin]
RightAt(m, p) == m.data[p] = At(m, p)
Complete(m) == \A p \in DOMAIN m.data : RightAt(m, p)

LEMMA PlaceShape ==
  ASSUME NEW m, IsImage(m), NEW p \in DOMAIN m.data
  PROVE  /\ At(m, p) \in BucketsIn(m.crop) /\ p = [x |-> p.x, y |-> p.y] /\ p.x \in Nat /\ p.y \in Nat
         /\ At(m, p).x = p.x + m.crop.xMin /\ At(m, p).y = p.y + m.crop.yMin
<1>1. m.crop \in Regions /\ p \in Places(m.crop)
  BY DEF IsImage, ImageWith
<1>2. /\ p = [x |-> p.x, y |-> p.y] /\ p.x \in Nat /\ p.y \in Nat
      /\ p.x < m.crop.xMax - m.crop.xMin /\ p.y < m.crop.yMax - m.crop.yMin
  BY <1>1 DEF Places, BucketsIn, Wide, High, Regions
<1>. QED  BY <1>1, <1>2 DEF At, BucketsIn, Regions

(* A bucket that comes alone fills its places.                                 *)
LEMMA BucketStored ==
  ASSUME IsWindow(window), NEW c \in BucketsIn(BucketRegion(window)), NEW g, g = DisplayRegion(window, c),
         NEW m, IsImage(m), m.crop = window.crop,
         Origin(m) = [x |-> window.crop.xMin, y |-> window.crop.yMin],
         NEW p \in DOMAIN m.data
  PROVE  Stored(m, g, BucketData(g))[p] = IF CellOf(At(m, p)) = c THEN At(m, p) ELSE m.data[p]
<1>. DEFINE q == At(m, p)
            o == Origin(m)
            e == [x |-> p.x + o.x - g.xMin, y |-> p.y + o.y - g.yMin]
<1>1. /\ q \in BucketsIn(window.crop) /\ p.x \in Nat /\ p.y \in Nat
      /\ q = [x |-> p.x + o.x, y |-> p.y + o.y] /\ q.x = p.x + o.x /\ q.y = p.y + o.y
  BY PlaceShape DEF At
<1>2. /\ g \in Regions /\ q.x \in Nat /\ q.y \in Nat
      /\ CellOf(q) = c <=> g.xMin <= q.x /\ q.x < g.xMax /\ g.yMin <= q.y /\ q.y < g.yMax
      /\ q = [x |-> q.x, y |-> q.y] /\ o.x \in Nat /\ o.y \in Nat
  BY <1>1, CellFacts, PixelCell DEF IsWindow, Regions
<1>. HIDE DEF q, o
<1>3. q.x \in g.xMin .. g.xMax - 1 /\ q.y \in g.yMin .. g.yMax - 1 <=> CellOf(q) = c
  BY <1>2 DEF Regions
<1>4. Stored(m, g, BucketData(g))[p] = IF CellOf(q) = c THEN BucketData(g)[e] ELSE m.data[p]
  BY <1>1, <1>3 DEF Stored, o
<1>5. ASSUME CellOf(q) = c  PROVE BucketData(g)[e] = q
  <2>1. /\ e = [x |-> q.x - g.xMin, y |-> q.y - g.yMin] /\ e.x = q.x - g.xMin /\ e.y = q.y - g.yMin
    <3>1. p.x + o.x - g.xMin = q.x - g.xMin /\ p.y + o.y - g.yMin = q.y - g.yMin
      BY <1>1, <1>2 DEF Regions
    <3>. QED  BY <3>1
  <2>. HIDE DEF e
  <2>2. e \in Places(g)
    BY <1>2, <1>5, <2>1 DEF Places, BucketsIn, Wide, High, Regions
  <2>3. BucketData(g)[e] = [x |-> g.xMin + e.x, y |-> g.yMin + e.y]
    BY <2>2 DEF BucketData
  <2>4. g.xMin + e.x = q.x /\ g.yMin + e.y = q.y
    BY <1>2, <2>1 DEF Regions
  <2>. QED  BY <1>2, <2>3, <2>4
<1>. QED  BY <1>4, <1>5 DEF q

\* What m_DataRow holds, and of an empty one what it will hold.
Row(r) == IF r.row = <<>> THEN [i \in 0 .. r.wide * r.high - 1 |-> Blank] ELSE r.row

\* Request r is for the whole image.
ForWhole(r) == /\ r.wide = window.res.x /\ r.high = window.res.y
               /\ window.crop.xMin = 0 /\ window.crop.xMax = window.res.x
               /\ window.crop.yMin = 0 /\ window.crop.yMax = window.res.y

\* Where CollapseBucketsToScanlines puts pixel q of the row of bucket c.
CollapsedAt(r, c, q) ==
  LET g == DisplayRegion(window, c)
      i == RowPlace(r, g, q)
  IN  /\ i \in 0 .. r.wide * r.high - 1
      /\ DOMAIN Collapsed(r, g) = 0 .. r.wide * r.high - 1
      /\ Collapsed(r, g)[i] = IF CellOf(q) = c THEN q ELSE Row(r)[i]

(* A bucket of a row goes to its places in the row and to no other.            *)
LEMMA CollapsedRight ==
  ASSUME IsWindow(window), NEW c \in BucketsIn(BucketRegion(window)),
         NEW r, ForWhole(r), DOMAIN Row(r) = 0 .. r.wide * r.high - 1,
         NEW q \in BucketsIn(window.crop), CellOf(q).y = c.y
  PROVE  CollapsedAt(r, c, q)
<1>. DEFINE g == DisplayRegion(window, c)
<1>0. g = DisplayRegion(window, c)
  OBVIOUS
<1>. HIDE DEF g
<1>. SUFFICES /\ RowPlace(r, g, q) \in 0 .. r.wide * r.high - 1
              /\ DOMAIN Collapsed(r, g) = 0 .. r.wide * r.high - 1
              /\ Collapsed(r, g)[RowPlace(r, g, q)] = IF CellOf(q) = c THEN q ELSE Row(r)[RowPlace(r, g, q)]
  BY <1>0 DEF CollapsedAt
<1>. DEFINE i == RowPlace(r, g, q)
            To == {p \in BucketsIn(g) : RowPlace(r, g, p) = i}
            n == window.res.x
<1>1. /\ g \in Regions /\ g.xMax <= n /\ g.yMax <= window.res.y
      /\ q.x \in Nat /\ q.y \in Nat /\ q = [x |-> q.x, y |-> q.y]
      /\ g.yMin <= q.y /\ q.y < g.yMax
      /\ CellOf(q) = c <=> g.xMin <= q.x /\ q.x < g.xMax
  BY <1>0, CellFacts, PixelCell
<1>2. n \in Nat /\ window.res.y \in Nat /\ q.x < n
  BY CellShape DEF IsWindow, Regions, ForWhole
<1>3. \A p : p \in BucketsIn(g) => /\ p = [x |-> p.x, y |-> p.y] /\ p.x \in Nat /\ p.y \in Nat
                                   /\ g.xMin <= p.x /\ p.x < g.xMax /\ p.x < n
                                   /\ g.yMin <= p.y /\ p.y < g.yMax /\ p.y - g.yMin \in Nat
  BY <1>1, <1>2, CellShape DEF Regions
<1>4. q \in BucketsIn(g) <=> CellOf(q) = c
  BY <1>1, CellShape
<1>5. \A p : RowPlace(r, g, p) = n * (p.y - g.yMin) + p.x
  BY DEF RowPlace, ForWhole
<1>6. q.y - g.yMin \in Nat /\ q.y - g.yMin < window.res.y
  BY <1>1, <1>2 DEF Regions
<1>7. ASSUME NEW p \in BucketsIn(g), RowPlace(r, g, p) = i  PROVE p = q
  <2>. DEFINE a == p.y - g.yMin  b == q.y - g.yMin
  <2>1. n * a + p.x = n * b + q.x
    BY <1>5, <1>7
  <2>2. a = b /\ p.x = q.x
    <3>1. a \in Nat /\ b \in Nat /\ p.x \in Nat /\ q.x \in Nat /\ p.x < n /\ q.x < n
      BY <1>1, <1>2, <1>3, <1>6
    <3>. HIDE DEF a, b, n
    <3>. QED  BY <1>2, <2>1, <3>1, OnePlaceEach
  <2>3. p.y = q.y
    BY <1>1, <1>3, <2>2 DEF Regions
  <2>. QED  BY <1>1, <1>3, <2>2, <2>3
<1>8. i \in 0 .. n * window.res.y - 1
  <2>1. n * (q.y - g.yMin) + q.x \in 0 .. n * window.res.y - 1
    BY <1>1, <1>2, <1>6, PlaceInData
  <2>. QED  BY <1>5, <2>1
<1>. HIDE DEF i
<1>9. To = IF CellOf(q) = c THEN {q} ELSE {}
  BY <1>4, <1>7 DEF i
<1>10. Collapsed(r, g) = [k \in DOMAIN Row(r) |->
                            IF {p \in BucketsIn(g) : RowPlace(r, g, p) = k} = {} THEN Row(r)[k]
                            ELSE CHOOSE p \in {b \in BucketsIn(g) : RowPlace(r, g, b) = k} :
                                   \A a \in {b \in BucketsIn(g) : RowPlace(r, g, b) = k} : a.y <= p.y]
  BY DEF Collapsed, Row
<1>11. i \in DOMAIN Row(r) /\ r.wide * r.high = n * window.res.y
  BY <1>8 DEF ForWhole
<1>12. Collapsed(r, g)[i] = IF To = {} THEN Row(r)[i] ELSE CHOOSE p \in To : \A a \in To : a.y <= p.y
  BY <1>10, <1>11
<1>. HIDE DEF To
<1>13. CASE CellOf(q) = c
  <2>1. To = {q} /\ q.y <= q.y
    BY <1>1, <1>9, <1>13
  <2>2. (CHOOSE p \in To : \A a \in To : a.y <= p.y) = q
    BY <2>1
  <2>. QED  BY <1>8, <1>10, <1>11, <1>12, <1>13, <2>1, <2>2 DEF i
<1>14. CASE CellOf(q) # c
  BY <1>8, <1>9, <1>10, <1>11, <1>12, <1>14 DEF i
<1>. QED  BY <1>13, <1>14

(* The rows of a bucket row fill their places.                                 *)
LEMMA RowStored ==
  ASSUME IsWindow(window), NEW c \in BucketsIn(BucketRegion(window)), NEW g, g = DisplayRegion(window, c),
         NEW r, ForWhole(r), NEW f, f.wide = r.wide,
         NEW m, IsImage(m), m.crop = window.crop,
         Origin(m) = [x |-> window.crop.xMin, y |-> window.crop.yMin],
         NEW p \in DOMAIN m.data,
         RowPlace(r, g, At(m, p)) \in DOMAIN f.row
  PROVE  Stored(m, Rows(r, g), RowData(f, g))[p] =
           IF CellOf(At(m, p)).y = c.y THEN f.row[RowPlace(r, g, At(m, p))] ELSE m.data[p]
<1>. DEFINE q == At(m, p)
            o == Origin(m)
            w == Rows(r, g)
            e == [x |-> p.x + o.x - w.xMin, y |-> p.y + o.y - w.yMin]
<1>1. /\ q \in BucketsIn(window.crop) /\ p.x \in Nat /\ p.y \in Nat
      /\ q.x = p.x + o.x /\ q.y = p.y + o.y
  BY PlaceShape DEF At
<1>2. /\ g \in Regions /\ q.x \in Nat /\ q.y \in Nat /\ q.x < window.res.x /\ window.res.x \in Int
      /\ CellOf(q).y = c.y <=> g.yMin <= q.y /\ q.y < g.yMax
      /\ o.x \in Nat /\ o.y \in Nat
  BY <1>1, CellFacts, PixelCell, CellShape DEF IsWindow, ForWhole, Cells, Regions
<1>. HIDE DEF q, o
<1>3. w = [xMin |-> 0, yMin |-> g.yMin, xMax |-> window.res.x, yMax |-> g.yMax] /\ Rows(f, g) = w
  BY DEF Rows, ForWhole
<1>. HIDE DEF w
<1>4. q.x \in w.xMin .. w.xMax - 1 /\ q.y \in w.yMin .. w.yMax - 1 <=> CellOf(q).y = c.y
  BY <1>2, <1>3 DEF Regions
<1>5. Stored(m, w, RowData(f, g))[p] = IF CellOf(q).y = c.y THEN RowData(f, g)[e] ELSE m.data[p]
  BY <1>1, <1>4 DEF Stored, o
<1>6. ASSUME CellOf(q).y = c.y  PROVE RowData(f, g)[e] = f.row[RowPlace(r, g, q)]
  <2>1. e = [x |-> q.x, y |-> q.y - g.yMin] /\ e.x = q.x /\ e.y = q.y - g.yMin
    <3>1. p.x + o.x - w.xMin = q.x /\ p.y + o.y - w.yMin = q.y - g.yMin
      BY <1>1, <1>2, <1>3 DEF Regions
    <3>. QED  BY <3>1
  <2>. HIDE DEF e
  <2>2. e \in Places(w)
    BY <1>2, <1>3, <1>6, <2>1 DEF Places, BucketsIn, Wide, High, Regions
  <2>3. RowPlace(r, g, q) = r.wide * e.y + e.x
    BY <2>1 DEF RowPlace
  <2>4. RowData(f, g)[e] = IF f.wide * e.y + e.x \in DOMAIN f.row THEN f.row[f.wide * e.y + e.x] ELSE Blank
    BY <1>3, <2>2 DEF RowData
  <2>5. RowPlace(r, g, q) \in DOMAIN f.row
    BY DEF q
  <2>. QED  BY <2>3, <2>4, <2>5
<1>. QED  BY <1>5, <1>6 DEF q, w
\* The same with a name.
RowStoredAt(r, f, m, c, p) ==
  LET g == DisplayRegion(window, c)
  IN  Stored(m, Rows(r, g), RowData(f, g))[p] =
        IF CellOf(At(m, p)).y = c.y THEN f.row[RowPlace(r, g, At(m, p))] ELSE m.data[p]

LEMMA RowStoredRight ==
  ASSUME IsWindow(window), NEW c \in BucketsIn(BucketRegion(window)),
         NEW r, ForWhole(r), NEW f, f.wide = r.wide,
         NEW m, IsImage(m), m.crop = window.crop,
         Origin(m) = [x |-> window.crop.xMin, y |-> window.crop.yMin],
         NEW p \in DOMAIN m.data,
         RowPlace(r, DisplayRegion(window, c), At(m, p)) \in DOMAIN f.row
  PROVE  RowStoredAt(r, f, m, c, p)
<1>. DEFINE g == DisplayRegion(window, c)
<1>1. g = DisplayRegion(window, c)
  OBVIOUS
<1>. HIDE DEF g
<1>2. RowPlace(r, g, At(m, p)) \in DOMAIN f.row
  BY <1>1
<1>3. Stored(m, Rows(r, g), RowData(f, g))[p] =
        IF CellOf(At(m, p)).y = c.y THEN f.row[RowPlace(r, g, At(m, p))] ELSE m.data[p]
  BY <1>1, <1>2, RowStored
<1>. QED  BY <1>1, <1>3 DEF RowStoredAt

(********************** the pixels through a pass **************************)

\* What an image and the row of its request hold when the buckets before c have
\* been sent.
RowRight(r, c) ==
  /\ DOMAIN Row(r) = 0 .. r.wide * r.high - 1
  /\ \A q \in BucketsIn(window.crop) : CellOf(q).y = c.y /\ CellOf(q).x < c.x =>
       Row(r)[RowPlace(r, DisplayRegion(window, c), q)] = q

Filling(r, m, c) ==
  IF r.driver \notin Scanline
  THEN \A p \in DOMAIN m.data : Before(CellOf(At(m, p)), c) => RightAt(m, p)
  ELSE RowRight(r, c) /\ \A p \in DOMAIN m.data : CellOf(At(m, p)).y < c.y => RightAt(m, p)

(* Nothing has been sent.                                                      *)
LEMMA FillingFirst ==
  ASSUME IsWindow(window), NEW r, Unused(r), NEW m, IsImage(m), m.crop = window.crop
  PROVE  Filling(r, m, FirstCell(BucketRegion(window)))
<1>. DEFINE R == BucketRegion(window)
            c == FirstCell(R)
<1>1. R \in Regions /\ NonEmpty(R) /\ c \in BucketsIn(R) /\ c.x = R.xMin /\ c.y = R.yMin
  BY WindowAxes, Walk DEF FirstCell
<1>2. \A q \in BucketsIn(window.crop) : /\ CellOf(q) \in BucketsIn(R) /\ ~Before(CellOf(q), c)
                                        /\ ~(CellOf(q).x < c.x) /\ ~(CellOf(q).y < c.y)
  <2>. SUFFICES ASSUME NEW q \in BucketsIn(window.crop)
                PROVE  /\ CellOf(q) \in BucketsIn(R) /\ ~Before(CellOf(q), c)
                       /\ ~(CellOf(q).x < c.x) /\ ~(CellOf(q).y < c.y)
    OBVIOUS
  <2>1. CellOf(q) \in BucketsIn(R)
    BY <1>1, PixelCell
  <2>2. ~Before(CellOf(q), c)
    BY <1>1, <2>1, Walk
  <2>3. CellOf(q).x \in Int /\ CellOf(q).y \in Int /\ R.xMin <= CellOf(q).x /\ R.yMin <= CellOf(q).y
    BY <1>1, <2>1, CellShape
  <2>. QED  BY <1>1, <2>1, <2>2, <2>3 DEF Regions
<1>3. DOMAIN Row(r) = 0 .. r.wide * r.high - 1
  BY DEF Row, Unused
<1>4. \A p \in DOMAIN m.data : At(m, p) \in BucketsIn(window.crop)
  BY PlaceShape
<1>. HIDE DEF R, c
<1>5. Filling(r, m, c)
  BY <1>2, <1>3, <1>4 DEF Filling, RowRight
<1>. QED  BY <1>5 DEF R, c

(* A bucket more.                                                              *)
LEMMA FillingStep ==
  ASSUME IsWindow(window), NEW c \in BucketsIn(BucketRegion(window)), NEW g, g = DisplayRegion(window, c),
         NEW r, IsRequest(r), NEW m, IsImage(m), Serves(r, m), Ordinary(m), m.state = "open", Filling(r, m, c)
  PROVE  LET f == Formatted(r, g)
             n == Sent(f, g, m)
         IN  /\ HasNext(BucketRegion(window), c) => Filling(f, n, NextCell(BucketRegion(window), c))
             /\ ~HasNext(BucketRegion(window), c) => Complete(n)
<1>. DEFINE f == Formatted(r, g)
            n == Sent(f, g, m)
            R == BucketRegion(window)
            d == NextCell(R, c)
            Goal == /\ HasNext(R, c) => Filling(f, n, d)
                    /\ ~HasNext(R, c) => Complete(n)
<1>. SUFFICES Goal
  OBVIOUS
<1>1. g \in Regions /\ Area(g) \in Nat /\ R \in Regions /\ NonEmpty(R) /\ c.x \in Nat /\ c.y \in Nat
  BY CellFacts, WindowAxes
<1>2. /\ SameRequest(r, f) /\ Live(r)
      /\ f.row = IF r.driver \in Scanline THEN Collapsed(r, g) ELSE r.row
  BY <1>1, FormattedFacts DEF Serves
<1>3. m.crop = window.crop /\ Origin(m) = [x |-> window.crop.xMin, y |-> window.crop.yMin]
  BY OriginIsCorner DEF Serves, Ordinary
<1>4. /\ SameImage(m, n) /\ n.crop = m.crop
      /\ n.data = IF r.driver \notin Scanline THEN Stored(m, g, BucketData(g))
                  ELSE IF RowFull(r, g) THEN Stored(m, Rows(r, g), RowData(f, g))
                  ELSE m.data
  BY SentFacts DEF SameImage
<1>5. \A p : At(n, p) = At(m, p)
  BY <1>4 DEF At
<1>6. DOMAIN n.data = DOMAIN m.data
  BY <1>4 DEF Stored
<1>7. \A p \in DOMAIN m.data : /\ At(m, p) \in BucketsIn(window.crop)
                               /\ CellOf(At(m, p)) \in BucketsIn(R)
  BY <1>3, PlaceShape, PixelCell
<1>. HIDE DEF f, n
<1>8. CASE r.driver \notin Scanline
  <2>1. \A p \in DOMAIN m.data : Before(CellOf(At(m, p)), c) => RightAt(m, p)
    BY <1>8 DEF Filling
  <2>2. \A p \in DOMAIN m.data : n.data[p] = IF CellOf(At(m, p)) = c THEN At(m, p) ELSE m.data[p]
    BY <1>3, <1>4, <1>8, BucketStored
  <2>3. \A p \in DOMAIN m.data : CellOf(At(m, p)) = c \/ Before(CellOf(At(m, p)), c) => RightAt(n, p)
    BY <1>5, <2>1, <2>2 DEF RightAt
  <2>4. \A p \in DOMAIN m.data :
          /\ HasNext(R, c) /\ Before(CellOf(At(m, p)), d) => RightAt(n, p)
          /\ ~HasNext(R, c) => RightAt(n, p)
    <3>. SUFFICES ASSUME NEW p \in DOMAIN m.data
                  PROVE  /\ HasNext(R, c) /\ Before(CellOf(At(m, p)), d) => RightAt(n, p)
                         /\ ~HasNext(R, c) => RightAt(n, p)
      OBVIOUS
    <3>. DEFINE a == CellOf(At(m, p))
    <3>1. a \in BucketsIn(R)
      BY <1>7
    <3>. HIDE DEF a
    <3>2. /\ Before(a, d) <=> a = c \/ Before(a, c)
          /\ ~HasNext(R, c) => a = c \/ Before(a, c)
      BY <1>1, <3>1, Walk
    <3>. QED  BY <2>3, <3>2 DEF a
  <2>5. f.driver \notin Scanline
    BY <1>2, <1>8 DEF SameRequest
  <2>. HIDE DEF d, R
  <2>. QED  BY <1>5, <1>6, <2>4, <2>5 DEF Filling, Complete
<1>9. CASE r.driver \in Scanline
  <2>1. ForWhole(r) /\ m.whole
    <3>1. m.whole
      BY <1>9 DEF Serves, Ordinary
    <3>2. /\ window.crop.xMin = 0 /\ window.crop.xMax = window.res.x
          /\ window.crop.yMin = 0 /\ window.crop.yMax = window.res.y
      BY <3>1, OriginIsCorner DEF Ordinary
    <3>3. window.res.x \in Int /\ window.res.y \in Int
      BY DEF IsWindow, Cells
    <3>. QED  BY <3>1, <3>2, <3>3 DEF ForWhole, Serves, Wide, High
  <2>2. /\ RowRight(r, c)
        /\ \A p \in DOMAIN m.data : CellOf(At(m, p)).y < c.y => RightAt(m, p)
    BY <1>9 DEF Filling
  <2>3. \A q \in BucketsIn(window.crop) : CellOf(q).y = c.y =>
          /\ RowPlace(r, g, q) \in 0 .. r.wide * r.high - 1
          /\ DOMAIN f.row = 0 .. r.wide * r.high - 1
          /\ f.row[RowPlace(r, g, q)] = IF CellOf(q) = c THEN q ELSE Row(r)[RowPlace(r, g, q)]
    <3>. SUFFICES ASSUME NEW q \in BucketsIn(window.crop), CellOf(q).y = c.y
                  PROVE  /\ RowPlace(r, g, q) \in 0 .. r.wide * r.high - 1
                         /\ DOMAIN f.row = 0 .. r.wide * r.high - 1
                         /\ f.row[RowPlace(r, g, q)] = IF CellOf(q) = c THEN q ELSE Row(r)[RowPlace(r, g, q)]
      OBVIOUS
    <3>1. DOMAIN Row(r) = 0 .. r.wide * r.high - 1
      BY <2>2 DEF RowRight
    <3>2. f.row = Collapsed(r, g)
      BY <1>2, <1>9
    <3>3. /\ RowPlace(r, g, q) \in 0 .. r.wide * r.high - 1
          /\ DOMAIN Collapsed(r, g) = 0 .. r.wide * r.high - 1
          /\ Collapsed(r, g)[RowPlace(r, g, q)] = IF CellOf(q) = c THEN q ELSE Row(r)[RowPlace(r, g, q)]
      <4>1. ForWhole(r)
        BY <2>1
      <4>. HIDE DEF R, d, Goal
      <4>2. CollapsedAt(r, c, q)
        BY <3>1, <4>1, CollapsedRight
      <4>. QED  BY <4>2 DEF CollapsedAt
    <3>. HIDE DEF R, d, Goal
    <3>. QED  BY <3>2, <3>3
  <2>4. DOMAIN f.row = 0 .. r.wide * r.high - 1 /\ f.wide = r.wide /\ f.high = r.high /\ f.driver = r.driver
    <3>1. DOMAIN Collapsed(r, g) = DOMAIN Row(r)
      BY DEF Collapsed, Row
    <3>. QED  BY <1>2, <1>9, <2>2, <3>1 DEF RowRight, SameRequest
  <2>5. DOMAIN Row(f) = 0 .. r.wide * r.high - 1 /\ (f.row # <<>> => Row(f) = f.row)
    BY <2>4 DEF Row
  <2>6. ASSUME NEW q \in BucketsIn(window.crop), CellOf(q).y = c.y, CellOf(q).x <= c.x
        PROVE  f.row[RowPlace(r, g, q)] = q /\ Row(f) = f.row /\ RowPlace(r, g, q) \in DOMAIN f.row
    <3>1. RowPlace(r, g, q) \in DOMAIN f.row
      BY <2>3, <2>6
    <3>2. f.row # <<>>
      BY <3>1
    <3>3. CellOf(q).x \in Int /\ c.x \in Int /\ (CellOf(q) = c <=> CellOf(q).x = c.x /\ CellOf(q).y = c.y)
      BY <1>1, PixelCell, CellShape
    <3>4. CellOf(q) # c => CellOf(q).x < c.x
      BY <2>6, <3>3
    <3>. QED  BY <2>2, <2>3, <2>5, <2>6, <3>1, <3>2, <3>4 DEF RowRight
  <2>7. \A a \in BucketsIn(R) : /\ a.x \in Int /\ a.y \in Int /\ R.xMin <= a.x /\ a.x < R.xMax
                                /\ R.yMin <= a.y /\ a.y < R.yMax
    BY <1>1, CellShape
  <2>8. R.xMin \in Int /\ R.xMax \in Int /\ R.yMin \in Int /\ R.yMax \in Int /\ c.x < R.xMax /\ c.y < R.yMax
    BY <1>1, <2>7 DEF Regions
  <2>9. RowFull(r, g) <=> c.x = R.xMax - 1
    BY <2>1, LastOfRow DEF RowFull, ForWhole
  <2>10. \A q \in BucketsIn(window.crop) : CellOf(q) \in BucketsIn(R)
    BY PixelCell
  <2>11. CASE ~RowFull(r, g)
    <3>1. HasNext(R, c) /\ d = [x |-> c.x + 1, y |-> c.y]
      <4>1. c.x + 1 < R.xMax
        BY <1>1, <2>8, <2>9, <2>11
      <4>. QED  BY <4>1 DEF HasNext, NextCell
    <3>2. n.data = m.data
      BY <1>4, <1>9, <2>11
    <3>3. \A q : RowPlace(f, DisplayRegion(window, d), q) = RowPlace(r, g, q)
      BY <2>4, <3>1 DEF RowPlace, DisplayRegion
    <3>4. RowRight(f, d)
      <4>. SUFFICES ASSUME NEW q \in BucketsIn(window.crop), CellOf(q).y = d.y, CellOf(q).x < d.x
                    PROVE  Row(f)[RowPlace(r, g, q)] = q
        BY <2>4, <2>5, <3>3 DEF RowRight
      <4>1. CellOf(q).y = c.y /\ CellOf(q).x <= c.x
        BY <1>1, <2>7, <2>10, <3>1
      <4>. QED  BY <2>6, <4>1
    <3>5. \A p \in DOMAIN n.data : CellOf(At(n, p)).y < d.y => RightAt(n, p)
      BY <1>5, <2>2, <3>1, <3>2 DEF RightAt
    <3>. HIDE DEF d, R
    <3>. QED  BY <1>9, <2>4, <3>1, <3>4, <3>5 DEF Filling
  <2>12. CASE RowFull(r, g)
    <3>1. \A p \in DOMAIN m.data : CellOf(At(m, p)).y <= c.y => RightAt(n, p)
      <4>. SUFFICES ASSUME NEW p \in DOMAIN m.data, CellOf(At(m, p)).y <= c.y
                    PROVE  n.data[p] = At(m, p)
        BY <1>5 DEF RightAt
      <4>. DEFINE q == At(m, p)
      <4>1. q \in BucketsIn(window.crop) /\ CellOf(q) \in BucketsIn(R)
        BY <1>7
      <4>2. CellOf(q).y \in Int /\ CellOf(q).x <= c.x
        BY <1>1, <2>7, <2>8, <2>9, <2>12, <4>1
      <4>3. CASE CellOf(q).y = c.y
        <5>1. f.row[RowPlace(r, g, q)] = q /\ RowPlace(r, g, q) \in DOMAIN f.row
          BY <2>6, <4>1, <4>2, <4>3
        <5>2. Stored(m, Rows(r, g), RowData(f, g))[p] =
                IF CellOf(At(m, p)).y = c.y THEN f.row[RowPlace(r, g, At(m, p))] ELSE m.data[p]
          <6>1. RowPlace(r, g, At(m, p)) \in DOMAIN f.row
            BY <5>1
          <6>2. ForWhole(r) /\ f.wide = r.wide
            BY <2>1, <2>4
          <6>. HIDE DEF q, R, d, Goal
          <6>3. RowPlace(r, DisplayRegion(window, c), At(m, p)) \in DOMAIN f.row
            BY <6>1
          <6>4. RowStoredAt(r, f, m, c, p)
            BY <1>3, <6>2, <6>3, RowStoredRight
          <6>. QED  BY <6>4 DEF RowStoredAt
        <5>. QED  BY <1>4, <1>9, <2>12, <4>3, <5>1, <5>2
      <4>4. CASE CellOf(q).y < c.y
        <5>1. n.data[p] = m.data[p]
          <6>1. g.yMin \in Nat /\ ~(g.yMin <= q.y /\ q.y < g.yMax) /\ q.y \in Int /\ q.x \in Int
            BY <1>1, <4>1, <4>2, <4>4, PixelCell DEF Regions
          <6>2. p.y + Origin(m).y = q.y
            BY <1>3, PlaceShape
          <6>3. ~(p.y + Origin(m).y \in Rows(r, g).yMin .. Rows(r, g).yMax - 1)
            BY <1>1, <6>1, <6>2 DEF Rows, Regions
          <6>4. Stored(m, Rows(r, g), RowData(f, g))[p] = m.data[p]
            BY <6>3 DEF Stored
          <6>. QED  BY <1>4, <1>9, <2>12, <6>4
        <5>. QED  BY <2>2, <4>4, <5>1 DEF RightAt
      <4>. QED  BY <1>1, <4>2, <4>3, <4>4
    <3>2. CASE HasNext(R, c)
      <4>1. d = [x |-> R.xMin, y |-> c.y + 1]
        BY <2>8, <2>9, <2>12 DEF NextCell
      <4>2. RowRight(f, d)
        BY <2>4, <2>5, <2>7, <2>8, <2>10, <4>1 DEF RowRight
      <4>3. \A p \in DOMAIN n.data : CellOf(At(n, p)).y < d.y => RightAt(n, p)
        <5>1. \A p \in DOMAIN m.data : CellOf(At(m, p)).y < c.y + 1 => CellOf(At(m, p)).y <= c.y
          BY <1>1, <1>7, <2>7
        <5>. QED  BY <1>5, <1>6, <3>1, <4>1, <5>1
      <4>. HIDE DEF d, R
      <4>. QED  BY <1>9, <2>4, <3>2, <4>2, <4>3 DEF Filling
    <3>3. CASE ~HasNext(R, c)
      <4>1. c.y + 1 >= R.yMax
        BY <1>1, <2>8, <3>3 DEF HasNext
      <4>2. \A p \in DOMAIN m.data : CellOf(At(m, p)).y <= c.y
        BY <1>1, <1>7, <2>7, <2>8, <4>1
      <4>. QED  BY <1>6, <3>1, <3>3, <4>2 DEF Complete
    <3>. QED  BY <3>2, <3>3
  <2>. QED  BY <2>11, <2>12
<1>. QED  BY <1>8, <1>9
(* What a bucket leaves of the image of a request: more of it is right, and    *)
(* after the last bucket all of it.                                            *)
LEMMA FilledByBucket ==
  ASSUME IsWindow(window), NEW c \in BucketsIn(BucketRegion(window)),
         NEW r, IsRequest(r), NEW m, IsImage(m), Serves(r, m), m.state \in {"open", "misused"},
         Ordinary(m) => m.state = "open" /\ Filling(r, m, c)
  PROVE  LET g == DisplayRegion(window, c)
             f == Formatted(r, g)
             n == Sent(f, g, m)
         IN  /\ n.state # "closed"
             /\ Ordinary(n) /\ HasNext(BucketRegion(window), c) => Filling(f, n, NextCell(BucketRegion(window), c))
             /\ Ordinary(n) /\ ~HasNext(BucketRegion(window), c) => Complete(n)
<1>. DEFINE g == DisplayRegion(window, c)
            f == Formatted(r, g)
            n == Sent(f, g, m)
<1>1. g = DisplayRegion(window, c)
  OBVIOUS
<1>. HIDE DEF g
<1>2. SameImage(m, n) /\ n.state \in {"open", "misused"}
  BY <1>1, SentFacts
<1>3. Ordinary(n) => Ordinary(m)
  BY <1>2, Zenon DEF Ordinary, SameImage
<1>4. Ordinary(m) => /\ HasNext(BucketRegion(window), c) => Filling(f, n, NextCell(BucketRegion(window), c))
                     /\ ~HasNext(BucketRegion(window), c) => Complete(n)
  BY <1>1, FillingStep
<1>. HIDE DEF f, n
<1>5. /\ n.state # "closed"
      /\ Ordinary(n) /\ HasNext(BucketRegion(window), c) => Filling(f, n, NextCell(BucketRegion(window), c))
      /\ Ordinary(n) /\ ~HasNext(BucketRegion(window), c) => Complete(n)
  BY <1>2, <1>3, <1>4
<1>. QED  BY <1>5 DEF f, n, g

\* The images of a pass hold the pixels of the buckets sent so far, and all of
\* them before they are closed; closed images keep theirs.
Owned(q, imgs, c) ==
  \A i \in DOMAIN q : Bound(q[i]) /\ Ordinary(imgs[q[i].handle]) => Filling(q[i], imgs[q[i].handle], c)
Finished(q, imgs) ==
  \A i \in DOMAIN q : Bound(q[i]) /\ Ordinary(imgs[q[i].handle]) => Complete(imgs[q[i].handle])
ClosedWhole(imgs) ==
  \A h \in DOMAIN imgs : imgs[h].state = "closed" /\ Ordinary(imgs[h]) => Complete(imgs[h])

PlacedSoFar ==
  /\ ClosedWhole(images)
  /\ task.stage = "render" => Owned(requests, images, task.cell)
  /\ task.stage = "close" => Finished(requests, images)

LEMMA PlacedSend ==
  ASSUME TaskShape, DisplayInv, PlacedSoFar, SendBucket
  PROVE  PlacedSoFar'
<1>. DEFINE c == task.cell
            g == DisplayRegion(window, c)
            R == BucketRegion(window)
<1>0. DisplaysTyped /\ Handles /\ IsWindow(window)
  BY DEF DisplayInv, DisplaysTyped
<1>1. /\ task.stage = "render" /\ c \in BucketsIn(R)
      /\ requests' = [i \in DOMAIN requests |-> Formatted(requests[i], g)]
      /\ images' = [h \in DOMAIN images |-> images'[h]]
      /\ \A h \in DOMAIN images :
           (\A i \in DOMAIN requests : ~(Bound(requests[i]) /\ requests[i].handle = h)) => images'[h] = images[h]
      /\ \A i \in DOMAIN requests : Bound(requests[i]) =>
           images'[requests[i].handle] = Sent(Formatted(requests[i], g), g, images[requests[i].handle])
  BY <1>0, SendStep
<1>2. /\ window' = window
      /\ \/ task'.stage = "render" /\ HasNext(R, c) /\ task'.cell = NextCell(R, c)
         \/ task'.stage = "close" /\ ~HasNext(R, c)
  BY <1>0, SendTask
<1>3. /\ RequestsTyped(requests) /\ ImagesTyped(images) /\ Serving(requests, images)
      /\ \A h \in DOMAIN images : Ordinary(images[h]) => images[h].state # "misused"
      /\ Owned(requests, images, c) /\ ClosedWhole(images)
      /\ g \in Regions /\ Area(g) \in Nat
  BY <1>0, <1>1, CellFacts DEF DisplaysTyped, Handles, InPass, PlacedSoFar
<1>4. ASSUME NEW i \in DOMAIN requests
      PROVE  LET r == requests[i]
                 f == requests'[i]
                 n == images'[r.handle]
             IN  /\ Bound(f) <=> Bound(r)
                 /\ f.handle = r.handle
                 /\ Bound(r) => /\ n.state # "closed"
                                /\ Ordinary(n) /\ HasNext(R, c) => Filling(f, n, NextCell(R, c))
                                /\ Ordinary(n) /\ ~HasNext(R, c) => Complete(n)
  <2>. DEFINE r == requests[i]
              f == requests'[i]
              m == images[r.handle]
              n == images'[r.handle]
  <2>1. IsRequest(r) /\ f = Formatted(r, g)
    BY <1>1, <1>3 DEF RequestsTyped
  <2>. HIDE DEF g, r, f
  <2>2. SameRequest(r, f)
    BY <1>3, <2>1, FormattedFacts
  <2>3. (Bound(f) <=> Bound(r)) /\ f.handle = r.handle
    BY <2>2 DEF SameRequest, Bound
  <2>4. ASSUME Bound(r)
        PROVE  /\ n.state # "closed"
               /\ Ordinary(n) /\ HasNext(R, c) => Filling(f, n, NextCell(R, c))
               /\ Ordinary(n) /\ ~HasNext(R, c) => Complete(n)
    <3>1. /\ r.handle \in DOMAIN images /\ Serves(r, m) /\ m.state \in {"open", "misused"}
          /\ Ordinary(m) => Filling(r, m, c)
      BY <1>3, <2>4 DEF Serving, Owned, r
    <3>2. IsImage(m) /\ (Ordinary(m) => m.state = "open") /\ n = Sent(f, g, m)
      BY <1>1, <1>3, <2>1, <2>4, <3>1 DEF ImagesTyped, r
    <3>. HIDE DEF m, n, R
    <3>3. LET e == Formatted(r, DisplayRegion(window, c))
              k == Sent(e, DisplayRegion(window, c), m)
          IN  /\ k.state # "closed"
              /\ Ordinary(k) /\ HasNext(BucketRegion(window), c) => Filling(e, k, NextCell(BucketRegion(window), c))
              /\ Ordinary(k) /\ ~HasNext(BucketRegion(window), c) => Complete(k)
      BY <1>0, <1>1, <2>1, <3>1, <3>2, FilledByBucket DEF R
    <3>. QED  BY <2>1, <3>2, <3>3 DEF g, R
  <2>. QED  BY <2>3, <2>4 DEF r, f, n
<1>5. DOMAIN requests' = DOMAIN requests /\ DOMAIN images' = DOMAIN images
  BY <1>1
<1>6. ClosedWhole(images')
  <2>. SUFFICES ASSUME NEW h \in DOMAIN images, images'[h].state = "closed", Ordinary(images'[h])
                PROVE  Complete(images'[h])
    BY <1>5 DEF ClosedWhole
  <2>1. \A i \in DOMAIN requests : ~(Bound(requests[i]) /\ requests[i].handle = h)
    BY <1>4
  <2>2. images'[h] = images[h]
    BY <1>1, <2>1
  <2>. QED  BY <1>3, <2>2 DEF ClosedWhole
<1>. HIDE DEF g, R
<1>7. task'.stage = "render" => Owned(requests', images', task'.cell)
  BY <1>2, <1>4, <1>5 DEF Owned
<1>8. task'.stage = "close" => Finished(requests', images')
  BY <1>2, <1>4, <1>5 DEF Finished
<1>9. (task.stage = "render" => Owned(requests, images, task.cell))'
  BY <1>2, <1>7 DEF Owned, Filling, RowRight
<1>. QED  BY <1>6, <1>8, <1>9 DEF PlacedSoFar, Finished, ClosedWhole

LEMMA PlacedClose ==
  ASSUME TaskShape, DisplayInv, PlacedSoFar, Close
  PROVE  PlacedSoFar'
<1>0. /\ DisplaysTyped /\ Handles /\ task.stage = "close" /\ task'.stage = "finish"
      /\ ImagesTyped(images) /\ Finished(requests, images) /\ ClosedWhole(images)
  BY DEF DisplayInv, Close, TaskShape, PlacedSoFar, DisplaysTyped
<1>1. /\ images' = [h \in DOMAIN images |-> images'[h]]
      /\ \A h \in DOMAIN images :
           IF \E i \in DOMAIN requests : Bound(requests[i]) /\ requests[i].handle = h
           THEN images'[h] = Closed(images[h]) /\ images[h].state \in {"open", "misused"}
           ELSE images'[h] = images[h] /\ images[h].state # "open"
  BY <1>0, CloseStep
<1>2. ASSUME NEW h \in DOMAIN images, images'[h].state = "closed", Ordinary(images'[h])
      PROVE  Complete(images'[h])
  <2>1. CASE images'[h] = images[h]
    BY <1>0, <1>2, <2>1 DEF ClosedWhole
  <2>2. ASSUME NEW i \in DOMAIN requests, Bound(requests[i]), requests[i].handle = h
        PROVE  Complete(images'[h])
    <3>1. images'[h] = Closed(images[h])
      BY <1>1, <2>2
    <3>2. SameImage(images[h], images'[h]) /\ images'[h].data = images[h].data
      BY <1>0, <3>1, ClosedFacts DEF ImagesTyped
    <3>3. Ordinary(images[h])
      BY <1>2, <3>2, Zenon DEF Ordinary, SameImage
    <3>4. Complete(images[h])
      BY <1>0, <2>2, <3>3 DEF Finished
    <3>5. images'[h].crop = images[h].crop
      BY <3>2 DEF SameImage
    <3>. QED  BY <3>2, <3>4, <3>5 DEF Complete, RightAt, At
  <2>. QED  BY <1>1, <2>1, <2>2
<1>3. ClosedWhole(images')
  BY <1>1, <1>2 DEF ClosedWhole
<1>. QED  BY <1>0, <1>3 DEF PlacedSoFar, ClosedWhole

LEMMA PlacedOpen ==
  ASSUME TaskShape, DisplayInv, PlacedSoFar, OpenDisplay
  PROVE  PlacedSoFar'
<1>1. task.stage = "open" /\ task'.stage = "open" /\ task.display \in DOMAIN requests
  BY DEF OpenDisplay, Loading, TaskShape
<1>2. /\ RequestsTyped(requests) /\ ImagesTyped(images) /\ DisplaysTyped
      /\ \A i \in DOMAIN requests : Bound(requests[i]) => i < task.display
      /\ task.display \in Nat /\ ClosedWhole(images)
  BY <1>1 DEF DisplayInv, DisplaysTyped, Handles, PlacedSoFar
<1>3. ~Bound(requests[task.display])
  BY <1>1, <1>2
<1>4. \/ images' = images
      \/ \E m : IsImage(m) /\ images' = Append(images, m) /\ m.state # "closed"
  BY <1>2, <1>3, OpenStep
<1>5. ASSUME NEW m, IsImage(m), images' = Append(images, m), m.state # "closed"
      PROVE  ClosedWhole(images')
  <2>1. /\ DOMAIN images' = DOMAIN images \cup {Len(images) + 1}
        /\ images'[Len(images) + 1] = m /\ \A h \in DOMAIN images : images'[h] = images[h]
    BY <1>2, <1>5, OneImageMore
  <2>. QED  BY <1>2, <1>5, <2>1 DEF ClosedWhole
<1>6. ClosedWhole(images')
  BY <1>2, <1>4, <1>5
<1>. QED  BY <1>1, <1>6 DEF PlacedSoFar, ClosedWhole

LEMMA PlacedFirst ==
  ASSUME TaskShape, DisplayInv, PlacedSoFar, RenderImage
  PROVE  PlacedSoFar'
<1>1. /\ task.stage = "open" /\ task'.stage = "render" /\ task'.cell = FirstCell(BucketRegion(window))
      /\ UNCHANGED <<requests, images, window>>
  BY DEF RenderImage, TaskShape
<1>2. /\ AllUnused(requests) /\ Serving(requests, images) /\ ImagesTyped(images) /\ IsWindow(window)
      /\ ClosedWhole(images)
  BY <1>1 DEF DisplayInv, DisplaysTyped, Handles, Rooms, InPass, PlacedSoFar
<1>3. Owned(requests, images, FirstCell(BucketRegion(window)))
  <2>. SUFFICES ASSUME NEW i \in DOMAIN requests, Bound(requests[i])
                PROVE  Filling(requests[i], images[requests[i].handle], FirstCell(BucketRegion(window)))
    BY DEF Owned
  <2>. DEFINE r == requests[i]
              m == images[r.handle]
  <2>1. Unused(r) /\ IsImage(m) /\ m.crop = window.crop
    BY <1>2 DEF AllUnused, Serving, Serves, ImagesTyped
  <2>. HIDE DEF r, m
  <2>2. Filling(r, m, FirstCell(BucketRegion(window)))
    BY <1>2, <2>1, FillingFirst
  <2>. QED  BY <2>2 DEF r, m
<1>4. (task.stage = "render" => Owned(requests, images, task.cell))'
  BY <1>1, <1>3 DEF Owned, Filling, RowRight
<1>. QED  BY <1>1, <1>2, <1>4 DEF PlacedSoFar, ClosedWhole

LEMMA PlacedStep == KeepInv /\ DisplayInv /\ PlacedSoFar /\ [Next]_vars => PlacedSoFar'
<1>. SUFFICES ASSUME KeepInv, DisplayInv, PlacedSoFar, [Next]_vars  PROVE PlacedSoFar'
  OBVIOUS
<1>0. TaskShape
  BY DEF KeepInv, ScopeInv
<1>1. CASE UNCHANGED vars
  BY <1>1 DEF vars, PlacedSoFar, ClosedWhole, Owned, Finished, Filling, RowRight
<1>2. ASSUME images' = images \/ images' = <<>>, task'.stage \notin {"render", "close"}  PROVE PlacedSoFar'
  <2>1. ClosedWhole(images')
    BY <1>2 DEF PlacedSoFar, ClosedWhole
  <2>. QED  BY <1>2, <2>1 DEF PlacedSoFar, ClosedWhole
<1>3. CASE FrameBegin \/ FrameEnd \/ WorldBegin \/ Primitive
  BY <1>2, <1>3 DEF FrameBegin, FrameEnd, WorldBegin, Primitive, idle
<1>4. CASE Settings
  <2>1. images' = images /\ task' = task /\ task.stage = "idle"
    BY <1>4 DEF Settings, Display, Multipass, CropWindow, LightSource, Setting, idle
  <2>. QED  BY <1>2, <2>1
<1>5. CASE WorldEnd \/ StartShadow \/ StartImage \/ Prepare \/ ShadowDone \/ WorldEndReturns
  <2>1. images' = images \/ images' = <<>>
    BY <1>5 DEF WorldEnd, StartShadow, StartImage, Prepare, ShadowDone, WorldEndReturns
  <2>2. task'.stage \notin {"render", "close"}
    BY <1>0, <1>5, TaskSteps
  <2>. QED  BY <1>2, <2>1, <2>2
<1>6. CASE Crash \/ OpenFails
  <2>1. images' = images
    BY <1>6 DEF Crash, OpenFails, DriverThrows
  <2>2. task'.stage \notin {"render", "close"}
    BY <1>0, <1>6, TaskSteps
  <2>. QED  BY <1>2, <2>1, <2>2
<1>. QED  BY <1>0, <1>1, <1>3, <1>4, <1>5, <1>6, NextCases, PlacedOpen, PlacedFirst, PlacedSend, PlacedClose

(* A closed image, of whatever size and crop window, holds every pixel of the  *)
(* crop window at its place, for every bucket size, and whether the buckets    *)
(* come alone or as scanlines.                                                 *)
THEOREM PixelsInPlace == Spec => []EveryPixelInPlace
<1>1. Init => PlacedSoFar
  BY DEF Init, Idle, PlacedSoFar, ClosedWhole
<1>2. PlacedSoFar => EveryPixelInPlace
  BY DEF PlacedSoFar, ClosedWhole, Complete, RightAt, At, EveryPixelInPlace
<1>. QED  BY <1>1, <1>2, KeepInit, DisplayInit, KeepStep, DisplayStep, PlacedStep, PTL DEF Spec
=============================================================================
