--------------------------- MODULE ClientPanesProofs ---------------------------
(***************************************************************************)
(* Proofs about the panes of the client, for any number of sessions and    *)
(* commands.                                                               *)
(***************************************************************************)
EXTENDS ClientPanes, SequenceTheorems, TLAPS

-----------------------------------------------------------------------------
\* Queues.

LEMMA AppendAt ==
  ASSUME NEW S, NEW s \in Seq(S), NEW x
  PROVE  /\ \A i \in DOMAIN s : i \in DOMAIN Append(s, x) /\ Append(s, x)[i] = s[i]
         /\ \E n \in DOMAIN Append(s, x) :
              /\ Append(s, x)[n] = x
              /\ \A i \in DOMAIN Append(s, x) : i = n \/ (i \in DOMAIN s /\ i < n)
<1>1. /\ DOMAIN s = 1..Len(s) /\ Len(s) \in Nat
      /\ DOMAIN Append(s, x) = 1..(Len(s) + 1)
      /\ \A i \in 1..Len(s) : Append(s, x)[i] = s[i]
      /\ Append(s, x)[Len(s) + 1] = x
  OBVIOUS
<1>2. Len(s) + 1 \in DOMAIN Append(s, x)
  BY <1>1
<1>3. \A i \in DOMAIN Append(s, x) : i = Len(s) + 1 \/ (i \in DOMAIN s /\ i < Len(s) + 1)
  BY <1>1
<1> QED
  BY <1>1, <1>2, <1>3

LEMMA TailAt ==
  ASSUME NEW S, NEW s \in Seq(S), s # <<>>
  PROVE  /\ Head(s) \in S /\ Tail(s) \in Seq(S)
         /\ 1 \in DOMAIN s /\ Head(s) = s[1]
         /\ \A i \in DOMAIN Tail(s) :
              i \in Nat /\ i > 0 /\ i + 1 \in DOMAIN s /\ Tail(s)[i] = s[i + 1]
<1>1. /\ DOMAIN s = 1..Len(s) /\ Len(s) \in Nat /\ Len(s) > 0
      /\ Head(s) = s[1] /\ Head(s) \in S
  BY EmptySeq, LenProperties
<1>2. /\ Tail(s) \in Seq(S) /\ Len(Tail(s)) = Len(s) - 1
      /\ \A i \in 1..(Len(s) - 1) : Tail(s)[i] = s[i + 1]
  BY HeadTailProperties
<1>3. DOMAIN Tail(s) = 1..(Len(s) - 1)
  BY <1>2, LenProperties
<1>4. \A i \in 1..(Len(s) - 1) : i \in Nat /\ i > 0 /\ i + 1 \in 1..Len(s)
  BY <1>1
<1> QED
  BY <1>1, <1>2, <1>3, <1>4

LEMMA JoinOnes == \A a, b : <<a>> \o <<b>> = <<a, b>>
<1> SUFFICES ASSUME NEW a, NEW b PROVE <<a>> \o <<b>> = <<a, b>>
  OBVIOUS
<1>1. <<a>> \in Seq({a, b}) /\ <<b>> \in Seq({a, b}) /\ <<a, b>> \in Seq({a, b})
  OBVIOUS
<1>2. <<a>> \o <<b>> \in Seq({a, b}) /\ Len(<<a>> \o <<b>>) = 2
      /\ (<<a>> \o <<b>>)[1] = a /\ (<<a>> \o <<b>>)[2] = b
  BY <1>1, ConcatProperties
<1>3. Len(<<a, b>>) = 2 /\ <<a, b>>[1] = a /\ <<a, b>>[2] = b
  OBVIOUS
<1> DEFINE s == <<a>> \o <<b>>
           t == <<a, b>>
<1> HIDE DEF s, t
<1>4. Len(s) = Len(t) /\ s \in Seq({a, b}) /\ t \in Seq({a, b}) /\ \A i \in 1..Len(s) : s[i] = t[i]
  <2>1. Len(s) = 2 /\ Len(t) = 2 /\ s[1] = t[1] /\ s[2] = t[2] /\ s \in Seq({a, b}) /\ t \in Seq({a, b})
    BY <1>1, <1>2, <1>3 DEF s, t
  <2>2. \A i \in 1..2 : i = 1 \/ i = 2
    OBVIOUS
  <2> QED
    BY <2>1, <2>2
<1>5. s = t
  BY <1>4, SeqEqual
<1> QED
  BY <1>5 DEF s, t

-----------------------------------------------------------------------------
(***************************************************************************)
(* Readers and the calls on them.                                          *)
(***************************************************************************)
Live(s) == ses[s].phase \notin {"unused", "gone"}

\* What waits in the channel of the Control connection waits there once.
AsksOnce ==
  /\ \A i \in DOMAIN asks : ses[asks[i]].phase = "asking"
  /\ \A i, j \in DOMAIN asks : i # j => asks[i] # asks[j]

\* A pane that shows or awaits a client has one.
Named ==
  /\ \A p \in Panes : view[p] # "clients" => chosen[p] # None
  /\ \A s \in Sessions : Live(s) => chosen[ses[s].pane] # None
  /\ \A i \in DOMAIN posts : posts[i].kind = "dents" => chosen[posts[i].pane] # None

\* The calls under way have the modal they come from.
CallsMeant ==
  /\ InCall => ui.todo # <<>>
  /\ \A i \in DOMAIN ui.todo : ui.todo[i].op = "change" => dialog # <<>>
  /\ \A i \in DOMAIN ui.todo : chosen[ui.todo[i].pane] # None
  /\ dialog # <<>> => chosen[dialog[1].call.pane] # None

ReadersKept == OneReaderPerPane /\ ReaderInUseStays

(***************************************************************************)
(* Why calls reach the client a pane is headed with, in a pane the user    *)
(* has not disconnected: whoever chooses another client there has been     *)
(* shown that the last session ended, and nothing of it comes any more.    *)
(***************************************************************************)
Of(p) == {s \in Sessions : Live(s) /\ ses[s].pane = p}

\* All sessions of the pane but the newest are ending.
Newest(p) == \A s \in Of(p) : ses[s].phase # "closing" => s = chosen[p]
Over(p) == \A s \in Of(p) : ses[s].phase = "closing"
Sole(p) == \A s \in Of(p) : s = chosen[p]

\* A pane that shows the clients has seen the end of its sessions, and an
\* error is the last a pane hears of one.
Cleared(p) ==
  view[p] = "clients" => Over(p) /\ \A i \in DOMAIN posts : posts[i].pane = p => posts[i].kind = "result"
LastWord(p) ==
  \A i \in DOMAIN posts : posts[i].kind = "error" /\ posts[i].pane = p =>
    Over(p) /\ \A j \in DOMAIN posts : j > i => posts[j].pane # p

\* What the user does concerns the only session of the pane.
Alone(p) ==
  /\ view[p] = "browser" => Sole(p)
  /\ \A i \in DOMAIN posts : posts[i].kind = "dents" /\ posts[i].pane = p => Sole(p)
  /\ \A s \in Of(p) : ses[s].phase \in {"connecting", "open"} => Sole(p)
Meant(p) ==
  /\ dialog # <<>> /\ dialog[1].call.pane = p => Sole(p) /\ dialog[1].call.to = chosen[p]
  /\ \A i \in DOMAIN ui.todo : ui.todo[i].pane = p => Sole(p) /\ ui.todo[i].to = chosen[p]

Addressed ==
  \A p \in Panes : left[p] \/ (Newest(p) /\ Cleared(p) /\ LastWord(p) /\ Alone(p) /\ Meant(p))

Rest == AsksOnce /\ Named /\ CallsMeant /\ ReadersKept /\ Addressed
PanesInv == TypeOK /\ Rest

LEMMA PanesInit == Init => PanesInv
<1> SUFFICES ASSUME Init PROVE PanesInv
  OBVIOUS
<1> USE PanesAssumption DEF Init
<1>1. TypeOK
  BY DEF TypeOK, SessionType, Unused, Panes, Sessions, Dirs, Kinds, Option
<1>2. AsksOnce /\ Named /\ CallsMeant
  BY DEF AsksOnce, Named, CallsMeant, Live, Unused, InCall
<1>3. ReadersKept
  BY DEF ReadersKept, OneReaderPerPane, ReaderInUseStays, Registered, Unused, InCall, Sessions
<1>4. Addressed
  BY DEF Addressed, Newest, Cleared, LastWord, Alone, Meant, Of, Live, Unused, Over
<1> QED
  BY <1>1, <1>2, <1>3, <1>4 DEF PanesInv, Rest

-----------------------------------------------------------------------------
\* Types, action by action.

LEMMA CallTyped ==
  ASSUME NEW op \in {"cd", "reload", "change"}, NEW p \in Panes, NEW d \in Dirs, NEW s \in Sessions
  PROVE  Call(op, p, d, s) \in CallSet
  BY DEF Call, CallSet

LEMMA CallsTyped == ASSUME TypeOK, NEW todo \in Seq(CallSet), Calls(todo)
                    PROVE  ui' \in [todo : Seq(CallSet), at : Sessions \cup {None}, thrown : BOOLEAN]
  BY DEF TypeOK, Calls

LEMMA ChosenTyped ==
  ASSUME TypeOK, Named, NEW p \in Panes, view[p] = "browser"
  PROVE  chosen[p] \in Sessions /\ shown[p].dir \in Dirs
  BY DEF TypeOK, Named

\* What reload_info calls.
LEMMA ReloadTyped ==
  ASSUME TypeOK, Named
  PROVE  /\ ReloadCalls \in Seq(CallSet)
         /\ \A i \in DOMAIN ReloadCalls :
              /\ ReloadCalls[i].op = "reload" /\ ReloadCalls[i].pane \in Panes
              /\ view[ReloadCalls[i].pane] = "browser"
              /\ ReloadCalls[i].to = chosen[ReloadCalls[i].pane]
<1> DEFINE call(p) == Call("reload", p, shown[p].dir, chosen[p])
<1>1. ASSUME NEW p \in Panes, view[p] = "browser"
      PROVE  call(p) \in CallSet /\ call(p).op = "reload" /\ call(p).pane = p /\ call(p).to = chosen[p]
  BY <1>1, ChosenTyped, CallTyped DEF Call
<1> HIDE DEF call
<1>2. 0 \in Panes /\ 1 \in Panes
  BY DEF Panes
<1>3. CASE view[0] = "browser" /\ view[1] = "browser"
  <2>1. ReloadCalls = <<call(0), call(1)>>
    <3>1. ReloadCall(0) = <<call(0)>> /\ ReloadCall(1) = <<call(1)>>
      BY <1>3 DEF ReloadCall, call
    <3> QED
      BY <3>1, JoinOnes DEF ReloadCalls
  <2> QED
    BY <2>1, <1>1, <1>2, <1>3
<1>4. CASE view[0] = "browser" /\ view[1] # "browser"
  <2>1. ReloadCalls = <<call(0)>>
    BY <1>4 DEF ReloadCalls, ReloadCall, call
  <2> QED
    BY <2>1, <1>1, <1>2, <1>4
<1>5. CASE view[0] # "browser" /\ view[1] = "browser"
  <2>1. ReloadCalls = <<call(1)>>
    BY <1>5 DEF ReloadCalls, ReloadCall, call
  <2> QED
    BY <2>1, <1>1, <1>2, <1>5
<1>6. CASE view[0] # "browser" /\ view[1] # "browser"
  <2>1. ReloadCalls = <<>>
    BY <1>6 DEF ReloadCalls, ReloadCall
  <2> QED
    BY <2>1
<1> QED
  BY <1>3, <1>4, <1>5, <1>6


\* Sessions.
LEMMA SessionTypes ==
  /\ Unused \in SessionType /\ Gone \in SessionType
  /\ \A p \in Panes : [Unused EXCEPT !.phase = "asking", !.pane = p] \in SessionType
  /\ \A e \in SessionType :
       /\ [e EXCEPT !.phase = "asked"] \in SessionType
       /\ [e EXCEPT !.phase = "closing"] \in SessionType
       /\ [e EXCEPT !.sock = FALSE] \in SessionType
       /\ [e EXCEPT !.phase = "connecting", !.sock = TRUE, !.chan = TRUE] \in SessionType
       /\ [e EXCEPT !.out = "thrown", !.item = <<>>] \in SessionType
       /\ [e EXCEPT !.phase = "closing", !.out = "ended", !.item = <<>>, !.wire = <<>>,
                    !.sock = FALSE, !.chan = FALSE] \in SessionType
  /\ \A e \in SessionType : \A w \in Seq(Requests) :
       /\ [e EXCEPT !.wire = w] \in SessionType
       /\ [e EXCEPT !.out = "ready", !.item = <<>>, !.wire = w] \in SessionType
  /\ \A e \in SessionType : \A r \in Requests :
       /\ [e EXCEPT !.out = "sending", !.item = <<r>>] \in SessionType
       /\ [e EXCEPT !.phase = "open", !.out = "sending", !.item = <<r>>] \in SessionType
<1>1. <<>> \in Option(Requests) /\ \A r \in Requests : <<r>> \in Option(Requests)
  BY DEF Option
<1>2. <<>> \in Seq(Requests) /\ 0 \in Panes
  BY DEF Panes
<1> HIDE DEF Option, Requests, Panes
<1>3. Unused \in SessionType
  BY <1>1, <1>2 DEF Unused, SessionType
<1>4. Gone \in SessionType /\ \A p \in Panes : [Unused EXCEPT !.phase = "asking", !.pane = p] \in SessionType
  BY <1>3 DEF Gone, SessionType
<1>5. \A e \in SessionType :
       /\ [e EXCEPT !.phase = "asked"] \in SessionType
       /\ [e EXCEPT !.phase = "closing"] \in SessionType
       /\ [e EXCEPT !.sock = FALSE] \in SessionType
       /\ [e EXCEPT !.phase = "connecting", !.sock = TRUE, !.chan = TRUE] \in SessionType
  BY DEF SessionType
<1>6. \A e \in SessionType :
       /\ [e EXCEPT !.out = "thrown", !.item = <<>>] \in SessionType
       /\ [e EXCEPT !.phase = "closing", !.out = "ended", !.item = <<>>, !.wire = <<>>,
                    !.sock = FALSE, !.chan = FALSE] \in SessionType
  BY <1>1, <1>2 DEF SessionType
<1>7. \A e \in SessionType : \A w \in Seq(Requests) :
       /\ [e EXCEPT !.wire = w] \in SessionType
       /\ [e EXCEPT !.out = "ready", !.item = <<>>, !.wire = w] \in SessionType
  BY <1>1 DEF SessionType
<1>8. \A e \in SessionType : \A r \in Requests :
       /\ [e EXCEPT !.out = "sending", !.item = <<r>>] \in SessionType
       /\ [e EXCEPT !.phase = "open", !.out = "sending", !.item = <<r>>] \in SessionType
  BY <1>1 DEF SessionType
<1> QED
  BY <1>3, <1>4, <1>5, <1>6, <1>7, <1>8

LEMMA UserTyped == PanesInv /\ User => TypeOK'
<1> SUFFICES ASSUME PanesInv, User PROVE TypeOK'
  OBVIOUS
<1> USE DEF PanesInv, Rest
<1>1. ASSUME NEW kind \in Kinds, Command(kind) PROVE commands' \in [Kinds -> 0..MaxCommands]
  BY <1>1, PanesAssumption DEF Command, TypeOK
<1> "enter" \in Kinds /\ "reload" \in Kinds /\ "leave" \in Kinds
  BY DEF Kinds
<1>2. ASSUME NEW p \in Panes, Connect(p) PROVE TypeOK'
  <2>1. PICK s \in Sessions :
          /\ ses' = [ses EXCEPT ![s] = [Unused EXCEPT !.phase = "asking", !.pane = p]]
          /\ asks' = Append(asks, s)
          /\ chosen' = [chosen EXCEPT ![p] = s]
    BY <1>2 DEF Connect
  <2>2. ses' \in [Sessions -> SessionType]
    BY <2>1, SessionTypes DEF TypeOK
  <2>3. asks' \in Seq(Sessions) /\ chosen' \in [Panes -> Sessions \cup {None}]
    BY <2>1, AppendProperties DEF TypeOK
  <2> QED
    BY <1>2, <2>2, <2>3 DEF Connect, TypeOK
<1>3. ASSUME NEW p \in Panes, NEW d \in Dirs, Cd(p, d) PROVE TypeOK'
  <2>1. <<Call("cd", p, d, chosen[p])>> \in Seq(CallSet)
    BY <1>3, ChosenTyped, CallTyped DEF Cd
  <2> QED
    BY <1>1, <1>3, <2>1, CallsTyped DEF Cd, TypeOK, network
<1>4. ASSUME NEW p \in Panes, Disconnect(p) PROVE TypeOK'
  <2>1. ses' \in [Sessions -> SessionType]
    <3>1. CASE readers[p] = None
      BY <3>1, <1>4 DEF Disconnect, TypeOK
    <3>2. CASE readers[p] # None
      <4>1. readers[p] \in Sessions /\ ses' = [ses EXCEPT ![readers[p]].sock = FALSE]
        BY <3>2, <1>4 DEF Disconnect, TypeOK
      <4> QED
        BY <4>1, SessionTypes DEF TypeOK
    <3> QED
      BY <3>1, <3>2
  <2> QED
    BY <1>1, <1>4, <2>1 DEF Disconnect, TypeOK, network
<1>5. ASSUME NEW p \in Panes, OpenDialog(p) PROVE TypeOK'
  <2>1. Call("change", p, shown[p].dir, chosen[p]) \in CallSet
    BY <1>5, ChosenTyped, CallTyped DEF OpenDialog
  <2>2. dialog' \in Option(DialogType)
    BY <1>5, <2>1 DEF OpenDialog, Option, DialogType
  <2> QED
    BY <1>1, <1>5, <2>2 DEF OpenDialog, TypeOK, network
<1>6. ASSUME Reload PROVE TypeOK'
  BY <1>1, <1>6, ReloadTyped, CallsTyped DEF Reload, TypeOK, network
<1>7. ASSUME Confirm PROVE TypeOK'
  <2>1. <<dialog[1].call>> \in Seq(CallSet)
    BY <1>7 DEF Confirm, TypeOK, Option, DialogType
  <2> QED
    BY <1>7, <2>1, CallsTyped DEF Confirm, TypeOK, user, network
<1>8. ASSUME Cancel PROVE TypeOK'
  BY <1>8 DEF Cancel, TypeOK, Option, network
<1>9. ASSUME Ok PROVE TypeOK'
  <2>1. dialog' \in Option(DialogType)
    BY <1>9 DEF Ok, Option
  <2> QED
    BY <1>9, <2>1, ReloadTyped, CallsTyped DEF Ok, TypeOK, network
<1> QED
  BY <1>2, <1>3, <1>4, <1>5, <1>6, <1>7, <1>8, <1>9 DEF User

LEMMA PostTyped ==
  ASSUME TypeOK, posts # <<>>
  PROVE  Head(posts) \in PostType /\ Head(posts).pane \in Panes /\ Tail(posts) \in Seq(PostType)
         /\ [client |-> Head(posts).client, dir |-> Head(posts).dir]
              \in [client : Sessions \cup {None}, dir : Dirs]
<1>1. Head(posts) \in PostType /\ Tail(posts) \in Seq(PostType)
  BY TailAt DEF TypeOK
<1> QED
  BY <1>1 DEF PostType

LEMMA UiTyped == PanesInv /\ (UiCall \/ UiPost) => TypeOK'
<1> SUFFICES ASSUME PanesInv, UiCall \/ UiPost PROVE TypeOK'
  OBVIOUS
<1> USE DEF PanesInv, Rest
<1>1. ASSUME Enter PROVE TypeOK'
  <2>1. ui.todo \in Seq(CallSet) /\ ui.todo # <<>> /\ ui.todo[1] = Head(ui.todo)
    BY <1>1, TailAt DEF Enter, TypeOK
  <2>2. ui.todo[1].pane \in Panes
    <3>1. Head(ui.todo) \in CallSet
      BY <2>1, TailAt
    <3> QED
      BY <2>1, <3>1 DEF CallSet
  <2>3. readers[ui.todo[1].pane] \in Sessions \cup {None}
    BY <2>2 DEF TypeOK
  <2>4. ui' \in [todo : Seq(CallSet), at : Sessions \cup {None}, thrown : BOOLEAN]
    BY <1>1, <2>3 DEF Enter, TypeOK
  <2> QED
    BY <1>1, <2>4 DEF Enter, TypeOK, user, network
<1>2. ASSUME TrySend PROVE TypeOK'
  <2>1. /\ ui.todo \in Seq(CallSet) /\ ui.todo # <<>> /\ ui.at \in Sessions
        /\ 1 \in DOMAIN ui.todo /\ ui.todo[1] \in CallSet /\ Tail(ui.todo) \in Seq(CallSet)
    <3>1. ui.todo \in Seq(CallSet) /\ ui.todo # <<>> /\ ui.at \in Sessions
      BY <1>2 DEF TrySend, InCall, TypeOK, CallsMeant
    <3> QED
      BY <3>1, TailAt
  <2>2. ui' \in [todo : Seq(CallSet), at : Sessions \cup {None}, thrown : BOOLEAN]
    BY <1>2, <2>1 DEF TrySend, TypeOK
  <2>3. dialog' \in Option(DialogType)
    <3>1. CASE ui.todo[1].op = "change"
      <4>1. dialog[1] \in DialogType /\ dialog' = <<[dialog[1] EXCEPT !.state = "waiting"]>>
        BY <1>2, <2>1, <3>1 DEF TrySend, TypeOK, Option, CallsMeant
      <4> QED
        BY <4>1 DEF Option, DialogType
    <3>2. CASE ui.todo[1].op # "change"
      BY <1>2, <3>2 DEF TrySend, TypeOK
    <3> QED
      BY <3>1, <3>2
  <2>4. PICK r \in Requests :
          ses' = [ses EXCEPT ![ui.at].out = "sending", ![ui.at].item = <<r>>]
    <3>1. Request(IF ui.todo[1].op = "reload" THEN "cd" ELSE ui.todo[1].op, ui.todo[1].dir) \in Requests
      BY <2>1 DEF Request, Requests, CallSet
    <3> QED
      BY <1>2, <3>1 DEF TrySend
  <2>5. ses' \in [Sessions -> SessionType]
    <3>1. ses' = [ses EXCEPT ![ui.at] = [ses[ui.at] EXCEPT !.out = "sending", !.item = <<r>>]]
      BY <2>1, <2>4 DEF TypeOK
    <3> QED
      BY <3>1, <2>1, SessionTypes DEF TypeOK
  <2>6. view' \in [Panes -> {"clients", "browser", "waiting"}]
    BY <1>2, <2>1 DEF TrySend, TypeOK
  <2> QED
    BY <1>2, <2>2, <2>3, <2>5, <2>6 DEF TrySend, TypeOK, network
<1>3. ASSUME ShowDents PROVE TypeOK'
  <2>1. view' \in [Panes -> {"clients", "browser", "waiting"}]
    BY <1>3, PostTyped DEF ShowDents, Took, TypeOK
  <2>2. shown' \in [Panes -> [client : Sessions \cup {None}, dir : Dirs]]
    BY <1>3, PostTyped DEF ShowDents, Took, TypeOK
  <2> QED
    BY <1>3, <2>1, <2>2, PostTyped DEF ShowDents, Took, TypeOK, network
<1>4. ASSUME BrowserError PROVE TypeOK'
  BY <1>4, PostTyped DEF BrowserError, Took, TypeOK, network
<1>5. ASSUME ShowResult PROVE TypeOK'
  <2>1. dialog' \in Option(DialogType)
    <3>1. CASE dialog = <<>>
      BY <1>5, <3>1 DEF ShowResult, Option
    <3>2. CASE dialog # <<>>
      <4>1. dialog[1] \in DialogType /\ dialog' = <<[dialog[1] EXCEPT !.state = "result"]>>
        BY <1>5, <3>2 DEF ShowResult, TypeOK, Option
      <4> QED
        BY <4>1 DEF Option, DialogType
    <3> QED
      BY <3>1, <3>2
  <2> QED
    BY <1>5, <2>1, PostTyped DEF ShowResult, Took, TypeOK, network
<1> QED
  BY <1>1, <1>2, <1>3, <1>4, <1>5 DEF UiCall, UiPost

LEMMA LockTyped ==
  ASSUME TypeOK, NEW s \in Sessions, NEW step \in {"ask", "refused", "emplace", "erase"}
  PROVE  /\ Locking(step, s) =>
              net' \in {<<>>} \cup ({"ask", "refused", "emplace", "erase"} \X Sessions)
         /\ \A enabled : Blocked(step, s, enabled) => TypeOK'
<1>1. <<step, s>> \in {"ask", "refused", "emplace", "erase"} \X Sessions
  OBVIOUS
<1>2. ASSUME NEW enabled, Blocked(step, s, enabled) PROVE TypeOK'
  BY <1>1, <1>2 DEF Blocked, TypeOK, user
<1> QED
  BY <1>1, <1>2 DEF Locking, TypeOK

LEMMA PostAdded ==
  ASSUME TypeOK, NEW p \in Panes
  PROVE  /\ Append(posts, ErrorPost(p)) \in Seq(PostType)
         /\ \A k \in {"dents", "result"} : \A s \in Sessions : \A d \in Dirs : \A ok \in BOOLEAN :
              Append(posts, Post(k, p, s, d, ok)) \in Seq(PostType)
<1>1. ErrorPost(p) \in PostType
  BY DEF ErrorPost, Post, PostType, Dirs
<1>2. ASSUME NEW k \in {"dents", "result"}, NEW s \in Sessions, NEW d \in Dirs, NEW ok \in BOOLEAN
      PROVE  Post(k, p, s, d, ok) \in PostType
  BY DEF Post, PostType
<1> QED
  BY <1>1, <1>2, AppendProperties DEF TypeOK

LEMMA NetTyped == ASSUME PanesInv, NEW s \in Sessions, Asking(s) \/ Reading(s) PROVE TypeOK'
<1>1. /\ TypeOK /\ ses[s] \in SessionType /\ ses[s].pane \in Panes
      /\ ses[s].wire \in Seq(Requests) /\ ses[s].item \in Option(Requests)
  BY DEF PanesInv, Rest, TypeOK, SessionType
<1>2. \A e \in SessionType : [ses EXCEPT ![s] = e] \in [Sessions -> SessionType]
  BY <1>1 DEF TypeOK
<1>3. ASSUME SendAsk(s) PROVE TypeOK'
  <2>1. CASE Blocked("ask", s, asks # <<>> /\ Head(asks) = s)
    BY <2>1, <1>1, LockTyped
  <2>2. CASE ~Blocked("ask", s, asks # <<>> /\ Head(asks) = s)
    <3>1. ses' \in [Sessions -> SessionType] /\ asks' \in Seq(Sessions)
      <4>1. asks # <<>> /\ asks' = Tail(asks) /\ asks \in Seq(Sessions)
        BY <2>2, <1>3, <1>1 DEF SendAsk, TypeOK
      <4>2. ses' = [ses EXCEPT ![s] = [ses[s] EXCEPT !.phase = "asked"]]
        BY <2>2, <1>3, <1>1 DEF SendAsk, TypeOK
      <4> QED
        BY <4>1, <4>2, <1>1, <1>2, SessionTypes, TailAt
    <3> QED
      BY <2>2, <1>3, <1>1, <3>1, LockTyped DEF SendAsk, TypeOK, user
  <2> QED
    BY <2>1, <2>2
<1>4. ASSUME Refused(s) PROVE TypeOK'
  <2>1. CASE Blocked("refused", s, ses[s].phase = "asked")
    BY <2>1, <1>1, LockTyped
  <2>2. CASE ~Blocked("refused", s, ses[s].phase = "asked")
    <3>1. ses' \in [Sessions -> SessionType] /\ posts' \in Seq(PostType)
      BY <2>2, <1>4, <1>1, <1>2, SessionTypes, PostAdded DEF Refused
    <3> QED
      BY <2>2, <1>4, <1>1, <3>1, LockTyped DEF Refused, TypeOK, user
  <2> QED
    BY <2>1, <2>2
<1>5. ASSUME Emplace(s) PROVE TypeOK'
  <2>1. CASE Blocked("emplace", s, ses[s].phase = "asked")
    BY <2>1, <1>1, LockTyped
  <2>2. CASE ~Blocked("emplace", s, ses[s].phase = "asked")
    <3>1. readers' \in [Panes -> Sessions \cup {None}]
      BY <2>2, <1>5, <1>1 DEF Emplace, TypeOK
    <3>2. warned' \in [Panes -> BOOLEAN]
      BY <2>2, <1>5, <1>1 DEF Emplace, TypeOK
    <3>3. ses' \in [Sessions -> SessionType]
      <4>1. \/ ses' = [ses EXCEPT ![s] = Gone]
            \/ ses' = [ses EXCEPT ![s] = [ses[s] EXCEPT !.phase = "connecting", !.sock = TRUE, !.chan = TRUE]]
        BY <2>2, <1>5, <1>1 DEF Emplace, TypeOK
      <4> QED
        BY <4>1, <1>1, <1>2, SessionTypes
    <3> QED
      BY <2>2, <1>5, <1>1, <3>1, <3>2, <3>3, LockTyped DEF Emplace, TypeOK, user
  <2> QED
    BY <2>1, <2>2
<1>6. ASSUME Erase(s) PROVE TypeOK'
  <2>1. CASE Blocked("erase", s, ses[s].phase = "closing")
    BY <2>1, <1>1, LockTyped
  <2>2. CASE ~Blocked("erase", s, ses[s].phase = "closing")
    <3>1. ses' \in [Sessions -> SessionType] /\ readers' \in [Panes -> Sessions \cup {None}]
      BY <2>2, <1>6, <1>1, <1>2, SessionTypes DEF Erase, TypeOK
    <3> QED
      BY <2>2, <1>6, <1>1, <3>1, LockTyped DEF Erase, TypeOK, user
  <2> QED
    BY <2>1, <2>2
<1>7. ASSUME ConnectReader(s) PROVE TypeOK'
  <2>1. PICK r \in Requests :
          ses' = [ses EXCEPT ![s].phase = "open", ![s].out = "sending", ![s].item = <<r>>]
    BY <1>7 DEF ConnectReader, Request, Requests, Dirs
  <2>2. ses' = [ses EXCEPT ![s] = [ses[s] EXCEPT !.phase = "open", !.out = "sending", !.item = <<r>>]]
    BY <2>1, <1>1 DEF TypeOK
  <2>3. ses' \in [Sessions -> SessionType]
    BY <2>2, <1>1, <1>2, SessionTypes
  <2> QED
    BY <1>7, <1>1, <2>3 DEF ConnectReader, TypeOK, user, network
<1>8. ASSUME ConnectFails(s) PROVE TypeOK'
  <2>1. ses' \in [Sessions -> SessionType] /\ warned' \in [Panes -> BOOLEAN]
    BY <1>8, <1>1, <1>2, SessionTypes DEF ConnectFails, TypeOK
  <2> QED
    BY <1>8, <1>1, <2>1 DEF ConnectFails, TypeOK, user
<1>9. ASSUME Sent(s) PROVE TypeOK'
  <2>1. ses[s].wire \o ses[s].item \in Seq(Requests)
    <3>1. ses[s].item \in Seq(Requests)
      <4>1. CASE ses[s].item = <<>>
        BY <4>1
      <4>2. CASE \E r \in Requests : ses[s].item = <<r>>
        BY <4>2
      <4> QED
        BY <1>1, <4>1, <4>2 DEF Option
    <3> QED
      BY <3>1, <1>1, ConcatProperties
  <2>2. ses' = [ses EXCEPT ![s] = [ses[s] EXCEPT !.out = "ready", !.item = <<>>,
                                                 !.wire = ses[s].wire \o ses[s].item]]
    BY <1>9, <1>1 DEF Sent, TypeOK
  <2>3. ses' \in [Sessions -> SessionType]
    BY <2>1, <2>2, <1>1, <1>2, SessionTypes
  <2> QED
    BY <1>9, <1>1, <2>3 DEF Sent, TypeOK, user, network
<1>10. ASSUME SendThrows(s) PROVE TypeOK'
  <2>1. ses' = [ses EXCEPT ![s] = [ses[s] EXCEPT !.out = "thrown", !.item = <<>>]]
    BY <1>10, <1>1 DEF SendThrows, TypeOK
  <2>2. ses' \in [Sessions -> SessionType]
    BY <2>1, <1>1, <1>2, SessionTypes
  <2> QED
    BY <1>10, <1>1, <2>2 DEF SendThrows, TypeOK, user, network
<1>11. ASSUME Answer(s) PROVE TypeOK'
  <2>1. Head(ses[s].wire) \in Requests /\ Tail(ses[s].wire) \in Seq(Requests)
    BY <1>11, <1>1, TailAt DEF Answer
  <2>2. posts' \in Seq(PostType)
    <3>1. Head(ses[s].wire).dir \in Dirs /\ "top" \in Dirs
      BY <2>1 DEF Requests, Dirs
    <3>2. \/ \E ok \in BOOLEAN :
                posts' = Append(posts, Post("dents", ses[s].pane, s, Head(ses[s].wire).dir, ok))
          \/ posts' = Append(posts, Post("result", ses[s].pane, s, "top", TRUE))
      BY <1>11 DEF Answer
    <3> QED
      BY <1>1, <3>1, <3>2, PostAdded
  <2>3. ses' \in [Sessions -> SessionType]
    <3>1. ses' = [ses EXCEPT ![s] = [ses[s] EXCEPT !.wire = Tail(ses[s].wire)]]
      BY <1>11, <1>1 DEF Answer, TypeOK
    <3> QED
      BY <3>1, <1>1, <1>2, <2>1, SessionTypes
  <2> QED
    BY <1>11, <1>1, <2>2, <2>3 DEF Answer, TypeOK, user, network
<1>12. Ended(s) \in [Sessions -> SessionType]
  <2>1. Ended(s) = [ses EXCEPT ![s] = [ses[s] EXCEPT !.phase = "closing", !.out = "ended", !.item = <<>>,
                                         !.wire = <<>>, !.sock = FALSE, !.chan = FALSE]]
    BY <1>1 DEF Ended, TypeOK
  <2> QED
    BY <2>1, <1>1, <1>2, SessionTypes
<1>13. ASSUME IncomingFails(s) PROVE TypeOK'
  BY <1>13, <1>1, <1>12, PostAdded DEF IncomingFails, TypeOK, user, network
<1>14. ASSUME IncomingStops(s) PROVE TypeOK'
  BY <1>14, <1>1, <1>12 DEF IncomingStops, TypeOK, user, network
<1> QED
  BY <1>3, <1>4, <1>5, <1>6, <1>7, <1>8, <1>9, <1>10, <1>11, <1>13, <1>14 DEF Asking, Reading

-----------------------------------------------------------------------------
\* Steps of the UI that leave the sessions where they are.

SessionsStay == \A s \in Sessions : ses'[s].phase = ses[s].phase /\ ses'[s].pane = ses[s].pane

LEMMA StayMeans ==
  ASSUME TypeOK, SessionsStay
  PROVE  /\ \A s \in Sessions : (Live(s)' <=> Live(s)) /\ (Registered(s)' <=> Registered(s))
         /\ \A p \in Panes : Of(p)' = Of(p) /\ (Over(p)' <=> Over(p))
         /\ chosen' = chosen => \A p \in Panes : (Newest(p)' <=> Newest(p)) /\ (Sole(p)' <=> Sole(p))
<1>1. \A s \in Sessions : (Live(s)' <=> Live(s)) /\ (Registered(s)' <=> Registered(s))
  BY DEF SessionsStay, Live, Registered
<1>2. \A p \in Panes : Of(p)' = Of(p)
  BY <1>1 DEF Of, SessionsStay
<1>3. \A p \in Panes : Over(p)' <=> Over(p)
  BY <1>2 DEF Over, SessionsStay, Of
<1>4. ASSUME chosen' = chosen PROVE \A p \in Panes : (Newest(p)' <=> Newest(p)) /\ (Sole(p)' <=> Sole(p))
  BY <1>2, <1>4 DEF Newest, Sole, SessionsStay, Of
<1> QED
  BY <1>1, <1>2, <1>3, <1>4

LEMMA StayKeeps ==
  ASSUME PanesInv, SessionsStay, UNCHANGED <<asks, readers>>
  PROVE  AsksOnce' /\ OneReaderPerPane'
<1>1. AsksOnce'
  <2>1. asks \in Seq(Sessions)
    BY DEF PanesInv, TypeOK
  <2>2. \A i \in DOMAIN asks : asks[i] \in Sessions
    BY <2>1
  <2> QED
    BY <2>2 DEF PanesInv, Rest, AsksOnce, SessionsStay
<1>2. OneReaderPerPane'
  BY StayMeans DEF PanesInv, Rest, ReadersKept, OneReaderPerPane, SessionsStay
<1> QED
  BY <1>1, <1>2

\* New calls concern the only session of their pane.
LEMMA CallsKeep ==
  ASSUME PanesInv, UiIdle, NEW todo \in Seq(CallSet), Calls(todo),
         dialog' \in {dialog, <<>>}, UNCHANGED <<view, chosen, posts, asks, readers, ses, left>>,
         \A i \in DOMAIN todo :
           /\ todo[i].pane \in Panes /\ chosen[todo[i].pane] # None
           /\ todo[i].op = "change" => dialog' # <<>>
           /\ left[todo[i].pane] \/ (Sole(todo[i].pane) /\ todo[i].to = chosen[todo[i].pane])
  PROVE  Rest'
<1> USE DEF PanesInv, Rest
<1>1. SessionsStay
  BY DEF SessionsStay
<1>2. ui'.todo = todo /\ ui'.at = ui.at /\ ui.at = None
  BY DEF Calls, UiIdle, TypeOK, CallsMeant, InCall
<1>3. AsksOnce' /\ OneReaderPerPane'
  BY <1>1, StayKeeps
<1>4. ReadersKept'
  BY <1>2, <1>3 DEF ReadersKept, ReaderInUseStays, InCall
<1>5. Named'
  BY <1>1, StayMeans DEF Named, SessionsStay
<1>6. CallsMeant'
  BY <1>2 DEF CallsMeant, InCall
<1>7. Addressed'
  <2> SUFFICES ASSUME NEW p \in Panes, ~left[p]
               PROVE  (Newest(p) /\ Cleared(p) /\ LastWord(p) /\ Alone(p) /\ Meant(p))'
    BY DEF Addressed
  <2>1. Newest(p) /\ Cleared(p) /\ LastWord(p) /\ Alone(p) /\ Meant(p)
    BY DEF Addressed
  <2>2. Of(p)' = Of(p) /\ (Over(p)' <=> Over(p)) /\ (Newest(p)' <=> Newest(p)) /\ (Sole(p)' <=> Sole(p))
    BY <1>1, StayMeans
  <2>3. (Cleared(p) /\ LastWord(p) /\ Alone(p))'
    BY <1>1, <2>1, <2>2 DEF Cleared, LastWord, Alone, SessionsStay, Of
  <2>4. Meant(p)'
    BY <1>2, <2>1, <2>2 DEF Meant
  <2> QED
    BY <2>1, <2>2, <2>3, <2>4
<1> QED
  BY <1>3, <1>4, <1>5, <1>6, <1>7

\* The modal is opened on a pane that shows a directory.
LEMMA DialogKeeps ==
  ASSUME PanesInv, UiIdle,
         UNCHANGED <<view, chosen, posts, asks, readers, ses, left, ui>>,
         \/ dialog' = <<>>
         \/ \E p \in Panes : view[p] = "browser"
              /\ dialog' = <<[state |-> "ask", call |-> Call("change", p, shown[p].dir, chosen[p])]>>
  PROVE  Rest'
<1> USE DEF PanesInv, Rest
<1>1. SessionsStay
  BY DEF SessionsStay
<1>2. AsksOnce' /\ OneReaderPerPane'
  BY <1>1, StayKeeps
<1>3. ReadersKept'
  BY <1>2 DEF ReadersKept, ReaderInUseStays, InCall
<1>4. Named'
  BY <1>1, StayMeans DEF Named, SessionsStay
<1>5. dialog' # <<>> => /\ dialog'[1].call.pane \in Panes /\ view[dialog'[1].call.pane] = "browser"
                        /\ dialog'[1].call.to = chosen[dialog'[1].call.pane]
  BY DEF Call
<1>6. CallsMeant'
  BY <1>5 DEF CallsMeant, InCall, UiIdle, Named
<1>7. Addressed'
  <2> SUFFICES ASSUME NEW p \in Panes, ~left[p]
               PROVE  (Newest(p) /\ Cleared(p) /\ LastWord(p) /\ Alone(p) /\ Meant(p))'
    BY DEF Addressed
  <2>1. Newest(p) /\ Cleared(p) /\ LastWord(p) /\ Alone(p) /\ Meant(p)
    BY DEF Addressed
  <2>2. Of(p)' = Of(p) /\ (Over(p)' <=> Over(p)) /\ (Newest(p)' <=> Newest(p)) /\ (Sole(p)' <=> Sole(p))
    BY <1>1, StayMeans
  <2>3. (Cleared(p) /\ LastWord(p) /\ Alone(p))'
    BY <1>1, <2>1, <2>2 DEF Cleared, LastWord, Alone, SessionsStay, Of
  <2>4. Meant(p)'
    BY <1>5, <2>1, <2>2 DEF Meant, Alone
  <2> QED
    BY <2>1, <2>2, <2>3, <2>4
<1> QED
  BY <1>2, <1>3, <1>4, <1>6, <1>7

\* What the user sees in a pane that was not disconnected is what is there.
LEMMA SeenIsSole ==
  ASSUME PanesInv, NEW p \in Panes, view[p] = "browser"
  PROVE  chosen[p] # None /\ (left[p] \/ Sole(p))
  BY DEF PanesInv, Rest, Named, Addressed, Alone

LEMMA CommandsKeep ==
  ASSUME PanesInv, Reload \/ Confirm \/ Cancel \/ Ok \/ \E p \in Panes :
           OpenDialog(p) \/ \E d \in Dirs : Cd(p, d)
  PROVE  Rest'
<1> USE DEF network
<1>1. PanesInv => TypeOK /\ Named
  BY DEF PanesInv, Rest
<1>2. ASSUME NEW p \in Panes, NEW d \in Dirs, Cd(p, d) PROVE Rest'
  <2> DEFINE c == Call("cd", p, d, chosen[p])
  <2>1. c \in CallSet /\ c.op = "cd" /\ c.pane = p /\ c.to = chosen[p]
    BY <1>1, <1>2, ChosenTyped, CallTyped DEF Cd, Call
  <2>2. /\ UiIdle /\ view[p] = "browser" /\ Calls(<<c>>)
        /\ UNCHANGED <<view, chosen, dialog, posts, asks, readers, ses, left>>
    BY <1>2 DEF Cd, UserFree
  <2> HIDE DEF c
  <2>3. <<c>> \in Seq(CallSet) /\ \A i \in DOMAIN <<c>> : <<c>>[i] = c
    BY <2>1
  <2>4. chosen[p] # None /\ (left[p] \/ Sole(p))
    BY <2>2, SeenIsSole
  <2> QED
    BY <2>1, <2>2, <2>3, <2>4, CallsKeep
<1>3. ASSUME Reload PROVE Rest'
  <2>1. /\ UiIdle /\ Calls(ReloadCalls)
        /\ UNCHANGED <<view, chosen, dialog, posts, asks, readers, ses, left>>
    BY <1>3 DEF Reload, UserFree
  <2> QED
    BY <1>1, <2>1, ReloadTyped, CallsKeep, SeenIsSole
<1>4. ASSUME Confirm PROVE Rest'
  <2>1. /\ UiIdle /\ dialog # <<>> /\ Calls(<<dialog[1].call>>)
        /\ UNCHANGED <<view, chosen, dialog, posts, asks, readers, ses, left>>
    BY <1>4 DEF Confirm, user
  <2>2. dialog[1].call \in CallSet /\ dialog[1].call.pane \in Panes
    BY <1>1, <2>1 DEF TypeOK, Option, DialogType, CallSet
  <2>3. /\ chosen[dialog[1].call.pane] # None
        /\ \/ left[dialog[1].call.pane]
           \/ Sole(dialog[1].call.pane) /\ dialog[1].call.to = chosen[dialog[1].call.pane]
    BY <2>1, <2>2 DEF PanesInv, Rest, CallsMeant, Addressed, Meant
  <2>4. <<dialog[1].call>> \in Seq(CallSet) /\ \A i \in DOMAIN <<dialog[1].call>> : <<dialog[1].call>>[i] = dialog[1].call
    BY <2>2
  <2> QED
    BY <2>1, <2>2, <2>3, <2>4, CallsKeep
<1>5. ASSUME Cancel PROVE Rest'
  BY <1>5, DialogKeeps DEF Cancel
<1>6. ASSUME Ok PROVE Rest'
  <2>1. /\ UiIdle /\ Calls(ReloadCalls) /\ dialog' = <<>>
        /\ UNCHANGED <<view, chosen, posts, asks, readers, ses, left>>
    BY <1>6 DEF Ok
  <2> QED
    BY <1>1, <2>1, ReloadTyped, CallsKeep, SeenIsSole
<1>7. ASSUME NEW p \in Panes, OpenDialog(p) PROVE Rest'
  BY <1>7, DialogKeeps DEF OpenDialog, UserFree
<1> QED
  BY <1>2, <1>3, <1>4, <1>5, <1>6, <1>7

LEMMA DisconnectKeeps == ASSUME PanesInv, NEW q \in Panes, Disconnect(q) PROVE Rest'
<1> USE DEF PanesInv, Rest
<1>1. SessionsStay
  BY DEF Disconnect, SessionsStay, TypeOK, SessionType
<1>2. UNCHANGED <<chosen, dialog, ui, posts, asks, readers>>
  BY DEF Disconnect, network
<1>3. AsksOnce' /\ OneReaderPerPane'
  BY <1>1, <1>2, StayKeeps
<1>4. ReadersKept'
  BY <1>2, <1>3 DEF ReadersKept, ReaderInUseStays, InCall
<1>5. \A p \in Panes : view'[p] # "clients" => view[p] # "clients"
  BY DEF Disconnect, TypeOK
<1>6. Named'
  BY <1>1, <1>2, <1>5, StayMeans DEF Named, SessionsStay
<1>7. CallsMeant'
  BY <1>2 DEF CallsMeant, InCall
<1>8. Addressed'
  <2> SUFFICES ASSUME NEW p \in Panes, ~left'[p]
               PROVE  (Newest(p) /\ Cleared(p) /\ LastWord(p) /\ Alone(p) /\ Meant(p))'
    BY DEF Addressed
  <2>1. p # q /\ ~left[p] /\ view'[p] = view[p]
    BY DEF Disconnect, TypeOK
  <2>2. Newest(p) /\ Cleared(p) /\ LastWord(p) /\ Alone(p) /\ Meant(p)
    BY <2>1 DEF Addressed
  <2>3. Of(p)' = Of(p) /\ (Over(p)' <=> Over(p)) /\ (Newest(p)' <=> Newest(p)) /\ (Sole(p)' <=> Sole(p))
    BY <1>1, <1>2, StayMeans
  <2>4. (Cleared(p) /\ LastWord(p) /\ Alone(p))'
    BY <1>1, <1>2, <2>1, <2>2, <2>3 DEF Cleared, LastWord, Alone, SessionsStay, Of
  <2>5. Meant(p)'
    BY <1>2, <2>2, <2>3 DEF Meant
  <2> QED
    BY <2>2, <2>3, <2>4, <2>5
<1> QED
  BY <1>3, <1>4, <1>6, <1>7, <1>8

LEMMA EnterKeeps == ASSUME PanesInv, Enter PROVE Rest'
<1> USE DEF PanesInv, Rest
<1>1. SessionsStay /\ UNCHANGED <<view, chosen, dialog, left, posts, asks, readers>>
  BY DEF Enter, SessionsStay, user, network
<1>2. ui'.todo = ui.todo /\ ui.todo # <<>> /\ ui'.at \in {None, readers[ui.todo[1].pane]}
  BY DEF Enter, TypeOK, LockFree, InCall
<1>3. AsksOnce' /\ OneReaderPerPane'
  BY <1>1, StayKeeps
<1>4. ReadersKept'
  BY <1>1, <1>2, <1>3 DEF ReadersKept, ReaderInUseStays, InCall
<1>5. Named'
  BY <1>1, StayMeans DEF Named, SessionsStay
<1>6. CallsMeant'
  BY <1>1, <1>2 DEF CallsMeant, InCall
<1>7. Addressed'
  <2> SUFFICES ASSUME NEW p \in Panes, ~left[p]
               PROVE  (Newest(p) /\ Cleared(p) /\ LastWord(p) /\ Alone(p) /\ Meant(p))'
    BY <1>1 DEF Addressed
  <2>1. Newest(p) /\ Cleared(p) /\ LastWord(p) /\ Alone(p) /\ Meant(p)
    BY DEF Addressed
  <2>2. Of(p)' = Of(p) /\ (Over(p)' <=> Over(p)) /\ (Newest(p)' <=> Newest(p)) /\ (Sole(p)' <=> Sole(p))
    BY <1>1, StayMeans
  <2>3. (Cleared(p) /\ LastWord(p) /\ Alone(p))'
    BY <1>1, <2>1, <2>2 DEF Cleared, LastWord, Alone, SessionsStay, Of
  <2>4. Meant(p)'
    BY <1>1, <1>2, <2>1, <2>2 DEF Meant
  <2> QED
    BY <2>1, <2>2, <2>3, <2>4
<1> QED
  BY <1>3, <1>4, <1>5, <1>6, <1>7

LEMMA TrySendKeeps == ASSUME PanesInv, TrySend PROVE Rest'
<1> USE DEF PanesInv, Rest
<1>1. UNCHANGED <<chosen, left, posts, asks, readers>>
  BY DEF TrySend, network
<1>2. SessionsStay
  BY DEF TrySend, SessionsStay, TypeOK, SessionType
<1>3. /\ ui.todo \in Seq(CallSet) /\ ui.todo # <<>> /\ 1 \in DOMAIN ui.todo
      /\ \A i \in DOMAIN Tail(ui.todo) : i + 1 \in DOMAIN ui.todo /\ Tail(ui.todo)[i] = ui.todo[i + 1]
      /\ ui.todo[1] \in CallSet
  <2>1. ui.todo \in Seq(CallSet) /\ ui.todo # <<>>
    BY DEF TrySend, TypeOK, CallsMeant
  <2> QED
    BY <2>1, TailAt
<1>4. ui'.todo = Tail(ui.todo) /\ ui'.at = None
  BY DEF TrySend, TypeOK
<1>5. AsksOnce' /\ OneReaderPerPane'
  BY <1>1, <1>2, StayKeeps
<1>6. ReadersKept'
  BY <1>4, <1>5 DEF ReadersKept, ReaderInUseStays, InCall
<1>7. \A p \in Panes : \/ view'[p] = view[p]
                       \/ view'[p] = "waiting" /\ p = ui.todo[1].pane
  BY <1>3 DEF TrySend, TypeOK, CallSet
<1>8. /\ dialog' # <<>> <=> dialog # <<>>
      /\ dialog # <<>> => dialog'[1].call = dialog[1].call
  <2>1. CASE dialog' = dialog
    BY <2>1
  <2>2. CASE dialog' # dialog
    <3>1. dialog' = <<[dialog[1] EXCEPT !.state = "waiting"]>> /\ dialog # <<>>
      BY <1>3, <2>2 DEF TrySend, CallsMeant
    <3>2. dialog[1] \in DialogType
      BY <3>1 DEF TypeOK, Option
    <3> QED
      BY <3>1, <3>2 DEF DialogType
  <2> QED
    BY <2>1, <2>2
<1>9. Named'
  BY <1>1, <1>2, <1>3, <1>7, StayMeans DEF Named, SessionsStay, CallsMeant
<1>10. CallsMeant'
  BY <1>1, <1>3, <1>4, <1>8 DEF CallsMeant, InCall
<1>11. Addressed'
  <2> SUFFICES ASSUME NEW p \in Panes, ~left[p]
               PROVE  (Newest(p) /\ Cleared(p) /\ LastWord(p) /\ Alone(p) /\ Meant(p))'
    BY <1>1 DEF Addressed
  <2>1. Newest(p) /\ Cleared(p) /\ LastWord(p) /\ Alone(p) /\ Meant(p)
    BY DEF Addressed
  <2>2. Of(p)' = Of(p) /\ (Over(p)' <=> Over(p)) /\ (Newest(p)' <=> Newest(p)) /\ (Sole(p)' <=> Sole(p))
    BY <1>1, <1>2, StayMeans
  <2>3. (Cleared(p) /\ LastWord(p) /\ Alone(p))'
    BY <1>1, <1>2, <1>7, <2>1, <2>2 DEF Cleared, LastWord, Alone, SessionsStay, Of
  <2>4. Meant(p)'
    BY <1>1, <1>3, <1>4, <1>8, <2>1, <2>2 DEF Meant
  <2> QED
    BY <2>1, <2>2, <2>3, <2>4
<1> QED
  BY <1>5, <1>6, <1>9, <1>10, <1>11

\* A lambda is run.
LEMMA PostKeeps ==
  ASSUME PanesInv, UiPost
  PROVE  Rest'
<1> USE DEF PanesInv, Rest
<1>1. /\ posts # <<>> /\ posts' = Tail(posts) /\ UiIdle
      /\ UNCHANGED <<chosen, left, ui, asks, readers, ses>>
  BY DEF UiPost, ShowDents, BrowserError, ShowResult, Took, network
<1> DEFINE m == posts[1]
<1>2. /\ 1 \in DOMAIN posts /\ Head(posts) = m /\ m.pane \in Panes
      /\ \A i \in DOMAIN Tail(posts) :
           i \in Nat /\ i > 0 /\ i + 1 \in DOMAIN posts /\ Tail(posts)[i] = posts[i + 1]
  <2>1. posts \in Seq(PostType)
    BY DEF TypeOK
  <2> QED
    BY <1>1, <2>1, TailAt, PostTyped
<1>3. \/ m.kind = "dents" /\ view' = [view EXCEPT ![m.pane] = "browser"] /\ dialog' = dialog
      \/ m.kind = "error" /\ view' = [view EXCEPT ![m.pane] = "clients"] /\ dialog' = dialog
      \/ m.kind = "result" /\ view' = view
         /\ dialog' = IF dialog = <<>> THEN dialog ELSE <<[dialog[1] EXCEPT !.state = "result"]>>
  BY <1>2 DEF UiPost, ShowDents, BrowserError, ShowResult, Took
<1> HIDE DEF m
<1>4. /\ dialog' # <<>> <=> dialog # <<>>
      /\ dialog # <<>> => dialog'[1].call = dialog[1].call
  <2>1. CASE dialog' = dialog
    BY <2>1
  <2>2. CASE dialog' # dialog
    <3>1. dialog' = <<[dialog[1] EXCEPT !.state = "result"]>> /\ dialog # <<>>
      BY <1>3, <2>2
    <3>2. dialog[1] \in DialogType
      BY <3>1 DEF TypeOK, Option
    <3> QED
      BY <3>1, <3>2 DEF DialogType
  <2> QED
    BY <2>1, <2>2
<1>5. SessionsStay
  BY <1>1 DEF SessionsStay
<1>6. AsksOnce' /\ OneReaderPerPane'
  BY <1>1, <1>5, StayKeeps
<1>7. ReadersKept'
  BY <1>1, <1>6 DEF ReadersKept, ReaderInUseStays, InCall
<1>8. \A p \in Panes : view'[p] = IF p = m.pane /\ m.kind = "dents" THEN "browser"
                                  ELSE IF p = m.pane /\ m.kind = "error" THEN "clients" ELSE view[p]
  BY <1>3 DEF TypeOK
<1>9. Named'
  <2>1. m.kind = "dents" => chosen[m.pane] # None
    BY <1>2 DEF Named, m
  <2>2. \A i \in DOMAIN posts' : posts'[i].kind = "dents" => chosen[posts'[i].pane] # None
    BY <1>1, <1>2 DEF Named
  <2> QED
    BY <1>1, <1>5, <1>8, <2>1, <2>2, StayMeans DEF Named, SessionsStay
<1>10. CallsMeant'
  BY <1>1, <1>4 DEF CallsMeant, InCall
<1>11. Addressed'
  <2> SUFFICES ASSUME NEW p \in Panes, ~left[p]
               PROVE  (Newest(p) /\ Cleared(p) /\ LastWord(p) /\ Alone(p) /\ Meant(p))'
    BY <1>1 DEF Addressed
  <2>1. Newest(p) /\ Cleared(p) /\ LastWord(p) /\ Alone(p) /\ Meant(p)
    BY DEF Addressed
  <2>2. Of(p)' = Of(p) /\ (Over(p)' <=> Over(p)) /\ (Newest(p)' <=> Newest(p)) /\ (Sole(p)' <=> Sole(p))
    BY <1>1, <1>5, StayMeans
  <2>3. Cleared(p)'
    <3> SUFFICES ASSUME view'[p] = "clients"
                 PROVE  Over(p) /\ \A i \in DOMAIN Tail(posts) :
                                     Tail(posts)[i].pane = p => Tail(posts)[i].kind = "result"
      BY <1>1, <2>2 DEF Cleared
    <3>1. CASE p = m.pane /\ m.kind = "error"
      <4>1. Over(p) /\ \A j \in DOMAIN posts : j > 1 => posts[j].pane # p
        BY <1>2, <2>1, <3>1 DEF LastWord, m
      <4>2. \A i \in DOMAIN Tail(posts) : i + 1 > 1
        BY <1>2
      <4> QED
        BY <1>2, <4>1, <4>2
    <3>2. CASE view[p] = "clients"
      BY <1>2, <2>1, <3>2 DEF Cleared
    <3> QED
      BY <1>8, <3>1, <3>2
  <2>4. LastWord(p)'
    <3> SUFFICES ASSUME NEW i \in DOMAIN Tail(posts), Tail(posts)[i].kind = "error", Tail(posts)[i].pane = p
                 PROVE  Over(p) /\ \A j \in DOMAIN Tail(posts) : j > i => Tail(posts)[j].pane # p
      BY <1>1, <2>2 DEF LastWord
    <3>1. Over(p) /\ \A j \in DOMAIN posts : j > i + 1 => posts[j].pane # p
      BY <1>2, <2>1 DEF LastWord
    <3>2. \A j \in DOMAIN Tail(posts) : j > i => j + 1 > i + 1
      BY <1>2
    <3> QED
      BY <1>2, <3>1, <3>2
  <2>5. Alone(p)'
    <3>1. view'[p] = "browser" => Sole(p)
      BY <1>2, <1>8, <2>1 DEF Alone, m
    <3>2. \A i \in DOMAIN posts' : posts'[i].kind = "dents" /\ posts'[i].pane = p => Sole(p)
      BY <1>1, <1>2, <2>1 DEF Alone
    <3> QED
      BY <1>1, <2>1, <2>2, <3>1, <3>2 DEF Alone
  <2>6. Meant(p)'
    BY <1>1, <1>4, <2>1, <2>2 DEF Meant
  <2> QED
    BY <2>1, <2>2, <2>3, <2>4, <2>5, <2>6
<1> QED
  BY <1>6, <1>7, <1>9, <1>10, <1>11

-----------------------------------------------------------------------------
\* A new session.

LEMMA ConnectKeeps == ASSUME PanesInv, NEW q \in Panes, Connect(q) PROVE Rest'
<1> USE DEF PanesInv, Rest
<1>1. PICK s \in Sessions :
        /\ ses[s].phase = "unused"
        /\ ses' = [ses EXCEPT ![s] = [Unused EXCEPT !.phase = "asking", !.pane = q]]
        /\ asks' = Append(asks, s)
        /\ chosen' = [chosen EXCEPT ![q] = s]
  BY DEF Connect
<1>2. /\ UiIdle /\ dialog = <<>> /\ view[q] = "clients" /\ s # None
      /\ view' = [view EXCEPT ![q] = "waiting"] /\ UNCHANGED <<dialog, left, ui, posts, readers>>
  BY PanesAssumption DEF Connect, UserFree, Sessions
<1>3. /\ ses'[s].phase = "asking" /\ ses'[s].pane = q
      /\ \A t \in Sessions : t # s => ses'[t] = ses[t]
      /\ \A p \in Panes : chosen'[p] = IF p = q THEN s ELSE chosen[p]
      /\ \A p \in Panes : view'[p] = IF p = q THEN "waiting" ELSE view[p]
  BY <1>1, <1>2 DEF TypeOK, Unused
<1>4. /\ \A t \in Sessions : Live(t)' <=> (Live(t) \/ t = s)
      /\ \A t \in Sessions : Registered(t)' <=> Registered(t)
      /\ \A p \in Panes : Of(p)' = IF p = q THEN Of(p) \cup {s} ELSE Of(p)
      /\ ~Live(s) /\ ~Registered(s)
  <2>1. /\ \A t \in Sessions : Live(t)' <=> (Live(t) \/ t = s)
        /\ \A t \in Sessions : Registered(t)' <=> Registered(t)
        /\ ~Live(s) /\ ~Registered(s)
    BY <1>1, <1>3 DEF Live, Registered
  <2>2. \A p \in Panes : Of(p)' = IF p = q THEN Of(p) \cup {s} ELSE Of(p)
    BY <2>1, <1>3 DEF Of
  <2> QED
    BY <2>1, <2>2
<1>5. AsksOnce'
  <2>1. asks \in Seq(Sessions)
    BY DEF TypeOK
  <2>2. PICK n \in DOMAIN asks' :
          /\ asks'[n] = s
          /\ \A i \in DOMAIN asks' : i = n \/ (i \in DOMAIN asks /\ asks'[i] = asks[i])
    BY <1>1, <2>1, AppendAt
  <2>3. \A i \in DOMAIN asks : asks[i] \in Sessions /\ asks[i] # s /\ ses'[asks[i]].phase = "asking"
    BY <2>1, <1>1, <1>3 DEF AsksOnce
  <2> QED
    BY <2>2, <2>3, <1>3 DEF AsksOnce
<1>6. ReadersKept'
  BY <1>2, <1>3, <1>4 DEF ReadersKept, OneReaderPerPane, ReaderInUseStays, InCall
<1>7. Named'
  <2>1. \A p \in Panes : chosen[p] # None => chosen'[p] # None
    BY <1>2, <1>3
  <2>2. \A t \in Sessions : Live(t)' => chosen'[ses'[t].pane] # None
    <3>1. \A t \in Sessions : ses[t].pane \in Panes
      BY DEF TypeOK, SessionType
    <3> QED
      BY <1>2, <1>3, <1>4, <2>1, <3>1 DEF Named
  <2>3. \A i \in DOMAIN posts : posts[i].pane \in Panes
    <3>1. \A i \in DOMAIN posts : posts[i] \in PostType
      BY DEF TypeOK
    <3> QED
      BY <3>1 DEF PostType
  <2> QED
    BY <1>2, <1>3, <2>1, <2>2, <2>3 DEF Named
<1>8. CallsMeant'
  BY <1>2 DEF CallsMeant, InCall, UiIdle
<1>9. Addressed'
  <2> SUFFICES ASSUME NEW p \in Panes, ~left[p]
               PROVE  (Newest(p) /\ Cleared(p) /\ LastWord(p) /\ Alone(p) /\ Meant(p))'
    BY <1>2 DEF Addressed
  <2>1. Newest(p) /\ Cleared(p) /\ LastWord(p) /\ Alone(p) /\ Meant(p)
    BY DEF Addressed
  <2>2. CASE p = q
    <3>1. Over(p) /\ \A i \in DOMAIN posts : posts[i].pane = p => posts[i].kind = "result"
      BY <1>2, <2>1, <2>2 DEF Cleared
    <3>2. \A t \in Of(p)' : t = s \/ (t \in Of(p) /\ ses'[t].phase = "closing")
      BY <1>3, <1>4, <2>2, <3>1 DEF Of, Over
    <3>3. Newest(p)' /\ Alone(p)'
      BY <1>2, <1>3, <2>2, <3>1, <3>2 DEF Newest, Alone
    <3>4. Cleared(p)' /\ LastWord(p)'
      BY <1>2, <1>3, <2>2, <3>1 DEF Cleared, LastWord
    <3>5. Meant(p)'
      BY <1>2 DEF Meant, UiIdle
    <3> QED
      BY <3>3, <3>4, <3>5
  <2>3. CASE p # q
    <3>1. /\ Of(p)' = Of(p) /\ chosen'[p] = chosen[p] /\ view'[p] = view[p]
          /\ \A t \in Of(p) : ses'[t] = ses[t]
      BY <1>3, <1>4, <2>3 DEF Of
    <3>2. (Over(p)' <=> Over(p)) /\ (Sole(p)' <=> Sole(p)) /\ Newest(p)'
      BY <3>1, <2>1 DEF Over, Sole, Newest
    <3>3. Cleared(p)' /\ LastWord(p)' /\ Alone(p)'
      BY <1>2, <2>1, <3>1, <3>2 DEF Cleared, LastWord, Alone
    <3>4. Meant(p)'
      BY <1>2 DEF Meant, UiIdle
    <3> QED
      BY <3>2, <3>3, <3>4
  <2> QED
    BY <2>2, <2>3
<1> QED
  BY <1>5, <1>6, <1>7, <1>8, <1>9

-----------------------------------------------------------------------------
\* Steps of one session on the network thread.

\* What a session may become, but for the readers and the posts.
Evolves(s) ==
  /\ \A t \in Sessions : t # s => ses'[t] = ses[t]
  /\ Live(s)
  /\ Live(s)' => /\ ses'[s].pane = ses[s].pane
                 /\ ses[s].phase = "closing" => ses'[s].phase = "closing"
                 /\ ses'[s].phase \in {"connecting", "open"} =>
                      \/ ses[s].phase \in {"connecting", "open"}
                      \/ left[ses[s].pane] \/ Sole(ses[s].pane)

LEMMA EvolvesMeans ==
  ASSUME PanesInv, NEW s \in Sessions, Evolves(s), UNCHANGED <<chosen, left>>
  PROVE  /\ \A t \in Sessions : Live(t)' => Live(t) /\ ses'[t].pane = ses[t].pane
         /\ \A p \in Panes : Of(p)' \subseteq Of(p) /\ (Over(p) => Over(p)') /\ (Sole(p) => Sole(p)')
         /\ \A p \in Panes : ~left[p] =>
              /\ Newest(p)'
              /\ (\E t \in Of(p)' : ses'[t].phase \in {"connecting", "open"}) => Sole(p)
<1> USE DEF PanesInv, Rest
<1>1. \A t \in Sessions : /\ Live(t)' => Live(t) /\ ses'[t].pane = ses[t].pane
                          /\ Live(t)' /\ ses[t].phase = "closing" => ses'[t].phase = "closing"
  BY DEF Evolves, Live
<1>2. \A p \in Panes : Of(p)' \subseteq Of(p)
  BY <1>1 DEF Of
<1>3. \A p \in Panes : (Over(p) => Over(p)') /\ (Sole(p) => Sole(p)')
  BY <1>1, <1>2 DEF Over, Sole, Of
<1>4. ASSUME NEW p \in Panes, ~left[p] PROVE Newest(p)'
  BY <1>1, <1>2, <1>4 DEF Newest, Addressed, Of
<1>5. ASSUME NEW p \in Panes, ~left[p], NEW t \in Of(p)', ses'[t].phase \in {"connecting", "open"}
      PROVE  Sole(p)
  <2>1. t \in Of(p) /\ t \in Sessions /\ Live(t)' /\ ses[t].pane = p
    BY <1>2, <1>5 DEF Of
  <2>2. ses[t].phase \in {"connecting", "open"} \/ Sole(p)
    BY <1>5, <2>1 DEF Evolves
  <2> QED
    BY <1>5, <2>1, <2>2 DEF Addressed, Alone
<1> QED
  BY <1>1, <1>2, <1>3, <1>4, <1>5

LEMMA SessionKeeps ==
  ASSUME PanesInv, NEW s \in Sessions, Evolves(s),
         UNCHANGED <<view, chosen, dialog, left, ui, posts>>
  PROVE  Named' /\ CallsMeant' /\ Addressed'
<1> USE DEF PanesInv, Rest
<1>1. Named' /\ CallsMeant'
  BY EvolvesMeans DEF Named, CallsMeant, InCall
<1>2. Addressed'
  <2> SUFFICES ASSUME NEW p \in Panes, ~left[p]
               PROVE  (Newest(p) /\ Cleared(p) /\ LastWord(p) /\ Alone(p) /\ Meant(p))'
    BY DEF Addressed
  <2>1. Newest(p) /\ Cleared(p) /\ LastWord(p) /\ Alone(p) /\ Meant(p)
    BY DEF Addressed
  <2>2. /\ (Over(p) => Over(p)') /\ (Sole(p) => Sole(p)') /\ Newest(p)'
        /\ (\E t \in Of(p)' : ses'[t].phase \in {"connecting", "open"}) => Sole(p)
    BY EvolvesMeans
  <2> QED
    BY <2>1, <2>2 DEF Cleared, LastWord, Alone, Meant
<1> QED
  BY <1>1, <1>2

\* A session tells the UI something: an error when it ends, an answer else.
LEMMA TellKeeps ==
  ASSUME PanesInv, NEW s \in Sessions, Evolves(s), NEW m,
         m.pane = ses[s].pane, posts' = Append(posts, m), ses[s].phase # "closing",
         \/ m.kind = "error" /\ (Live(s)' => ses'[s].phase = "closing")
         \/ m.kind \in {"dents", "result"} /\ ses[s].phase = "open",
         UNCHANGED <<view, chosen, dialog, left, ui>>
  PROVE  Named' /\ CallsMeant' /\ Addressed'
<1> USE DEF PanesInv, Rest
<1>1. ses[s].pane \in Panes /\ Live(s)
  BY DEF TypeOK, SessionType, Evolves
<1>2. posts \in Seq(PostType)
  BY DEF TypeOK
<1>3. PICK n \in DOMAIN posts' :
        /\ posts'[n] = m
        /\ \A i \in DOMAIN posts' : i = n \/ (i \in DOMAIN posts /\ i < n /\ posts'[i] = posts[i])
  BY <1>2, AppendAt
<1>4. Named' /\ CallsMeant'
  BY <1>1, <1>3, EvolvesMeans DEF Named, CallsMeant, InCall
<1>5. Addressed'
  <2> SUFFICES ASSUME NEW p \in Panes, ~left[p]
               PROVE  (Newest(p) /\ Cleared(p) /\ LastWord(p) /\ Alone(p) /\ Meant(p))'
    BY DEF Addressed
  <2>1. Newest(p) /\ Cleared(p) /\ LastWord(p) /\ Alone(p) /\ Meant(p)
    BY DEF Addressed
  <2>2. /\ Of(p)' \subseteq Of(p) /\ (Over(p) => Over(p)') /\ (Sole(p) => Sole(p)') /\ Newest(p)'
        /\ (\E t \in Of(p)' : ses'[t].phase \in {"connecting", "open"}) => Sole(p)
    BY EvolvesMeans
  <2>3. p = ses[s].pane => ~Over(p) /\ s \in Of(p) /\ s = chosen[p]
    BY <1>1, <2>1 DEF Over, Of, Newest
  <2>4. p = ses[s].pane =>
          /\ view[p] # "clients"
          /\ \A i \in DOMAIN posts : ~(posts[i].kind = "error" /\ posts[i].pane = p)
    BY <2>1, <2>3 DEF Cleared, LastWord
  <2>5. p = ses[s].pane /\ m.kind = "error" => Over(p)'
    <3>1. ASSUME p = ses[s].pane, NEW t \in Of(p)', t # s PROVE ses'[t].phase = "closing"
      BY <2>1, <2>2, <2>3, <3>1 DEF Newest, Evolves, Of
    <3> QED
      BY <3>1, <2>3 DEF Over, Of
  <2>6. Cleared(p)'
    BY <1>3, <2>1, <2>2, <2>4 DEF Cleared
  <2>7. LastWord(p)'
    <3> SUFFICES ASSUME NEW i \in DOMAIN posts', posts'[i].kind = "error", posts'[i].pane = p
                 PROVE  Over(p)' /\ \A j \in DOMAIN posts' : j > i => posts'[j].pane # p
      BY DEF LastWord
    <3>1. CASE i = n
      <4>1. \A j \in DOMAIN posts' : ~(j > n)
        BY <1>2, <1>3
      <4> QED
        BY <1>3, <2>5, <3>1, <4>1
    <3>2. CASE i \in DOMAIN posts /\ posts'[i] = posts[i]
      BY <1>3, <2>1, <2>2, <2>4, <3>2 DEF LastWord
    <3> QED
      BY <1>3, <3>1, <3>2
  <2>8. Alone(p)'
    <3>1. \A i \in DOMAIN posts' : posts'[i].kind = "dents" /\ posts'[i].pane = p => Sole(p)
      BY <1>3, <2>1, <2>3 DEF Alone
    <3> QED
      BY <2>1, <2>2, <3>1 DEF Alone
  <2>9. Meant(p)'
    BY <2>1, <2>2 DEF Meant
  <2> QED
    BY <2>2, <2>6, <2>7, <2>8, <2>9
<1> QED
  BY <1>4, <1>5

\* Steps that concern neither what waits for the server nor the readers.
LEMMA ReadingKeeps ==
  ASSUME PanesInv, NEW s \in Sessions, Evolves(s), ses[s].phase # "asking",
         Registered(s)' <=> Registered(s), Live(s)' \/ ~Registered(s), UNCHANGED <<asks, readers, ui>>
  PROVE  AsksOnce' /\ ReadersKept'
<1> USE DEF PanesInv, Rest
<1>1. \A i \in DOMAIN asks : asks[i] \in Sessions
  BY DEF TypeOK
<1>2. AsksOnce'
  BY <1>1 DEF AsksOnce, Evolves
<1>3. \A t \in Sessions : /\ Registered(t)' <=> Registered(t)
                          /\ Registered(t) => ses'[t].pane = ses[t].pane
  BY DEF Evolves, Registered, Live
<1>4. ReadersKept'
  BY <1>3 DEF ReadersKept, OneReaderPerPane, ReaderInUseStays, InCall
<1> QED
  BY <1>2, <1>4

LEMMA WaitsKeep ==
  ASSUME PanesInv, UNCHANGED <<view, chosen, dialog, left, ui, posts, asks, readers, ses>>
  PROVE  Rest'
<1> USE DEF PanesInv, Rest
<1>1. SessionsStay
  BY DEF SessionsStay
<1>2. AsksOnce' /\ OneReaderPerPane'
  BY <1>1, StayKeeps
<1>3. ReadersKept' /\ Named' /\ CallsMeant'
  BY <1>1, <1>2, StayMeans DEF ReadersKept, ReaderInUseStays, InCall, Named, CallsMeant, SessionsStay
<1>4. Addressed'
  <2> SUFFICES ASSUME NEW p \in Panes, ~left[p]
               PROVE  (Newest(p) /\ Cleared(p) /\ LastWord(p) /\ Alone(p) /\ Meant(p))'
    BY DEF Addressed
  <2>1. Newest(p) /\ Cleared(p) /\ LastWord(p) /\ Alone(p) /\ Meant(p)
    BY DEF Addressed
  <2>2. Of(p)' = Of(p) /\ (Over(p)' <=> Over(p)) /\ (Newest(p)' <=> Newest(p)) /\ (Sole(p)' <=> Sole(p))
    BY <1>1, StayMeans
  <2> QED
    BY <1>1, <2>1, <2>2 DEF Cleared, LastWord, Alone, Meant, SessionsStay, Of
<1> QED
  BY <1>2, <1>3, <1>4

LEMMA AskingKeeps == ASSUME PanesInv, NEW s \in Sessions, Asking(s) PROVE Rest'
<1> USE DEF PanesInv, Rest
<1>1. ses[s] \in SessionType /\ ses[s].pane \in Panes
  BY DEF TypeOK, SessionType
<1>2. ASSUME NEW step, NEW e, Blocked(step, s, e) PROVE Rest'
  BY <1>2, WaitsKeep DEF Blocked, user
<1>3. CASE SendAsk(s) /\ ~Blocked("ask", s, asks # <<>> /\ Head(asks) = s)
  <2>1. /\ asks # <<>> /\ Head(asks) = s /\ asks' = Tail(asks)
        /\ ses' = [ses EXCEPT ![s].phase = "asked"]
        /\ UNCHANGED <<view, chosen, dialog, left, ui, posts, readers>>
    BY <1>3 DEF SendAsk, user
  <2>2. /\ asks \in Seq(Sessions) /\ 1 \in DOMAIN asks /\ asks[1] = s
        /\ \A i \in DOMAIN asks' : i \in Nat /\ i > 0 /\ i + 1 \in DOMAIN asks /\ asks'[i] = asks[i + 1]
    <3>1. asks \in Seq(Sessions)
      BY DEF TypeOK
    <3> QED
      BY <2>1, <3>1, TailAt
  <2>3. /\ ses[s].phase = "asking" /\ ses'[s].phase = "asked" /\ ses'[s].pane = ses[s].pane
        /\ \A t \in Sessions : t # s => ses'[t] = ses[t]
    BY <1>1, <2>1, <2>2 DEF AsksOnce, TypeOK, SessionType
  <2>4. AsksOnce'
    <3>1. \A i \in DOMAIN asks' : asks'[i] \in Sessions /\ asks'[i] # s /\ ses[asks'[i]].phase = "asking"
      BY <2>2 DEF AsksOnce
    <3>2. \A i, j \in DOMAIN asks' : i # j => asks'[i] # asks'[j]
      BY <2>2 DEF AsksOnce
    <3> QED
      BY <2>3, <3>1, <3>2 DEF AsksOnce
  <2>5. Evolves(s)
    BY <2>3 DEF Evolves, Live
  <2>6. ReadersKept'
    <3>1. \A t \in Sessions : (Registered(t)' <=> Registered(t)) /\ ses'[t].pane = ses[t].pane
      BY <2>3 DEF Registered
    <3> QED
      BY <2>1, <3>1 DEF ReadersKept, OneReaderPerPane, ReaderInUseStays, InCall
  <2> QED
    BY <2>1, <2>4, <2>5, <2>6, SessionKeeps
<1>4. CASE Refused(s) /\ ~Blocked("refused", s, ses[s].phase = "asked")
  <2>1. /\ ses[s].phase = "asked" /\ posts' = Append(posts, ErrorPost(ses[s].pane))
        /\ ses' = [ses EXCEPT ![s] = Gone]
        /\ UNCHANGED <<view, chosen, dialog, left, ui, asks, readers>>
    BY <1>4 DEF Refused, user
  <2>2. ses'[s].phase = "gone" /\ \A t \in Sessions : t # s => ses'[t] = ses[t]
    BY <2>1 DEF TypeOK, Gone, Unused
  <2>3. Evolves(s) /\ ~Live(s)' /\ ~Registered(s) /\ ~Registered(s)'
    BY <2>1, <2>2 DEF Evolves, Live, Registered
  <2>4. ErrorPost(ses[s].pane).kind = "error" /\ ErrorPost(ses[s].pane).pane = ses[s].pane
    BY DEF ErrorPost, Post
  <2>5. Named' /\ CallsMeant' /\ Addressed'
    BY <2>1, <2>3, <2>4, TellKeeps
  <2> QED
    BY <2>1, <2>3, <2>5, ReadingKeeps
<1>5. CASE Emplace(s) /\ ~Blocked("emplace", s, ses[s].phase = "asked")
  <2> DEFINE p == ses[s].pane
  <2>1. /\ ses[s].phase = "asked" /\ LockFree
        /\ UNCHANGED <<view, chosen, dialog, left, ui, posts, asks>>
        /\ \/ /\ readers[p] = None /\ readers' = [readers EXCEPT ![p] = s]
              /\ ses' = [ses EXCEPT ![s].phase = "connecting", ![s].sock = TRUE, ![s].chan = TRUE]
           \/ readers' = readers /\ ses' = [ses EXCEPT ![s] = Gone]
    BY <1>5 DEF Emplace, Locking, user
  <2>2. CASE readers' = readers /\ ses' = [ses EXCEPT ![s] = Gone]
    <3>1. ses'[s].phase = "gone" /\ \A t \in Sessions : t # s => ses'[t] = ses[t]
      BY <2>2 DEF TypeOK, Gone, Unused
    <3>2. Evolves(s) /\ ~Live(s)' /\ ~Registered(s) /\ ~Registered(s)'
      BY <2>1, <3>1 DEF Evolves, Live, Registered
    <3> QED
      BY <2>1, <2>2, <3>2, SessionKeeps, ReadingKeeps
  <2>3. CASE /\ readers[p] = None /\ readers' = [readers EXCEPT ![p] = s]
             /\ ses' = [ses EXCEPT ![s].phase = "connecting", ![s].sock = TRUE, ![s].chan = TRUE]
    <3>1. /\ ses'[s].phase = "connecting" /\ ses'[s].pane = p
          /\ \A t \in Sessions : t # s => ses'[t] = ses[t]
      BY <1>1, <2>3 DEF TypeOK, SessionType
    <3>2. \A t \in Of(p) : ~Registered(t)
      BY <1>1, <2>3, PanesAssumption DEF ReadersKept, OneReaderPerPane, Of, Sessions
    <3>3. left[p] \/ Sole(p)
      <4>1. ~left[p] => Newest(p)
        BY <1>1 DEF Addressed
      <4> QED
        BY <3>2, <4>1 DEF Newest, Sole, Registered
    <3>4. Evolves(s)
      BY <2>1, <3>1, <3>3 DEF Evolves, Live
    <3>5. AsksOnce'
      <4>1. \A i \in DOMAIN asks : asks[i] \in Sessions
        BY DEF TypeOK
      <4> QED
        BY <2>1, <3>1, <4>1 DEF AsksOnce
    <3>6. OneReaderPerPane'
      <4>1. \A t \in Sessions : Registered(t)' <=> (Registered(t) \/ t = s)
        BY <2>1, <3>1 DEF Registered
      <4>2. ~Registered(s)
        BY <2>1 DEF Registered
      <4>3. \A r \in Panes : readers'[r] = IF r = p THEN s ELSE readers[r]
        BY <2>3 DEF TypeOK
      <4> QED
        <5> SUFFICES ASSUME NEW t \in Sessions, NEW r \in Panes
                     PROVE  readers'[r] = t <=> Registered(t)' /\ ses'[t].pane = r
          BY DEF OneReaderPerPane
        <5>1. readers[r] = t <=> Registered(t) /\ ses[t].pane = r
          BY DEF ReadersKept, OneReaderPerPane
        <5>2. t # None
          BY PanesAssumption DEF Sessions
        <5>3. CASE t = s
          BY <3>1, <4>1, <4>2, <4>3, <5>1, <5>3
        <5>4. CASE t # s
          BY <2>3, <3>1, <4>1, <4>3, <5>1, <5>2, <5>4
        <5> QED
          BY <5>3, <5>4
    <3>7. ReadersKept'
      BY <2>1, <3>6 DEF ReadersKept, ReaderInUseStays, InCall, LockFree
    <3> QED
      BY <2>1, <3>4, <3>5, <3>7, SessionKeeps
  <2> QED
    BY <2>1, <2>2, <2>3
<1> QED
  BY <1>2, <1>3, <1>4, <1>5 DEF Asking

LEMMA ReadingStep == ASSUME PanesInv, NEW s \in Sessions, Reading(s) PROVE Rest'
<1> USE DEF PanesInv, Rest
<1>1. ses[s] \in SessionType /\ ses[s].pane \in Panes
  BY DEF TypeOK, SessionType
<1>2. \A e \in SessionType : ses' = [ses EXCEPT ![s] = e] =>
        ses'[s] = e /\ \A t \in Sessions : t # s => ses'[t] = ses[t]
  BY DEF TypeOK
<1>3. CASE ConnectReader(s) \/ Sent(s) \/ SendThrows(s) \/ ConnectFails(s) \/ IncomingStops(s)
  <2>1. /\ UNCHANGED <<view, chosen, dialog, left, ui, posts, asks, readers>>
        /\ ses[s].phase \in {"connecting", "open"}
    BY <1>3 DEF ConnectReader, Sent, SendThrows, ConnectFails, IncomingStops, user, network
  <2>2. /\ ses'[s].phase \in {"connecting", "open", "closing"} /\ ses'[s].pane = ses[s].pane
        /\ \A t \in Sessions : t # s => ses'[t] = ses[t]
    <3>1. CASE ConnectReader(s)
      BY <1>1, <3>1 DEF ConnectReader, TypeOK, SessionType
    <3>2. CASE Sent(s)
      BY <1>1, <3>2 DEF Sent, TypeOK, SessionType
    <3>3. CASE SendThrows(s)
      BY <1>1, <3>3 DEF SendThrows, TypeOK, SessionType
    <3>4. CASE ConnectFails(s)
      BY <1>1, <3>4 DEF ConnectFails, TypeOK, SessionType
    <3>5. CASE IncomingStops(s)
      BY <1>1, <3>5 DEF IncomingStops, Ended, TypeOK, SessionType
    <3> QED
      BY <1>3, <3>1, <3>2, <3>3, <3>4, <3>5
  <2>3. Evolves(s) /\ Registered(s) /\ Registered(s)' /\ Live(s)'
    BY <2>1, <2>2 DEF Evolves, Live, Registered
  <2> QED
    BY <2>1, <2>3, SessionKeeps, ReadingKeeps
<1>4. CASE Answer(s)
  <2>1. PICK m : /\ posts' = Append(posts, m) /\ m.pane = ses[s].pane /\ m.kind \in {"dents", "result"}
    <3>1. CASE Head(ses[s].wire).op = "cd"
      <4>1. PICK ok \in BOOLEAN :
              posts' = Append(posts, Post("dents", ses[s].pane, s, Head(ses[s].wire).dir, ok))
        BY <1>4, <3>1 DEF Answer
      <4>2. /\ Post("dents", ses[s].pane, s, Head(ses[s].wire).dir, ok).pane = ses[s].pane
            /\ Post("dents", ses[s].pane, s, Head(ses[s].wire).dir, ok).kind = "dents"
        BY DEF Post
      <4> QED
        BY <4>1, <4>2
    <3>2. CASE Head(ses[s].wire).op # "cd"
      <4>1. posts' = Append(posts, Post("result", ses[s].pane, s, "top", TRUE))
        BY <1>4, <3>2 DEF Answer
      <4>2. /\ Post("result", ses[s].pane, s, "top", TRUE).pane = ses[s].pane
            /\ Post("result", ses[s].pane, s, "top", TRUE).kind = "result"
        BY DEF Post
      <4> QED
        BY <4>1, <4>2
    <3> QED
      BY <3>1, <3>2
  <2>2. /\ ses[s].phase = "open" /\ ses'[s].phase = "open" /\ ses'[s].pane = ses[s].pane
        /\ \A t \in Sessions : t # s => ses'[t] = ses[t]
        /\ UNCHANGED <<view, chosen, dialog, left, ui, asks, readers>>
    BY <1>1, <1>4 DEF Answer, user, network, TypeOK, SessionType
  <2>3. Evolves(s) /\ Registered(s) /\ Registered(s)' /\ Live(s)'
    BY <2>2 DEF Evolves, Live, Registered
  <2>4. Named' /\ CallsMeant' /\ Addressed'
    BY <2>1, <2>2, <2>3, TellKeeps
  <2> QED
    BY <2>2, <2>3, <2>4, ReadingKeeps
<1>5. CASE IncomingFails(s)
  <2>1. ErrorPost(ses[s].pane).kind = "error" /\ ErrorPost(ses[s].pane).pane = ses[s].pane
    BY DEF ErrorPost, Post
  <2>2. /\ ses[s].phase = "open" /\ ses'[s].phase = "closing" /\ ses'[s].pane = ses[s].pane
        /\ \A t \in Sessions : t # s => ses'[t] = ses[t]
        /\ posts' = Append(posts, ErrorPost(ses[s].pane))
        /\ UNCHANGED <<view, chosen, dialog, left, ui, asks, readers>>
    BY <1>1, <1>5 DEF IncomingFails, Ended, user, network, TypeOK, SessionType
  <2>3. Evolves(s) /\ Registered(s) /\ Registered(s)' /\ Live(s)'
    BY <2>2 DEF Evolves, Live, Registered
  <2>4. Named' /\ CallsMeant' /\ Addressed'
    BY <2>1, <2>2, <2>3, TellKeeps
  <2> QED
    BY <2>2, <2>3, <2>4, ReadingKeeps
<1>6. CASE Erase(s) /\ Blocked("erase", s, ses[s].phase = "closing")
  BY <1>6, WaitsKeep DEF Blocked, user
<1>7. CASE Erase(s) /\ ~Blocked("erase", s, ses[s].phase = "closing")
  <2>1. /\ ses[s].phase = "closing" /\ LockFree /\ ses' = [ses EXCEPT ![s] = Gone]
        /\ readers' = [readers EXCEPT ![ses[s].pane] = None]
        /\ UNCHANGED <<view, chosen, dialog, left, ui, posts, asks>>
    BY <1>7 DEF Erase, Locking, user
  <2>2. ses'[s].phase = "gone" /\ \A t \in Sessions : t # s => ses'[t] = ses[t]
    BY <2>1 DEF TypeOK, Gone, Unused
  <2>3. Evolves(s)
    BY <2>1, <2>2 DEF Evolves, Live
  <2>4. AsksOnce'
    <3>1. \A i \in DOMAIN asks : asks[i] \in Sessions
      BY DEF TypeOK
    <3> QED
      BY <2>1, <2>2, <3>1 DEF AsksOnce
  <2>5. OneReaderPerPane'
    <3>1. \A t \in Sessions : Registered(t)' <=> (Registered(t) /\ t # s)
      BY <2>2 DEF Registered
    <3>2. \A r \in Panes : readers'[r] = IF r = ses[s].pane THEN None ELSE readers[r]
      BY <2>1 DEF TypeOK
    <3>3. Registered(s) /\ readers[ses[s].pane] = s
      BY <1>1, <2>1 DEF Registered, ReadersKept, OneReaderPerPane
    <3> QED
      BY <1>1, <2>2, <3>1, <3>2, <3>3, PanesAssumption DEF ReadersKept, OneReaderPerPane, Sessions
  <2>6. ReadersKept'
    BY <2>1, <2>5 DEF ReadersKept, ReaderInUseStays, InCall, LockFree
  <2> QED
    BY <2>1, <2>3, <2>4, <2>6, SessionKeeps
<1> QED
  BY <1>3, <1>4, <1>5, <1>6, <1>7 DEF Reading

-----------------------------------------------------------------------------
LEMMA PanesStep == PanesInv /\ [Next]_vars => PanesInv'
<1> SUFFICES ASSUME PanesInv, [Next]_vars PROVE TypeOK' /\ Rest'
  BY DEF PanesInv
<1>1. CASE User
  <2>1. TypeOK'
    BY <1>1, UserTyped
  <2>2. Rest'
    BY <1>1, CommandsKeep, ConnectKeeps, DisconnectKeeps DEF User
  <2> QED
    BY <2>1, <2>2
<1>2. CASE UiCall \/ UiPost
  <2>1. TypeOK'
    BY <1>2, UiTyped
  <2>2. Rest'
    BY <1>2, EnterKeeps, TrySendKeeps, PostKeeps DEF UiCall
  <2> QED
    BY <2>1, <2>2
<1>3. ASSUME NEW s \in Sessions, Asking(s) \/ Reading(s) PROVE TypeOK' /\ Rest'
  BY <1>3, NetTyped, AskingKeeps, ReadingStep
<1>4. CASE UNCHANGED vars
  <2>1. TypeOK'
    BY <1>4 DEF PanesInv, TypeOK, vars, user, network
  <2>2. Rest'
    BY <1>4, WaitsKeep DEF vars, user, network
  <2> QED
    BY <2>1, <2>2
<1> QED
  BY <1>1, <1>2, <1>3, <1>4 DEF Next

LEMMA PanesHold == Spec => []PanesInv
  BY PanesInit, PanesStep, PTL DEF Spec

-----------------------------------------------------------------------------
\* The variables of both threads have their types in every behaviour; in
\* particular no listing is shown in a pane that never had a client, and a
\* call that changes something comes from a modal that is still there.
THEOREM PanesTyped == Spec => []TypeOK
<1>1. PanesInv => TypeOK
  BY DEF PanesInv
<1> QED
  BY <1>1, PanesHold, PTL

\* m_browser_readers holds for each pane the reader whose coroutine runs, and
\* run_browser_reader_coro runs for no other, however often the user connects
\* and disconnects.
THEOREM PaneHasOneReader == Spec => []OneReaderPerPane
<1>1. PanesInv => OneReaderPerPane
  BY DEF PanesInv, Rest, ReadersKept
<1> QED
  BY <1>1, PanesHold, PTL

\* The reader that ClientNet::cd, request_delete or request_mkdir is calling on
\* the UI thread is not erased by the network thread meanwhile.
THEOREM CalledReaderStays == Spec => []ReaderInUseStays
<1>1. PanesInv => ReaderInUseStays
  BY DEF PanesInv, Rest, ReadersKept
<1> QED
  BY <1>1, PanesHold, PTL

\* A directory change, deletion or mkdir reaches the client that heads the pane
\* it was asked for in, unless the user has disconnected that pane before.
THEOREM CallsReachTheirClient == Spec => []AddressedRight
<1>1. PanesInv => AddressedRight
  <2> SUFFICES ASSUME PanesInv, InCall, ~left[ui.todo[1].pane] PROVE ui.at = ui.todo[1].to
    BY DEF AddressedRight
  <2> DEFINE p == ui.todo[1].pane
  <2>1. /\ ui.todo \in Seq(CallSet) /\ ui.todo # <<>> /\ ui.at \in Sessions /\ readers[p] = ui.at
    BY DEF PanesInv, Rest, TypeOK, InCall, CallsMeant, ReadersKept, ReaderInUseStays
  <2>2. 1 \in DOMAIN ui.todo /\ p \in Panes
    <3>1. 1 \in DOMAIN ui.todo /\ ui.todo[1] \in CallSet
      BY <2>1, TailAt
    <3> QED
      BY <3>1 DEF CallSet
  <2>3. Sole(p) /\ ui.todo[1].to = chosen[p]
    BY <2>2 DEF PanesInv, Rest, Addressed, Meant
  <2>4. ui.at \in Of(p)
    BY <2>1, <2>2 DEF PanesInv, Rest, ReadersKept, OneReaderPerPane, Of, Live, Registered
  <2> QED
    BY <2>3, <2>4 DEF Sole
<1> QED
  BY <1>1, PanesHold, PTL
=============================================================================
