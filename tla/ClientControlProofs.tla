------------------------- MODULE ClientControlProofs -------------------------
(***************************************************************************)
(* Proofs about the Control connection of the client, for any capacity of  *)
(* its channel and any number of commands, names and copies.               *)
(***************************************************************************)
EXTENDS ClientControl, SequenceTheorems, TLAPS

-----------------------------------------------------------------------------
(***************************************************************************)
(* What a queue of names amounts to. HasName(s): some item of s is a name. *)
(* Settles(s, n, m): after name n, the items of s leave name m.            *)
(***************************************************************************)
IsName(r) == r.type = "name"
HasName(s) == \E i \in DOMAIN s : IsName(s[i])
After(r, n) == IF IsName(r) THEN r.of ELSE n

Settles(s, n, m) ==
  \/ ~HasName(s) /\ m = n
  \/ \E i \in DOMAIN s : /\ IsName(s[i]) /\ s[i].of = m
                         /\ \A j \in DOMAIN s : j > i => ~IsName(s[j])

LEMMA NothingSettles == \A n : ~HasName(<<>>) /\ Settles(<<>>, n, n)
  BY DEF Settles, HasName

LEMMA EmptySettles == ASSUME NEW n, NEW m, Settles(<<>>, n, m) PROVE m = n
  BY DEF Settles

\* An item is put behind the others.
LEMMA AppendSettles ==
  ASSUME NEW S, NEW s \in Seq(S), NEW r \in S, NEW n, NEW m, Settles(s, n, m)
  PROVE  /\ Settles(Append(s, r), n, After(r, m))
         /\ HasName(Append(s, r)) <=> HasName(s) \/ IsName(r)
<1> DEFINE t == Append(s, r)
<1>1. t \in Seq(S) /\ Len(t) = Len(s) + 1 /\ t[Len(s) + 1] = r
  OBVIOUS
<1>2. \A i \in 1..Len(s) : t[i] = s[i]
  OBVIOUS
<1>3. DOMAIN s = 1..Len(s) /\ DOMAIN t = 1..(Len(s) + 1) /\ Len(s) \in Nat
  BY <1>1
<1> HIDE DEF t
<1>4. HasName(t) <=> HasName(s) \/ IsName(r)
  BY <1>1, <1>2, <1>3 DEF HasName
<1>5. CASE IsName(r)
  <2>1. Len(s) + 1 \in DOMAIN t /\ \A j \in DOMAIN t : ~(j > Len(s) + 1)
    BY <1>3
  <2> QED
    BY <1>1, <1>4, <1>5, <2>1 DEF Settles, After, t
<1>6. CASE ~IsName(r) /\ ~HasName(s)
  BY <1>4, <1>6 DEF Settles, After, HasName, t
<1>7. CASE ~IsName(r) /\ HasName(s)
  <2>1. PICK i \in DOMAIN s : /\ IsName(s[i]) /\ s[i].of = m
                              /\ \A j \in DOMAIN s : j > i => ~IsName(s[j])
    BY <1>7 DEF Settles
  <2>2. \A j \in DOMAIN t : j > i => ~IsName(t[j])
    BY <1>1, <1>2, <1>3, <1>7, <2>1
  <2> QED
    BY <1>2, <1>3, <1>4, <1>7, <2>1, <2>2 DEF Settles, After, t
<1> QED
  BY <1>4, <1>5, <1>6, <1>7 DEF t

\* The first item is taken out.
LEMMA TailSettles ==
  ASSUME NEW S, NEW s \in Seq(S), s # <<>>, NEW n, NEW m, Settles(s, n, m)
  PROVE  /\ Settles(Tail(s), After(Head(s), n), m)
         /\ HasName(s) <=> HasName(Tail(s)) \/ IsName(Head(s))
<1> DEFINE t == Tail(s)
<1>1. Len(s) \in Nat \ {0} /\ DOMAIN s = 1..Len(s) /\ DOMAIN t = 1..(Len(s) - 1) /\ Head(s) = s[1]
  OBVIOUS
<1>2. \A i \in 1..(Len(s) - 1) : t[i] = s[i + 1]
  OBVIOUS
<1> HIDE DEF t
<1>3. \A j \in DOMAIN s : j # 1 => j - 1 \in DOMAIN t /\ t[j - 1] = s[j]
  BY <1>1, <1>2
<1>4. \A j \in DOMAIN t : j + 1 \in DOMAIN s /\ t[j] = s[j + 1]
  BY <1>1, <1>2
<1>5. HasName(s) <=> HasName(t) \/ IsName(Head(s))
  BY <1>1, <1>3, <1>4 DEF HasName
<1>6. CASE ~HasName(s)
  BY <1>5, <1>6 DEF Settles, After, HasName, t
<1>7. CASE HasName(s)
  <2>1. PICK i \in DOMAIN s : /\ IsName(s[i]) /\ s[i].of = m
                              /\ \A j \in DOMAIN s : j > i => ~IsName(s[j])
    BY <1>7 DEF Settles, HasName
  <2>2. CASE i = 1
    <3>1. \A j \in DOMAIN t : j + 1 > i /\ ~IsName(t[j])
      BY <1>1, <1>4, <2>1, <2>2
    <3> QED
      BY <1>1, <1>5, <2>1, <2>2, <3>1 DEF Settles, HasName, After, t
  <2>3. CASE i # 1
    <3>1. i - 1 \in DOMAIN t /\ t[i - 1] = s[i]
      BY <1>3, <2>3
    <3>2. \A j \in DOMAIN t : j > i - 1 => ~IsName(t[j])
      BY <1>1, <1>4, <2>1
    <3> QED
      BY <1>5, <2>1, <3>1, <3>2 DEF Settles, HasName, t
  <2> QED
    BY <2>2, <2>3
<1> QED
  BY <1>5, <1>6, <1>7 DEF t

\* Another name before the queue matters only if there is none in it.
LEMMA Rebase ==
  ASSUME NEW s, NEW n, NEW m, Settles(s, n, m), NEW k
  PROVE  /\ HasName(s) => Settles(s, k, m)
         /\ ~HasName(s) => Settles(s, k, k)
  BY DEF Settles, HasName

-----------------------------------------------------------------------------
(***************************************************************************)
(* Types, stronger than TypeOK by what is in the queues and the records.   *)
(***************************************************************************)
AnyName == Names \cup {Hostname[i] : i \in DOMAIN Hostname} \cup {Address}
Messages == {List, Critical} \cup {SetName(n) : n \in AnyName} \cup {Copy(k) : k \in Copies}
            \cup {Report(v) : v \in {"progress", "completed", "failed"}}

Views == {"dialog", "progress", "completed", "failed"}

RestTyped ==
  /\ net \in {"connecting", "naming", "running", "over", "failed"}
  /\ open \in BOOLEAN
  /\ server \in [here : BOOLEAN, name : AnyName]
  /\ copies \in [Copies -> {"none", "joining", "copying", "copied", "over"}]
  /\ given \in [all : Nat, copies : Nat]

QueuesTyped ==
  /\ chan \in Seq(Requests) /\ Len(chan) <= Cap /\ (~open => chan = <<>>)
  /\ up \in Seq(Requests) /\ Len(up) <= Sock
  /\ down \in Seq(Messages) /\ posts \in Seq(Messages)

UiTyped ==
  /\ ui \in [state : {"looping", "stopping", "gone"}, call : Seq(Requests),
             then : {"nothing", "setting", "progress"}, in : BOOLEAN]
  /\ Len(ui.call) <= 1
  /\ (ui.in => ui.call # <<>>) /\ (ui.then # "nothing" => ui.call # <<>>)

ViewTyped ==
  /\ screen.naming \in BOOLEAN /\ screen.critical \in BOOLEAN
  /\ DOMAIN screen = {"pretty_name", "naming", "critical"}
  /\ dialog \in [shown : BOOLEAN, view : Views, direction : BOOLEAN, src : Contents]
  /\ (dialog.shown => dialog.src = "full")

\* The channel is closed only when the connection is over or the process gone.
ClosedLate == open \/ net = "over" \/ ui.state = "gone"

TypeInv == RestTyped /\ QueuesTyped /\ UiTyped /\ ViewTyped /\ ClosedLate

LEMMA TypeInvImplies == TypeInv => TypeOK
  BY DEF TypeInv, RestTyped, QueuesTyped, UiTyped, ViewTyped, TypeOK, Views

LEMMA RequestsAreMessages == Requests \subseteq Messages
  BY DEF Requests, Messages, AnyName

LEMMA RequestsMade ==
  List \in Requests /\ (\A n \in Names : SetName(n) \in Requests) /\ (\A k \in Copies : Copy(k) \in Requests)
  BY DEF Requests

LEMMA TypeInit == Init => TypeInv
<1> SUFFICES ASSUME Init PROVE TypeInv
  OBVIOUS
<1>1. RestTyped
  BY DEF Init, RestTyped, AnyName
<1>2. QueuesTyped
  BY ControlAssumption DEF Init, QueuesTyped, ControlAssumption
<1>3. UiTyped
  BY DEF Init, UiTyped
<1>4. ViewTyped
  BY DEF Init, ViewTyped, Views, Contents
<1>5. ClosedLate
  BY DEF Init, ClosedLate
<1> QED
  BY <1>1, <1>2, <1>3, <1>4, <1>5 DEF TypeInv

\* The sequences the actions make.
LEMMA Singles ==
  ASSUME NEW S
  PROVE  /\ <<>> \in Seq(S) /\ Len(<<>>) = 0
         /\ \A x \in S : <<x>> \in Seq(S) /\ Len(<<x>>) = 1 /\ <<x>> # <<>> /\ <<x>>[1] = x
  OBVIOUS

LEMMA HeadTail ==
  ASSUME NEW S, NEW s \in Seq(S), s # <<>>
  PROVE  Head(s) \in S /\ Tail(s) \in Seq(S) /\ Len(Tail(s)) = Len(s) - 1
  OBVIOUS

-----------------------------------------------------------------------------
(***************************************************************************)
(* The types are kept, part by part.                                       *)
(***************************************************************************)
\* What steps do to the UI's call.
LEMMA Calls ==
  ASSUME UiTyped, NEW r \in Requests, NEW then \in {"nothing", "setting", "progress"}, Call(r, then)
  PROVE  UiTyped' /\ ui'.state = ui.state
<1>1. <<r>> \in Seq(Requests) /\ Len(<<r>>) = 1 /\ <<r>> # <<>>
  BY Singles
<1>2. /\ ui'.state = ui.state /\ ui'.call = <<r>> /\ ui'.then = then /\ ui'.in = FALSE
      /\ DOMAIN ui' = DOMAIN ui
  BY DEF Call, UiTyped
<1>3. ui' \in [state : {"looping", "stopping", "gone"}, call : Seq(Requests),
               then : {"nothing", "setting", "progress"}, in : BOOLEAN]
  BY <1>1 DEF Call, UiTyped
<1> QED
  BY <1>1, <1>2, <1>3 DEF UiTyped

LEMMA Ends ==
  ASSUME UiTyped
  PROVE  /\ \A v \in {"stopping", "gone"} : ui' = [ui EXCEPT !.state = v] => UiTyped'
         /\ ui' = [ui EXCEPT !.call = <<>>, !.then = "nothing", !.in = FALSE] => UiTyped'
         /\ ui' = [ui EXCEPT !.in = TRUE] /\ ui.call # <<>> => UiTyped'
<1>1. ASSUME NEW v \in {"stopping", "gone"}, ui' = [ui EXCEPT !.state = v] PROVE UiTyped'
  BY <1>1 DEF UiTyped
<1>2. ASSUME ui' = [ui EXCEPT !.call = <<>>, !.then = "nothing", !.in = FALSE] PROVE UiTyped'
  <2>1. <<>> \in Seq(Requests) /\ Len(<<>>) = 0
    BY Singles
  <2>2. ui'.call = <<>> /\ ui'.then = "nothing" /\ ui'.in = FALSE
    BY <1>2 DEF UiTyped
  <2>3. ui' \in [state : {"looping", "stopping", "gone"}, call : Seq(Requests),
                 then : {"nothing", "setting", "progress"}, in : BOOLEAN]
    BY <1>2, <2>1 DEF UiTyped
  <2> QED
    BY <2>1, <2>2, <2>3 DEF UiTyped
<1>3. ASSUME ui' = [ui EXCEPT !.in = TRUE], ui.call # <<>> PROVE UiTyped'
  BY <1>3 DEF UiTyped
<1> QED
  BY <1>1, <1>2, <1>3

\* The process is gone: its queues are empty.
LEMMA GoneTyped == ASSUME TypeInv, Gone PROVE TypeInv'
<1>1. UiTyped'
  BY Ends DEF Gone, TypeInv
<1>2. QueuesTyped'
  <2>1. <<>> \in Seq(Requests) /\ <<>> \in Seq(Messages) /\ Len(<<>>) = 0
    BY Singles
  <2> QED
    BY <2>1, ControlAssumption DEF Gone, QueuesTyped, ControlAssumption
<1>3. ClosedLate'
  BY DEF Gone, ClosedLate, TypeInv, UiTyped
<1> QED
  BY <1>1, <1>2, <1>3 DEF Gone, TypeInv, view, RestTyped, ViewTyped

LEMMA TypeUser == TypeInv /\ User => TypeInv'
<1> SUFFICES ASSUME TypeInv, User PROVE TypeInv'
  OBVIOUS
<1> USE DEF TypeInv, ClosedLate
<1>1. CASE Reload
  <2>1. UiTyped' /\ ui'.state = ui.state
    BY <1>1, RequestsMade, Calls DEF Reload
  <2>2. RestTyped' /\ ClosedLate'
    BY <1>1, <2>1 DEF Reload, wires, Command, MayCommand, RestTyped
  <2> QED
    BY <1>1, <2>1, <2>2 DEF Reload, wires, view, QueuesTyped, ViewTyped
<1>2. CASE OpenName
  BY <1>2 DEF OpenName, wires, RestTyped, QueuesTyped, UiTyped, ViewTyped
<1>3. CASE CancelName
  BY <1>3 DEF CancelName, wires, RestTyped, QueuesTyped, UiTyped, ViewTyped
<1>4. ASSUME NEW n \in Names, ApplyName(n) PROVE TypeInv'
  <2>1. UiTyped' /\ ui'.state = ui.state
    BY <1>4, RequestsMade, Calls DEF ApplyName
  <2>2. RestTyped' /\ ClosedLate'
    BY <1>4, <2>1 DEF ApplyName, wires, Command, MayCommand, RestTyped
  <2> QED
    BY <1>4, <2>1, <2>2 DEF ApplyName, wires, view, QueuesTyped, ViewTyped
<1>5. ASSUME NEW left \in Contents, NEW right \in Contents, NEW focused \in BOOLEAN,
             CopyDialog(left, right, focused)
      PROVE  /\ dialog' \in [shown : BOOLEAN, view : Views, direction : BOOLEAN, src : Contents]
             /\ dialog'.shown => dialog'.src = "full"
  <2>1. Chosen(left, right, focused) \in BOOLEAN
    BY DEF Chosen, ViewTyped
  <2>2. dialog.shown => (IF Chosen(left, right, focused) THEN right ELSE left) = "full"
    BY <1>5 DEF Chosen, CopyDialog, Contents, ViewTyped
  <2> QED
    BY <1>5, <2>1, <2>2 DEF CopyDialog, ViewTyped
<1>6. CASE OpenCopy
  BY <1>5, <1>6 DEF OpenCopy, wires, RestTyped, QueuesTyped, UiTyped, ViewTyped
<1>7. CASE ChangeDirection
  BY <1>5, <1>7 DEF ChangeDirection, wires, RestTyped, QueuesTyped, UiTyped, ViewTyped
<1>8. CASE CancelCopy
  BY <1>8 DEF CancelCopy, wires, RestTyped, QueuesTyped, UiTyped, ViewTyped
<1>9. CASE Proceed
  <2>1. given.copies + 1 \in Copies
    BY <1>9, ControlAssumption DEF Proceed, Copies, RestTyped, ControlAssumption
  <2>2. UiTyped' /\ ui'.state = ui.state
    BY <1>9, <2>1, RequestsMade, Calls DEF Proceed
  <2> QED
    BY <1>9, <2>2 DEF Proceed, wires, view, RestTyped, QueuesTyped, ViewTyped
<1>10. ASSUME NEW v \in {"completed", "failed"}, OkCopy(v) PROVE TypeInv'
  <2>1. UiTyped' /\ ui'.state = ui.state
    BY <1>10, RequestsMade, Calls DEF OkCopy, UiTyped
  <2> QED
    BY <1>10, <2>1 DEF OkCopy, wires, RestTyped, QueuesTyped, ViewTyped, Views
<1>11. CASE Quit
  <2>1. CASE Gone
    BY <2>1, GoneTyped
  <2>2. CASE ui' = [ui EXCEPT !.state = "stopping"]
            /\ UNCHANGED <<net, wires, server, copies, posts, view, given, named>>
    BY <1>11, <2>2, Ends DEF Quit, Idle, wires, view, RestTyped, QueuesTyped, ViewTyped
  <2> QED
    BY <1>11, <2>1, <2>2 DEF Quit
<1> QED
  BY <1>1, <1>2, <1>3, <1>4, <1>6, <1>7, <1>8, <1>9, <1>10, <1>11 DEF User

LEMMA TypeThread == TypeInv /\ (Accept \/ Return \/ HandlePost \/ Join) => TypeInv'
<1> SUFFICES ASSUME TypeInv, Accept \/ Return \/ HandlePost \/ Join PROVE TypeInv'
  OBVIOUS
<1> USE DEF TypeInv, ClosedLate
<1>1. CASE Accept
  <2>1. ui.call[1] \in Requests
    BY <1>1 DEF Accept, UiTyped
  <2>2. UiTyped'
    BY <1>1, Ends DEF Accept
  <2>3. QueuesTyped'
    BY <1>1, <2>1, AppendProperties, ControlAssumption DEF Accept, QueuesTyped, ControlAssumption
  <2> QED
    BY <1>1, <2>2, <2>3 DEF Accept, view, RestTyped, ViewTyped
<1>2. CASE Return
  <2>1. UiTyped'
    BY <1>2, Ends DEF Return
  <2> QED
    BY <1>2, <2>1 DEF Return, wires, Views, RestTyped, QueuesTyped, ViewTyped
<1>3. CASE HandlePost
  BY <1>3, HeadTail
  DEF HandlePost, OnScreen, OnDialog, wires, Views, RestTyped, QueuesTyped, UiTyped, ViewTyped
<1>4. CASE Join
  BY <1>4, GoneTyped DEF Join
<1> QED
  BY <1>1, <1>2, <1>3, <1>4

LEMMA TypeNet ==
  TypeInv /\ (Connect \/ ConnectFails \/ SetDefaultHostname \/ Send \/ Receive \/ ReceiveFails)
    => TypeInv'
<1> SUFFICES ASSUME TypeInv,
                    Connect \/ ConnectFails \/ SetDefaultHostname \/ Send \/ Receive \/ ReceiveFails
             PROVE  TypeInv'
  OBVIOUS
<1> USE DEF TypeInv, ClosedLate
<1>0. Critical \in Messages
  BY DEF Messages
<1>1. CASE Connect
  <2>1. <<SetName(server.name)>> \in Seq(Messages)
    BY Singles DEF RestTyped, Messages
  <2> QED
    BY <1>1, <2>1 DEF Connect, view, RestTyped, QueuesTyped, UiTyped, ViewTyped
<1>2. CASE ConnectFails
  BY <1>0, <1>2, AppendProperties
  DEF ConnectFails, wires, view, RestTyped, QueuesTyped, UiTyped, ViewTyped
<1>3. CASE SetDefaultHostname
  <2>1. Hostname # <<>> => SetName(Hostname[1]) \in Requests
    BY ControlAssumption DEF Requests, ControlAssumption
  <2>2. chan' \in Seq(Requests) /\ Len(chan') <= Cap /\ (~open => chan' = <<>>)
    <3>1. CASE Hostname = <<>>
      BY <1>3, <3>1 DEF SetDefaultHostname, QueuesTyped
    <3>2. CASE Hostname # <<>>
      <4>1. /\ chan' = Append(chan, SetName(Hostname[1])) /\ Len(chan) < Cap
            /\ UNCHANGED open
        BY <1>3, <3>2 DEF SetDefaultHostname
      <4>2. open
        BY <1>3 DEF SetDefaultHostname, ClosedLate, RestTyped
      <4> QED
        BY <2>1, <3>2, <4>1, <4>2, AppendProperties, ControlAssumption
        DEF QueuesTyped, ControlAssumption
    <3> QED
      BY <3>1, <3>2
  <2>3. up' \in Seq(Requests) /\ Len(up') <= Sock
    BY <1>3, RequestsMade, Singles, ControlAssumption DEF SetDefaultHostname, ControlAssumption
  <2> QED
    BY <1>3, <2>2, <2>3 DEF SetDefaultHostname, view, RestTyped, QueuesTyped, UiTyped, ViewTyped
<1>4. CASE Send
  <2>1. Head(chan) \in Requests /\ Tail(chan) \in Seq(Requests) /\ Len(Tail(chan)) = Len(chan) - 1
    BY <1>4, HeadTail DEF Send, QueuesTyped
  <2>2. QueuesTyped'
    BY <1>4, <2>1, AppendProperties, ControlAssumption DEF Send, QueuesTyped, ControlAssumption
  <2> QED
    BY <1>4, <2>2 DEF Send, view, RestTyped, UiTyped, ViewTyped
<1>5. CASE Receive
  BY <1>5, HeadTail, AppendProperties DEF Receive, view, RestTyped, QueuesTyped, UiTyped, ViewTyped
<1>6. CASE ReceiveFails
  <2>1. QueuesTyped'
    BY <1>0, <1>6, Singles, AppendProperties, ControlAssumption
    DEF ReceiveFails, QueuesTyped, ControlAssumption
  <2> QED
    BY <1>6, <2>1 DEF ReceiveFails, view, RestTyped, UiTyped, ViewTyped
<1> QED
  BY <1>1, <1>2, <1>3, <1>4, <1>5, <1>6

LEMMA TypeServe == TypeInv /\ Serve => TypeInv'
<1> SUFFICES ASSUME TypeInv, Serve PROVE TypeInv'
  OBVIOUS
<1> USE DEF TypeInv, ClosedLate
<1>1. Head(up) \in Requests /\ Tail(up) \in Seq(Requests) /\ Len(Tail(up)) <= Sock
  BY HeadTail, ControlAssumption DEF Serve, QueuesTyped, ControlAssumption
<1>2. Head(up).type = "name" => Head(up).of \in AnyName
  BY <1>1 DEF Requests, AnyName, List, SetName, Copy
<1>3. down' \in Seq(Messages)
  BY <1>1, RequestsAreMessages, AppendProperties DEF Serve, QueuesTyped
<1>4. copies' \in [Copies -> {"none", "joining", "copying", "copied", "over"}]
  BY <1>1 DEF Serve, RestTyped
<1>5. server' \in [here : BOOLEAN, name : AnyName]
  BY <1>1, <1>2 DEF Serve, RestTyped
<1> QED
  BY <1>1, <1>3, <1>4, <1>5 DEF Serve, view, RestTyped, QueuesTyped, UiTyped, ViewTyped

\* A step of a copy puts a report behind the messages, or none.
Reported(k) ==
  /\ NetRuns /\ copies[k] # "none"
  /\ \/ down' = down
     \/ \E r \in Messages : ~IsName(r) /\ down' = Append(down, r)
  /\ \E to \in {"copying", "copied", "over"} : copies' = [copies EXCEPT ![k] = to]
  /\ UNCHANGED <<net, chan, open, up, server, ui, posts, view, given, named>>

LEMMA CopyingReports == ASSUME TypeInv, NEW k \in Copies, Copying(k) PROVE Reported(k)
<1>1. \A v \in {"progress", "completed", "failed"} :
        /\ Report(v) \in Messages /\ ~IsName(Report(v))
        /\ down \o <<Report(v)>> = Append(down, Report(v))
  BY AppendIsConcat DEF Report, Messages, IsName, TypeInv, QueuesTyped
<1>2. down \o <<>> = down
  BY ConcatEmptySeq DEF TypeInv, QueuesTyped
<1>3. CASE Header(k)
  BY <1>1, <1>3 DEF Header, Goes, Reported
<1>4. CASE HeaderOfNothing(k)
  BY <1>1, <1>4 DEF HeaderOfNothing, Goes, Reported
<1>5. CASE Files(k)
  BY <1>1, <1>2, <1>5 DEF Files, Goes, Reported
<1>6. CASE End(k)
  BY <1>1, <1>6 DEF End, Goes, Reported
<1>7. CASE CopyFails(k)
  BY <1>1, <1>7 DEF CopyFails, Goes, Reported
<1> QED
  BY <1>3, <1>4, <1>5, <1>6, <1>7 DEF Copying

LEMMA TypeServer == TypeInv /\ ((\E k \in Copies : Copying(k)) \/ ServerDies) => TypeInv'
<1> SUFFICES ASSUME TypeInv, (\E k \in Copies : Copying(k)) \/ ServerDies PROVE TypeInv'
  OBVIOUS
<1> USE DEF TypeInv, ClosedLate
<1>1. ASSUME NEW k \in Copies, Copying(k) PROVE TypeInv'
  <2>1. Reported(k)
    BY <1>1, CopyingReports
  <2>2. down' \in Seq(Messages)
    <3>1. down \in Seq(Messages)
      BY DEF QueuesTyped
    <3>2. CASE down' = down
      BY <3>1, <3>2
    <3>3. ASSUME NEW r \in Messages, down' = Append(down, r) PROVE down' \in Seq(Messages)
      BY <3>1, <3>3, AppendProperties
    <3> QED
      BY <2>1, <3>2, <3>3 DEF Reported
  <2> QED
    BY <2>1, <2>2 DEF Reported, view, RestTyped, QueuesTyped, UiTyped, ViewTyped
<1>2. CASE ServerDies
  BY <1>2 DEF ServerDies, wires, view, RestTyped, QueuesTyped, UiTyped, ViewTyped
<1> QED
  BY <1>1, <1>2

LEMMA TypeStep == TypeInv /\ [Next]_vars => TypeInv'
<1>1. TypeInv /\ UNCHANGED vars => TypeInv'
  BY DEF TypeInv, RestTyped, QueuesTyped, UiTyped, ViewTyped, ClosedLate, vars, wires, view
<1> QED
  BY <1>1, TypeUser, TypeThread, TypeNet, TypeServe, TypeServer DEF Next

\* Every variable keeps its type, the channel its bound, and a copy dialog that
\* can be confirmed its source, whatever becomes of the panes.
THEOREM ControlTyped == Spec => []TypeOK
<1>1. Spec => []TypeInv
  BY TypeInit, TypeStep, PTL DEF Spec
<1> QED
  BY <1>1, TypeInvImplies, PTL

-----------------------------------------------------------------------------
(***************************************************************************)
(* The name. While the connection is being made or is there, the requests  *)
(* on their way leave the server with the last name accepted, and the      *)
(* messages on their way leave the screen with the server's name, unless   *)
(* another is on its way to the server.                                    *)
(***************************************************************************)
Alive == ui.state = "looping" /\ net \in {"connecting", "naming", "running"}
NamesAhead == HasName(up) \/ HasName(chan)

ServerNamed == Alive => \E m : Settles(up, server.name, m) /\ Settles(chan, m, named)

ScreenSettles(m, k) ==
  /\ Settles(posts, screen.pretty_name, m) /\ Settles(down, m, k)
  /\ k = server.name \/ NamesAhead
ScreenNamed == Alive /\ net # "connecting" => \E m, k : ScreenSettles(m, k)

\* A handler that is about to show that a name is being set has had it accepted,
\* and the answer has not been shown.
HandlerNamed ==
  /\ ui.then = "setting" => ui.call # <<>> /\ IsName(ui.call[1])
  /\ Alive /\ ui.in /\ IsName(ui.call[1]) => HasName(posts) \/ HasName(down) \/ NamesAhead

Started ==
  /\ net = "connecting" => posts = <<>> /\ down = <<>> /\ \A k \in Copies : copies[k] = "none"
  /\ Alive /\ net # "running" => up = <<>>

NameInv == TypeInv /\ ServerNamed /\ ScreenNamed /\ HandlerNamed /\ Started

LEMMA NameInit == Init => NameInv
<1> SUFFICES ASSUME Init PROVE NameInv
  OBVIOUS
<1>1. ServerNamed
  BY NothingSettles DEF Init, ServerNamed
<1> QED
  BY <1>1, TypeInit DEF Init, NameInv, ScreenNamed, HandlerNamed, Started

LEMMA NameInvImplies == NameInv => NameShown
<1> SUFFICES ASSUME NameInv, Quiet PROVE screen.pretty_name = named /\ server.name = named
  BY DEF NameShown
<1>1. Alive /\ chan = <<>> /\ up = <<>> /\ down = <<>> /\ posts = <<>> /\ ~NamesAhead
  BY NothingSettles DEF Quiet, Idle, Alive, NamesAhead
<1>2. server.name = named
  BY <1>1, EmptySettles DEF NameInv, ServerNamed
<1>3. screen.pretty_name = server.name
  BY <1>1, EmptySettles DEF Quiet, NameInv, ScreenNamed, ScreenSettles
<1> QED
  BY <1>2, <1>3

\* Steps that no name takes part in.
LEMMA NamesKept ==
  ASSUME NameInv, UNCHANGED <<net, chan, up, down, posts, copies, named>>,
         server'.name = server.name, screen'.pretty_name = screen.pretty_name,
         ui'.state = "looping" => ui.state = "looping",
         ui'.then = "setting" => ui'.call # <<>> /\ IsName(ui'.call[1]),
         ui'.in => ui.in /\ ui'.call = ui.call
  PROVE  ServerNamed' /\ ScreenNamed' /\ HandlerNamed' /\ Started'
<1>1. Alive' => Alive
  BY DEF Alive
<1>2. HasName(up)' = HasName(up) /\ HasName(chan)' = HasName(chan)
      /\ HasName(posts)' = HasName(posts) /\ HasName(down)' = HasName(down)
  BY DEF HasName, IsName
<1>3. ServerNamed'
  BY <1>1 DEF NameInv, ServerNamed, Settles, HasName, IsName
<1>4. ScreenNamed'
  <2>1. \A m, k : ScreenSettles(m, k) => ScreenSettles(m, k)'
    BY <1>2 DEF ScreenSettles, NamesAhead, Settles, IsName
  <2> QED
    BY <1>1, <2>1 DEF NameInv, ScreenNamed
<1>5. HandlerNamed'
  BY <1>1, <1>2 DEF NameInv, HandlerNamed, NamesAhead, IsName
<1>6. Started'
  BY <1>1 DEF NameInv, Started
<1> QED
  BY <1>3, <1>4, <1>5, <1>6

\* Steps after which the client is no longer alive.
LEMMA NamesOver ==
  ASSUME NameInv, ~Alive', ui'.then = ui.then, ui'.call = ui.call,
         net' = "connecting" => net = "connecting" /\ posts' = <<>> /\ down' = <<>> /\ copies' = copies
  PROVE  ServerNamed' /\ ScreenNamed' /\ HandlerNamed' /\ Started'
  BY DEF NameInv, ServerNamed, ScreenNamed, HandlerNamed, Started, IsName

LEMMA NameUser == NameInv /\ User => ServerNamed' /\ ScreenNamed' /\ HandlerNamed' /\ Started'
<1> SUFFICES ASSUME NameInv, User
             PROVE  ServerNamed' /\ ScreenNamed' /\ HandlerNamed' /\ Started'
  OBVIOUS
<1>0. UiTyped /\ ViewTyped /\ RestTyped /\ HandlerNamed
  BY DEF NameInv, TypeInv
<1>1. CASE Reload
  BY <1>0, <1>1, NamesKept DEF Reload, Call, wires, view, UiTyped
<1>2. CASE OpenName
  BY <1>0, <1>2, NamesKept DEF OpenName, wires, ViewTyped, HandlerNamed
<1>3. CASE CancelName
  BY <1>0, <1>3, NamesKept DEF CancelName, wires, ViewTyped, HandlerNamed
<1>4. ASSUME NEW n \in Names, ApplyName(n)
      PROVE  ServerNamed' /\ ScreenNamed' /\ HandlerNamed' /\ Started'
  BY <1>0, <1>4, NamesKept DEF ApplyName, Call, wires, view, UiTyped, IsName, SetName
<1>5. CASE OpenCopy
  BY <1>0, <1>5, NamesKept DEF OpenCopy, wires, HandlerNamed
<1>6. CASE ChangeDirection
  BY <1>0, <1>6, NamesKept DEF ChangeDirection, wires, HandlerNamed
<1>7. CASE CancelCopy
  BY <1>0, <1>7, NamesKept DEF CancelCopy, wires, HandlerNamed
<1>8. CASE Proceed
  BY <1>0, <1>8, NamesKept DEF Proceed, Call, wires, view, UiTyped
<1>9. ASSUME NEW v \in {"completed", "failed"}, OkCopy(v)
      PROVE  ServerNamed' /\ ScreenNamed' /\ HandlerNamed' /\ Started'
  BY <1>0, <1>9, NamesKept DEF OkCopy, Call, wires, UiTyped, HandlerNamed
<1>10. CASE Quit
  BY <1>0, <1>10, NamesOver DEF Quit, Gone, Alive, UiTyped, NameInv, Started, wires, view
<1> QED
  BY <1>1, <1>2, <1>3, <1>4, <1>5, <1>6, <1>7, <1>8, <1>9, <1>10 DEF User

LEMMA NameThread ==
  NameInv /\ (Accept \/ Return \/ HandlePost \/ Join)
    => ServerNamed' /\ ScreenNamed' /\ HandlerNamed' /\ Started'
<1> SUFFICES ASSUME NameInv, Accept \/ Return \/ HandlePost \/ Join
             PROVE  ServerNamed' /\ ScreenNamed' /\ HandlerNamed' /\ Started'
  OBVIOUS
<1>0. UiTyped /\ ViewTyped /\ QueuesTyped /\ ServerNamed /\ ScreenNamed /\ HandlerNamed /\ Started
  BY DEF NameInv, TypeInv
<1>1. CASE Accept
  <2> DEFINE r == ui.call[1]
  <2>1. r \in Requests /\ ui' = [ui EXCEPT !.in = TRUE] /\ chan' = Append(chan, r)
    BY <1>0, <1>1 DEF Accept, UiTyped
  <2>2. named' = After(r, named)
    BY <1>1 DEF Accept, After, IsName
  <2>3. Alive' <=> Alive
    BY <1>0, <1>1 DEF Accept, Alive, UiTyped
  <2>4. \A m : Settles(chan, m, named) =>
          Settles(chan', m, named') /\ (HasName(chan') <=> HasName(chan) \/ IsName(r))
    BY <1>0, <2>1, <2>2, AppendSettles DEF QueuesTyped
  <2>5. CASE Alive
    <3>1. PICK m : Settles(up, server.name, m) /\ Settles(chan, m, named)
      BY <1>0, <2>5 DEF ServerNamed
    <3>2. HasName(chan') <=> HasName(chan) \/ IsName(r)
      BY <2>4, <3>1
    <3>3. ServerNamed'
      BY <1>1, <2>4, <3>1 DEF Accept, ServerNamed
    <3>4. \A n, k : ScreenSettles(n, k) => ScreenSettles(n, k)'
      BY <1>1, <3>2 DEF Accept, view, ScreenSettles, NamesAhead
    <3>5. ScreenNamed'
      BY <1>0, <1>1, <2>3, <3>4 DEF Accept, ScreenNamed
    <3>6. HandlerNamed'
      BY <1>0, <1>1, <2>1, <3>2 DEF Accept, HandlerNamed, NamesAhead, UiTyped
    <3>7. Started'
      BY <1>0, <1>1, <2>3 DEF Accept, Started
    <3> QED
      BY <3>3, <3>5, <3>6, <3>7
  <2>6. CASE ~Alive
    BY <1>0, <1>1, <2>1, <2>3, <2>6, NamesOver DEF Accept, Started, UiTyped
  <2> QED
    BY <2>5, <2>6
<1>2. CASE Return
  <2>1. /\ ui'.state = ui.state /\ ui'.then = "nothing" /\ ui'.in = FALSE
    BY <1>0, <1>2 DEF Return, UiTyped
  <2>2. CASE ui.then # "setting"
    BY <1>0, <1>2, <2>1, <2>2, NamesKept DEF Return, wires
  <2>3. CASE ui.then = "setting"
    <3>1. screen'.pretty_name = "setting"
      BY <1>0, <1>2, <2>3 DEF Return, ViewTyped
    <3>2. Alive' <=> Alive
      BY <1>2, <2>1 DEF Return, Alive, wires
    <3>3. Alive => HasName(posts) \/ HasName(down) \/ NamesAhead
      BY <1>0, <1>2, <2>3 DEF Return, HandlerNamed
    <3>4. ASSUME Alive, net # "connecting" PROVE \E m, k : ScreenSettles(m, k)'
      <4>1. PICK m, k : ScreenSettles(m, k)
        BY <1>0, <3>4 DEF ScreenNamed
      <4>2. CASE HasName(posts)
        <5>1. Settles(posts, "setting", m)
          BY <4>1, <4>2, Rebase DEF ScreenSettles
        <5>2. ScreenSettles(m, k)'
          BY <1>2, <3>1, <4>1, <5>1 DEF Return, wires, ScreenSettles, NamesAhead
        <5> QED
          BY <5>2
      <4>3. CASE ~HasName(posts) /\ HasName(down)
        <5>1. Settles(posts, "setting", "setting") /\ Settles(down, "setting", k)
          BY <4>1, <4>3, Rebase DEF ScreenSettles
        <5>2. ScreenSettles("setting", k)'
          BY <1>2, <3>1, <4>1, <5>1 DEF Return, wires, ScreenSettles, NamesAhead
        <5> QED
          BY <5>2
      <4>4. CASE ~HasName(posts) /\ ~HasName(down)
        <5>1. Settles(posts, "setting", "setting") /\ Settles(down, "setting", "setting") /\ NamesAhead
          BY <3>3, <3>4, <4>1, <4>4, Rebase DEF ScreenSettles
        <5>2. ScreenSettles("setting", "setting")'
          BY <1>2, <3>1, <5>1 DEF Return, wires, ScreenSettles, NamesAhead
        <5> QED
          BY <5>2
      <4> QED
        BY <4>2, <4>3, <4>4
    <3>5. ScreenNamed'
      BY <1>2, <3>2, <3>4 DEF Return, ScreenNamed, wires
    <3>6. ServerNamed' /\ Started'
      BY <1>0, <1>2, <3>2 DEF Return, ServerNamed, Started, wires
    <3>7. HandlerNamed'
      BY <2>1 DEF HandlerNamed
    <3> QED
      BY <3>5, <3>6, <3>7
  <2> QED
    BY <2>2, <2>3
<1>3. CASE HandlePost
  <2>1. ~ui.in /\ ui.then # "setting" /\ ui' = ui
    BY <1>0, <1>3 DEF HandlePost, Idle, UiTyped
  <2>2. screen'.pretty_name = After(Head(posts), screen.pretty_name)
    BY <1>0, <1>3 DEF HandlePost, OnScreen, After, IsName, ViewTyped
  <2>3. \A m, k : ScreenSettles(m, k) => ScreenSettles(m, k)'
    BY <1>0, <1>3, <2>2, TailSettles DEF HandlePost, wires, QueuesTyped, ScreenSettles, NamesAhead
  <2>4. ScreenNamed'
    BY <1>0, <1>3, <2>1, <2>3 DEF HandlePost, wires, ScreenNamed, Alive
  <2>5. ServerNamed' /\ Started'
    BY <1>0, <1>3, <2>1 DEF HandlePost, wires, ServerNamed, Started, Alive
  <2>6. HandlerNamed'
    BY <2>1 DEF HandlerNamed
  <2> QED
    BY <2>4, <2>5, <2>6
<1>4. CASE Join
  BY <1>0, <1>4, NamesOver DEF Join, Gone, Alive, UiTyped, Started
<1> QED
  BY <1>1, <1>2, <1>3, <1>4

LEMMA NameNet ==
  NameInv /\ (Connect \/ ConnectFails \/ SetDefaultHostname \/ Send \/ Receive \/ ReceiveFails)
    => ServerNamed' /\ ScreenNamed' /\ HandlerNamed' /\ Started'
<1> SUFFICES ASSUME NameInv,
                    Connect \/ ConnectFails \/ SetDefaultHostname \/ Send \/ Receive \/ ReceiveFails
             PROVE  ServerNamed' /\ ScreenNamed' /\ HandlerNamed' /\ Started'
  OBVIOUS
<1>0. UiTyped /\ ViewTyped /\ QueuesTyped /\ ServerNamed /\ ScreenNamed /\ HandlerNamed /\ Started
  BY DEF NameInv, TypeInv
<1>1. CASE Connect
  <2>1. Alive /\ Alive' /\ up = <<>> /\ posts = <<>> /\ down = <<>>
    BY <1>0, <1>1 DEF Connect, NetRuns, Alive, Started
  <2>2. \A n : Settles(<<SetName(server.name)>>, n, server.name)
    BY DEF Settles, IsName, SetName
  <2>3. ScreenSettles(screen.pretty_name, server.name)'
    BY <1>1, <2>1, <2>2, NothingSettles DEF Connect, view, ScreenSettles
  <2>4. ScreenNamed'
    BY <2>3 DEF ScreenNamed
  <2>5. HasName(down') /\ HandlerNamed'
    BY <1>0, <1>1 DEF Connect, HandlerNamed, HasName, IsName, SetName
  <2>6. ServerNamed' /\ Started'
    BY <1>0, <1>1, <2>1 DEF Connect, ServerNamed, Started
  <2> QED
    BY <2>4, <2>5, <2>6
<1>2. CASE ConnectFails
  BY <1>0, <1>2, NamesOver DEF ConnectFails, Alive
<1>3. CASE SetDefaultHostname
  <2>1. CASE ui.state # "looping"
    BY <1>0, <1>3, <2>1, NamesOver DEF SetDefaultHostname, Alive
  <2>2. CASE ui.state = "looping"
    <3>1. Alive /\ Alive' /\ up = <<>> /\ up' = <<List>>
      BY <1>0, <1>3, <2>2 DEF SetDefaultHostname, Alive, Started
    <3>2. ~HasName(up) /\ ~HasName(up') /\ \A n : Settles(up', n, n)
      BY <3>1, NothingSettles DEF HasName, IsName, List, Settles
    <3>3. Settles(chan, server.name, named)
      BY <1>0, <3>1, EmptySettles DEF ServerNamed
    <3>4. Settles(chan', server.name, named') /\ (HasName(chan) => HasName(chan'))
      <4>1. CASE Hostname = <<>>
        BY <1>3, <3>3, <4>1 DEF SetDefaultHostname
      <4>2. CASE Hostname # <<>>
        <5>1. SetName(Hostname[1]) \in Requests
          BY <4>2, ControlAssumption DEF Requests, ControlAssumption
        <5>2. named' = After(SetName(Hostname[1]), named) /\ chan' = Append(chan, SetName(Hostname[1]))
          BY <1>3, <4>2 DEF SetDefaultHostname, After, IsName, SetName
        <5> QED
          BY <1>0, <3>3, <5>1, <5>2, AppendSettles DEF QueuesTyped
      <4> QED
        BY <4>1, <4>2
    <3>5. ServerNamed'
      BY <1>3, <3>2, <3>4 DEF SetDefaultHostname, ServerNamed
    <3>6. \A m, k : ScreenSettles(m, k) => ScreenSettles(m, k)'
      BY <1>3, <3>2, <3>4 DEF SetDefaultHostname, view, ScreenSettles, NamesAhead
    <3>7. ScreenNamed'
      BY <1>0, <1>3, <3>1, <3>6 DEF SetDefaultHostname, ScreenNamed
    <3>8. HandlerNamed' /\ Started'
      BY <1>0, <1>3, <3>1, <3>2, <3>4 DEF SetDefaultHostname, HandlerNamed, NamesAhead, Started
    <3> QED
      BY <3>5, <3>7, <3>8
  <2> QED
    BY <2>1, <2>2
<1>4. CASE Send
  <2> DEFINE r == Head(chan)
  <2>1. Alive /\ Alive' /\ r \in Requests
    BY <1>0, <1>4, HeadTail DEF Send, NetRuns, Alive, QueuesTyped
  <2>2. PICK m : Settles(up, server.name, m) /\ Settles(chan, m, named)
    BY <1>0, <2>1 DEF ServerNamed
  <2>3. Settles(up', server.name, After(r, m)) /\ (HasName(up') <=> HasName(up) \/ IsName(r))
    BY <1>0, <1>4, <2>1, <2>2, AppendSettles DEF Send, QueuesTyped
  <2>4. Settles(chan', After(r, m), named) /\ (HasName(chan) <=> HasName(chan') \/ IsName(r))
    BY <1>0, <1>4, <2>2, TailSettles DEF Send, QueuesTyped
  <2>5. ServerNamed'
    BY <1>4, <2>3, <2>4 DEF Send, ServerNamed
  <2>6. NamesAhead' <=> NamesAhead
    BY <2>3, <2>4 DEF NamesAhead
  <2>7. \A n, k : ScreenSettles(n, k) => ScreenSettles(n, k)'
    BY <1>4, <2>6 DEF Send, view, ScreenSettles
  <2>8. ScreenNamed'
    BY <1>0, <1>4, <2>1, <2>7 DEF Send, ScreenNamed
  <2>9. HandlerNamed' /\ Started'
    BY <1>0, <1>4, <2>1, <2>6 DEF Send, HandlerNamed, Started
  <2> QED
    BY <2>5, <2>8, <2>9
<1>5. CASE Receive
  <2> DEFINE r == Head(down)
  <2>1. Alive /\ Alive' /\ r \in Messages
    BY <1>0, <1>5, HeadTail DEF Receive, NetRuns, Alive, QueuesTyped
  <2>2. PICK m, k : ScreenSettles(m, k)
    BY <1>0, <1>5, <2>1 DEF Receive, ScreenNamed
  <2>3. Settles(posts', screen.pretty_name, After(r, m))
        /\ (HasName(posts') <=> HasName(posts) \/ IsName(r))
    BY <1>0, <1>5, <2>1, <2>2, AppendSettles DEF Receive, QueuesTyped, ScreenSettles
  <2>4. Settles(down', After(r, m), k) /\ (HasName(down) <=> HasName(down') \/ IsName(r))
    BY <1>0, <1>5, <2>2, TailSettles DEF Receive, QueuesTyped, ScreenSettles
  <2>5. \A n : n = After(r, m) => ScreenSettles(n, k)'
    BY <1>5, <2>2, <2>3, <2>4 DEF Receive, view, ScreenSettles, NamesAhead
  <2>6. ScreenNamed'
    BY <2>5 DEF ScreenNamed
  <2>7. ServerNamed' /\ Started'
    BY <1>0, <1>5, <2>1 DEF Receive, ServerNamed, Started
  <2>8. HandlerNamed'
    BY <1>0, <1>5, <2>1, <2>3, <2>4 DEF Receive, HandlerNamed, NamesAhead
  <2> QED
    BY <2>6, <2>7, <2>8
<1>6. CASE ReceiveFails
  BY <1>0, <1>6, NamesOver DEF ReceiveFails, Alive
<1> QED
  BY <1>1, <1>2, <1>3, <1>4, <1>5, <1>6

LEMMA NameServer ==
  NameInv /\ (Serve \/ (\E k \in Copies : Copying(k)) \/ ServerDies)
    => ServerNamed' /\ ScreenNamed' /\ HandlerNamed' /\ Started'
<1> SUFFICES ASSUME NameInv, Serve \/ (\E k \in Copies : Copying(k)) \/ ServerDies
             PROVE  ServerNamed' /\ ScreenNamed' /\ HandlerNamed' /\ Started'
  OBVIOUS
<1>0. /\ UiTyped /\ QueuesTyped /\ RestTyped /\ TypeInv
      /\ ServerNamed /\ ScreenNamed /\ HandlerNamed /\ Started
  BY DEF NameInv, TypeInv
<1>1. CASE Serve
  <2> DEFINE r == Head(up)
  <2>1. /\ r \in Requests /\ r \in Messages /\ up # <<>> /\ up' = Tail(up)
        /\ UNCHANGED <<net, chan, ui, posts, screen, named>>
    BY <1>0, <1>1, HeadTail, RequestsAreMessages DEF Serve, QueuesTyped, view
  <2>2. Alive' <=> Alive
    BY <2>1 DEF Alive
  <2>3. server'.name = After(r, server.name)
    BY <1>0, <1>1 DEF Serve, After, IsName, RestTyped
  <2>4. CASE ~Alive
    <3>1. net = "connecting" => ui.state # "looping"
      BY <2>4 DEF Alive
    <3> QED
      BY <1>1, <2>4, <3>1 DEF Serve, NetRuns, NameInv, ServerNamed, ScreenNamed, HandlerNamed, Started,
         Alive, view
  <2>5. CASE Alive
    <3>1. net = "running"
      BY <1>0, <2>1, <2>5 DEF Started
    <3>2. PICK m : Settles(up, server.name, m) /\ Settles(chan, m, named)
      BY <1>0, <2>5 DEF ServerNamed
    <3>3. Settles(up', server'.name, m) /\ (HasName(up) <=> HasName(up') \/ IsName(r))
      BY <1>0, <2>1, <2>3, <3>2, TailSettles DEF QueuesTyped
    <3>4. ServerNamed'
      BY <2>1, <3>2, <3>3 DEF ServerNamed
    <3>5. PICK n, k : ScreenSettles(n, k)
      BY <1>0, <2>5, <3>1 DEF ScreenNamed
    <3>6. /\ Settles(down', n, After(r, k))
          /\ HasName(down') <=> HasName(down) \/ IsName(r)
      <4>1. CASE r.type = "copy"
        BY <1>1, <3>5, <4>1 DEF Serve, After, IsName, ScreenSettles
      <4>2. CASE r.type # "copy"
        BY <1>0, <1>1, <2>1, <3>5, <4>2, AppendSettles DEF Serve, QueuesTyped, ScreenSettles
      <4> QED
        BY <4>1, <4>2
    <3>7. \A l : l = After(r, k) => ScreenSettles(n, l)'
      BY <2>1, <2>3, <3>3, <3>5, <3>6 DEF ScreenSettles, NamesAhead, After
    <3>8. ScreenNamed'
      BY <3>7 DEF ScreenNamed
    <3>9. HandlerNamed' /\ Started'
      BY <1>0, <2>1, <2>5, <3>1, <3>3, <3>6 DEF HandlerNamed, NamesAhead, Started
    <3> QED
      BY <3>4, <3>8, <3>9
  <2> QED
    BY <2>4, <2>5
<1>2. ASSUME NEW c \in Copies, Copying(c)
      PROVE  ServerNamed' /\ ScreenNamed' /\ HandlerNamed' /\ Started'
  <2>1. Reported(c)
    BY <1>0, <1>2, CopyingReports
  <2>2. UNCHANGED <<net, chan, open, up, server, ui, posts, screen, given, named>> /\ net # "connecting"
    BY <1>0, <2>1 DEF Reported, view, Started
  <2>3. Alive' <=> Alive
    BY <2>2 DEF Alive
  <2>4. \A m, k : Settles(down, m, k) => Settles(down', m, k) /\ (HasName(down') <=> HasName(down))
    <3>1. CASE down' = down
      BY <3>1
    <3>2. ASSUME NEW r \in Messages, ~IsName(r), down' = Append(down, r)
          PROVE  \A m, k : Settles(down, m, k) =>
                   Settles(down', m, k) /\ (HasName(down') <=> HasName(down))
      BY <1>0, <3>2, AppendSettles DEF After, QueuesTyped
    <3> QED
      BY <2>1, <3>1, <3>2 DEF Reported
  <2>5. ServerNamed' /\ Started'
    BY <1>0, <2>2, <2>3 DEF ServerNamed, Started
  <2>6. CASE Alive
    <3>1. PICK m, k : ScreenSettles(m, k)
      BY <1>0, <2>2, <2>6 DEF ScreenNamed
    <3>2. ScreenSettles(m, k)' /\ (HasName(down') <=> HasName(down))
      BY <2>2, <2>4, <3>1 DEF ScreenSettles, NamesAhead
    <3>3. ScreenNamed' /\ HandlerNamed'
      BY <1>0, <2>2, <2>6, <3>2 DEF ScreenNamed, HandlerNamed, NamesAhead
    <3> QED
      BY <2>5, <3>3
  <2>7. CASE ~Alive
    BY <1>0, <2>2, <2>3, <2>5, <2>7 DEF ScreenNamed, HandlerNamed
  <2> QED
    BY <2>6, <2>7
<1>3. CASE ServerDies
  BY <1>0, <1>3, NamesKept DEF ServerDies, wires, view, RestTyped, HandlerNamed
<1> QED
  BY <1>1, <1>2, <1>3

LEMMA NameStep == NameInv /\ [Next]_vars => NameInv'
<1> SUFFICES ASSUME NameInv, [Next]_vars PROVE NameInv'
  OBVIOUS
<1>1. TypeInv'
  BY TypeStep DEF NameInv
<1>2. CASE UNCHANGED vars
  BY <1>1, <1>2, NamesKept DEF NameInv, HandlerNamed, vars, wires, view
<1>3. CASE Next
  BY <1>1, <1>3, NameUser, NameThread, NameNet, NameServer DEF Next, NameInv
<1> QED
  BY <1>2, <1>3

\* When nothing is under way the screen shows the name the server has, which is
\* the last one accepted, for any number of names, requests and copies and any
\* interleaving of the threads and the server.
THEOREM NameIsShown == Spec => []NameShown
<1>1. Spec => []NameInv
  BY NameInit, NameStep, PTL DEF Spec
<1> QED
  BY <1>1, NameInvImplies, PTL
=============================================================================
