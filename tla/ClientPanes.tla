------------------------------ MODULE ClientPanes ------------------------------
(***************************************************************************)
(* The two panes of the remy client (src/src/view-client.cpp) and the      *)
(* Browser connections behind them (src/src/client.cpp): the UI thread,    *)
(* which handles the user's events and the lambdas posted to m_screen, and *)
(* the network thread, which runs every coroutine, meet in m_mtx, in       *)
(* m_browser_readers and in the channel of each BrowserReader.             *)
(*                                                                         *)
(* A session is one request for a Browser connection with all that comes   *)
(* of it. Its number also stands for the client token, a random number     *)
(* taken to be unique, under which m_browser_ids remembers the pane, and   *)
(* for the client it is a request for: the code compares no clients, so    *)
(* that each request may be for another. The server and the hosts answer   *)
(* or not, as they like; the Control connection lasts.                     *)
(*                                                                         *)
(* BrowserReader's m_send_requests has no buffer: try_send succeeds when   *)
(* outcoming_msg waits in async_receive, and send_request tries until it   *)
(* does, with m_mtx held. The network thread that wants m_mtx meanwhile    *)
(* waits, and all its other coroutines with it.                            *)
(***************************************************************************)
EXTENDS Integers, Sequences, FiniteSets

CONSTANTS
  MaxConnects,  \* bound on the user's requests to connect
  MaxCommands,  \* bound on the user's other commands of each kind
  None          \* absence of a value

ASSUME PanesAssumption ==
  /\ MaxConnects \in Nat \ {0} /\ MaxCommands \in Nat
  /\ None \notin Nat

Panes == {0, 1}
Sessions == 1..MaxConnects
Dirs == {"top", "sub"}   \* the empty cwd, and any directory below it
Kinds == {"enter", "reload", "leave"}

VARIABLES
  view,      \* m_view_selected of a pane
  chosen,    \* m_client_id of a pane, whose name heads it
  shown,     \* the client and directory the entries of a pane were read from
  dialog,    \* the delete or mkdir modal: <<>> or a record
  ui,        \* the calls the UI thread has yet to make; the session it is in
  posts,     \* lambdas posted to m_screen, in order
  net,       \* <<>>, or the step for which the network thread waits for m_mtx
  readers,   \* m_browser_readers: pane -> session
  asks,      \* m_send_requests of ClientNet: sessions to ask the server for
  ses,       \* the sessions
  commands,  \* how many commands of each kind the user has given
  warned,    \* history: panes whose session ended in show_warning
  left       \* history: panes the user has disconnected

user == <<view, chosen, shown, dialog, commands, left>>
network == <<net, readers, asks, warned>>
vars == <<user, ui, posts, network, ses>>

Unused == [phase |-> "unused", pane |-> 0, out |-> "idle", item |-> <<>>,
           wire |-> <<>>, sock |-> FALSE, chan |-> FALSE]
Gone == [Unused EXCEPT !.phase = "gone"]

Request(op, dir) == [op |-> op, dir |-> dir]
Post(kind, p, s, d, ok) == [kind |-> kind, pane |-> p, client |-> s, dir |-> d, ok |-> ok]
ErrorPost(p) == Post("error", p, None, "top", FALSE)

\* send_request calls try_send with m_mtx held.
InCall == ui.at # None
LockFree == ~InCall
UiIdle == ui.todo = <<>> /\ ~ui.thrown

-----------------------------------------------------------------------------
\* The user. A modal keeps the events from the panes.
UserFree == UiIdle /\ dialog = <<>>
Command(kind) == commands[kind] < MaxCommands /\ commands' = [commands EXCEPT ![kind] = @ + 1]

\* Mutant: a pane that had a client keeps its name.
ConnectUnnamed(p) ==
  /\ UserFree /\ view[p] = "clients"
  /\ \E s \in Sessions :
       /\ ses[s].phase = "unused" /\ \A t \in Sessions : t < s => ses[t].phase # "unused"
       /\ ses' = [ses EXCEPT ![s] = [Unused EXCEPT !.phase = "asking", !.pane = p]]
       /\ asks' = Append(asks, s)
       /\ chosen' = [chosen EXCEPT ![p] = IF @ = None THEN s ELSE @]
  /\ view' = [view EXCEPT ![p] = "waiting"]
  /\ UNCHANGED <<shown, dialog, commands, left, ui, posts, net, readers, warned>>

\* Enter on a client: request_browser_connection, through a channel of
\* ClientNet that has room.
Connect(p) ==
  /\ UserFree /\ view[p] = "clients"
  /\ \E s \in Sessions :
       /\ ses[s].phase = "unused" /\ \A t \in Sessions : t < s => ses[t].phase # "unused"
       /\ ses' = [ses EXCEPT ![s] = [Unused EXCEPT !.phase = "asking", !.pane = p]]
       /\ asks' = Append(asks, s)
       /\ chosen' = [chosen EXCEPT ![p] = s]
  /\ view' = [view EXCEPT ![p] = "waiting"]
  /\ UNCHANGED <<shown, dialog, commands, left, ui, posts, net, readers, warned>>

Call(op, p, dir, to) == [op |-> op, pane |-> p, dir |-> dir, to |-> to]
Calls(todo) == ui' = [ui EXCEPT !.todo = todo]

\* Enter on a directory, or on ".." below the top.
Cd(p, dir) ==
  /\ UserFree /\ view[p] = "browser" /\ Command("enter")
  /\ shown[p].dir = "top" => dir # "top"
  /\ Calls(<<Call("cd", p, dir, chosen[p])>>)
  /\ UNCHANGED <<view, chosen, shown, dialog, left, posts, network, ses>>

\* Enter on ".." at the top: disconnect_browser closes the socket, if any.
Disconnect(p) ==
  /\ UserFree /\ view[p] = "browser" /\ shown[p].dir = "top" /\ Command("leave")
  /\ ses' = IF readers[p] = None THEN ses ELSE [ses EXCEPT ![readers[p]].sock = FALSE]
  /\ view' = [view EXCEPT ![p] = "clients"]
  /\ left' = [left EXCEPT ![p] = TRUE]
  /\ UNCHANGED <<chosen, shown, dialog, ui, posts, network>>

\* reload_info: cd to the same directory in every pane that shows one.
ReloadCall(p) ==
  IF view[p] = "browser" THEN <<Call("reload", p, shown[p].dir, chosen[p])>> ELSE <<>>
ReloadCalls == ReloadCall(0) \o ReloadCall(1)

Reload ==
  /\ UserFree /\ Command("reload")
  /\ Calls(ReloadCalls)
  /\ UNCHANGED <<view, chosen, shown, dialog, left, posts, network, ses>>

\* delete_dialog_payload and mkdir_dialog_payload: the modal keeps the pane,
\* the client and the directory of the moment. The two differ in nothing but
\* the change they ask for.
OpenDialog(p) ==
  /\ UserFree /\ view[p] = "browser" /\ Command("enter")
  /\ dialog' = <<[state |-> "ask", call |-> Call("change", p, shown[p].dir, chosen[p])]>>
  /\ UNCHANGED <<view, chosen, shown, left, ui, posts, network, ses>>

Confirm ==
  /\ UiIdle /\ dialog # <<>> /\ dialog[1].state = "ask"
  /\ Calls(<<dialog[1].call>>)
  /\ UNCHANGED <<user, posts, network, ses>>

Cancel ==
  /\ UiIdle /\ dialog # <<>> /\ dialog[1].state = "ask"
  /\ dialog' = <<>>
  /\ UNCHANGED <<view, chosen, shown, commands, left, ui, posts, network, ses>>

\* Ok below the result: the panes are reloaded.
Ok ==
  /\ UiIdle /\ dialog # <<>> /\ dialog[1].state = "result"
  /\ dialog' = <<>>
  /\ Calls(ReloadCalls)
  /\ UNCHANGED <<view, chosen, shown, commands, left, posts, network, ses>>

-----------------------------------------------------------------------------
\* ClientNet::cd, request_delete and request_mkdir, on the UI thread.

\* m_mtx is taken; m_browser_readers.at throws when the pane has no reader,
\* and the exception leaves the UI loop.
Enter ==
  /\ ui.todo # <<>> /\ LockFree /\ ~ui.thrown
  /\ LET reader == readers[ui.todo[1].pane] IN
     ui' = IF reader = None THEN [ui EXCEPT !.thrown = TRUE] ELSE [ui EXCEPT !.at = reader]
  /\ UNCHANGED <<user, posts, network, ses>>

\* Mutant: the type of the message is that of the event.
TrySendTyped ==
  LET call == ui.todo[1] IN
  /\ InCall /\ ses[ui.at].chan /\ ses[ui.at].out = "ready"
  /\ ses' = [ses EXCEPT ![ui.at].out = "sending", ![ui.at].item = <<Request(call.op, call.dir)>>]
  /\ ui' = [ui EXCEPT !.todo = Tail(@), !.at = None]
  /\ UNCHANGED <<user, posts, network>>

\* send_request: try_send meets outcoming_msg in async_receive, m_mtx is
\* released and the handler goes on.
TrySend ==
  LET call == ui.todo[1] IN
  /\ InCall
  /\ ses[ui.at].chan /\ ses[ui.at].out = "ready"
  /\ ses' = [ses EXCEPT ![ui.at].out = "sending",
               ![ui.at].item = <<Request(IF call.op = "reload" THEN "cd" ELSE call.op, call.dir)>>]
  /\ ui' = [ui EXCEPT !.todo = Tail(@), !.at = None]
  /\ view' = IF call.op = "cd" THEN [view EXCEPT ![call.pane] = "waiting"] ELSE view
  /\ dialog' = IF call.op = "change" THEN <<[dialog[1] EXCEPT !.state = "waiting"]>>
               ELSE dialog
  /\ UNCHANGED <<chosen, shown, commands, left, posts, network>>

\* m_screen.Loop runs the next lambda.
Took(kind) ==
  /\ UiIdle /\ posts # <<>> /\ Head(posts).kind = kind
  /\ posts' = Tail(posts)

\* show_dents: a directory that could not be read leaves the entries alone,
\* but the pane shows them.
ShowDents ==
  LET m == Head(posts) IN
  /\ Took("dents")
  /\ view' = [view EXCEPT ![m.pane] = "browser"]
  /\ shown' = IF m.ok THEN [shown EXCEPT ![m.pane] = [client |-> m.client, dir |-> m.dir]] ELSE shown
  /\ UNCHANGED <<chosen, dialog, commands, left, ui, network, ses>>

BrowserError ==
  /\ Took("error")
  /\ view' = [view EXCEPT ![Head(posts).pane] = "clients"]
  /\ UNCHANGED <<chosen, shown, dialog, commands, left, ui, network, ses>>

\* show_delete_result, show_mkdir_result.
ShowResult ==
  /\ Took("result")
  /\ dialog' = IF dialog = <<>> THEN dialog ELSE <<[dialog[1] EXCEPT !.state = "result"]>>
  /\ UNCHANGED <<view, chosen, shown, commands, left, ui, network, ses>>

-----------------------------------------------------------------------------
\* The network thread. A step that wants m_mtx while the UI thread is in a
\* call waits for it, and nothing else runs meanwhile.
NetFree == net = <<>> /\ ~ui.thrown

Locking(step, s) ==
  \/ NetFree /\ LockFree /\ UNCHANGED net
  \/ net = <<step, s>> /\ LockFree /\ ~ui.thrown /\ net' = <<>>

Blocked(step, s, enabled) ==
  /\ NetFree /\ enabled /\ ~LockFree
  /\ net' = <<step, s>>
  /\ UNCHANGED <<user, ui, posts, readers, asks, warned, ses>>

\* outcoming_control_msg runs the callback of request_browser_connection:
\* m_browser_ids is filled, then the request is sent.
SendAsk(s) ==
  \/ /\ asks # <<>> /\ Head(asks) = s /\ Locking("ask", s)
     /\ asks' = Tail(asks)
     /\ ses' = [ses EXCEPT ![s].phase = "asked"]
     /\ UNCHANGED <<user, ui, posts, readers, warned>>
  \/ Blocked("ask", s, asks # <<>> /\ Head(asks) = s)

\* Mutant: the pane is not told.
RefusedSilently(s) ==
  /\ NetFree /\ ses[s].phase = "asked"
  /\ ses' = [ses EXCEPT ![s] = Gone]
  /\ UNCHANGED <<user, ui, posts, network>>

\* BrowserConnected without a token.
Refused(s) ==
  \/ /\ ses[s].phase = "asked" /\ Locking("refused", s)
     /\ posts' = Append(posts, ErrorPost(ses[s].pane))
     /\ ses' = [ses EXCEPT ![s] = Gone]
     /\ UNCHANGED <<user, ui, readers, asks, warned>>
  \/ Blocked("refused", s, ses[s].phase = "asked")

\* Mutant: insert_or_assign instead of try_emplace.
EmplaceAssign(s) ==
  \/ /\ ses[s].phase = "asked" /\ Locking("emplace", s)
     /\ readers' = [readers EXCEPT ![ses[s].pane] = s]
     /\ ses' = [ses EXCEPT ![s].phase = "connecting", ![s].sock = TRUE, ![s].chan = TRUE]
     /\ UNCHANGED <<user, ui, posts, asks, warned>>
  \/ Blocked("emplace", s, ses[s].phase = "asked")

\* BrowserConnected with a token spawns run_browser_reader_coro, which begins
\* with try_emplace: a pane that still has a reader keeps it, with a warning.
Emplace(s) ==
  LET p == ses[s].pane IN
  \/ /\ ses[s].phase = "asked" /\ Locking("emplace", s)
     /\ \/ /\ readers[p] = None
           /\ readers' = [readers EXCEPT ![p] = s]
           /\ ses' = [ses EXCEPT ![s].phase = "connecting", ![s].sock = TRUE, ![s].chan = TRUE]
           /\ UNCHANGED warned
        \/ /\ readers[p] # None
           /\ ses' = [ses EXCEPT ![s] = Gone]
           /\ warned' = [warned EXCEPT ![p] = TRUE]
           /\ UNCHANGED readers
     /\ UNCHANGED <<user, ui, posts, asks>>
  \/ Blocked("emplace", s, ses[s].phase = "asked")

\* BrowserReader::connect; outcoming_msg starts with the listing of the top.
ConnectReader(s) ==
  /\ NetFree /\ ses[s].phase = "connecting" /\ ses[s].sock
  /\ ses' = [ses EXCEPT ![s].phase = "open", ![s].out = "sending",
               ![s].item = <<Request("cd", "top")>>]
  /\ UNCHANGED <<user, ui, posts, network>>

\* connect throws, also because the socket was closed: show_warning.
ConnectFails(s) ==
  /\ NetFree /\ ses[s].phase = "connecting"
  /\ ses' = [ses EXCEPT ![s].phase = "closing"]
  /\ warned' = [warned EXCEPT ![ses[s].pane] = TRUE]
  /\ UNCHANGED <<user, ui, posts, net, readers, asks>>

\* Mutant: outcoming_msg does not come back for another request.
SentOnce(s) ==
  /\ NetFree /\ ses[s].phase = "open" /\ ses[s].out = "sending" /\ ses[s].sock
  /\ ses' = [ses EXCEPT ![s].out = "idle", ![s].item = <<>>, ![s].wire = @ \o ses[s].item]
  /\ UNCHANGED <<user, ui, posts, network>>

\* outcoming_msg has sent a request and waits for the next.
Sent(s) ==
  /\ NetFree /\ ses[s].phase = "open" /\ ses[s].out = "sending" /\ ses[s].sock
  /\ ses' = [ses EXCEPT ![s].out = "ready", ![s].item = <<>>, ![s].wire = @ \o ses[s].item]
  /\ UNCHANGED <<user, ui, posts, network>>

\* The send throws: incoming_msg || outcoming_msg goes on with incoming_msg.
SendThrows(s) ==
  /\ NetFree /\ ses[s].phase = "open" /\ ses[s].out = "sending"
  /\ ses' = [ses EXCEPT ![s].out = "thrown", ![s].item = <<>>]
  /\ UNCHANGED <<user, ui, posts, network>>

\* Mutant: the result of a change is not passed on.
AnswerListings(s) ==
  LET m == Head(ses[s].wire) IN
  /\ NetFree /\ ses[s].phase = "open" /\ ses[s].sock /\ ses[s].wire # <<>>
  /\ \/ /\ m.op = "cd"
        /\ \E ok \in BOOLEAN :
             posts' = Append(posts, Post("dents", ses[s].pane, s, m.dir, ok))
     \/ m.op # "cd" /\ UNCHANGED posts
  /\ ses' = [ses EXCEPT ![s].wire = Tail(@)]
  /\ UNCHANGED <<user, ui, network>>

\* An answer has arrived and goes to the UI; the host answers in order. The
\* UI sees it when it handles the post, maybe after it has called stop().
Answer(s) ==
  LET m == Head(ses[s].wire) IN
  /\ NetFree /\ ses[s].phase = "open" /\ ses[s].sock /\ ses[s].wire # <<>>
  /\ \/ /\ m.op = "cd"
        /\ \E ok \in BOOLEAN :
             posts' = Append(posts, Post("dents", ses[s].pane, s, m.dir, ok))
     \/ /\ m.op # "cd"
        /\ posts' = Append(posts, Post("result", ses[s].pane, s, "top", TRUE))
  /\ ses' = [ses EXCEPT ![s].wire = Tail(@)]
  /\ UNCHANGED <<user, ui, network>>

\* incoming_msg ends: it closes the channel and outcoming_msg is cancelled.
Ended(s) == [ses EXCEPT ![s].phase = "closing", ![s].out = "ended", ![s].item = <<>>,
               ![s].wire = <<>>, ![s].sock = FALSE, ![s].chan = FALSE]

\* The connection was lost, before or within an answer.
IncomingFails(s) ==
  /\ NetFree /\ ses[s].phase = "open"
  /\ posts' = Append(posts, ErrorPost(ses[s].pane))
  /\ ses' = Ended(s)
  /\ UNCHANGED <<user, ui, network>>

\* stop() has closed the socket: operation_canceled, and nobody is told.
IncomingStops(s) ==
  /\ NetFree /\ ses[s].phase = "open" /\ ~ses[s].sock
  /\ ses' = Ended(s)
  /\ UNCHANGED <<user, ui, posts, network>>

\* Mutant: the reader is destroyed without m_mtx.
EraseUnlocked(s) ==
  /\ ses[s].phase = "closing" /\ NetFree
  /\ readers' = [readers EXCEPT ![ses[s].pane] = None]
  /\ ses' = [ses EXCEPT ![s] = Gone]
  /\ UNCHANGED <<user, ui, posts, net, asks, warned>>

\* m_browser_readers.erase at the end of run_browser_reader_coro.
Erase(s) ==
  \/ /\ ses[s].phase = "closing" /\ Locking("erase", s)
     /\ readers' = [readers EXCEPT ![ses[s].pane] = None]
     /\ ses' = [ses EXCEPT ![s] = Gone]
     /\ UNCHANGED <<user, ui, posts, asks, warned>>
  \/ Blocked("erase", s, ses[s].phase = "closing")

-----------------------------------------------------------------------------
Init ==
  /\ view = [p \in Panes |-> "clients"]
  /\ chosen = [p \in Panes |-> None]
  /\ shown = [p \in Panes |-> [client |-> None, dir |-> "top"]]
  /\ dialog = <<>>
  /\ ui = [todo |-> <<>>, at |-> None, thrown |-> FALSE]
  /\ posts = <<>>
  /\ net = <<>>
  /\ readers = [p \in Panes |-> None]
  /\ asks = <<>>
  /\ ses = [s \in Sessions |-> Unused]
  /\ commands = [kind \in Kinds |-> 0]
  /\ warned = [p \in Panes |-> FALSE]
  /\ left = [p \in Panes |-> FALSE]

User ==
  \/ \E p \in Panes : \/ Connect(p)
                      \/ \E d \in Dirs : Cd(p, d)
                      \/ Disconnect(p)
                      \/ OpenDialog(p)
  \/ Reload \/ Confirm \/ Cancel \/ Ok

UiCall == Enter \/ TrySend
UiPost == ShowDents \/ BrowserError \/ ShowResult

Asking(s) == SendAsk(s) \/ Refused(s) \/ Emplace(s)
Reading(s) ==
  \/ ConnectReader(s) \/ ConnectFails(s)
  \/ Sent(s) \/ SendThrows(s) \/ Answer(s)
  \/ IncomingFails(s) \/ IncomingStops(s) \/ Erase(s)

Next == User \/ UiCall \/ UiPost \/ \E s \in Sessions : Asking(s) \/ Reading(s)

Spec == Init /\ [][Next]_vars

\* What the network thread has to do: all but losing a connection. A peer
\* that refuses what is sent to it ends the connection.
Ready(s) ==
  \/ Asking(s) \/ ConnectReader(s) \/ ConnectFails(s) \/ Sent(s) \/ Answer(s)
  \/ IncomingStops(s) \/ Erase(s) \/ (ses[s].out = "thrown" /\ IncomingFails(s))

\* Each thread runs as long as it has something to do; the server and the
\* hosts answer what they are asked, unless the connection is lost.
Fairness ==
  /\ WF_vars(UiCall \/ UiPost)
  /\ WF_vars(\E s \in Sessions : Ready(s))

FairSpec == Spec /\ Fairness

-----------------------------------------------------------------------------
Requests == [op : {"cd", "change"}, dir : Dirs]
CallSet == [op : {"cd", "reload", "change"}, pane : Panes, dir : Dirs, to : Sessions]
Option(S) == {<<>>} \cup {<<x>> : x \in S}
DialogType == [state : {"ask", "waiting", "result"}, call : CallSet]
PostType == [kind : {"dents", "error", "result"}, pane : Panes, dir : Dirs,
             client : Sessions \cup {None}, ok : BOOLEAN]
SessionType ==
  [phase : {"unused", "asking", "asked", "connecting", "open", "closing", "gone"},
   pane : Panes, out : {"idle", "sending", "ready", "thrown", "ended"},
   item : Option(Requests), wire : Seq(Requests), sock : BOOLEAN, chan : BOOLEAN]

\* Every variable has its type.
TypeOK ==
  /\ view \in [Panes -> {"clients", "browser", "waiting"}]
  /\ chosen \in [Panes -> Sessions \cup {None}]
  /\ shown \in [Panes -> [client : Sessions \cup {None}, dir : Dirs]]
  /\ dialog \in Option(DialogType)
  /\ ui \in [todo : Seq(CallSet), at : Sessions \cup {None}, thrown : BOOLEAN]
  /\ posts \in Seq(PostType)
  /\ net \in {<<>>} \cup ({"ask", "refused", "emplace", "erase"} \X Sessions)
  /\ readers \in [Panes -> Sessions \cup {None}]
  /\ asks \in Seq(Sessions)
  /\ ses \in [Sessions -> SessionType]
  /\ commands \in [Kinds -> 0..MaxCommands]
  /\ warned \in [Panes -> BOOLEAN] /\ left \in [Panes -> BOOLEAN]

Registered(s) == ses[s].phase \in {"connecting", "open", "closing"}

\* A pane has at most one reader, and the reader in the map is the one whose
\* coroutine runs: nothing is called on a connection that is over, and none
\* runs on that the pane cannot reach.
OneReaderPerPane ==
  \A s \in Sessions : \A p \in Panes :
    readers[p] = s <=> Registered(s) /\ ses[s].pane = p

\* The reader that the UI thread is calling is not destroyed under it.
ReaderInUseStays == InCall => readers[ui.todo[1].pane] = ui.at

\* What the user does in a pane reaches the client the pane is headed with,
\* in every pane the user has never disconnected.
AddressedRight ==
  InCall => LET call == ui.todo[1] IN left[call.pane] \/ ui.at = call.to

\* The UI thread is in a call that cannot return: its reader will receive
\* nothing more, or the network thread waits for m_mtx before it can.
Hung == InCall /\ \/ ~ses[ui.at].chan
                  \/ ses[ui.at].out = "thrown"
                  \/ (ses[ui.at].out # "ready" /\ net # <<>>)
Stuck == Hung \/ ui.thrown

\* A call of the UI on a connection that is up returns, unless the network
\* thread waits for the mutex the call holds.
CallsReturn == InCall ~> (~InCall \/ Stuck)

\* A pane that waits is shown a listing or the clients again, unless the UI
\* is stuck, a warning was shown instead, or the user had disconnected it.
PanesAnswered ==
  \A p \in Panes : (view[p] = "waiting") ~> (view[p] # "waiting" \/ Stuck \/ warned[p] \/ left[p])

\* A modal that waits is given a result, unless the connection of its pane
\* ended or the user had disconnected the pane.
DialogsAnswered ==
  LET Waits == dialog # <<>> /\ dialog[1].state = "waiting"
  IN  Waits ~> \/ ~Waits
               \/ readers[dialog[1].call.pane] = None \/ left[dialog[1].call.pane]

-----------------------------------------------------------------------------
\* What the documentation promises and the code does not keep.

\* The directory items that a delete or a copy would name with the client of
\* the pane are items on that client.
EntriesOfClient ==
  \A p \in Panes : view[p] = "browser" => shown[p].client \in {chosen[p], None}

\* A call of the UI on one connection does not keep the coroutines of all
\* connections, its own receiver included, from running.
NoFreeze == ~(net # <<>> /\ Hung)
=============================================================================
