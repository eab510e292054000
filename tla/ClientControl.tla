----------------------------- MODULE ClientControl -----------------------------
(***************************************************************************)
(* The Control connection of a remy client (src/src/client.cpp) and what   *)
(* the user interface does over it: the client's name, the list of clients *)
(* and the copy dialog (src/src/view-client.cpp).                          *)
(*                                                                         *)
(* The UI thread handles the user's events and the lambdas posted to       *)
(* m_screen, one after the other. The network thread runs the coroutines:  *)
(* run_control_coro, then incoming_control_msg || outcoming_control_msg.   *)
(* They meet in m_send_requests, which exists from the start and holds Cap *)
(* requests: send_request tries until there is room, on whichever thread.  *)
(*                                                                         *)
(* The server is seen from here: it answers requests in their order, and a *)
(* copy reports while it goes on. Names and lists are values. The panes    *)
(* are in any state whenever the copy dialog looks at them; ClientPanes is *)
(* about them, and about the other requests.                               *)
(***************************************************************************)
EXTENDS Integers, Sequences, FiniteSets

CONSTANTS
  Cap,          \* capacity of m_send_requests (100)
  Sock,         \* bound: requests outcoming_control_msg and the socket hold
  Names,        \* names the user enters
  Hostname,     \* what get_hostname returns: a sequence of one name or none
  Address,      \* the name the server gives at first
  MaxCommands,  \* bound on the user's commands
  MaxCopies     \* bound on the copies among them

ASSUME ControlAssumption ==
  /\ Cap \in Nat \ {0} /\ Sock \in Nat \ {0}
  /\ MaxCommands \in Nat /\ MaxCopies \in Nat
  /\ Hostname = <<>> \/ Len(Hostname) = 1
  /\ Address \notin Names /\ "setting" \notin Names \cup {Address}

VARIABLES
  net,     \* run_control_coro: connecting, naming, running, over or failed
  chan,    \* m_send_requests
  open,    \* whether it is
  up, down, \* requests taken from it and not yet served; messages to the client
  server,  \* whether it is there, and the name it has for this client
  copies,  \* per copy, how far it is on the server
  ui,      \* the UI thread: looping, stopping or gone, and its call
  posts,   \* lambdas posted to m_screen
  screen,  \* m_pretty_name, whether the name and the critical modal are shown
  dialog,  \* m_copy_modal
  given,   \* how many commands the user has given, and copies among them
  named    \* history: the last name m_send_requests has accepted

wires == <<chan, open, up, down>>
view == <<screen, dialog>>
vars == <<net, wires, server, copies, ui, posts, view, given, named>>

Copies == 1..MaxCopies
List == [type |-> "list", of |-> 0]
SetName(n) == [type |-> "name", of |-> n]
Copy(k) == [type |-> "copy", of |-> k]
Report(kind) == [type |-> kind, of |-> 0]
Critical == [type |-> "critical", of |-> 0]

-----------------------------------------------------------------------------
\* The UI thread. It is in one call at a time; `then` is what the handler does
\* when the call returns.

Idle == ui.state = "looping" /\ ui.call = <<>>
Call(request, then) == ui' = [ui EXCEPT !.call = <<request>>, !.then = then, !.in = FALSE]
MayCommand == given.all < MaxCommands
Command == MayCommand /\ given' = [given EXCEPT !.all = @ + 1]

\* send_request: one try_send that succeeds, on the UI thread.
Accept ==
  /\ ui.state = "looping" /\ ui.call # <<>> /\ ~ui.in
  /\ open /\ Len(chan) < Cap
  /\ chan' = Append(chan, ui.call[1])
  /\ named' = IF ui.call[1].type = "name" THEN ui.call[1].of ELSE named
  /\ ui' = [ui EXCEPT !.in = TRUE]
  /\ UNCHANGED <<net, open, up, down, server, copies, posts, view, given>>

\* The rest of the handler, after the call.
Return ==
  /\ ui.state = "looping" /\ ui.in
  /\ ui' = [ui EXCEPT !.call = <<>>, !.then = "nothing", !.in = FALSE]
  /\ screen' = IF ui.then = "setting"
               THEN [screen EXCEPT !.pretty_name = "setting", !.naming = FALSE] ELSE screen
  /\ dialog' = IF ui.then = "progress" THEN [dialog EXCEPT !.view = "progress"] ELSE dialog
  /\ UNCHANGED <<net, wires, server, copies, posts, given, named>>

\* The modals that keep events from the main window, the outermost first: the
\* copy dialog covers the critical error, which covers the name.
AtMain == Idle /\ ~dialog.shown /\ ~screen.critical /\ ~screen.naming
AtName == Idle /\ ~dialog.shown /\ ~screen.critical /\ screen.naming
AtCopy(v) == Idle /\ dialog.shown /\ dialog.view = v

\* reload_info; its calls to cd are ClientPanes'.
Reload ==
  /\ AtMain /\ Command
  /\ Call(List, "nothing")
  /\ UNCHANGED <<net, wires, server, copies, posts, view, named>>

OpenName ==
  /\ AtMain /\ MayCommand
  /\ screen' = [screen EXCEPT !.naming = TRUE]
  /\ UNCHANGED <<net, wires, server, copies, ui, posts, dialog, given, named>>

\* apply_new_name.
ApplyName(n) ==
  /\ AtName /\ Command
  /\ Call(SetName(n), "setting")
  /\ UNCHANGED <<net, wires, server, copies, posts, view, named>>

CancelName ==
  /\ AtName
  /\ screen' = [screen EXCEPT !.naming = FALSE]
  /\ UNCHANGED <<net, wires, server, copies, ui, posts, dialog, given, named>>

\* copy_dialog_payload, for panes that are closed, hold nothing, or hold
\* something. Pane 1 is the source when `direction` is true. A source with
\* nothing in it is taken over, but opens no dialog.
Chosen(left, right, focused) ==
  IF ~dialog.shown THEN focused
  ELSE IF left = "empty" THEN TRUE
  ELSE IF right = "empty" THEN FALSE
  ELSE ~dialog.direction

\* Mutant: two empty panes are not refused.
CopyDialogUnchecked(left, right, focused) ==
  /\ "closed" \notin {left, right}
  /\ LET direction == Chosen(left, right, focused)
         src == IF direction THEN right ELSE left
     IN dialog' = [dialog EXCEPT !.direction = direction, !.src = src,
                                 !.shown = @ \/ src = "full"]

CopyDialog(left, right, focused) ==
  /\ "closed" \notin {left, right} /\ "full" \in {left, right}
  /\ LET direction == Chosen(left, right, focused)
         src == IF direction THEN right ELSE left
     IN dialog' = [dialog EXCEPT !.direction = direction, !.src = src,
                                 !.shown = @ \/ src = "full"]

Contents == {"closed", "empty", "full"}

OpenCopy ==
  /\ AtMain /\ MayCommand /\ given.copies < MaxCopies
  /\ \E left, right \in Contents, focused \in BOOLEAN : CopyDialog(left, right, focused)
  /\ UNCHANGED <<net, wires, server, copies, ui, posts, screen, given, named>>

ChangeDirection ==
  /\ AtCopy("dialog")
  /\ \E left, right \in Contents : CopyDialog(left, right, FALSE)
  /\ UNCHANGED <<net, wires, server, copies, ui, posts, screen, given, named>>

CancelCopy ==
  /\ AtCopy("dialog")
  /\ dialog' = [dialog EXCEPT !.shown = FALSE]
  /\ UNCHANGED <<net, wires, server, copies, ui, posts, screen, given, named>>

\* Proceed: request_copy, and then the progress.
Proceed ==
  /\ AtCopy("dialog") /\ MayCommand /\ given.copies < MaxCopies
  /\ given' = [all |-> given.all + 1, copies |-> given.copies + 1]
  /\ Call(Copy(given.copies + 1), "progress")
  /\ UNCHANGED <<net, wires, server, copies, posts, view, named>>

\* Ok below the outcome; after a success the panes and the list are reloaded.
OkCopy(v) ==
  /\ AtCopy(v)
  /\ dialog' = [dialog EXCEPT !.shown = FALSE, !.view = "dialog"]
  /\ IF v = "completed" THEN Call(List, "nothing") ELSE UNCHANGED ui
  /\ UNCHANGED <<net, wires, server, copies, posts, screen, given, named>>

\* Posted lambdas: update_name, update_clients and critical_error, and
\* update_watcher_info.
OnScreen(p) ==
  CASE p.type = "name" -> [screen EXCEPT !.pretty_name = p.of]
    [] p.type = "critical" -> [screen EXCEPT !.critical = TRUE]
    [] OTHER -> screen
OnDialog(p) ==
  IF p.type \in {"progress", "completed", "failed"} THEN [dialog EXCEPT !.view = p.type] ELSE dialog

HandlePost ==
  /\ Idle /\ posts # <<>>
  /\ screen' = OnScreen(Head(posts)) /\ dialog' = OnDialog(Head(posts))
  /\ posts' = Tail(posts)
  /\ UNCHANGED <<net, wires, server, copies, ui, given, named>>

\* The process ends, and its queues with it.
Gone ==
  /\ ui' = [ui EXCEPT !.state = "gone"]
  /\ chan' = <<>> /\ open' = FALSE /\ up' = <<>> /\ down' = <<>> /\ posts' = <<>>
  /\ UNCHANGED <<net, server, copies, view, given, named>>

\* Quit, or Exit below a critical error: ClientNet::stop stops the io_context
\* and joins the network thread. That ends after the step it is in, which in
\* set_default_hostname takes as long as send_request does.
Quit ==
  /\ Idle
  /\ \/ net # "naming" /\ Gone
     \/ /\ net = "naming"
        /\ ui' = [ui EXCEPT !.state = "stopping"]
        /\ UNCHANGED <<net, wires, server, copies, posts, view, given, named>>

Join == ui.state = "stopping" /\ net # "naming" /\ Gone

-----------------------------------------------------------------------------
\* The network thread.

NetRuns == ui.state = "looping"

\* The name is resolved and the connection made; the server sends its greeting.
Connect ==
  /\ NetRuns /\ net = "connecting"
  /\ net' = "naming"
  /\ down' = <<SetName(server.name)>>
  /\ UNCHANGED <<chan, open, up, server, copies, ui, posts, view, given, named>>

\* Neither throws past run_control_coro, and m_send_requests stays open.
ConnectFails ==
  /\ NetRuns /\ net = "connecting"
  /\ net' = "failed"
  /\ posts' = Append(posts, Critical)
  /\ UNCHANGED <<wires, server, copies, ui, view, given, named>>

\* set_default_hostname: send_request on the network thread itself, before
\* anything takes from the channel. Then the two coroutines start, and
\* outcoming_control_msg with a request of its own.
SetDefaultHostname ==
  /\ net = "naming" /\ ui.state \in {"looping", "stopping"}
  /\ IF Hostname = <<>> THEN UNCHANGED <<chan, named>>
     ELSE /\ Len(chan) < Cap
          /\ chan' = Append(chan, SetName(Hostname[1]))
          /\ named' = Hostname[1]
  /\ net' = "running"
  /\ up' = <<List>>
  /\ UNCHANGED <<open, down, server, copies, ui, posts, view, given>>

\* outcoming_control_msg: async_receive, and the request's callback. When that
\* throws, incoming_control_msg goes on alone, and fails too.
Send ==
  /\ NetRuns /\ net = "running" /\ chan # <<>> /\ server.here /\ Len(up) < Sock
  /\ up' = Append(up, Head(chan))
  /\ chan' = Tail(chan)
  /\ UNCHANGED <<net, open, down, server, copies, ui, posts, view, given, named>>

\* Mutant: update_name sets the name from the network thread.
ReceiveDirect ==
  /\ NetRuns /\ net = "running" /\ down # <<>>
  /\ IF Head(down).type = "name"
     THEN screen' = [screen EXCEPT !.pretty_name = Head(down).of] /\ UNCHANGED posts
     ELSE posts' = Append(posts, Head(down)) /\ UNCHANGED screen
  /\ down' = Tail(down)
  /\ UNCHANGED <<net, chan, open, up, server, copies, ui, dialog, given, named>>

\* incoming_control_msg posts what it reads to the UI.
Receive ==
  /\ NetRuns /\ net = "running" /\ down # <<>>
  /\ posts' = Append(posts, Head(down))
  /\ down' = Tail(down)
  /\ UNCHANGED <<net, chan, open, up, server, copies, ui, view, given, named>>

\* Mutant: the error is only logged.
ReceiveFailsSilently ==
  /\ NetRuns /\ net = "running" /\ ~server.here
  /\ net' = "over" /\ open' = FALSE
  /\ chan' = <<>> /\ up' = <<>> /\ down' = <<>>
  /\ UNCHANGED <<server, copies, ui, posts, view, given, named>>

\* A read fails: the channel is closed, and both coroutines end. A connection
\* that was reset may fail before all that came in it has been read.
ReceiveFails ==
  /\ NetRuns /\ net = "running" /\ ~server.here
  /\ net' = "over" /\ open' = FALSE
  /\ chan' = <<>> /\ up' = <<>> /\ down' = <<>>
  /\ posts' = Append(posts, Critical)
  /\ UNCHANGED <<server, copies, ui, view, given, named>>

-----------------------------------------------------------------------------
\* The server, as long as the client is there.

Serve ==
  /\ NetRuns /\ server.here /\ up # <<>>
  /\ LET r == Head(up) IN
     /\ server' = IF r.type = "name" THEN [server EXCEPT !.name = r.of] ELSE server
     /\ copies' = IF r.type = "copy" THEN [copies EXCEPT ![r.of] = "joining"] ELSE copies
     /\ down' = IF r.type = "copy" THEN down ELSE Append(down, r)
  /\ up' = Tail(up)
  /\ UNCHANGED <<net, chan, open, ui, posts, view, given, named>>

\* process_copy. The header is reported, and the end always; at most four times
\* a second so is what has been copied, the last file too. A copy of nothing is
\* reported complete by its header.
Goes(k, from, to, reports) ==
  /\ NetRuns /\ server.here /\ copies[k] = from
  /\ copies' = [copies EXCEPT ![k] = to]
  /\ \E r \in reports : down' = down \o r
  /\ UNCHANGED <<net, chan, open, up, server, ui, posts, view, given, named>>

Header(k) == Goes(k, "joining", "copying", {<<Report("progress")>>})
HeaderOfNothing(k) == Goes(k, "joining", "copied", {<<Report("completed")>>})
Files(k) ==
  Goes(k, "copying", "copied", {<<>>, <<Report("progress")>>, <<Report("completed")>>})
End(k) == Goes(k, "copied", "over", {<<Report("completed")>>})

\* Mutant: a failure is not reported.
CopyFailsSilently(k) ==
  \E from \in {"joining", "copying"} : Goes(k, from, "over", {<<>>})

\* Anything that throws.
CopyFails(k) ==
  \E from \in {"joining", "copying"} : Goes(k, from, "over", {<<Report("failed")>>})

ServerDies ==
  /\ NetRuns /\ server.here /\ net \in {"naming", "running"}
  /\ server' = [server EXCEPT !.here = FALSE]
  /\ UNCHANGED <<net, wires, copies, ui, posts, view, given, named>>

-----------------------------------------------------------------------------
Init ==
  /\ net = "connecting"
  /\ chan = <<>> /\ open = TRUE /\ up = <<>> /\ down = <<>>
  /\ server = [here |-> TRUE, name |-> Address]
  /\ copies = [k \in Copies |-> "none"]
  /\ ui = [state |-> "looping", call |-> <<>>, then |-> "nothing", in |-> FALSE]
  /\ posts = <<>>
  /\ screen = [pretty_name |-> "unknown", naming |-> FALSE, critical |-> FALSE]
  /\ dialog = [shown |-> FALSE, view |-> "dialog", direction |-> TRUE, src |-> "empty"]
  /\ given = [all |-> 0, copies |-> 0]
  /\ named = Address

User ==
  \/ Reload \/ OpenName \/ CancelName \/ \E n \in Names : ApplyName(n)
  \/ OpenCopy \/ ChangeDirection \/ CancelCopy \/ Proceed
  \/ \E v \in {"completed", "failed"} : OkCopy(v)
  \/ Quit

Copying(k) == Header(k) \/ HeaderOfNothing(k) \/ Files(k) \/ End(k) \/ CopyFails(k)

Next ==
  \/ User \/ Accept \/ Return \/ HandlePost \/ Join
  \/ Connect \/ ConnectFails \/ SetDefaultHostname
  \/ Send \/ Receive \/ ReceiveFails
  \/ Serve \/ (\E k \in Copies : Copying(k)) \/ ServerDies

Spec == Init /\ [][Next]_vars

\* Both threads go on, the server answers, and every copy ends on the server.
Fairness ==
  /\ WF_vars(Accept \/ Return \/ HandlePost \/ Join)
  /\ WF_vars(Connect \/ ConnectFails \/ SetDefaultHostname)
  /\ WF_vars(Send) /\ WF_vars(Receive \/ ReceiveFails)
  /\ WF_vars(Serve) /\ \A k \in Copies : WF_vars(Copying(k))

LiveSpec == Spec /\ Fairness

-----------------------------------------------------------------------------
\* Properties.

Requests == {List} \cup {SetName(n) : n \in Names \cup {Hostname[i] : i \in DOMAIN Hostname}}
            \cup {Copy(k) : k \in Copies}

\* Every variable has its type; the channel never holds more than it can; and a
\* copy dialog that can be confirmed has something to copy.
TypeOK ==
  /\ net \in {"connecting", "naming", "running", "over", "failed"}
  /\ Len(chan) <= Cap /\ \A i \in DOMAIN chan : chan[i] \in Requests
  /\ open \in BOOLEAN /\ (~open => chan = <<>>) /\ Len(up) <= Sock
  /\ copies \in [Copies -> {"none", "joining", "copying", "copied", "over"}]
  /\ ui.state \in {"looping", "stopping", "gone"} /\ Len(ui.call) <= 1
  /\ (ui.in => ui.call # <<>>) /\ (ui.then # "nothing" => ui.call # <<>>)
  /\ screen.naming \in BOOLEAN /\ screen.critical \in BOOLEAN
  /\ dialog.shown => dialog.src = "full"
  /\ dialog.view \in {"dialog", "progress", "completed", "failed"}

\* When nothing is under way, the name on the screen is the one the server has,
\* and it is the last one that the client put into its channel: no answer to an
\* earlier request, nor the "Setting new name..." of the handler, comes after it.
\* (The client's host name counts: it is put there when the connection is made,
\* behind and over any name the user has given before.)
Quiet ==
  /\ net = "running" /\ Idle
  /\ chan = <<>> /\ up = <<>> /\ down = <<>> /\ posts = <<>>
NameShown == Quiet => screen.pretty_name = named /\ server.name = named

Lost == net \in {"over", "failed"}

\* The network thread waits for room in a channel that only it can empty: Cap
\* commands were given before the connection was made.
Jam == net = "naming" /\ Len(chan) = Cap /\ Hostname # <<>>

\* The view of the progress has no button: what lets the user out of it is the
\* report of an outcome, and one comes for every copy while the connection lasts,
\* unless the network thread is in a jam.
DialogFreed ==
  (dialog.shown /\ dialog.view = "progress") ~>
    (dialog.view # "progress" \/ Lost \/ Jam \/ ~NetRuns)

\* The UI thread comes back from every call and from stop, and a connection that
\* is lost or never made is reported to the user, but for three cases: the
\* network thread is in a jam; the channel is closed, so that a call on it never
\* returns; or the connection was never made and the channel is full.
UiReturns ==
  /\ []<>(Idle \/ ui.state = "gone" \/ Jam \/ ~open \/ (net = "failed" /\ Len(chan) = Cap))
  /\ []<>(Lost => screen.critical \/ ui.call # <<>> \/ ~NetRuns)
=============================================================================
