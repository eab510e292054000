---------------------------- MODULE ServerControl ----------------------------
(***************************************************************************)
(* The Control connections of the remy server: Server::process_control_conn*)
(* with its client registry m_clients, and class ClientCtrl with its two   *)
(* coroutines, incoming_messages and outcoming_messages, joined by the     *)
(* bounded channel m_send_requests (src/src/server.cpp).                   *)
(*                                                                         *)
(* The executor runs on several threads and nothing serialises a           *)
(* connection, so every coroutine of every connection interleaves with all *)
(* others; a step of the model ends where a coroutine may suspend or where *)
(* another thread may observe it.                                          *)
(*                                                                         *)
(* Per connection c:                                                       *)
(*   ctl[c]   process_control_conn: new, greet (first notification),       *)
(*            serve, farewell (last notification), done, freed, or         *)
(*            aborted (an exception left the coroutine in greet)           *)
(*   inp[c]   incoming_messages:  off, read, push, returned, threw         *)
(*   out[c]   outcoming_messages: off, id, name, recv, run, bcast,         *)
(*            returned, threw, cancelled                                   *)
(*   bc[c]    the clients_list_notify_all that c is executing, in ctl or   *)
(*            in out (never in both), or None                              *)
(***************************************************************************)
EXTENDS Integers, Sequences, FiniteSets

CONSTANTS
  Conns,      \* the Control connections that clients make, each used once
  MaxId,      \* std::numeric_limits<ClientId>::max()
  SendCap,    \* capacity of m_send_requests (20 in the code)
  Script,     \* per connection, the requests its client sends, in order
  Leavers,    \* the connections whose client may go away
  RehashAt,   \* sizes of m_clients whose reaching rehashes the table
  None        \* absence of a value

\* The kinds of request this module models; ConnectBrowser and Copy only spawn
\* a coroutine of their own.
Requests == {"GetClientsList", "SetName"}

ASSUME ControlAssumption ==
  /\ MaxId \in Nat
  /\ SendCap \in Nat \ {0}
  /\ Script \in [Conns -> Seq(Requests)]
  /\ Leavers \subseteq Conns
  /\ RehashAt \subseteq Nat
  /\ None \notin Conns \cup Nat

Ids == 0..MaxId

VARIABLES
  m_clients,                   \* ClientId -> connection, the registry
  m_next_allocated_client_id,  \* where the search for a free id starts
  m_id,                        \* ClientCtrl::m_id
  m_name,                      \* ClientCtrl::m_name: 0 the endpoint, n > 0 the n-th SetName
  m_send_requests,             \* buffered actions, at most SendCap of them
  is_open,                     \* m_send_requests.is_open()
  parked,                      \* senders suspended in async_send, in order
  ctl, inp, out, bc,           \* where the coroutines are, see above
  pend,                        \* the action incoming_messages is sending
  cur,                         \* the action outcoming_messages is running
  peer,                        \* the client end of the connection: up or gone
  nread,                       \* how many requests of Script[c] were read
  got,                         \* what the client received: its id, name and list
  up                           \* FALSE once the server process has crashed

registry == <<m_clients, m_next_allocated_client_id, m_id>>
channels == <<m_send_requests, is_open, parked>>
client   == <<peer, nread, got>>
vars == <<registry, m_name, channels, ctl, inp, out, bc, pend, cur, client, up>>

-----------------------------------------------------------------------------
\* The registry.

Registered == {m_clients[i] : i \in DOMAIN m_clients}

\* Server::get_clients_descs. A name ends with the endpoint of its connection,
\* so an entry tells which connection the id belonged to.
get_clients_descs ==
  {<<i, m_clients[i], m_name[m_clients[i]]>> : i \in DOMAIN m_clients}

FreeIds == Ids \ DOMAIN m_clients

\* Steps of the overflowing increment from the search start to i.
Distance(i) == (i + MaxId + 1 - m_next_allocated_client_id) % (MaxId + 1)

-----------------------------------------------------------------------------
\* Actions queued in m_send_requests, and the channel itself.

ListAction(list) == [kind |-> "list", list |-> list]
NameAction(name) == [kind |-> "name", name |-> name]

Incoming(c)    == [conn |-> c, role |-> "in"]
Broadcaster(c) == [conn |-> c, role |-> "bc"]

\* The coroutine s is suspended in an async_send.
Suspended(s) == \E t \in Conns : \E i \in DOMAIN parked[t] : parked[t][i] = s

\* Mutant: the action being run instead of the one being sent.
PayloadOfRunning(s) ==
  IF s.role = "in" THEN cur[s.conn] ELSE ListAction(bc[s.conn].list)

\* What the suspended sender s is sending.
Payload(s) ==
  IF s.role = "in" THEN pend[s.conn] ELSE ListAction(bc[s.conn].list)

\* Mutant: a channel that holds one action, whatever its capacity.
HasRoomForOne(t) == m_send_requests[t] = <<>>

HasRoom(t) == Len(m_send_requests[t]) < SendCap

\* async_send on the open channel of t: the action is buffered, or the sender
\* waits for room behind those already waiting.
AsyncSend(t, s, action) ==
  \/ /\ HasRoom(t)
     /\ m_send_requests' = [m_send_requests EXCEPT ![t] = Append(@, action)]
     /\ UNCHANGED <<is_open, parked>>
  \/ /\ ~HasRoom(t)
     /\ parked' = [parked EXCEPT ![t] = Append(@, s)]
     /\ UNCHANGED <<m_send_requests, is_open>>

\* incoming_messages has sent its action and reads on.
Pushed(c) ==
  /\ pend' = [pend EXCEPT ![c] = None]
  /\ inp' = [inp EXCEPT ![c] = "read"]

\* async_receive on the channel of t: the room goes to the first waiting sender.
AsyncReceive(t) ==
  /\ m_send_requests[t] # <<>>
  /\ \/ /\ parked[t] = <<>>
        /\ m_send_requests' = [m_send_requests EXCEPT ![t] = Tail(@)]
        /\ UNCHANGED <<is_open, parked, pend, inp>>
     \/ /\ parked[t] # <<>>
        /\ m_send_requests' = [m_send_requests EXCEPT
                                 ![t] = Append(Tail(@), Payload(Head(parked[t])))]
        /\ parked' = [parked EXCEPT ![t] = Tail(@)]
        /\ IF Head(parked[t]) = Incoming(t) THEN Pushed(t) ELSE UNCHANGED <<pend, inp>>
        /\ UNCHANGED is_open

-----------------------------------------------------------------------------
\* Server::clients_list_notify_all. It takes a snapshot of the registry under
\* the mutex and then walks m_clients itself, without the mutex and across
\* suspensions. A walk holds its list, the entry it stands on (at), the
\* entries it will not visit again (seen), those it cannot miss (must), and
\* whether the entry it stands on was erased under it (dangling).

NewWalk(list) == [list |-> list, at |-> None, must |-> {}, seen |-> {}, dangling |-> FALSE]

InWalk(b) == bc[b] # None

\* The three call sites: before and after serving, and in SetName's action.
CallsNotify(b) ==
  \/ ctl[b] \in {"greet", "farewell"}
  \/ ctl[b] = "serve" /\ out[b] = "bcast"

NotifySnapshot(b) ==
  /\ ~InWalk(b) /\ CallsNotify(b)
  /\ bc' = [bc EXCEPT ![b] = NewWalk(get_clients_descs)]
  /\ UNCHANGED <<registry, m_name, channels, ctl, inp, out, pend, cur, client, up>>

\* From an erased entry the walk may arrive anywhere.
Ahead(b) == IF bc[b].dangling THEN Registered ELSE Registered \ bc[b].seen

Visit(w, t) ==
  [w EXCEPT !.at = t,
            !.seen = IF w.dangling THEN {t} ELSE @ \cup {t},
            !.must = IF w.at = None THEN Registered ELSE @,
            !.dangling = FALSE]

CanStep(b) == InWalk(b) /\ ~Suspended(Broadcaster(b))

NotifySend(b, t) ==
  /\ CanStep(b) /\ t \in Ahead(b) /\ is_open[t]
  /\ AsyncSend(t, Broadcaster(b), ListAction(bc[b].list))
  /\ bc' = [bc EXCEPT ![b] = Visit(@, t)]
  /\ UNCHANGED <<registry, m_name, ctl, inp, out, pend, cur, client, up>>

\* The walk reaches end(): everything that was there when it began and still
\* is has been visited; an entry inserted meanwhile may be missed.
WalkOver(w) ==
  \/ w.dangling
  \/ (IF w.at = None THEN Registered ELSE w.must \cap Registered) \subseteq w.seen

NotifyReturn(b) ==
  /\ CanStep(b) /\ WalkOver(bc[b])
  /\ bc' = [bc EXCEPT ![b] = None]
  /\ \/ /\ ctl[b] = "greet"
        /\ ctl' = [ctl EXCEPT ![b] = "serve"]
        /\ inp' = [inp EXCEPT ![b] = "read"]
        /\ out' = [out EXCEPT ![b] = "id"]
     \/ /\ ctl[b] = "farewell"
        /\ ctl' = [ctl EXCEPT ![b] = "done"]
        /\ UNCHANGED <<inp, out>>
     \/ /\ ctl[b] = "serve"
        /\ out' = [out EXCEPT ![b] = "recv"]
        /\ UNCHANGED <<ctl, inp>>
  /\ UNCHANGED <<registry, m_name, channels, pend, cur, client, up>>

\* An exception in the walks of the connections in B: it leaves
\* process_control_conn, except from SetName's action, which runs inside the
\* try block and ends outcoming_messages.
BcThrown(B)  == [b \in Conns |-> IF b \in B THEN None ELSE bc[b]]
CtlThrown(B) == [b \in Conns |->
                   CASE b \in B /\ ctl[b] = "greet"    -> "aborted"
                     [] b \in B /\ ctl[b] = "farewell" -> "done"
                     [] OTHER                          -> ctl[b]]
OutThrown(B) == [b \in Conns |-> IF b \in B /\ ctl[b] = "serve" THEN "threw" ELSE out[b]]

\* async_send on a closed channel throws.
NotifyClosed(b, t) ==
  /\ CanStep(b) /\ t \in Ahead(b) /\ ~is_open[t]
  /\ bc' = BcThrown({b}) /\ ctl' = CtlThrown({b}) /\ out' = OutThrown({b})
  /\ UNCHANGED <<registry, m_name, channels, inp, pend, cur, client, up>>

\* Advancing from an erased entry may fault.
NotifyFaults(b) ==
  /\ CanStep(b) /\ bc[b].dangling
  /\ up' = FALSE
  /\ UNCHANGED <<registry, m_name, channels, ctl, inp, out, bc, pend, cur, client>>

\* What an insertion does to the running walks when it rehashes the table: the
\* entries are relinked in another order, so any of them may be missed and any
\* but the present one may be visited again.
WalksAfterInsert(rehash) ==
  [b \in Conns |-> IF rehash /\ InWalk(b) /\ bc[b].at # None
                   THEN [bc[b] EXCEPT !.must = {}, !.seen = {bc[b].at}]
                   ELSE bc[b]]

\* The erasure of the entry of c leaves the walks that stand on it dangling.
WalksAfterErase(c) ==
  [b \in Conns |-> IF InWalk(b) /\ bc[b].at = c
                   THEN [bc[b] EXCEPT !.must = {}, !.seen = {}, !.dangling = TRUE]
                   ELSE bc[b]]

-----------------------------------------------------------------------------
\* Server::process_control_conn.

\* The client goes away; the server learns it from its reads and writes.
Leave(c) ==
  /\ c \in Leavers /\ peer[c] = "up"
  /\ peer' = [peer EXCEPT ![c] = "gone"]
  /\ UNCHANGED <<registry, m_name, channels, ctl, inp, out, bc, pend, cur, nread, got, up>>

\* Mutant: the search for a free id is left out.
AllocatedNoSearch(id) == id = m_next_allocated_client_id

\* The id the search stops at: the first free one from where it starts.
Allocated(id) == id \in FreeIds /\ \A i \in FreeIds : Distance(id) <= Distance(i)

\* With 2^64 ids one is always free; a small MaxId makes the newcomer wait here.
Register(c) ==
  /\ ctl[c] = "new"
  /\ \E id \in Ids :
       /\ Allocated(id)
       /\ m_next_allocated_client_id' = id
       /\ m_id' = [m_id EXCEPT ![c] = id]
       /\ m_clients' = [i \in DOMAIN m_clients \cup {id} |-> IF i = id THEN c ELSE m_clients[i]]
  /\ ctl' = [ctl EXCEPT ![c] = "greet"]
  /\ bc' = WalksAfterInsert(Cardinality(DOMAIN m_clients) + 1 \in RehashAt)
  /\ UNCHANGED <<m_name, channels, inp, out, pend, cur, client, up>>

\* remote_endpoint throws in the constructor of ClientCtrl.
RegisterThrows(c) ==
  /\ ctl[c] = "new" /\ peer[c] = "gone"
  /\ \E id \in Ids : Allocated(id) /\ m_next_allocated_client_id' = id
  /\ ctl' = [ctl EXCEPT ![c] = "freed"]
  /\ UNCHANGED <<m_clients, m_id, m_name, channels, inp, out, bc, pend, cur, client, up>>

\* incoming_messages() || outcoming_messages() completes when one of the two
\* has returned, which cancels the other, or when both have thrown.
ServingOver(c) ==
  \/ inp[c] = "returned" /\ out[c] \in {"returned", "threw", "cancelled"}
  \/ inp[c] = "threw" /\ out[c] = "threw"

\* Mutant: the id assigned last is erased.
UnregisterLast(c) ==
  /\ ctl[c] = "serve" /\ ServingOver(c)
  /\ m_clients' = [i \in DOMAIN m_clients \ {m_next_allocated_client_id} |-> m_clients[i]]
  /\ ctl' = [ctl EXCEPT ![c] = "farewell"]
  /\ bc' = WalksAfterErase(c)
  /\ UNCHANGED <<m_next_allocated_client_id, m_id, m_name, channels, inp, out, pend, cur, client, up>>

Unregister(c) ==
  /\ ctl[c] = "serve" /\ ServingOver(c)
  /\ m_clients' = [i \in DOMAIN m_clients \ {m_id[c]} |-> m_clients[i]]
  /\ ctl' = [ctl EXCEPT ![c] = "farewell"]
  /\ bc' = WalksAfterErase(c)
  /\ UNCHANGED <<m_next_allocated_client_id, m_id, m_name, channels, inp, out, pend, cur, client, up>>

\* Mutant: the walks that wait in the destroyed channel are never resumed.
DestroySilently(c) ==
  /\ ctl[c] = "done"
  /\ ctl' = [ctl EXCEPT ![c] = "freed"]
  /\ UNCHANGED <<registry, m_name, channels, inp, out, bc, pend, cur, client, up>>

\* The end of process_control_conn drops the last reference to the ClientCtrl:
\* its channel is destroyed and the walks waiting for room in it throw.
Destroy(c) ==
  /\ ctl[c] = "done"
  /\ LET waiting == {b \in Conns : \E i \in DOMAIN parked[c] : parked[c][i] = Broadcaster(b)}
     IN  /\ bc' = BcThrown(waiting)
         /\ ctl' = [CtlThrown(waiting) EXCEPT ![c] = "freed"]
         /\ out' = OutThrown(waiting)
  /\ parked' = [parked EXCEPT ![c] = <<>>]
  /\ UNCHANGED <<registry, m_name, m_send_requests, is_open, inp, pend, cur, client, up>>

-----------------------------------------------------------------------------
\* ClientCtrl::incoming_messages.

InReady(c) == ctl[c] = "serve" /\ inp[c] = "read"

\* The next request, if the client has sent it all.
Arrived(c, request) ==
  /\ nread[c] < Len(Script[c]) /\ Script[c][nread[c] + 1] = request
  /\ nread' = [nread EXCEPT ![c] = @ + 1]

ReadGetList(c) ==
  /\ InReady(c) /\ Arrived(c, "GetClientsList")
  /\ pend' = [pend EXCEPT ![c] = ListAction(get_clients_descs)]
  /\ inp' = [inp EXCEPT ![c] = "push"]
  /\ UNCHANGED <<registry, m_name, channels, ctl, out, bc, cur, peer, got, up>>

\* Mutant: the action is made before m_name is assigned.
ReadSetNameStale(c) ==
  /\ InReady(c) /\ Arrived(c, "SetName")
  /\ m_name' = [m_name EXCEPT ![c] = nread[c] + 1]
  /\ pend' = [pend EXCEPT ![c] = NameAction(m_name[c])]
  /\ inp' = [inp EXCEPT ![c] = "push"]
  /\ UNCHANGED <<registry, channels, ctl, out, bc, cur, peer, got, up>>

ReadSetName(c) ==
  /\ InReady(c) /\ Arrived(c, "SetName")
  /\ m_name' = [m_name EXCEPT ![c] = nread[c] + 1]
  /\ pend' = [pend EXCEPT ![c] = NameAction(nread[c] + 1)]
  /\ inp' = [inp EXCEPT ![c] = "push"]
  /\ UNCHANGED <<registry, channels, ctl, out, bc, cur, peer, got, up>>

\* async_send of the answer to the connection's own channel.
InPush(c) ==
  /\ ctl[c] = "serve" /\ inp[c] = "push" /\ ~Suspended(Incoming(c))
  /\ AsyncSend(c, Incoming(c), pend[c])
  /\ IF HasRoom(c) THEN Pushed(c) ELSE UNCHANGED <<pend, inp>>
  /\ UNCHANGED <<registry, m_name, ctl, out, bc, cur, client, up>>

\* The read of a message type fails: the loop ends and closes the channel.
\* Senders already waiting for room in it keep waiting.
ReadEof(c) ==
  /\ InReady(c) /\ peer[c] = "gone"
  /\ inp' = [inp EXCEPT ![c] = "returned"]
  /\ is_open' = [is_open EXCEPT ![c] = FALSE]
  /\ UNCHANGED <<registry, m_name, m_send_requests, parked, ctl, out, bc, pend, cur, client, up>>

\* The read of a SetName's payload fails: the exception skips the close.
ReadTorn(c) ==
  /\ InReady(c) /\ peer[c] = "gone"
  /\ nread[c] < Len(Script[c]) /\ Script[c][nread[c] + 1] = "SetName"
  /\ inp' = [inp EXCEPT ![c] = "threw"]
  /\ UNCHANGED <<registry, m_name, channels, ctl, out, bc, pend, cur, client, up>>

-----------------------------------------------------------------------------
\* ClientCtrl::outcoming_messages.

OutAt(c, pc) == ctl[c] = "serve" /\ out[c] = pc

\* Writing to a client that is gone may still succeed.
Delivered(c, field, value) ==
  got' = IF peer[c] = "up" THEN [got EXCEPT ![c][field] = value] ELSE got

SendId(c) ==
  /\ OutAt(c, "id")
  /\ Delivered(c, "id", m_id[c])
  /\ out' = [out EXCEPT ![c] = "name"]
  /\ UNCHANGED <<registry, m_name, channels, ctl, inp, bc, pend, cur, peer, nread, up>>

SendName(c) ==
  /\ OutAt(c, "name")
  /\ Delivered(c, "name", m_name[c])
  /\ out' = [out EXCEPT ![c] = "recv"]
  /\ UNCHANGED <<registry, m_name, channels, ctl, inp, bc, pend, cur, peer, nread, up>>

\* Mutant: actions are run before the greeting is written.
TakeEarly(c) ==
  /\ OutAt(c, "id") \/ OutAt(c, "name") \/ OutAt(c, "recv")
  /\ is_open[c]
  /\ AsyncReceive(c)
  /\ cur' = [cur EXCEPT ![c] = Head(m_send_requests[c])]
  /\ out' = [out EXCEPT ![c] = "run"]
  /\ UNCHANGED <<registry, m_name, ctl, bc, client, up>>

Take(c) ==
  /\ OutAt(c, "recv") /\ is_open[c]
  /\ AsyncReceive(c)
  /\ cur' = [cur EXCEPT ![c] = Head(m_send_requests[c])]
  /\ out' = [out EXCEPT ![c] = "run"]
  /\ UNCHANGED <<registry, m_name, ctl, bc, client, up>>

\* The callback writes the message; SetName's goes on to notify everyone.
RunList(c) ==
  /\ OutAt(c, "run") /\ cur[c].kind = "list"
  /\ Delivered(c, "list", cur[c].list)
  /\ cur' = [cur EXCEPT ![c] = None]
  /\ out' = [out EXCEPT ![c] = "recv"]
  /\ UNCHANGED <<registry, m_name, channels, ctl, inp, bc, pend, peer, nread, up>>

RunName(c) ==
  /\ OutAt(c, "run") /\ cur[c].kind = "name"
  /\ Delivered(c, "name", cur[c].name)
  /\ cur' = [cur EXCEPT ![c] = None]
  /\ out' = [out EXCEPT ![c] = "bcast"]
  /\ UNCHANGED <<registry, m_name, channels, ctl, inp, bc, pend, peer, nread, up>>

WriteFails(c) ==
  /\ peer[c] = "gone"
  /\ OutAt(c, "id") \/ OutAt(c, "name") \/ OutAt(c, "run")
  /\ out' = [out EXCEPT ![c] = "threw"]
  /\ cur' = [cur EXCEPT ![c] = None]
  /\ UNCHANGED <<registry, m_name, channels, ctl, inp, bc, pend, client, up>>

\* The channel is closed: the loop ends, whatever is still buffered.
LoopExit(c) ==
  /\ OutAt(c, "recv") /\ ~is_open[c]
  /\ out' = [out EXCEPT ![c] = "returned"]
  /\ UNCHANGED <<registry, m_name, channels, ctl, inp, bc, pend, cur, client, up>>

\* The queue q without s, which is in it at most once.
Without(q, s) ==
  IF \E i \in DOMAIN q : q[i] = s
  THEN LET k == CHOOSE i \in DOMAIN q : q[i] = s
       IN  [i \in 1..Len(q) - 1 |-> IF i < k THEN q[i] ELSE q[i + 1]]
  ELSE q

\* Mutant: a walk that runs in SetName's action is not cancelled.
CancelOutNotWalk(c) ==
  /\ ctl[c] = "serve" /\ inp[c] = "returned"
  /\ out[c] \in {"id", "name", "recv", "run"}
  /\ out' = [out EXCEPT ![c] = "cancelled"]
  /\ cur' = [cur EXCEPT ![c] = None]
  /\ UNCHANGED <<registry, m_name, channels, ctl, inp, bc, pend, client, up>>

\* Mutant: the cancelled walk stays in the queue of the channel it waits in.
CancelOutNotWait(c) ==
  /\ ctl[c] = "serve" /\ inp[c] = "returned"
  /\ out[c] \in {"id", "name", "recv", "run", "bcast"}
  /\ out' = [out EXCEPT ![c] = "cancelled"]
  /\ bc' = [bc EXCEPT ![c] = None]
  /\ cur' = [cur EXCEPT ![c] = None]
  /\ UNCHANGED <<registry, m_name, channels, ctl, inp, pend, client, up>>

\* The return of incoming_messages cancels whatever outcoming_messages awaits.
CancelOut(c) ==
  /\ ctl[c] = "serve" /\ inp[c] = "returned"
  /\ out[c] \in {"id", "name", "recv", "run", "bcast"}
  /\ out' = [out EXCEPT ![c] = "cancelled"]
  /\ bc' = [bc EXCEPT ![c] = None]
  /\ cur' = [cur EXCEPT ![c] = None]
  /\ parked' = [t \in Conns |-> Without(parked[t], Broadcaster(c))]
  /\ UNCHANGED <<registry, m_name, m_send_requests, is_open, ctl, inp, pend, client, up>>

-----------------------------------------------------------------------------
Init ==
  /\ m_clients = <<>> /\ m_next_allocated_client_id = 0
  /\ m_id = [c \in Conns |-> 0]
  /\ m_name = [c \in Conns |-> 0]
  /\ m_send_requests = [c \in Conns |-> <<>>]
  /\ is_open = [c \in Conns |-> TRUE]
  /\ parked = [c \in Conns |-> <<>>]
  /\ ctl = [c \in Conns |-> "new"]
  /\ inp = [c \in Conns |-> "off"]
  /\ out = [c \in Conns |-> "off"]
  /\ bc = [c \in Conns |-> None]
  /\ pend = [c \in Conns |-> None]
  /\ cur = [c \in Conns |-> None]
  /\ peer = [c \in Conns |-> "up"]
  /\ nread = [c \in Conns |-> 0]
  /\ got = [c \in Conns |-> [id |-> None, name |-> None, list |-> None]]
  /\ up = TRUE

Notify(c) ==
  \/ NotifySnapshot(c) \/ NotifyReturn(c)
  \/ \E t \in Conns : NotifySend(c, t) \/ NotifyClosed(c, t)

Control(c) == Register(c) \/ RegisterThrows(c) \/ Unregister(c) \/ Destroy(c)

Receiving(c) ==
  \/ ReadGetList(c) \/ ReadSetName(c) \/ InPush(c)
  \/ ReadEof(c) \/ ReadTorn(c)

Sending(c) ==
  \/ SendId(c) \/ SendName(c) \/ Take(c) \/ RunList(c) \/ RunName(c)
  \/ WriteFails(c) \/ LoopExit(c) \/ CancelOut(c)

Next ==
  /\ up
  /\ \E c \in Conns : \/ Control(c) \/ Notify(c) \/ Receiving(c) \/ Sending(c)
                      \/ NotifyFaults(c) \/ Leave(c)

Spec == Init /\ [][Next]_vars

\* The executor runs every coroutine that can run. Nothing makes a client
\* leave, or a dangling iterator fault.
Fairness ==
  \A c \in Conns : /\ WF_vars(up /\ Control(c)) /\ WF_vars(up /\ Notify(c))
                   /\ WF_vars(up /\ Receiving(c)) /\ WF_vars(up /\ Sending(c))

FairSpec == Spec /\ Fairness

-----------------------------------------------------------------------------
\* Types.

CtlStates == {"new", "greet", "serve", "aborted", "farewell", "done", "freed"}
InpStates == {"off", "read", "push", "returned", "threw"}
OutStates == {"off", "id", "name", "recv", "run", "bcast", "returned", "threw", "cancelled"}

Lists   == SUBSET (Ids \X Conns \X Nat)
Actions == [kind : {"list"}, list : Lists] \cup [kind : {"name"}, name : Nat]
Walks   == [list : Lists, at : Conns \cup {None}, must : SUBSET Conns,
            seen : SUBSET Conns, dangling : BOOLEAN]
Senders == [conn : Conns, role : {"in", "bc"}]
Views   == [id : Ids \cup {None}, name : Nat \cup {None}, list : Lists \cup {None}]

\* What has no value is told apart from what has one.
ASSUME NoneAssumption == None \notin Actions \cup Walks

\* Every variable has its type.
TypeOK ==
  /\ DOMAIN m_clients \subseteq Ids
  /\ m_clients \in [DOMAIN m_clients -> Conns]
  /\ m_next_allocated_client_id \in Ids
  /\ m_id \in [Conns -> Ids]
  /\ m_name \in [Conns -> Nat]
  /\ m_send_requests \in [Conns -> Seq(Actions)]
  /\ is_open \in [Conns -> BOOLEAN]
  /\ parked \in [Conns -> Seq(Senders)]
  /\ ctl \in [Conns -> CtlStates]
  /\ inp \in [Conns -> InpStates]
  /\ out \in [Conns -> OutStates]
  /\ bc \in [Conns -> Walks \cup {None}]
  /\ pend \in [Conns -> Actions \cup {None}]
  /\ cur \in [Conns -> Actions \cup {None}]
  /\ peer \in [Conns -> {"up", "gone"}]
  /\ nread \in [Conns -> Nat]
  /\ got \in [Conns -> Views]
  /\ up \in BOOLEAN

-----------------------------------------------------------------------------
\* Safety.

\* process_control_conn is between its insertion into m_clients and its
\* erasure; an aborted one never gets to the erasure.
Owner(c) == ctl[c] \in {"greet", "serve", "aborted"}

\* The registry and the coroutines agree: a connection that has been assigned
\* an id and has not given it back is the one found under it, and nothing else
\* is found, so that ids are unique and erase(m_id) removes its own entry.
RegistryOwned ==
  /\ \A c \in Conns : Owner(c) => m_id[c] \in DOMAIN m_clients /\ m_clients[m_id[c]] = c
  /\ \A i \in DOMAIN m_clients : Owner(m_clients[i]) /\ m_id[m_clients[i]] = i

\* A coroutine that waits in async_send waits in one place, still has what it
\* is sending, and is where it called async_send; incoming_messages waits for
\* its own channel only.
SendersWait ==
  \A t \in Conns : \A i \in DOMAIN parked[t] :
    LET s == parked[t][i] IN
    /\ \A u \in Conns : \A j \in DOMAIN parked[u] : parked[u][j] = s => u = t /\ j = i
    /\ s.role = "in" => s.conn = t /\ pend[t] # None /\ inp[t] = "push"
    /\ s.role = "bc" => InWalk(s.conn) /\ CallsNotify(s.conn) /\ (bc[s.conn].at = t \/ bc[s.conn].dangling)

\* Nobody waits in a channel that has room, and nobody waits in a channel that
\* was destroyed: the coroutines of a destroyed ClientCtrl are over, and what
\* was parked in its channel has been let go.
NobodyForgotten ==
  \A c \in Conns :
    /\ parked[c] # <<>> => ~HasRoom(c)
    /\ ctl[c] \in {"done", "freed"} => ~InWalk(c) /\ inp[c] \notin {"read", "push"}
    /\ ctl[c] = "freed" => parked[c] = <<>>

\* A client has its id and a name before the first list reaches it, although
\* lists are queued for it from the moment it is registered.
HelloBeforeLists ==
  \A c \in Conns : got[c].list # None => got[c].id = m_id[c] /\ got[c].name # None

\* The registry keeps the promise of ClientIds, seen from the coroutines.
Leases == INSTANCE ClientIds
  WITH held   <- [c \in Conns |-> IF Owner(c) THEN m_id[c] ELSE None],
       served <- {c \in Conns : ctl[c] # "new" /\ ~(ctl[c] = "freed" /\ inp[c] = "off")}

LeasesKept == Leases!Spec

-----------------------------------------------------------------------------
\* Liveness.

\* A connection whose client hung up leaves the registry, unless the server
\* crashes first.
EofCleansUp ==
  \A c \in Conns : (inp[c] = "returned") ~> (c \notin Registered \/ ~up)

\* Each client is told its id.
IdSent == \A c \in Conns \ Leavers : <>(got[c].id # None \/ ~up)

\* Each request of a client that stays is read, and every queue empties.
AllAnswered ==
  \A c \in Conns \ Leavers :
    <>[](~up \/ (nread[c] = Len(Script[c]) /\ m_send_requests[c] = <<>> /\ inp[c] = "read" /\ out[c] = "recv"))

\* The name a client ends up with is the last one it set.
LastName(c) ==
  LET S == {i \in DOMAIN Script[c] : Script[c][i] = "SetName"}
  IN  IF S = {} THEN 0 ELSE CHOOSE i \in S : \A j \in S : j <= i
NameSettles == \A c \in Conns \ Leavers : <>[](got[c].name = LastName(c) \/ ~up)

-----------------------------------------------------------------------------
\* What the documentation promises and the code does not keep.

Idle(c) ==
  /\ ctl[c] \in {"new", "serve", "aborted", "freed"} /\ ~InWalk(c)
  /\ ctl[c] = "serve" => /\ inp[c] \in {"read", "threw"} /\ out[c] \in {"recv", "threw"}
                         /\ m_send_requests[c] = <<>>

\* When nothing is under way, every served client knows the clients connected.
QuiescentListsCurrent ==
  (up /\ \A c \in Conns : Idle(c)) =>
    \A c \in Conns : (ctl[c] = "serve" /\ peer[c] = "up" /\ nread[c] = Len(Script[c]))
                       => got[c].list = get_clients_descs

=============================================================================
