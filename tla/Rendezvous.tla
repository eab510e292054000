------------------------------ MODULE Rendezvous ------------------------------
(***************************************************************************)
(* How the remy server joins two clients: Server::process_browser_conn and *)
(* Server::copy_handshake ask one client and then the other to open a new  *)
(* connection, process_new_connection hands each of these over through the *)
(* channel registered under the connection's token, and the refusal is     *)
(* reported to the client that asked (src/src/server.cpp). The clients'    *)
(* part is in src/src/client.cpp.                                          *)
(*                                                                         *)
(* A request is a ConnectBrowser or a Copy message. Its first client is    *)
(* the host or the source, its second the reader or the destination.       *)
(* A connection is named <<r, role>>: what the client in that role opens   *)
(* when it is asked to for request r. A socket channel is named by the     *)
(* request whose coroutine created it and receives from it.                *)
(*                                                                         *)
(* m_send_requests, which carries the asks to the clients, has room here;  *)
(* ServerControl is about what happens when it has none.                   *)
(***************************************************************************)
EXTENDS Integers, Sequences, FiniteSets

CONSTANTS
  Clients,    \* clients with a Control connection
  Requests,   \* requests, each made at most once
  Kind,       \* "browser" or "copy", per request
  Client,     \* per request, its client in each role
  Asker,      \* per request, the client that sends it
  Tokens,     \* the values std::rand() returns
  Leavers,    \* clients that may go away
  Unable,     \* clients that may fail to open a connection they are asked for
  None        \* absence of a value

Kinds == {"browser", "copy"}
Roles == {"first", "second"}
Conns == Requests \X Roles

ASSUME RendezvousAssumption ==
  /\ Kind \in [Requests -> Kinds]
  /\ Client \in [Requests -> [Roles -> Clients]]
  /\ Asker \in [Requests -> Clients]
  /\ \A r \in Requests : Kind[r] = "browser" => Asker[r] = Client[r]["second"]
  /\ Leavers \subseteq Clients /\ Unable \subseteq Clients
  /\ None \notin Requests \cup Tokens

VARIABLES
  member,   \* Control connection: open, closed (its channel) or left (the registry)
  pending,  \* m_pending_browsers and m_pending_copy_ops: token -> channel
  token,    \* the server token of a request
  pc,       \* where the coroutine of a request is
  sock,     \* per request and role, the connection received for it
  inbox,    \* asks on their way to a client, in order
  conn,     \* what became of a connection
  chan,     \* the channel process_new_connection found for a connection
  offers    \* per channel, the connections suspended in its async_send

server == <<pending, token, pc, sock>>
accept == <<conn, chan, offers>>
vars == <<member, server, inbox, accept>>

Registered(c) == member[c] \in {"open", "closed"}

Goto(r, label) == pc' = [pc EXCEPT ![r] = label]

-----------------------------------------------------------------------------
\* The coroutine of a request.

\* incoming_messages of the asker spawns it.
Spawn(r) ==
  /\ pc[r] = "idle" /\ member[Asker[r]] = "open"
  /\ Goto(r, "lookup")
  /\ UNCHANGED <<member, pending, token, sock, inbox, accept>>

\* m_clients.at for both clients: process_browser_conn calls it outside its
\* try block, copy_handshake inside that of process_copy.
Lookup(r) ==
  /\ pc[r] = "lookup"
  /\ IF \A role \in Roles : Registered(Client[r][role])
     THEN Goto(r, "channel")
     ELSE Goto(r, IF Kind[r] = "browser" THEN "died" ELSE "refuse")
  /\ UNCHANGED <<member, pending, token, sock, inbox, accept>>

\* Mutant: a channel already registered under the token is used again.
NewChannelShared(r) ==
  /\ pc[r] = "channel"
  /\ \E t \in Tokens :
       /\ token' = [token EXCEPT ![r] = t]
       /\ pending' = [pending EXCEPT ![Kind[r]][t] = IF @ = None THEN r ELSE @]
       /\ Goto(r, "ask1")
  /\ UNCHANGED <<member, sock, inbox, accept>>

\* Mutant: a channel already registered under the token is replaced.
NewChannelReplacing(r) ==
  /\ pc[r] = "channel"
  /\ \E t \in Tokens :
       /\ token' = [token EXCEPT ![r] = t]
       /\ pending' = [pending EXCEPT ![Kind[r]][t] = r]
       /\ Goto(r, "ask1")
  /\ UNCHANGED <<member, sock, inbox, accept>>

\* new_sockets_chan for a random token; a token in use throws.
NewChannel(r) ==
  /\ pc[r] = "channel"
  /\ \E t \in Tokens :
       /\ token' = [token EXCEPT ![r] = t]
       /\ \/ /\ pending[Kind[r]][t] = None
             /\ pending' = [pending EXCEPT ![Kind[r]][t] = r]
             /\ Goto(r, "ask1")
          \/ /\ pending[Kind[r]][t] # None
             /\ Goto(r, "refuse")
             /\ UNCHANGED pending
  /\ UNCHANGED <<member, sock, inbox, accept>>

\* async_send to the client's m_send_requests throws when that is closed.
Ask(r, role, here, next) ==
  LET c == Client[r][role] IN
  /\ pc[r] = here
  /\ \/ /\ member[c] = "open"
        /\ inbox' = [inbox EXCEPT ![c] = Append(@, <<r, role>>)]
        /\ Goto(r, next)
     \/ /\ member[c] # "open"
        /\ Goto(r, "refuse")
        /\ UNCHANGED inbox
  /\ UNCHANGED <<member, pending, token, sock, accept>>

AskFirst(r)  == Ask(r, "first", "ask1", "receive1")
\* Mutant: the second connection is not waited for.
AskSecondOnly(r) == Ask(r, "second", "ask2", "joined")

AskSecond(r) == Ask(r, "second", "ask2", "receive2")

\* async_receive on the request's channel.
Receive(r, role, here, next) ==
  /\ pc[r] = here
  /\ offers[r] # <<>>
  /\ sock' = [sock EXCEPT ![r][role] = Head(offers[r])]
  /\ conn' = [conn EXCEPT ![Head(offers[r])] = "taken"]
  /\ offers' = [offers EXCEPT ![r] = Tail(@)]
  /\ Goto(r, next)
  /\ UNCHANGED <<member, pending, token, inbox, chan>>

\* Mutant: the channel is deleted once the first connection is there.
ReceiveFirstDelete(r) ==
  /\ pc[r] = "receive1" /\ offers[r] # <<>>
  /\ sock' = [sock EXCEPT ![r]["first"] = Head(offers[r])]
  /\ conn' = [conn EXCEPT ![Head(offers[r])] = "taken"]
  /\ offers' = [offers EXCEPT ![r] = Tail(@)]
  /\ pending' = [pending EXCEPT ![Kind[r]][token[r]] = None]
  /\ Goto(r, "ask2")
  /\ UNCHANGED <<member, token, inbox, chan>>

ReceiveFirst(r) == Receive(r, "first", "receive1", "ask2")

\* Only process_browser_conn deletes its channel.
ReceiveSecond(r) ==
  Receive(r, "second", "receive2", IF Kind[r] = "browser" THEN "delete" ELSE "joined")

\* Mutant: the channel stays in the map.
DeleteChannelNot(r) ==
  /\ pc[r] = "delete"
  /\ Goto(r, "joined")
  /\ UNCHANGED <<member, pending, token, sock, inbox, accept>>

\* delete_sockets_chan: whatever still waits in the channel is lost.
DeleteChannel(r) ==
  /\ pc[r] = "delete"
  /\ pending' = [pending EXCEPT ![Kind[r]][token[r]] = None]
  /\ conn' = [k \in Conns |-> IF conn[k] = "offered" /\ chan[k] = r THEN "lost" ELSE conn[k]]
  /\ offers' = [offers EXCEPT ![r] = <<>>]
  /\ Goto(r, "joined")
  /\ UNCHANGED <<member, token, sock, inbox, chan>>

\* The failure is reported to the asker, if it is there to be told.
Refuse(r) ==
  /\ pc[r] = "refuse"
  /\ Goto(r, IF member[Asker[r]] = "open" THEN "told" ELSE "died")
  /\ UNCHANGED <<member, pending, token, sock, inbox, accept>>

-----------------------------------------------------------------------------
\* process_new_connection for a Browser or Copy connection.

\* The client went away before its token arrived.
Abandon(k) ==
  /\ conn[k] = "made" /\ member[Client[k[1]][k[2]]] # "open"
  /\ conn' = [conn EXCEPT ![k] = "rejected"]
  /\ UNCHANGED <<member, server, inbox, chan, offers>>

\* Mutant: the token is taken for the channel.
FindToken(k) ==
  /\ conn[k] = "made"
  /\ chan' = [chan EXCEPT ![k] = token[k[1]]]
  /\ conn' = [conn EXCEPT ![k] = "found"]
  /\ UNCHANGED <<member, server, inbox, offers>>

\* get_sockets_chan: the reference outlives the mutex.
Find(k) ==
  LET r == k[1]
      found == pending[Kind[r]][token[r]]
  IN
  /\ conn[k] = "made"
  /\ \/ /\ found # None
        /\ chan' = [chan EXCEPT ![k] = found]
        /\ conn' = [conn EXCEPT ![k] = "found"]
     \/ /\ found = None
        /\ conn' = [conn EXCEPT ![k] = "rejected"]
        /\ UNCHANGED chan
  /\ UNCHANGED <<member, server, inbox, offers>>

\* async_send on a channel without a buffer: it waits for a receiver.
Offer(k) ==
  /\ conn[k] = "found"
  /\ conn' = [conn EXCEPT ![k] = "offered"]
  /\ offers' = [offers EXCEPT ![chan[k]] = Append(@, k)]
  /\ UNCHANGED <<member, server, inbox, chan>>

-----------------------------------------------------------------------------
\* The clients.

\* The client does what it is asked: run_browser_host_coro,
\* run_browser_reader_coro or run_copy connects and sends the token.
Connect(c) ==
  /\ member[c] = "open" /\ inbox[c] # <<>>
  /\ inbox' = [inbox EXCEPT ![c] = Tail(@)]
  /\ \/ conn' = [conn EXCEPT ![Head(inbox[c])] = "made"]
     \/ c \in Unable /\ conn' = [conn EXCEPT ![Head(inbox[c])] = "failed"]
  /\ UNCHANGED <<member, server, chan, offers>>

\* Its Control connection ends: the channel is closed, then the id erased.
Close(c) ==
  /\ c \in Leavers /\ member[c] = "open"
  /\ member' = [member EXCEPT ![c] = "closed"]
  /\ UNCHANGED <<server, inbox, accept>>

Erase(c) ==
  /\ member[c] = "closed"
  /\ member' = [member EXCEPT ![c] = "left"]
  /\ UNCHANGED <<server, inbox, accept>>

-----------------------------------------------------------------------------
Init ==
  /\ member = [c \in Clients |-> "open"]
  /\ pending = [kind \in Kinds |-> [t \in Tokens |-> None]]
  /\ token = [r \in Requests |-> None]
  /\ pc = [r \in Requests |-> "idle"]
  /\ sock = [r \in Requests |-> [role \in Roles |-> None]]
  /\ inbox = [c \in Clients |-> <<>>]
  /\ conn = [k \in Conns |-> "none"]
  /\ chan = [k \in Conns |-> None]
  /\ offers = [r \in Requests |-> <<>>]

Coroutine(r) ==
  \/ Lookup(r) \/ NewChannel(r) \/ AskFirst(r) \/ ReceiveFirst(r)
  \/ AskSecond(r) \/ ReceiveSecond(r) \/ DeleteChannel(r) \/ Refuse(r)

Accept(k) == Abandon(k) \/ Find(k) \/ Offer(k)

Next ==
  \/ \E r \in Requests : Spawn(r) \/ Coroutine(r)
  \/ \E k \in Conns : Accept(k)
  \/ \E c \in Clients : Connect(c) \/ Close(c) \/ Erase(c)

Spec == Init /\ [][Next]_vars

\* The executors of the server and of the clients run what can run.
Fairness ==
  /\ \A r \in Requests : WF_vars(Coroutine(r))
  /\ \A k \in Conns : WF_vars(Accept(k))
  /\ \A c \in Clients : WF_vars(Connect(c)) /\ WF_vars(Erase(c))

FairSpec == Spec /\ Fairness

-----------------------------------------------------------------------------
Labels == {"idle", "lookup", "channel", "ask1", "receive1", "ask2", "receive2",
           "delete", "joined", "refuse", "told", "died"}
Fates == {"none", "made", "failed", "found", "offered", "taken", "rejected", "lost"}

\* Every variable has its type.
TypeOK ==
  /\ member \in [Clients -> {"open", "closed", "left"}]
  /\ pending \in [Kinds -> [Tokens -> Requests \cup {None}]]
  /\ token \in [Requests -> Tokens \cup {None}]
  /\ pc \in [Requests -> Labels]
  /\ sock \in [Requests -> [Roles -> Conns \cup {None}]]
  /\ inbox \in [Clients -> Seq(Conns)]
  /\ conn \in [Conns -> Fates]
  /\ chan \in [Conns -> Requests \cup {None}]
  /\ offers \in [Requests -> Seq(Conns)]

\* Each socket the server receives for a request is the one that the right
\* client opened for that request: nobody is joined to somebody else's peer,
\* although only a random number that is used again tells requests apart.
Pairing ==
  \A r \in Requests : \A role \in Roles : sock[r][role] \in {None, <<r, role>>}

\* The channel that process_new_connection found, and uses without the mutex,
\* is still in the map: it is never destroyed under a connection, and no
\* connection is lost with it.
ChannelAlive ==
  \A k \in Conns :
    /\ conn[k] \in {"found", "offered"} => pending[Kind[k[1]]][token[k[1]]] = chan[k]
    /\ conn[k] # "lost"

\* Nobody waits in a channel that nobody will receive from again, unless the
\* request failed.
NobodyStranded ==
  \A k \in Conns :
    conn[k] = "offered" => pc[chan[k]] \in {"receive1", "receive2", "refuse", "told", "died"}

\* Every channel registered under a token is that of a request under way, of
\* one that was refused, or of a copy: a Browser connection that was made
\* leaves none behind, whatever became of the requests around it.
BrowserChannelsFreed ==
  \A kind \in Kinds : \A t \in Tokens :
    LET r == pending[kind][t] IN
    r # None => /\ pc[r] \notin {"idle", "lookup", "channel"} /\ token[r] = t
                /\ pc[r] = "joined" => kind = "copy"

\* Neither client of the request went away or failed to connect.
Undisturbed(r) ==
  \A role \in Roles : member[Client[r][role]] = "open" /\ conn[<<r, role>>] # "failed"

\* Every request of clients that stay is answered: the two are joined or the
\* asker is told of the failure.
Answered ==
  \A r \in Requests :
    (pc[r] = "lookup")
      ~> (pc[r] \in {"joined", "told"} \/ ~Undisturbed(r) \/ member[Asker[r]] # "open")

\* Every connection a client opens because it was asked to is used or refused.
ConnectionsSettle ==
  \A k \in Conns :
    (conn[k] = "made") ~> (conn[k] \in {"taken", "rejected"} \/ ~Undisturbed(k[1]))
=============================================================================
