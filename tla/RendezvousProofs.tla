--------------------------- MODULE RendezvousProofs ---------------------------
(***************************************************************************)
(* Proofs about the rendezvous, for any number of clients and requests and *)
(* any set of tokens, however small.                                       *)
(***************************************************************************)
EXTENDS Rendezvous, SequenceTheorems, TLAPS

-----------------------------------------------------------------------------
(***************************************************************************)
(* Why strangers never meet: a client is asked for its connection only     *)
(* when the request has its channel, and the request waits at that place   *)
(* until this very connection has come out of it.                          *)
(***************************************************************************)
Waits(role) == IF role = "first" THEN "receive1" ELSE "receive2"
Unasked(role) ==
  IF role = "first" THEN {"idle", "lookup", "channel", "ask1"}
  ELSE {"idle", "lookup", "channel", "ask1", "receive1", "ask2"}
Busy == {"ask1", "receive1", "ask2", "receive2", "delete"}

Queued(k) == \E c \in Clients : \E i \in DOMAIN inbox[c] : inbox[c][i] = k
InFlight(k) == Queued(k) \/ conn[k] \in {"made", "found", "offered"}

\* A connection asked for and not received has its request waiting for it.
Awaited == \A k \in Conns : InFlight(k) => pc[k[1]] = Waits(k[2])

\* Before a client is asked, and until it answers, there is no connection.
Unmade ==
  /\ \A k \in Conns : pc[k[1]] \in Unasked(k[2]) => conn[k] = "none"
  /\ \A k \in Conns : Queued(k) => conn[k] = "none"

\* A client is asked once, and it is the right one.
AskedOnce ==
  \A c \in Clients :
    /\ \A i, j \in DOMAIN inbox[c] : i # j => inbox[c][i] # inbox[c][j]
    /\ \A i \in DOMAIN inbox[c] : Client[inbox[c][i][1]][inbox[c][i][2]] = c

\* A connection finds the channel of its own request, and is alone in it.
InPlace ==
  /\ \A k \in Conns : conn[k] \in {"found", "offered"} => chan[k] = k[1]
  /\ \A r \in Requests : offers[r] # <<>> =>
       \E k \in Conns : offers[r] = <<k>> /\ k[1] = r /\ conn[k] = "offered"
  /\ \A k \in Conns : conn[k] # "lost"

\* A request has its channel while it needs it, and a channel its request.
Owned ==
  /\ \A r \in Requests :
       pc[r] \in Busy => token[r] \in Tokens /\ pending[Kind[r]][token[r]] = r
  /\ \A kind \in Kinds : \A t \in Tokens :
       LET r == pending[kind][t] IN
       r # None => /\ Kind[r] = kind /\ token[r] = t
                   /\ pc[r] \notin {"idle", "lookup", "channel"}
                   /\ pc[r] = "joined" => kind = "copy"

Flight == Awaited /\ Unmade /\ AskedOnce /\ InPlace /\ Pairing
Inv == TypeOK /\ Flight /\ Owned

LEMMA InvImplies == Inv => Pairing /\ ChannelAlive /\ NobodyStranded /\ BrowserChannelsFreed
<1> SUFFICES ASSUME Inv PROVE Pairing /\ ChannelAlive /\ NobodyStranded /\ BrowserChannelsFreed
  OBVIOUS
<1>1. ASSUME NEW k \in Conns, conn[k] \in {"found", "offered"}
      PROVE  /\ k[1] \in Requests /\ chan[k] = k[1] /\ pc[k[1]] \in {"receive1", "receive2"}
             /\ pending[Kind[k[1]]][token[k[1]]] = k[1]
  <2>1. k[1] \in Requests /\ chan[k] = k[1] /\ pc[k[1]] \in {"receive1", "receive2"}
    BY <1>1 DEF Inv, Flight, InPlace, Awaited, InFlight, Waits, Conns
  <2> QED
    BY <2>1 DEF Inv, Owned, Busy
<1>2. ChannelAlive
  BY <1>1 DEF ChannelAlive, Inv, Flight, InPlace
<1>3. NobodyStranded
  BY <1>1 DEF NobodyStranded
<1>4. BrowserChannelsFreed
  BY DEF BrowserChannelsFreed, Inv, Owned
<1> QED
  BY <1>2, <1>3, <1>4 DEF Inv, Flight

LEMMA InvInit == Init => Inv
<1> SUFFICES ASSUME Init PROVE Inv
  OBVIOUS
<1>1. TypeOK
  BY DEF Init, TypeOK, Labels, Fates
<1>2. \A k : ~Queued(k)
  BY DEF Init, Queued
<1>3. Flight
  BY <1>2 DEF Init, Flight, Awaited, Unmade, AskedOnce, InPlace, Pairing, InFlight
<1>4. Owned
  BY DEF Init, Owned, Busy
<1> QED
  BY <1>1, <1>3, <1>4 DEF Inv

-----------------------------------------------------------------------------
\* Types.

LEMMA AskType ==
  ASSUME TypeOK, NEW r \in Requests, NEW role \in Roles, NEW here, NEW next \in Labels,
         Ask(r, role, here, next)
  PROVE  TypeOK'
<1> USE RendezvousAssumption DEF TypeOK
<1>1. pc' \in [Requests -> Labels]
  BY DEF Ask, Goto, Labels
<1>2. inbox' \in [Clients -> Seq(Conns)]
  <2>1. <<r, role>> \in Conns /\ Client[r][role] \in Clients
    BY DEF Conns
  <2>2. Append(inbox[Client[r][role]], <<r, role>>) \in Seq(Conns)
    BY <2>1, AppendProperties
  <2> QED
    BY <2>1, <2>2 DEF Ask
<1> QED
  BY <1>1, <1>2 DEF Ask, accept

LEMMA InvType == TypeOK /\ Inv /\ [Next]_vars => TypeOK'
<1> SUFFICES ASSUME TypeOK, Inv, [Next]_vars PROVE TypeOK'
  OBVIOUS
<1> USE RendezvousAssumption DEF TypeOK
<1>1. ASSUME NEW r \in Requests, Spawn(r) \/ Lookup(r) \/ Refuse(r) PROVE TypeOK'
  BY <1>1 DEF Spawn, Lookup, Refuse, Goto, Labels, server, accept
<1>2. ASSUME NEW r \in Requests, NewChannel(r) PROVE TypeOK'
  <2>1. pc' \in [Requests -> Labels]
    <3>1. PICK l \in {"ask1", "refuse"} : pc' = [pc EXCEPT ![r] = l]
      BY <1>2 DEF NewChannel, Goto
    <3> QED
      BY <3>1 DEF Labels
  <2>2. token' \in [Requests -> Tokens \cup {None}]
    BY <1>2 DEF NewChannel
  <2>3. pending' \in [Kinds -> [Tokens -> Requests \cup {None}]]
    <3>1. PICK t \in Tokens : pending' = pending \/ pending' = [pending EXCEPT ![Kind[r]][t] = r]
      BY <1>2 DEF NewChannel
    <3>2. CASE pending' = pending
      BY <3>2
    <3>3. CASE pending' = [pending EXCEPT ![Kind[r]][t] = r]
      <4>1. Kind[r] \in Kinds /\ [pending[Kind[r]] EXCEPT ![t] = r] \in [Tokens -> Requests \cup {None}]
        OBVIOUS
      <4> QED
        BY <3>3, <4>1
    <3> QED
      BY <3>1, <3>2, <3>3
  <2> QED
    BY <1>2, <2>1, <2>2, <2>3 DEF NewChannel, accept
<1>3. ASSUME NEW r \in Requests, AskFirst(r) PROVE TypeOK'
  BY <1>3, AskType DEF AskFirst, Roles, Labels
<1>4. ASSUME NEW r \in Requests, AskSecond(r) PROVE TypeOK'
  BY <1>4, AskType DEF AskSecond, Roles, Labels
<1>5. ASSUME NEW r \in Requests, ReceiveFirst(r) PROVE TypeOK'
  BY <1>5 DEF ReceiveFirst, Receive, Goto, Labels, Fates, Roles, server, accept
<1>6. ASSUME NEW r \in Requests, ReceiveSecond(r) PROVE TypeOK'
  BY <1>6 DEF ReceiveSecond, Receive, Goto, Labels, Fates, Roles, server, accept
<1>7. ASSUME NEW r \in Requests, DeleteChannel(r) PROVE TypeOK'
  <2>1. pc' \in [Requests -> Labels] /\ conn' \in [Conns -> Fates] /\ offers' \in [Requests -> Seq(Conns)]
    BY <1>7 DEF DeleteChannel, Goto, Labels, Fates
  <2>2. pending' \in [Kinds -> [Tokens -> Requests \cup {None}]]
    <3>1. pending' = [pending EXCEPT ![Kind[r]][token[r]] = None]
      BY <1>7 DEF DeleteChannel
    <3> QED
      BY <3>1
  <2> QED
    BY <1>7, <2>1, <2>2 DEF DeleteChannel
<1>8. ASSUME NEW k \in Conns, Abandon(k) PROVE TypeOK'
  BY <1>8 DEF Abandon, Fates, server, accept
<1>9. ASSUME NEW k \in Conns, Find(k) PROVE TypeOK'
  <2>1. k[1] \in Requests /\ token[k[1]] \in Tokens
    BY <1>9 DEF Find, Conns, Inv, Flight, Unmade, Awaited, InFlight, Waits, Owned, Busy
  <2> QED
    <3>1. pending[Kind[k[1]]][token[k[1]]] \in Requests \cup {None}
      BY <2>1
    <3>2. chan' \in [Conns -> Requests \cup {None}] /\ conn' \in [Conns -> Fates]
      BY <1>9, <3>1 DEF Find, Fates
    <3> QED
      BY <1>9, <3>2 DEF Find, server
<1>10. ASSUME NEW k \in Conns, Offer(k) PROVE TypeOK'
  <2>1. conn' \in [Conns -> Fates]
    BY <1>10 DEF Offer, Fates
  <2>2. offers' \in [Requests -> Seq(Conns)]
    BY <1>10, AppendProperties DEF Offer
  <2> QED
    BY <1>10, <2>1, <2>2 DEF Offer, server
<1>11. ASSUME NEW c \in Clients, Connect(c) PROVE TypeOK'
  <2>1. inbox[c] \in Seq(Conns) /\ inbox[c] # <<>> /\ Tail(inbox[c]) \in Seq(Conns)
    BY <1>11, HeadTailProperties DEF Connect
  <2>2. inbox' \in [Clients -> Seq(Conns)] /\ conn' \in [Conns -> Fates]
    BY <1>11, <2>1 DEF Connect, Fates
  <2> QED
    BY <1>11, <2>2 DEF Connect, server
<1>12. ASSUME NEW c \in Clients, Close(c) \/ Erase(c) PROVE TypeOK'
  BY <1>12 DEF Close, Erase, server, accept
<1>13. ASSUME UNCHANGED vars PROVE TypeOK'
  BY <1>13 DEF vars, server, accept
<1> QED
  BY <1>1, <1>2, <1>3, <1>4, <1>5, <1>6, <1>7, <1>8, <1>9, <1>10, <1>11, <1>12, <1>13
  DEF Next, Coroutine, Accept

-----------------------------------------------------------------------------
\* Connections on their way.

\* A coroutine that moves on where it waits for no connection.
LEMMA FlightQuiet ==
  ASSUME Inv, NEW r \in Requests, NEW l \in Labels,
         pc' = [pc EXCEPT ![r] = l], pc[r] \notin {"receive1", "receive2"},
         \A role \in Roles : l \in Unasked(role) => pc[r] \in Unasked(role),
         UNCHANGED <<inbox, conn, chan, offers, sock>>
  PROVE  Flight'
<1>1. \A k \in Conns : pc'[k[1]] = IF k[1] = r THEN l ELSE pc[k[1]]
  BY DEF Inv, TypeOK, Conns
<1>2. \A k \in Conns : Queued(k)' <=> Queued(k)
  BY DEF Queued
<1>3. Awaited'
  BY <1>1, <1>2 DEF Awaited, InFlight, Inv, Flight, Waits
<1>4. Unmade'
  <2>1. \A k \in Conns : k[2] \in Roles
    BY DEF Conns
  <2> QED
    BY <1>1, <1>2, <2>1 DEF Unmade, Inv, Flight
<1> QED
  BY <1>3, <1>4 DEF Inv, Flight, AskedOnce, InPlace, Pairing

\* Steps that leave connections and coroutines alone.
LEMMA FlightStill ==
  ASSUME Inv, UNCHANGED <<inbox, conn, chan, offers, sock, pc>> PROVE Flight'
<1>1. \A k \in Conns : Queued(k)' <=> Queued(k)
  BY DEF Queued
<1> QED
  BY <1>1 DEF Inv, Flight, Awaited, InFlight, Unmade, AskedOnce, InPlace, Pairing

\* A client is asked.
LEMMA FlightAsk ==
  ASSUME Inv, NEW r \in Requests, NEW role \in Roles, NEW here, NEW next,
         Ask(r, role, here, next), here \in {"ask1", "ask2"}, next \in Labels,
         here \in Unasked(role), next = Waits(role)
  PROVE  Flight'
<1> DEFINE c == Client[r][role]
           k == <<r, role>>
<1>1. CASE member[c] # "open"
  <2>1. pc' = [pc EXCEPT ![r] = "refuse"] /\ UNCHANGED <<inbox, conn, chan, offers, sock>>
    BY <1>1 DEF Ask, Goto, accept
  <2>2. "refuse" \in Labels /\ pc[r] \notin {"receive1", "receive2"}
    BY DEF Labels, Ask
  <2> QED
    BY <2>1, <2>2, FlightQuiet DEF Unasked
<1>2. CASE member[c] = "open"
  <2>1. /\ pc[r] = here /\ pc' = [pc EXCEPT ![r] = next]
        /\ inbox' = [inbox EXCEPT ![c] = Append(@, k)]
        /\ UNCHANGED <<conn, chan, offers, sock>>
    BY <1>2 DEF Ask, Goto, accept
  <2>2. c \in Clients /\ k \in Conns /\ inbox[c] \in Seq(Conns)
    BY RendezvousAssumption DEF Conns, Inv, TypeOK
  <2>3. /\ DOMAIN inbox'[c] = 1..(Len(inbox[c]) + 1)
        /\ DOMAIN inbox[c] = 1..Len(inbox[c]) /\ Len(inbox[c]) \in Nat
        /\ \A i \in DOMAIN inbox[c] : inbox'[c][i] = inbox[c][i]
        /\ inbox'[c][Len(inbox[c]) + 1] = k
        /\ \A d \in Clients : d # c => inbox'[d] = inbox[d]
    <3>1. inbox'[c] = Append(inbox[c], k) /\ \A d \in Clients : d # c => inbox'[d] = inbox[d]
      BY <2>1, <2>2 DEF Inv, TypeOK
    <3> QED
      BY <3>1, <2>2, AppendProperties
  <2>4. \A j \in Conns : Queued(j)' => Queued(j) \/ j = k
    BY <2>2, <2>3 DEF Queued
  <2>5. ~InFlight(k) /\ conn[k] = "none" /\ \A j \in Conns : j[1] = r => ~InFlight(j)
    <3>1. \A j \in Conns : j[1] = r => ~InFlight(j)
      BY <2>1 DEF Inv, Flight, Awaited, Waits
    <3>2. pc[k[1]] \in Unasked(k[2])
      BY <2>1
    <3> QED
      BY <3>1, <3>2, <2>2 DEF Inv, Flight, Unmade
  <2>6. \A j \in Conns : j[1] \in Requests /\ j[2] \in Roles /\ pc'[j[1]] = IF j[1] = r THEN next ELSE pc[j[1]]
    BY <2>1 DEF Conns, Inv, TypeOK
  <2>7. Awaited'
    <3> SUFFICES ASSUME NEW j \in Conns, InFlight(j)' PROVE pc'[j[1]] = Waits(j[2])
      BY DEF Awaited, Waits
    <3>1. InFlight(j) \/ j = k
      BY <2>1, <2>4 DEF InFlight
    <3>2. CASE j = k
      BY <3>2, <2>6
    <3>3. CASE InFlight(j)
      BY <3>3, <2>5, <2>6 DEF Inv, Flight, Awaited
    <3> QED
      BY <3>1, <3>2, <3>3
  <2>8. Unmade'
    <3>1. ASSUME NEW j \in Conns, pc'[j[1]] \in Unasked(j[2]) PROVE conn[j] = "none"
      <4>1. pc[j[1]] \in Unasked(j[2])
        BY <2>1, <2>6, <3>1 DEF Waits, Unasked, Roles
      <4> QED
        BY <4>1 DEF Inv, Flight, Unmade
    <3>2. ASSUME NEW j \in Conns, Queued(j)' PROVE conn[j] = "none"
      BY <2>4, <2>5, <3>2 DEF Inv, Flight, Unmade
    <3> QED
      BY <2>1, <3>1, <3>2 DEF Unmade, Unasked
  <2>9. AskedOnce'
    <3> DEFINE n == Len(inbox[c]) + 1
    <3>1. /\ \A d \in Clients : \A i, j \in DOMAIN inbox[d] : i # j => inbox[d][i] # inbox[d][j]
          /\ \A d \in Clients : \A i \in DOMAIN inbox[d] : Client[inbox[d][i][1]][inbox[d][i][2]] = d
          /\ \A i \in DOMAIN inbox[c] : inbox[c][i] # k
      BY <2>2, <2>5 DEF InFlight, Queued, Inv, Flight, AskedOnce
    <3>2. \A i \in DOMAIN inbox'[c] : i \in DOMAIN inbox[c] \/ i = n
      BY <2>3
    <3>3. ASSUME NEW i \in DOMAIN inbox'[c], NEW j \in DOMAIN inbox'[c], i # j
          PROVE  inbox'[c][i] # inbox'[c][j]
      <4>1. CASE i = n /\ j \in DOMAIN inbox[c]
        BY <4>1, <2>3, <3>1
      <4>2. CASE j = n /\ i \in DOMAIN inbox[c]
        BY <4>2, <2>3, <3>1
      <4>3. CASE i \in DOMAIN inbox[c] /\ j \in DOMAIN inbox[c]
        <5>1. inbox'[c][i] = inbox[c][i] /\ inbox'[c][j] = inbox[c][j] /\ inbox[c][i] # inbox[c][j]
          BY <4>3, <3>3, <2>2, <2>3, <3>1
        <5> QED
          BY <5>1
      <4> QED
        BY <3>2, <3>3, <4>1, <4>2, <4>3
    <3>4. ASSUME NEW i \in DOMAIN inbox'[c] PROVE Client[inbox'[c][i][1]][inbox'[c][i][2]] = c
      <4>1. CASE i = n
        BY <4>1, <2>3
      <4>2. CASE i \in DOMAIN inbox[c]
        <5>1. inbox'[c][i] = inbox[c][i] /\ Client[inbox[c][i][1]][inbox[c][i][2]] = c
          BY <4>2, <2>2, <2>3, <3>1
        <5> QED
          BY <5>1
      <4> QED
        BY <3>2, <4>1, <4>2
    <3>5. ASSUME NEW d \in Clients
          PROVE  /\ \A i, j \in DOMAIN inbox'[d] : i # j => inbox'[d][i] # inbox'[d][j]
                 /\ \A i \in DOMAIN inbox'[d] : Client[inbox'[d][i][1]][inbox'[d][i][2]] = d
      <4>1. CASE d = c
        BY <4>1, <3>3, <3>4
      <4>2. CASE d # c
        BY <4>2, <2>3, <3>1
      <4> QED
        BY <4>1, <4>2
    <3> QED
      BY <3>5 DEF AskedOnce
  <2> QED
    BY <2>1, <2>7, <2>8, <2>9 DEF Inv, Flight, InPlace, Pairing
<1> QED
  BY <1>1, <1>2

\* A connection comes out of the channel.
LEMMA FlightReceive ==
  ASSUME Inv, NEW r \in Requests, NEW role \in Roles, NEW here, NEW next,
         Receive(r, role, here, next), here = Waits(role),
         next = IF role = "first" THEN "ask2" ELSE IF Kind[r] = "browser" THEN "delete" ELSE "joined"
  PROVE  Flight'
<1> DEFINE k == <<r, role>>
<1>1. offers[r] = <<k>> /\ conn[k] = "offered" /\ k \in Conns
  <2>1. PICK j \in Conns : offers[r] = <<j>> /\ j[1] = r /\ conn[j] = "offered"
    BY DEF Receive, Inv, Flight, InPlace
  <2>2. pc[r] = Waits(j[2]) /\ pc[r] = Waits(role) /\ j[2] \in Roles
    BY <2>1 DEF Inv, Flight, Awaited, InFlight, Receive, Conns
  <2>3. j = k
    BY <2>1, <2>2 DEF Waits, Roles, Conns
  <2> QED
    BY <2>1, <2>3
<1>2. /\ pc[r] = here /\ pc' = [pc EXCEPT ![r] = next]
      /\ sock' = [sock EXCEPT ![r][role] = k]
      /\ conn' = [conn EXCEPT ![k] = "taken"]
      /\ offers' = [offers EXCEPT ![r] = <<>>]
      /\ UNCHANGED <<inbox, chan>>
  <2>1. Head(offers[r]) = k /\ Tail(offers[r]) = <<>>
    BY <1>1
  <2> QED
    BY <2>1 DEF Receive, Goto
<1>3. \A j \in Conns : /\ j[1] \in Requests /\ j[2] \in Roles
                       /\ pc'[j[1]] = IF j[1] = r THEN next ELSE pc[j[1]]
                       /\ conn'[j] = IF j = k THEN "taken" ELSE conn[j]
  BY <1>1, <1>2 DEF Conns, Inv, TypeOK
<1>4. \A j \in Conns : Queued(j)' <=> Queued(j)
  BY <1>2 DEF Queued
<1>5. ~Queued(k) /\ \A j \in Conns : j[1] = r /\ InFlight(j) => j = k
  <2>1. ~Queued(k)
    BY <1>1 DEF Inv, Flight, Unmade
  <2>2. ASSUME NEW j \in Conns, j[1] = r, InFlight(j) PROVE j = k
    <3>1. Waits(j[2]) = Waits(role) /\ j[2] \in Roles
      BY <1>2, <2>2 DEF Inv, Flight, Awaited, Conns
    <3> QED
      BY <3>1, <2>2 DEF Waits, Roles, Conns
  <2> QED
    BY <2>1, <2>2
<1>6. Awaited'
  <2> SUFFICES ASSUME NEW j \in Conns, InFlight(j)' PROVE pc'[j[1]] = Waits(j[2])
    BY DEF Awaited, Waits
  <2>1. InFlight(j) /\ j # k
    BY <1>3, <1>4, <1>5 DEF InFlight
  <2> QED
    BY <2>1, <1>3, <1>5 DEF Inv, Flight, Awaited
<1>7. Unmade'
  <2>1. ASSUME NEW j \in Conns, pc'[j[1]] \in Unasked(j[2]) PROVE conn'[j] = "none"
    <3>1. j # k /\ pc[j[1]] \in Unasked(j[2])
      BY <1>2, <1>3, <2>1 DEF Waits, Unasked, Roles
    <3> QED
      BY <3>1, <1>3 DEF Inv, Flight, Unmade
  <2>2. ASSUME NEW j \in Conns, Queued(j)' PROVE conn'[j] = "none"
    BY <1>3, <1>4, <1>5, <2>2 DEF Inv, Flight, Unmade
  <2> QED
    BY <2>1, <2>2 DEF Unmade, Unasked
<1>8. InPlace'
  <2>1. \A q \in Requests : q # r => offers'[q] = offers[q]
    BY <1>2 DEF Inv, TypeOK
  <2>2. offers'[r] = <<>>
    BY <1>2 DEF Inv, TypeOK
  <2>3. ASSUME NEW q \in Requests, offers'[q] # <<>>
        PROVE  \E j \in Conns : offers'[q] = <<j>> /\ j[1] = q /\ conn'[j] = "offered"
    <3>1. q # r
      BY <2>2, <2>3
    <3>2. PICK j \in Conns : offers[q] = <<j>> /\ j[1] = q /\ conn[j] = "offered"
      BY <2>1, <2>3, <3>1 DEF Inv, Flight, InPlace
    <3> QED
      BY <1>3, <2>1, <3>1, <3>2
  <2>4. \A j \in Conns : conn'[j] \in {"found", "offered"} => chan'[j] = j[1]
    BY <1>2, <1>3 DEF Inv, Flight, InPlace
  <2>5. \A j \in Conns : conn'[j] # "lost"
    BY <1>3 DEF Inv, Flight, InPlace
  <2> QED
    BY <2>3, <2>4, <2>5 DEF InPlace
<1>9. Pairing'
  <2> SUFFICES ASSUME NEW q \in Requests, NEW o \in Roles PROVE sock'[q][o] \in {None, <<q, o>>}
    BY DEF Pairing
  <2>1. sock'[q][o] = IF q = r /\ o = role THEN k ELSE sock[q][o]
    BY <1>2 DEF Inv, TypeOK
  <2> QED
    BY <2>1 DEF Inv, Flight, Pairing
<1> QED
  BY <1>2, <1>6, <1>7, <1>8, <1>9 DEF Flight, Inv, AskedOnce

\* The channel that process_browser_conn deletes is empty.
LEMMA FlightDelete == ASSUME Inv, NEW r \in Requests, DeleteChannel(r) PROVE Flight'
<1>1. offers[r] = <<>> /\ \A k \in Conns : ~(conn[k] = "offered" /\ chan[k] = r)
  BY DEF DeleteChannel, Inv, Flight, InPlace, Awaited, InFlight, Waits
<1>2. conn' = conn /\ offers' = offers
  BY <1>1 DEF DeleteChannel, Inv, TypeOK
<1>3. pc' = [pc EXCEPT ![r] = "joined"] /\ pc[r] = "delete" /\ UNCHANGED <<inbox, chan, sock>>
  BY DEF DeleteChannel, Goto
<1> QED
  BY <1>2, <1>3, FlightQuiet DEF Labels, Unasked

\* A connection under way goes one step further.
LEMMA FlightAccept ==
  ASSUME Inv, NEW k \in Conns, conn[k] \in {"made", "found", "offered"},
         NEW s \in Fates, s \notin {"none", "lost"},
         conn' = [conn EXCEPT ![k] = s], UNCHANGED <<inbox, pc, sock>>
  PROVE  Awaited' /\ Unmade' /\ AskedOnce' /\ Pairing' /\ \A j \in Conns : conn'[j] # "lost"
<1>1. \A j \in Conns : conn'[j] = IF j = k THEN s ELSE conn[j]
  BY DEF Inv, TypeOK
<1>2. \A j \in Conns : Queued(j)' <=> Queued(j)
  BY DEF Queued
<1>3. InFlight(k) /\ ~Queued(k) /\ pc[k[1]] \notin Unasked(k[2])
  <2>1. InFlight(k)
    BY DEF InFlight
  <2>2. conn[k] # "none"
    OBVIOUS
  <2> QED
    BY <2>1, <2>2 DEF Inv, Flight, Unmade
<1>4. Awaited'
  BY <1>1, <1>2, <1>3 DEF Awaited, InFlight, Inv, Flight, Waits
<1>5. Unmade'
  BY <1>1, <1>2, <1>3 DEF Unmade, Inv, Flight, Unasked
<1> QED
  BY <1>1, <1>4, <1>5 DEF Inv, Flight, AskedOnce, InPlace, Pairing

LEMMA FlightAbandon == ASSUME Inv, NEW k \in Conns, Abandon(k) PROVE Flight'
<1>1. Awaited' /\ Unmade' /\ AskedOnce' /\ Pairing' /\ \A j \in Conns : conn'[j] # "lost"
  BY FlightAccept DEF Abandon, Fates, server
<1>2. \A j \in Conns : conn'[j] = IF j = k THEN "rejected" ELSE conn[j]
  BY DEF Abandon, Inv, TypeOK
<1>3. InPlace'
  BY <1>1, <1>2 DEF Abandon, InPlace, Inv, Flight
<1> QED
  BY <1>1, <1>3 DEF Flight

LEMMA FlightFind == ASSUME Inv, NEW k \in Conns, Find(k) PROVE Flight'
<1>1. k[1] \in Requests /\ pending[Kind[k[1]]][token[k[1]]] = k[1]
  BY DEF Find, Conns, Inv, Flight, Awaited, InFlight, Waits, Owned, Busy
<1>2. conn' = [conn EXCEPT ![k] = "found"] /\ chan' = [chan EXCEPT ![k] = k[1]] /\ conn[k] = "made"
  BY <1>1, RendezvousAssumption DEF Find
<1>3. Awaited' /\ Unmade' /\ AskedOnce' /\ Pairing' /\ \A j \in Conns : conn'[j] # "lost"
  <2>1. UNCHANGED <<inbox, pc, sock>> /\ "found" \in Fates
    BY DEF Find, server, Fates
  <2> QED
    BY <1>2, <2>1, FlightAccept
<1>4. \A j \in Conns : /\ conn'[j] = IF j = k THEN "found" ELSE conn[j]
                       /\ chan'[j] = IF j = k THEN k[1] ELSE chan[j]
  BY <1>2 DEF Inv, TypeOK
<1>5. InPlace'
  <2>1. offers' = offers
    BY DEF Find
  <2> QED
    BY <1>2, <1>3, <1>4, <2>1 DEF InPlace, Inv, Flight
<1> QED
  BY <1>3, <1>5 DEF Flight

LEMMA FlightOffer == ASSUME Inv, NEW k \in Conns, Offer(k) PROVE Flight'
<1> DEFINE r == k[1]
<1>1. /\ conn[k] = "found" /\ chan[k] = r /\ r \in Requests
      /\ conn' = [conn EXCEPT ![k] = "offered"]
      /\ offers' = [offers EXCEPT ![r] = Append(@, k)]
      /\ UNCHANGED <<inbox, pc, sock, chan>>
  BY DEF Offer, Inv, Flight, InPlace, Conns, server
<1>2. offers[r] = <<>>
  <2> SUFFICES ASSUME offers[r] # <<>> PROVE FALSE
    OBVIOUS
  <2>1. PICK j \in Conns : j[1] = r /\ conn[j] = "offered"
    BY <1>1 DEF Inv, Flight, InPlace
  <2>2. Waits(j[2]) = Waits(k[2])
    BY <1>1, <2>1 DEF Inv, Flight, Awaited, InFlight
  <2> QED
    BY <1>1, <2>1, <2>2 DEF Waits, Conns, Roles
<1>3. /\ \A j \in Conns : conn'[j] = IF j = k THEN "offered" ELSE conn[j]
      /\ \A q \in Requests : offers'[q] = IF q = r THEN <<k>> ELSE offers[q]
  <2>1. Append(offers[r], k) = <<k>>
    BY <1>2
  <2> QED
    BY <1>1, <2>1 DEF Inv, TypeOK
<1>4. Awaited' /\ Unmade' /\ AskedOnce' /\ Pairing' /\ \A j \in Conns : conn'[j] # "lost"
  <2>1. "offered" \in Fates
    BY DEF Fates
  <2> QED
    BY <1>1, <2>1, FlightAccept
<1>5. \A q \in Requests : offers'[q] # <<>> =>
        \E j \in Conns : offers'[q] = <<j>> /\ j[1] = q /\ conn'[j] = "offered"
  <2>1. ASSUME NEW q \in Requests, q # r, offers'[q] # <<>>
        PROVE  \E j \in Conns : offers'[q] = <<j>> /\ j[1] = q /\ conn'[j] = "offered"
    <3>1. PICK j \in Conns : offers[q] = <<j>> /\ j[1] = q /\ conn[j] = "offered"
      BY <1>3, <2>1 DEF Inv, Flight, InPlace
    <3> QED
      BY <1>3, <2>1, <3>1
  <2> QED
    BY <1>3, <2>1
<1>6. InPlace'
  BY <1>1, <1>3, <1>4, <1>5 DEF InPlace, Inv, Flight
<1> QED
  BY <1>4, <1>6 DEF Flight

\* A client answers.
LEMMA FlightConnect == ASSUME Inv, NEW c \in Clients, Connect(c) PROVE Flight'
<1> DEFINE k == Head(inbox[c])
<1>1. PICK s \in {"made", "failed"} : conn' = [conn EXCEPT ![k] = s]
  BY DEF Connect
<1>2. /\ inbox[c] \in Seq(Conns) /\ inbox[c] # <<>> /\ k \in Conns /\ k = inbox[c][1]
      /\ Len(inbox[c]) \in Nat /\ Len(inbox[c]) >= 1 /\ DOMAIN inbox[c] = 1..Len(inbox[c])
      /\ inbox' = [inbox EXCEPT ![c] = Tail(@)] /\ UNCHANGED <<pc, sock, chan, offers>>
  BY HeadTailProperties, EmptySeq, LenProperties DEF Connect, Inv, TypeOK, server
<1>3. /\ \A j \in Conns : conn'[j] = IF j = k THEN s ELSE conn[j]
      /\ \A d \in Clients : d # c => inbox'[d] = inbox[d]
      /\ inbox'[c] = Tail(inbox[c])
  BY <1>1, <1>2 DEF Inv, TypeOK
<1>4. /\ DOMAIN inbox'[c] = 1..(Len(inbox[c]) - 1)
      /\ \A i \in DOMAIN inbox'[c] : i + 1 \in DOMAIN inbox[c] /\ inbox'[c][i] = inbox[c][i + 1] /\ i \in Nat
  <2>1. /\ Len(Tail(inbox[c])) = Len(inbox[c]) - 1
        /\ \A i \in 1..(Len(inbox[c]) - 1) : Tail(inbox[c])[i] = inbox[c][i + 1]
        /\ Tail(inbox[c]) \in Seq(Conns)
    BY <1>2, HeadTailProperties
  <2>2. DOMAIN Tail(inbox[c]) = 1..(Len(inbox[c]) - 1)
    BY <2>1, LenProperties
  <2>3. \A i \in 1..(Len(inbox[c]) - 1) : i \in Nat /\ i + 1 \in 1..Len(inbox[c])
    BY <1>2
  <2>4. DOMAIN inbox[c] = 1..Len(inbox[c]) /\ inbox'[c] = Tail(inbox[c])
    BY <1>2, <1>3
  <2> QED
    BY <2>1, <2>2, <2>3, <2>4
<1>5. /\ \A d \in Clients : \A i, j \in DOMAIN inbox[d] : i # j => inbox[d][i] # inbox[d][j]
      /\ \A d \in Clients : \A i \in DOMAIN inbox[d] : Client[inbox[d][i][1]][inbox[d][i][2]] = d
  BY DEF Inv, Flight, AskedOnce
<1>6. Queued(k) /\ Client[k[1]][k[2]] = c
  BY <1>2, <1>5 DEF Queued
<1>7. ASSUME NEW j \in Conns, Queued(j)' PROVE Queued(j) /\ j # k
  <2> PICK d \in Clients : \E i \in DOMAIN inbox'[d] : inbox'[d][i] = j
    BY <1>7 DEF Queued
  <2>1. PICK i \in DOMAIN inbox'[d] : inbox'[d][i] = j
    OBVIOUS
  <2>2. CASE d # c
    <3>1. i \in DOMAIN inbox[d] /\ inbox[d][i] = j
      BY <2>1, <2>2, <1>3
    <3>2. Client[j[1]][j[2]] = d
      BY <3>1, <1>5
    <3> QED
      BY <3>1, <3>2, <2>2, <1>6 DEF Queued
  <2>3. CASE d = c
    <3>1. i + 1 \in DOMAIN inbox[c] /\ inbox[c][i + 1] = j /\ i \in Nat /\ 1 \in DOMAIN inbox[c] /\ i # 0
      BY <2>1, <2>3, <1>2, <1>4
    <3>2. inbox[c][i + 1] # inbox[c][1]
      BY <3>1, <1>5
    <3> QED
      BY <3>1, <3>2, <1>2 DEF Queued
  <2> QED
    BY <2>2, <2>3
<1>8. InFlight(k) /\ conn[k] = "none" /\ pc[k[1]] = Waits(k[2])
  BY <1>2, <1>6 DEF InFlight, Inv, Flight, Unmade, Awaited
<1>9. Awaited'
  <2> SUFFICES ASSUME NEW j \in Conns, InFlight(j)' PROVE pc[j[1]] = Waits(j[2])
    BY <1>2 DEF Awaited, Waits
  <2>1. InFlight(j)
    BY <1>3, <1>7, <1>8 DEF InFlight
  <2> QED
    BY <2>1 DEF Inv, Flight, Awaited
<1>10. Unmade'
  <2>1. ASSUME NEW j \in Conns, pc[j[1]] \in Unasked(j[2]) PROVE conn'[j] = "none"
    <3>1. j # k
      BY <1>8, <2>1 DEF Waits, Unasked
    <3> QED
      BY <3>1, <2>1, <1>3 DEF Inv, Flight, Unmade
  <2>2. ASSUME NEW j \in Conns, Queued(j)' PROVE conn'[j] = "none"
    BY <1>3, <1>7, <2>2 DEF Inv, Flight, Unmade
  <2> QED
    BY <1>2, <2>1, <2>2 DEF Unmade, Unasked
<1>11. AskedOnce'
  <2>1. ASSUME NEW d \in Clients
        PROVE  /\ \A i, j \in DOMAIN inbox'[d] : i # j => inbox'[d][i] # inbox'[d][j]
               /\ \A i \in DOMAIN inbox'[d] : Client[inbox'[d][i][1]][inbox'[d][i][2]] = d
    <3>1. CASE d # c
      BY <3>1, <1>3, <1>5
    <3>2. CASE d = c
      <4>1. ASSUME NEW i \in DOMAIN inbox'[c], NEW j \in DOMAIN inbox'[c], i # j
            PROVE  inbox'[c][i] # inbox'[c][j]
        <5>1. inbox[c][i + 1] # inbox[c][j + 1]
          BY <4>1, <1>4, <1>5
        <5> QED
          BY <5>1, <1>4
      <4>2. ASSUME NEW i \in DOMAIN inbox'[c]
            PROVE  Client[inbox'[c][i][1]][inbox'[c][i][2]] = c
        <5>1. Client[inbox[c][i + 1][1]][inbox[c][i + 1][2]] = c
          BY <4>2, <1>4, <1>5
        <5> QED
          BY <5>1, <1>4
      <4> QED
        BY <3>2, <4>1, <4>2
    <3> QED
      BY <3>1, <3>2
  <2> QED
    BY <2>1 DEF AskedOnce
<1>12. InPlace'
  <2>1. \A j \in Conns : conn'[j] \in {"found", "offered", "lost"} => conn'[j] = conn[j]
    BY <1>3
  <2>2. \A j \in Conns : conn[j] = "offered" => conn'[j] = "offered"
    BY <1>3, <1>8
  <2> QED
    BY <1>2, <2>1, <2>2 DEF InPlace, Inv, Flight
<1>13. Pairing'
  BY <1>2 DEF Inv, Flight, Pairing
<1> QED
  BY <1>9, <1>10, <1>11, <1>12, <1>13 DEF Flight

-----------------------------------------------------------------------------
\* Channels and the requests that need them.

LEMMA OwnedQuiet ==
  ASSUME Inv, NEW r \in Requests, NEW l, pc' = [pc EXCEPT ![r] = l],
         l \in Busy => pc[r] \in Busy,
         l \in {"idle", "lookup", "channel"} => pc[r] \in {"idle", "lookup", "channel"},
         l = "joined" => Kind[r] # "browser",
         UNCHANGED <<pending, token>>
  PROVE  Owned'
<1>1. \A q \in Requests : pc'[q] = IF q = r THEN l ELSE pc[q]
  BY DEF Inv, TypeOK
<1>2. ASSUME NEW kind \in Kinds, NEW t \in Tokens, pending[kind][t] # None
      PROVE  /\ Kind[pending[kind][t]] = kind /\ token[pending[kind][t]] = t
             /\ pc'[pending[kind][t]] \notin {"idle", "lookup", "channel"}
             /\ pc'[pending[kind][t]] = "joined" => kind = "copy"
  <2>1. pending[kind][t] \in Requests
    BY <1>2 DEF Inv, TypeOK
  <2> QED
    BY <1>1, <1>2, <2>1, RendezvousAssumption DEF Inv, Owned, Kinds
<1> QED
  BY <1>1, <1>2 DEF Inv, Owned, Busy

LEMMA OwnedStill == ASSUME Inv, UNCHANGED <<pc, pending, token>> PROVE Owned'
  BY DEF Inv, Owned, Busy

\* A channel is made only under a token that has none.
LEMMA OwnedNew == ASSUME Inv, NEW r \in Requests, NewChannel(r) PROVE Owned'
<1>1. PICK t \in Tokens :
        /\ token' = [token EXCEPT ![r] = t]
        /\ \/ /\ pending[Kind[r]][t] = None
              /\ pending' = [pending EXCEPT ![Kind[r]][t] = r]
              /\ pc' = [pc EXCEPT ![r] = "ask1"]
           \/ /\ pc' = [pc EXCEPT ![r] = "refuse"]
              /\ UNCHANGED pending
  BY DEF NewChannel, Goto
<1>2. /\ Kind[r] \in Kinds /\ pc[r] = "channel"
      /\ \A kind \in Kinds : \A u \in Tokens :
           /\ pending[kind][u] \in Requests \cup {None} /\ pending[kind][u] # r
           /\ pending[kind][u] # None =>
                /\ Kind[pending[kind][u]] = kind /\ token[pending[kind][u]] = u
                /\ pc[pending[kind][u]] \notin {"idle", "lookup", "channel"}
                /\ pc[pending[kind][u]] = "joined" => kind = "copy"
  <2>1. Kind[r] \in Kinds /\ pc[r] = "channel" /\ r # None
    BY RendezvousAssumption DEF NewChannel
  <2>2. ASSUME NEW kind \in Kinds, NEW u \in Tokens
        PROVE  /\ pending[kind][u] \in Requests \cup {None}
               /\ pending[kind][u] # None =>
                    /\ Kind[pending[kind][u]] = kind /\ token[pending[kind][u]] = u
                    /\ pc[pending[kind][u]] \notin {"idle", "lookup", "channel"}
                    /\ pc[pending[kind][u]] = "joined" => kind = "copy"
    <3>1. pending[kind][u] \in Requests \cup {None}
      BY DEF Inv, TypeOK
    <3> QED
      BY <3>1 DEF Inv, Owned
  <2> QED
    BY <2>1, <2>2
<1>3. /\ \A q \in Requests : token'[q] = IF q = r THEN t ELSE token[q]
      /\ \A q \in Requests : q # r => pc'[q] = pc[q]
      /\ pc'[r] \in {"ask1", "refuse"}
  BY <1>1 DEF Inv, TypeOK
<1>4. CASE pending' = pending /\ pc'[r] = "refuse"
  BY <1>2, <1>3, <1>4 DEF Inv, Owned, Busy
<1>5. CASE pending[Kind[r]][t] = None /\ pending' = [pending EXCEPT ![Kind[r]][t] = r] /\ pc'[r] = "ask1"
  <2>1. \A kind \in Kinds : \A u \in Tokens :
          pending'[kind][u] = IF kind = Kind[r] /\ u = t THEN r ELSE pending[kind][u]
    BY <1>2, <1>5 DEF Inv, TypeOK
  <2>2. ASSUME NEW q \in Requests, pc'[q] \in Busy
        PROVE  token'[q] \in Tokens /\ pending'[Kind[q]][token'[q]] = q
    <3>1. CASE q = r
      BY <3>1, <1>2, <1>3, <2>1
    <3>2. CASE q # r
      <4>1. token[q] \in Tokens /\ pending[Kind[q]][token[q]] = q /\ Kind[q] \in Kinds
        BY <3>2, <2>2, <1>3, RendezvousAssumption DEF Inv, Owned
      <4>2. ~(Kind[q] = Kind[r] /\ token[q] = t)
        BY <4>1, <1>5, RendezvousAssumption
      <4> QED
        BY <3>2, <4>1, <4>2, <1>3, <2>1
    <3> QED
      BY <3>1, <3>2
  <2> QED
    BY <1>2, <1>3, <1>5, <2>1, <2>2 DEF Owned
<1> QED
  BY <1>1, <1>4, <1>5 DEF Inv, TypeOK

\* A browser channel goes when its request is through.
LEMMA OwnedDelete == ASSUME Inv, NEW r \in Requests, DeleteChannel(r) PROVE Owned'
<1>1. /\ pc' = [pc EXCEPT ![r] = "joined"] /\ pc[r] = "delete" /\ token' = token
      /\ pending' = [pending EXCEPT ![Kind[r]][token[r]] = None]
      /\ token[r] \in Tokens /\ pending[Kind[r]][token[r]] = r /\ Kind[r] \in Kinds
  BY RendezvousAssumption DEF DeleteChannel, Goto, Inv, Owned, Busy
<1>2. /\ \A q \in Requests : pc'[q] = IF q = r THEN "joined" ELSE pc[q]
      /\ \A kind \in Kinds : \A u \in Tokens :
           /\ pending[kind][u] \in Requests \cup {None}
           /\ pending'[kind][u] = IF kind = Kind[r] /\ u = token[r] THEN None ELSE pending[kind][u]
  BY <1>1 DEF Inv, TypeOK
<1>3. \A kind \in Kinds : \A u \in Tokens : pending'[kind][u] # r
  BY <1>1, <1>2, RendezvousAssumption DEF Inv, Owned
<1>4. ASSUME NEW q \in Requests, pc'[q] \in Busy
      PROVE  token[q] \in Tokens /\ pending'[Kind[q]][token[q]] = q
  <2>1. q # r /\ token[q] \in Tokens /\ pending[Kind[q]][token[q]] = q /\ Kind[q] \in Kinds
    BY <1>2, <1>4, RendezvousAssumption DEF Inv, Owned, Busy
  <2> QED
    BY <1>1, <1>2, <2>1
<1>5. ASSUME NEW kind \in Kinds, NEW u \in Tokens, pending'[kind][u] # None
      PROVE  /\ Kind[pending'[kind][u]] = kind /\ token[pending'[kind][u]] = u
             /\ pc'[pending'[kind][u]] \notin {"idle", "lookup", "channel"}
             /\ pc'[pending'[kind][u]] = "joined" => kind = "copy"
  <2>1. pending'[kind][u] = pending[kind][u] /\ pending[kind][u] \in Requests /\ pending[kind][u] # r
    BY <1>2, <1>3, <1>5
  <2> QED
    BY <1>2, <2>1, <1>5 DEF Inv, Owned
<1> QED
  BY <1>1, <1>4, <1>5 DEF Owned

-----------------------------------------------------------------------------
LEMMA InvStep == Inv /\ [Next]_vars => Inv'
<1> SUFFICES ASSUME Inv, [Next]_vars PROVE Flight' /\ Owned'
  BY InvType DEF Inv
<1> USE DEF server, accept
<1>1. ASSUME NEW r \in Requests, Spawn(r) PROVE Flight' /\ Owned'
  <2>1. pc' = [pc EXCEPT ![r] = "lookup"] /\ pc[r] = "idle"
    BY <1>1 DEF Spawn, Goto
  <2> QED
    BY <1>1, <2>1, FlightQuiet, OwnedQuiet DEF Spawn, Labels, Unasked, Busy
<1>2. ASSUME NEW r \in Requests, Lookup(r) PROVE Flight' /\ Owned'
  <2>1. PICK l \in {"channel", "died", "refuse"} : pc' = [pc EXCEPT ![r] = l] /\ pc[r] = "lookup"
    BY <1>2 DEF Lookup, Goto
  <2> QED
    BY <1>2, <2>1, FlightQuiet, OwnedQuiet DEF Lookup, Labels, Unasked, Busy
<1>3. ASSUME NEW r \in Requests, NewChannel(r) PROVE Flight' /\ Owned'
  <2>1. PICK l \in {"ask1", "refuse"} : pc' = [pc EXCEPT ![r] = l] /\ pc[r] = "channel"
    BY <1>3 DEF NewChannel, Goto
  <2> QED
    BY <1>3, <2>1, FlightQuiet, OwnedNew DEF NewChannel, Labels, Unasked
<1>4. ASSUME NEW r \in Requests, AskFirst(r) PROVE Flight' /\ Owned'
  <2>1. PICK l \in {"receive1", "refuse"} : pc' = [pc EXCEPT ![r] = l] /\ pc[r] = "ask1"
    BY <1>4 DEF AskFirst, Ask, Goto
  <2>2. Owned'
    BY <1>4, <2>1, OwnedQuiet DEF AskFirst, Ask, Busy
  <2> QED
    BY <1>4, <2>2, FlightAsk DEF AskFirst, Labels, Roles, Unasked, Waits
<1>5. ASSUME NEW r \in Requests, AskSecond(r) PROVE Flight' /\ Owned'
  <2>1. PICK l \in {"receive2", "refuse"} : pc' = [pc EXCEPT ![r] = l] /\ pc[r] = "ask2"
    BY <1>5 DEF AskSecond, Ask, Goto
  <2>2. Owned'
    BY <1>5, <2>1, OwnedQuiet DEF AskSecond, Ask, Busy
  <2> QED
    BY <1>5, <2>2, FlightAsk DEF AskSecond, Labels, Roles, Unasked, Waits
<1>6. ASSUME NEW r \in Requests, ReceiveFirst(r) PROVE Flight' /\ Owned'
  <2>1. Owned'
    BY <1>6, OwnedQuiet DEF ReceiveFirst, Receive, Goto, Busy
  <2> QED
    BY <1>6, <2>1, FlightReceive DEF ReceiveFirst, Roles, Waits
<1>7. ASSUME NEW r \in Requests, ReceiveSecond(r) PROVE Flight' /\ Owned'
  <2>1. Owned'
    BY <1>7, OwnedQuiet DEF ReceiveSecond, Receive, Goto, Busy
  <2> QED
    BY <1>7, <2>1, FlightReceive DEF ReceiveSecond, Roles, Waits
<1>8. ASSUME NEW r \in Requests, DeleteChannel(r) PROVE Flight' /\ Owned'
  BY <1>8, FlightDelete, OwnedDelete
<1>9. ASSUME NEW r \in Requests, Refuse(r) PROVE Flight' /\ Owned'
  <2>1. PICK l \in {"told", "died"} : pc' = [pc EXCEPT ![r] = l] /\ pc[r] = "refuse"
    BY <1>9 DEF Refuse, Goto
  <2> QED
    BY <1>9, <2>1, FlightQuiet, OwnedQuiet DEF Refuse, Labels, Unasked, Busy
<1>10. ASSUME NEW k \in Conns, Accept(k) PROVE Flight' /\ Owned'
  BY <1>10, FlightAbandon, FlightFind, FlightOffer, OwnedStill DEF Accept, Abandon, Find, Offer
<1>11. ASSUME NEW c \in Clients, Connect(c) PROVE Flight' /\ Owned'
  BY <1>11, FlightConnect, OwnedStill DEF Connect
<1>12. ASSUME NEW c \in Clients, Close(c) \/ Erase(c) PROVE Flight' /\ Owned'
  BY <1>12, FlightStill, OwnedStill DEF Close, Erase
<1>13. ASSUME UNCHANGED vars PROVE Flight' /\ Owned'
  BY <1>13, FlightStill, OwnedStill DEF vars
<1> QED
  BY <1>1, <1>2, <1>3, <1>4, <1>5, <1>6, <1>7, <1>8, <1>9, <1>10, <1>11, <1>12, <1>13
  DEF Next, Coroutine

LEMMA InvHolds == Spec => []Inv
  BY InvInit, InvStep, PTL DEF Spec

-----------------------------------------------------------------------------
\* The variables of the server and of the clients have their types in every
\* behaviour.
THEOREM RendezvousTyped == Spec => []TypeOK
<1>1. Inv => TypeOK
  BY DEF Inv
<1> QED
  BY <1>1, InvHolds, PTL

\* Server::process_browser_conn and Server::copy_handshake join nobody to
\* somebody else's peer, even if the random numbers repeat (one token may be
\* all there is), clients leave and connections fail.
THEOREM StrangersNeverMeet == Spec => []Pairing
  BY InvImplies, InvHolds, PTL

\* The channel that get_sockets_chan handed out without the mutex is not
\* destroyed under the connection, and no connection is lost with it.
THEOREM ChannelsOutliveUsers == Spec => []ChannelAlive
  BY InvImplies, InvHolds, PTL

\* No connection waits in the channel of a request that was served.
THEOREM NobodyIsStranded == Spec => []NobodyStranded
  BY InvImplies, InvHolds, PTL

\* process_browser_conn leaves no channel behind when it succeeds.
THEOREM BrowserChannelsAreFreed == Spec => []BrowserChannelsFreed
  BY InvImplies, InvHolds, PTL
=============================================================================
