------------------------- MODULE ServerControlProofs -------------------------
(***************************************************************************)
(* Proofs about the Control connections of the server, for any number of   *)
(* connections, ids and buffered actions: who owns an id, the types of all *)
(* variables, where the senders wait that found the channel of a client    *)
(* full, what a client is told before any list, and that a client is       *)
(* forgotten by no sender.                                                 *)
(***************************************************************************)
EXTENDS ServerControl, TLAPS

-----------------------------------------------------------------------------
(***************************************************************************)
(* The registry. RegistryOwned is inductive together with the types of the *)
(* variables it reads: only Register and Unregister change who owns an id. *)
(***************************************************************************)
RegistryTyped ==
  /\ DOMAIN m_clients \subseteq Ids
  /\ m_clients \in [DOMAIN m_clients -> Conns]
  /\ m_next_allocated_client_id \in Ids
  /\ m_id \in [Conns -> Ids]
  /\ ctl \in [Conns -> CtlStates]

RegistryInv == RegistryTyped /\ RegistryOwned

\* A step that moves nobody into or out of the ownership of an id.
OwnersStay ==
  /\ UNCHANGED <<m_clients, m_id>>
  /\ m_next_allocated_client_id' \in Ids
  /\ ctl' \in [Conns -> CtlStates]
  /\ \A c \in Conns : Owner(c)' <=> Owner(c)

LEMMA RegistryInit == Init => RegistryInv
  BY ControlAssumption DEF Init, RegistryInv, RegistryTyped, RegistryOwned, Owner, Ids, CtlStates,
     ControlAssumption

LEMMA OwnersStayKeeps == RegistryInv /\ OwnersStay => RegistryInv'
<1> SUFFICES ASSUME RegistryInv, OwnersStay PROVE RegistryInv'
  OBVIOUS
<1>1. RegistryTyped'
  BY DEF RegistryInv, RegistryTyped, OwnersStay
<1>2. \A c \in Conns : Owner(c)' => m_id'[c] \in DOMAIN m_clients' /\ m_clients'[m_id'[c]] = c
  BY DEF RegistryInv, RegistryOwned, OwnersStay
<1>3. \A i \in DOMAIN m_clients' : Owner(m_clients[i])' /\ m_id'[m_clients'[i]] = i
  BY DEF RegistryInv, RegistryTyped, RegistryOwned, OwnersStay
<1> QED
  BY <1>1, <1>2, <1>3 DEF RegistryInv, RegistryOwned, OwnersStay

\* The exceptions that leave a walk move their coroutine from one state to
\* another in which it owns an id if it owned one before.
LEMMA ThrownOwners ==
  ASSUME RegistryTyped, NEW B \in SUBSET Conns
  PROVE  /\ CtlThrown(B) \in [Conns -> CtlStates]
         /\ \A c \in Conns : CtlThrown(B)[c] \in {"greet", "serve", "aborted"} <=> Owner(c)
         /\ \A c \in Conns : ctl[c] = "done" => CtlThrown(B)[c] = "done"
  BY DEF RegistryTyped, CtlThrown, CtlStates, Owner

\* The steps of Notify.
LEMMA NotifyOwners == RegistryInv /\ (\E b \in Conns : Notify(b) \/ NotifyFaults(b)) => OwnersStay
<1> SUFFICES ASSUME RegistryInv, NEW b \in Conns, Notify(b) \/ NotifyFaults(b)
             PROVE  OwnersStay
  OBVIOUS
<1>0. RegistryTyped
  BY DEF RegistryInv
<1>1. CASE NotifySnapshot(b)
  BY <1>0, <1>1 DEF NotifySnapshot, RegistryTyped, OwnersStay, Owner, registry
<1>2. CASE NotifyReturn(b)
  BY <1>0, <1>2 DEF NotifyReturn, RegistryTyped, OwnersStay, Owner, registry, CtlStates
<1>3. ASSUME NEW t \in Conns, NotifySend(b, t) PROVE OwnersStay
  BY <1>0, <1>3 DEF NotifySend, RegistryTyped, OwnersStay, Owner, registry
<1>4. ASSUME NEW t \in Conns, NotifyClosed(b, t) PROVE OwnersStay
  BY <1>0, <1>4, ThrownOwners DEF NotifyClosed, RegistryTyped, OwnersStay, Owner, registry
<1>5. CASE NotifyFaults(b)
  BY <1>0, <1>5 DEF NotifyFaults, RegistryTyped, OwnersStay, Owner, registry
<1> QED
  BY <1>1, <1>2, <1>3, <1>4, <1>5 DEF Notify

\* The steps of the two coroutines of a connection, and of its client.
LEMMA ServingOwners ==
  RegistryInv /\ (\E c \in Conns : Receiving(c) \/ Sending(c) \/ Leave(c)) => OwnersStay
<1> SUFFICES ASSUME RegistryInv, NEW c \in Conns, Receiving(c) \/ Sending(c) \/ Leave(c)
             PROVE  UNCHANGED <<registry, ctl>>
  BY DEF RegistryInv, RegistryTyped, OwnersStay, Owner, registry
<1>1. CASE Receiving(c)
  BY <1>1 DEF Receiving, ReadGetList, ReadSetName, InPush, ReadEof, ReadTorn
<1>2. CASE Sending(c)
  BY <1>2 DEF Sending, SendId, SendName, Take, RunList, RunName, WriteFails, LoopExit, CancelOut
<1>3. CASE Leave(c)
  BY <1>3 DEF Leave
<1> QED
  BY <1>1, <1>2, <1>3

LEMMA RegisterThrowsOwners ==
  RegistryInv /\ (\E c \in Conns : RegisterThrows(c)) => OwnersStay
  BY DEF RegistryInv, RegistryTyped, RegisterThrows, OwnersStay, Owner, CtlStates

LEMMA DestroyOwners == RegistryInv /\ (\E c \in Conns : Destroy(c)) => OwnersStay
<1> SUFFICES ASSUME RegistryInv, NEW c \in Conns, Destroy(c) PROVE OwnersStay
  OBVIOUS
<1> DEFINE waiting == {b \in Conns : \E i \in DOMAIN parked[c] : parked[c][i] = Broadcaster(b)}
<1>1. RegistryTyped /\ waiting \in SUBSET Conns
  BY DEF RegistryInv
<1>2. ctl' = [CtlThrown(waiting) EXCEPT ![c] = "freed"] /\ ctl[c] = "done" /\ UNCHANGED registry
  BY DEF Destroy
<1> HIDE DEF waiting
<1> QED
  BY <1>1, <1>2, ThrownOwners DEF RegistryTyped, OwnersStay, Owner, CtlStates, registry

-----------------------------------------------------------------------------
\* An id that is free is not the id of any owner, so its new owner is the only
\* one.
LEMMA RegisterKeeps == RegistryInv /\ (\E c \in Conns : Register(c)) => RegistryInv'
<1> SUFFICES ASSUME RegistryInv, NEW c \in Conns, Register(c) PROVE RegistryInv'
  OBVIOUS
<1>1. PICK id \in FreeIds :
        /\ m_next_allocated_client_id' = id
        /\ m_id' = [m_id EXCEPT ![c] = id]
        /\ m_clients' = [i \in DOMAIN m_clients \cup {id} |-> IF i = id THEN c ELSE m_clients[i]]
  BY DEF Register, Allocated
<1>2. ctl[c] = "new" /\ ctl' = [ctl EXCEPT ![c] = "greet"]
  BY DEF Register
<1>3. RegistryTyped'
  BY <1>1, <1>2 DEF RegistryInv, RegistryTyped, FreeIds, CtlStates
<1>4. ~Owner(c) /\ Owner(c)' /\ \A d \in Conns \ {c} : Owner(d)' <=> Owner(d)
  BY <1>2 DEF RegistryInv, RegistryTyped, Owner
<1>5. \A d \in Conns : Owner(d)' => m_id'[d] \in DOMAIN m_clients' /\ m_clients'[m_id'[d]] = d
  BY <1>1, <1>4 DEF RegistryInv, RegistryTyped, RegistryOwned, FreeIds
<1>6. \A i \in DOMAIN m_clients' : Owner(m_clients[i])' /\ m_id'[m_clients'[i]] = i
  <2> SUFFICES ASSUME NEW i \in DOMAIN m_clients' PROVE Owner(m_clients[i])' /\ m_id'[m_clients'[i]] = i
    OBVIOUS
  <2>1. CASE i = id
    BY <1>1, <1>4, <2>1 DEF RegistryInv, RegistryTyped, Owner
  <2>2. CASE i # id
    <3>1. i \in DOMAIN m_clients /\ m_clients'[i] = m_clients[i] /\ m_clients[i] # c
      BY <1>1, <1>4, <2>2 DEF RegistryInv, RegistryOwned
    <3> QED
      BY <3>1, <1>1, <1>4 DEF RegistryInv, RegistryTyped, RegistryOwned, Owner
  <2> QED
    BY <2>1, <2>2
<1> QED
  BY <1>3, <1>5, <1>6 DEF RegistryInv, RegistryOwned

\* The entry under m_id is the connection's own, so erasing it removes nobody
\* else.
LEMMA UnregisterKeeps == RegistryInv /\ (\E c \in Conns : Unregister(c)) => RegistryInv'
<1> SUFFICES ASSUME RegistryInv, NEW c \in Conns, Unregister(c) PROVE RegistryInv'
  OBVIOUS
<1>1. /\ m_clients' = [i \in DOMAIN m_clients \ {m_id[c]} |-> m_clients[i]]
      /\ ctl[c] = "serve" /\ ctl' = [ctl EXCEPT ![c] = "farewell"]
      /\ UNCHANGED <<m_next_allocated_client_id, m_id>>
  BY DEF Unregister
<1>2. RegistryTyped'
  BY <1>1 DEF RegistryInv, RegistryTyped, CtlStates
<1>3. ~Owner(c)' /\ \A d \in Conns \ {c} : Owner(d)' <=> Owner(d)
  BY <1>1 DEF RegistryInv, RegistryTyped, Owner
<1>4. \A d \in Conns : Owner(d)' => m_id'[d] \in DOMAIN m_clients' /\ m_clients'[m_id'[d]] = d
  BY <1>1, <1>3 DEF RegistryInv, RegistryTyped, RegistryOwned, Owner
<1>5. \A i \in DOMAIN m_clients' : m_clients[i] # c
  BY <1>1 DEF RegistryInv, RegistryOwned
<1>6. \A i \in DOMAIN m_clients' : Owner(m_clients[i])' /\ m_id'[m_clients'[i]] = i
  BY <1>1, <1>3, <1>5 DEF RegistryInv, RegistryTyped, RegistryOwned, Owner
<1> QED
  BY <1>2, <1>4, <1>6 DEF RegistryInv, RegistryOwned

LEMMA RegistryStep == RegistryInv /\ [Next]_vars => RegistryInv'
<1> SUFFICES ASSUME RegistryInv, [Next]_vars PROVE RegistryInv'
  OBVIOUS
<1>1. CASE UNCHANGED vars
  BY <1>1 DEF vars, registry, RegistryInv, RegistryTyped, RegistryOwned, Owner
<1>2. CASE Next
  <2>1. PICK c \in Conns : \/ Control(c) \/ Notify(c) \/ Receiving(c) \/ Sending(c)
                           \/ NotifyFaults(c) \/ Leave(c)
    BY <1>2 DEF Next
  <2>2. CASE Control(c)
    BY <2>2, RegisterKeeps, UnregisterKeeps, RegisterThrowsOwners, DestroyOwners, OwnersStayKeeps
       DEF Control
  <2>3. CASE Notify(c) \/ NotifyFaults(c)
    BY <2>3, NotifyOwners, OwnersStayKeeps
  <2>4. CASE Receiving(c) \/ Sending(c) \/ Leave(c)
    BY <2>4, ServingOwners, OwnersStayKeeps
  <2> QED
    BY <2>1, <2>2, <2>3, <2>4
<1> QED
  BY <1>1, <1>2

\* Ids are unique, and whatever the order in which connections come, serve and
\* go, an entry of m_clients is the connection that owns the id.
THEOREM RegistryIsOwned == Spec => []RegistryOwned
<1>1. RegistryInv => RegistryOwned
  BY DEF RegistryInv
<1> QED
  BY RegistryInit, RegistryStep, <1>1, PTL DEF Spec

-----------------------------------------------------------------------------
(***************************************************************************)
(* The registry implements the leases of ClientIds. A connection counts as *)
(* served from Register on; one whose constructor threw never does, which  *)
(* its incoming_messages, never started, tells apart.                      *)
(***************************************************************************)
Started ==
  /\ inp \in [Conns -> InpStates]
  /\ \A c \in Conns : /\ ctl[c] \in {"new", "greet", "aborted"} => inp[c] = "off"
                      /\ ctl[c] \in {"serve", "farewell", "done"} => inp[c] # "off"

LeaseInv == RegistryInv /\ Started

Served(c) == ctl[c] # "new" /\ ~(ctl[c] = "freed" /\ inp[c] = "off")

\* A step that neither gives nor takes an id, seen from ClientIds a stutter.
LeasesStay == UNCHANGED m_id /\ \A c \in Conns : (Owner(c)' <=> Owner(c)) /\ (Served(c)' <=> Served(c))

LEMMA LeaseInit == Init => LeaseInv
  BY RegistryInit DEF Init, LeaseInv, Started, InpStates

LEMMA StutterLeases == LeasesStay => UNCHANGED Leases!vars
  BY DEF LeasesStay, Leases!vars, Served

\* What the coroutines of serving connections do to where they are.
LEMMA ServingStarted ==
  ASSUME LeaseInv, NEW c \in Conns, Receiving(c) \/ Sending(c)
  PROVE  /\ UNCHANGED <<registry, ctl>>
         /\ inp' = inp \/ (ctl[c] = "serve" /\ \E at \in InpStates \ {"off"} : inp' = [inp EXCEPT ![c] = at])
<1>1. CASE Receiving(c)
  BY <1>1 DEF Receiving, ReadGetList, ReadSetName, InPush, ReadEof, ReadTorn, InReady, Pushed, InpStates
<1>2. CASE Sending(c)
  BY <1>2 DEF Sending, SendId, SendName, Take, RunList, RunName, WriteFails, LoopExit, CancelOut,
              AsyncReceive, Pushed, OutAt, InpStates
<1> QED
  BY <1>1, <1>2

LEMMA ServingLeases ==
  LeaseInv /\ (\E c \in Conns : Receiving(c) \/ Sending(c)) => Started' /\ LeasesStay
<1> SUFFICES ASSUME LeaseInv, NEW c \in Conns, Receiving(c) \/ Sending(c)
             PROVE  Started' /\ LeasesStay
  OBVIOUS
<1> QED
  BY ServingStarted DEF LeaseInv, RegistryInv, RegistryTyped, Started, LeasesStay, Owner, Served, registry

LEMMA LeaveLeases == LeaseInv /\ (\E c \in Conns : Leave(c)) => Started' /\ LeasesStay
  BY DEF LeaseInv, Leave, Started, LeasesStay, Owner, Served, registry

LEMMA NotifyLeases ==
  LeaseInv /\ (\E b \in Conns : Notify(b) \/ NotifyFaults(b)) => Started' /\ LeasesStay
<1> SUFFICES ASSUME LeaseInv, NEW b \in Conns, Notify(b) \/ NotifyFaults(b)
             PROVE  Started' /\ LeasesStay
  OBVIOUS
<1>0. OwnersStay /\ RegistryTyped
  BY NotifyOwners DEF LeaseInv, RegistryInv
<1>1. CASE NotifySnapshot(b)
  BY <1>0, <1>1 DEF NotifySnapshot, LeaseInv, Started, LeasesStay, OwnersStay, Served
<1>2. CASE NotifyReturn(b)
  BY <1>0, <1>2 DEF NotifyReturn, LeaseInv, Started, LeasesStay, OwnersStay, Served, RegistryTyped, InpStates
<1>3. ASSUME NEW t \in Conns, NotifySend(b, t) PROVE Started' /\ LeasesStay
  BY <1>0, <1>3 DEF NotifySend, LeaseInv, Started, LeasesStay, OwnersStay, Served
<1>4. ASSUME NEW t \in Conns, NotifyClosed(b, t) PROVE Started' /\ LeasesStay
  BY <1>0, <1>4 DEF NotifyClosed, CtlThrown, LeaseInv, Started, LeasesStay, OwnersStay, Served, RegistryTyped
<1>5. CASE NotifyFaults(b)
  BY <1>0, <1>5 DEF NotifyFaults, LeaseInv, Started, LeasesStay, OwnersStay, Served
<1> QED
  BY <1>1, <1>2, <1>3, <1>4, <1>5 DEF Notify

LEMMA RegisterThrowsLeases ==
  LeaseInv /\ (\E c \in Conns : RegisterThrows(c)) => Started' /\ LeasesStay
  BY DEF LeaseInv, RegistryInv, RegistryTyped, RegisterThrows, Started, LeasesStay, Owner, Served

LEMMA DestroyLeases == LeaseInv /\ (\E c \in Conns : Destroy(c)) => Started' /\ LeasesStay
<1> SUFFICES ASSUME LeaseInv, NEW c \in Conns, Destroy(c) PROVE Started' /\ LeasesStay
  OBVIOUS
<1> DEFINE waiting == {b \in Conns : \E i \in DOMAIN parked[c] : parked[c][i] = Broadcaster(b)}
<1>1. OwnersStay /\ RegistryTyped
  BY DestroyOwners DEF LeaseInv, RegistryInv
<1>2. /\ ctl' = [CtlThrown(waiting) EXCEPT ![c] = "freed"] /\ ctl[c] = "done"
      /\ UNCHANGED <<registry, inp>>
  BY DEF Destroy
<1> HIDE DEF waiting
<1>3. \A d \in Conns \ {c} : \/ ctl'[d] = ctl[d]
                             \/ ctl[d] = "greet" /\ ctl'[d] = "aborted"
                             \/ ctl[d] = "farewell" /\ ctl'[d] = "done"
  BY <1>1, <1>2 DEF CtlThrown, RegistryTyped
<1>4. ctl'[c] = "freed"
  BY <1>2 DEF CtlThrown
<1> QED
  BY <1>1, <1>2, <1>3, <1>4 DEF LeaseInv, Started, LeasesStay, OwnersStay, Served

\* Register gives the connection an id that nobody holds.
LEMMA RegisterLeases ==
  ASSUME LeaseInv, NEW c \in Conns, Register(c)
  PROVE  Started' /\ \E id \in Ids : Leases!Acquire(c, id)
<1>1. PICK id \in FreeIds : m_id' = [m_id EXCEPT ![c] = id]
  BY DEF Register, Allocated
<1>2. ctl[c] = "new" /\ ctl' = [ctl EXCEPT ![c] = "greet"] /\ inp' = inp
  BY DEF Register
<1>3. Started'
  BY <1>2 DEF LeaseInv, RegistryInv, RegistryTyped, Started
<1>4. \A d \in Conns : (IF Owner(d) THEN m_id[d] ELSE None) # id
  BY <1>1, ControlAssumption DEF LeaseInv, RegistryInv, RegistryOwned, FreeIds, Ids, ControlAssumption
<1>5. Owner(c)' /\ \A d \in Conns \ {c} : Owner(d)' <=> Owner(d)
  BY <1>2 DEF LeaseInv, RegistryInv, RegistryTyped, Owner
<1>6. ~Served(c) /\ Served(c)' /\ \A d \in Conns \ {c} : Served(d)' <=> Served(d)
  BY <1>2 DEF LeaseInv, RegistryInv, RegistryTyped, Served
<1>7. Leases!Acquire(c, id)
  BY <1>1, <1>4, <1>5, <1>6 DEF Leases!Acquire, Served, LeaseInv, RegistryInv, RegistryTyped
<1> QED
  BY <1>1, <1>3, <1>7 DEF FreeIds

\* Unregister takes its id from it.
LEMMA UnregisterLeases ==
  ASSUME LeaseInv, NEW c \in Conns, Unregister(c)
  PROVE  Started' /\ Leases!Release(c)
<1>1. ctl[c] = "serve" /\ ctl' = [ctl EXCEPT ![c] = "farewell"] /\ UNCHANGED <<m_id, inp>>
  BY DEF Unregister
<1>2. Started'
  BY <1>1 DEF LeaseInv, RegistryInv, RegistryTyped, Started
<1>3. Owner(c) /\ ~Owner(c)' /\ \A d \in Conns \ {c} : Owner(d)' <=> Owner(d)
  BY <1>1 DEF LeaseInv, RegistryInv, RegistryTyped, Owner
<1>4. \A d \in Conns : Served(d)' <=> Served(d)
  BY <1>1 DEF LeaseInv, RegistryInv, RegistryTyped, Served
<1>5. m_id[c] # None
  BY ControlAssumption DEF LeaseInv, RegistryInv, RegistryTyped, Ids, ControlAssumption
<1> QED
  BY <1>1, <1>2, <1>3, <1>4, <1>5 DEF Leases!Release, Served

LEMMA LeaseStep == LeaseInv /\ [Next]_vars => LeaseInv' /\ [Leases!Next]_(Leases!vars)
<1> SUFFICES ASSUME LeaseInv, [Next]_vars PROVE LeaseInv' /\ [Leases!Next]_(Leases!vars)
  OBVIOUS
<1>1. RegistryInv'
  BY RegistryStep DEF LeaseInv
<1>2. CASE UNCHANGED vars
  BY <1>1, <1>2, StutterLeases DEF vars, registry, LeaseInv, Started, LeasesStay, Owner, Served
<1>3. CASE Next
  <2>1. PICK c \in Conns : \/ Control(c) \/ Notify(c) \/ Receiving(c) \/ Sending(c)
                           \/ NotifyFaults(c) \/ Leave(c)
    BY <1>3 DEF Next
  <2>2. CASE Register(c)
    BY <1>1, <2>2, RegisterLeases DEF LeaseInv, Leases!Next
  <2>3. CASE Unregister(c)
    BY <1>1, <2>3, UnregisterLeases DEF LeaseInv, Leases!Next
  <2>4. CASE RegisterThrows(c) \/ Destroy(c)
    BY <1>1, <2>4, RegisterThrowsLeases, DestroyLeases, StutterLeases DEF LeaseInv
  <2>5. CASE Notify(c) \/ NotifyFaults(c)
    BY <1>1, <2>5, NotifyLeases, StutterLeases DEF LeaseInv
  <2>6. CASE Receiving(c) \/ Sending(c)
    BY <1>1, <2>6, ServingLeases, StutterLeases DEF LeaseInv
  <2>7. CASE Leave(c)
    BY <1>1, <2>7, LeaveLeases, StutterLeases DEF LeaseInv
  <2> QED
    BY <2>1, <2>2, <2>3, <2>4, <2>5, <2>6, <2>7 DEF Control
<1> QED
  BY <1>2, <1>3

\* The registry keeps the promise of ClientIds: an id is held by at most one
\* connection, and a connection holds one id, once.
THEOREM LeasesAreKept == Spec => LeasesKept
<1>1. Init => Leases!Init
  BY DEF Init, Leases!Init, Owner
<1> QED
  BY LeaseInit, LeaseStep, <1>1, PTL DEF Spec, LeasesKept, Leases!Spec

-----------------------------------------------------------------------------
(***************************************************************************)
(* Types, and the senders that wait for room. TypeOK alone is not          *)
(* inductive: what async_receive puts into a channel is what its first     *)
(* waiting sender is sending, which has a value only because that sender   *)
(* waits once and has not gone on.                                         *)
(***************************************************************************)
\* A coroutine has what it is working on, and a walk has the caller it returns
\* to.
Filled ==
  \A c \in Conns : /\ inp[c] = "push" => pend[c] # None
                   /\ out[c] = "run" => cur[c] # None
                   /\ InWalk(c) => CallsNotify(c)

\* The two halves of SendersWait: nobody is in a queue twice, and whoever is in
\* one belongs there.
Parked(q) == /\ q \in [Conns -> Seq(Senders)]
             /\ \A t, u \in Conns : \A i \in DOMAIN q[t], j \in DOMAIN q[u] :
                  q[t][i] = q[u][j] => t = u /\ i = j

WaitsRight(s, t) ==
  /\ s.role = "in" => s.conn = t /\ pend[t] # None /\ inp[t] = "push"
  /\ s.role = "bc" => InWalk(s.conn) /\ CallsNotify(s.conn) /\ (bc[s.conn].at = t \/ bc[s.conn].dangling)

Waits(s, t) == \E i \in DOMAIN parked[t] : parked[t][i] = s
AllRight == \A t \in Conns, s \in Senders : Waits(s, t) => WaitsRight(s, t)

WaitKept == TypeOK /\ Filled /\ Parked(parked) /\ AllRight
WaitInv  == LeaseInv /\ WaitKept

LEMMA WaitHalves == WaitKept => SendersWait
  BY DEF WaitKept, AllRight, Waits, Parked, SendersWait, WaitsRight

LEMMA WaitInit == Init => WaitInv
<1> SUFFICES ASSUME Init PROVE WaitInv
  OBVIOUS
<1>1. TypeOK
  BY ControlAssumption DEF Init, TypeOK, Ids, CtlStates, InpStates, OutStates, Views, ControlAssumption
<1>2. Parked(parked) /\ AllRight
  BY DEF Init, Parked, AllRight, Waits
<1>3. Filled
  BY DEF Init, Filled, InWalk
<1> QED
  BY <1>1, <1>2, <1>3, LeaseInit DEF WaitInv, WaitKept

-----------------------------------------------------------------------------
\* What the values are that the actions build.

LEMMA DescsType == TypeOK => get_clients_descs \in Lists
  BY DEF TypeOK, get_clients_descs, Lists

LEMMA ActionsType ==
  /\ \A list \in Lists : ListAction(list) \in Actions
  /\ \A name \in Nat : NameAction(name) \in Actions
  BY DEF ListAction, NameAction, Actions

LEMMA WalkType ==
  /\ \A list \in Lists : NewWalk(list) \in Walks
  /\ \A w \in Walks, t \in Conns : TypeOK => Visit(w, t) \in Walks /\ Visit(w, t).at = t
<1>1. \A list \in Lists : NewWalk(list) \in Walks
  BY DEF NewWalk, Walks
<1>2. TypeOK => Registered \subseteq Conns
  BY DEF TypeOK, Registered
<1> QED
  BY <1>1, <1>2 DEF Visit, Walks

LEMMA InWalkType == TypeOK => \A b \in Conns : InWalk(b) => bc[b] \in Walks /\ bc[b].list \in Lists
  BY DEF TypeOK, InWalk, Walks

LEMMA RegisteredType == TypeOK => Registered \subseteq Conns
  BY DEF TypeOK, Registered

LEMMA PayloadType ==
  ASSUME WaitInv, NEW t \in Conns, NEW i \in DOMAIN parked[t]
  PROVE  Payload(parked[t][i]) \in Actions
<1> DEFINE s == parked[t][i]
<1>1. s \in Senders /\ WaitsRight(s, t)
  BY DEF WaitInv, WaitKept, AllRight, Waits, Parked
<1>2. CASE s.role = "in"
  BY <1>1, <1>2 DEF WaitInv, WaitKept, TypeOK, WaitsRight, Payload
<1>3. CASE s.role = "bc"
  BY <1>1, <1>3, InWalkType, ActionsType DEF WaitInv, WaitKept, WaitsRight, Payload, Senders
<1> QED
  BY <1>1, <1>2, <1>3 DEF Senders

-----------------------------------------------------------------------------
(***************************************************************************)
(* The queues of waiting senders, operation by operation: what is in them  *)
(* afterwards, and that nobody is in them twice.                           *)
(***************************************************************************)
LEMMA ParkOne ==
  ASSUME Parked(parked), NEW t \in Conns, NEW s \in Senders, ~Suspended(s),
         parked' = [parked EXCEPT ![t] = Append(@, s)]
  PROVE  /\ Parked(parked)'
         /\ \A u \in Conns, r \in Senders : Waits(r, u)' => Waits(r, u) \/ (r = s /\ u = t)
<1>1. parked' \in [Conns -> Seq(Senders)]
  BY DEF Parked
<1>2. \A u \in Conns : \A i \in DOMAIN parked'[u] :
         \/ u = t /\ parked'[u][i] = s /\ i = Len(parked[t]) + 1
         \/ i \in DOMAIN parked[u] /\ parked'[u][i] = parked[u][i]
  BY DEF Parked
<1>3. \A u \in Conns : \A i \in DOMAIN parked[u] : parked[u][i] # s
  BY DEF Suspended
<1>4. \A v, u \in Conns : \A i \in DOMAIN parked'[v], j \in DOMAIN parked'[u] :
         parked'[v][i] = parked'[u][j] => v = u /\ i = j
  BY <1>2, <1>3 DEF Parked
<1> QED
  BY <1>1, <1>2, <1>4 DEF Parked, Waits

LEMMA UnparkFirst ==
  ASSUME Parked(parked), NEW t \in Conns, parked[t] # <<>>,
         parked' = [parked EXCEPT ![t] = Tail(@)]
  PROVE  /\ Parked(parked)'
         /\ Head(parked[t]) \in Senders /\ Waits(Head(parked[t]), t)
         /\ \A u \in Conns, r \in Senders : Waits(r, u)' => Waits(r, u) /\ r # Head(parked[t])
<1>1. /\ parked' \in [Conns -> Seq(Senders)]
      /\ 1 \in DOMAIN parked[t] /\ Head(parked[t]) = parked[t][1] /\ parked[t][1] \in Senders
  BY DEF Parked
<1>2. \A i \in DOMAIN parked'[t] :
         i + 1 \in DOMAIN parked[t] /\ parked'[t][i] = parked[t][i + 1] /\ i \in Nat \ {0}
  BY DEF Parked
<1>3. \A u \in Conns \ {t} : parked'[u] = parked[u]
  BY DEF Parked
<1>4. ASSUME NEW u \in Conns, NEW i \in DOMAIN parked'[u]
      PROVE  \E j \in DOMAIN parked[u] : parked'[u][i] = parked[u][j] /\ ~(u = t /\ j = 1)
  <2>1. CASE u = t
    BY <1>2, <2>1
  <2>2. CASE u # t
    BY <1>3, <2>2
  <2> QED
    BY <2>1, <2>2
<1>5. ASSUME NEW v \in Conns, NEW u \in Conns, NEW i \in DOMAIN parked'[v], NEW j \in DOMAIN parked'[u],
             parked'[v][i] = parked'[u][j]
      PROVE  v = u /\ i = j
  <2>1. CASE v = t /\ u = t
    BY <1>2, <1>5, <2>1 DEF Parked
  <2>2. CASE v # t /\ u = t
    BY <1>2, <1>3, <1>5, <2>2 DEF Parked
  <2>3. CASE v = t /\ u # t
    BY <1>2, <1>3, <1>5, <2>3 DEF Parked
  <2>4. CASE v # t /\ u # t
    BY <1>3, <1>5, <2>4 DEF Parked
  <2> QED
    BY <2>1, <2>2, <2>3, <2>4
<1>6. ASSUME NEW u \in Conns, NEW r \in Senders, Waits(r, u)'
      PROVE  Waits(r, u) /\ r # Head(parked[t])
  <2>1. PICK i \in DOMAIN parked'[u] : parked'[u][i] = r
    BY <1>6 DEF Waits
  <2>2. PICK j \in DOMAIN parked[u] : parked[u][j] = r /\ ~(u = t /\ j = 1)
    BY <1>4, <2>1
  <2> QED
    BY <1>1, <2>2 DEF Parked, Waits
<1> QED
  BY <1>1, <1>5, <1>6 DEF Parked, Waits

LEMMA UnparkAll ==
  ASSUME Parked(parked), NEW t \in Conns, parked' = [parked EXCEPT ![t] = <<>>]
  PROVE  /\ Parked(parked)'
         /\ \A u \in Conns, r \in Senders : Waits(r, u)' => Waits(r, u) /\ ~Waits(r, t)
<1>1. Parked(parked)' /\ parked'[t] = <<>> /\ \A u \in Conns \ {t} : parked'[u] = parked[u]
  BY DEF Parked
<1> QED
  BY <1>1 DEF Parked, Waits

\* A queue that loses its k-th element.
LEMMA CutAt ==
  ASSUME NEW q \in Seq(Senders), NEW k \in 1..Len(q),
         NEW r, r = [i \in 1..Len(q) - 1 |-> IF i < k THEN q[i] ELSE q[i + 1]]
  PROVE  /\ r \in Seq(Senders) /\ DOMAIN r = 1..Len(q) - 1
         /\ \A i \in DOMAIN r : r[i] = q[IF i < k THEN i ELSE i + 1]
<1>1. Len(q) - 1 \in Nat /\ \A i \in 1..Len(q) - 1 : r[i] \in Senders
  OBVIOUS
<1>2. r \in [1..Len(q) - 1 -> Senders]
  BY <1>1
<1> QED
  BY <1>1, <1>2

\* Removing s from a queue in which it is at most once.
LEMMA WithoutIt ==
  ASSUME NEW q \in Seq(Senders), NEW s,
         \A i, j \in DOMAIN q : q[i] = q[j] => i = j
  PROVE  /\ Without(q, s) \in Seq(Senders)
         /\ \A i \in DOMAIN Without(q, s) :
              Without(q, s)[i] # s /\ \E j \in DOMAIN q : Without(q, s)[i] = q[j]
         /\ \A i, j \in DOMAIN Without(q, s) : Without(q, s)[i] = Without(q, s)[j] => i = j
<1>1. CASE ~\E i \in DOMAIN q : q[i] = s
  <2>1. Without(q, s) = q
    BY <1>1, Zenon DEF Without
  <2> QED
    BY <1>1, <2>1
<1>2. CASE \E i \in DOMAIN q : q[i] = s
  <2> DEFINE k == CHOOSE i \in DOMAIN q : q[i] = s
             r == [i \in 1..Len(q) - 1 |-> IF i < k THEN q[i] ELSE q[i + 1]]
  <2>1. k \in DOMAIN q /\ q[k] = s
    BY <1>2, Zenon
  <2>2. Without(q, s) = r
    BY <1>2, Zenon DEF Without
  <2> HIDE DEF k
  <2>7. k \in 1..Len(q)
    BY <2>1
  <2>3. /\ r \in Seq(Senders) /\ DOMAIN r = 1..Len(q) - 1
        /\ \A i \in DOMAIN r : r[i] = q[IF i < k THEN i ELSE i + 1]
    BY <2>7, CutAt
  <2> HIDE DEF r
  <2>4. \A i \in DOMAIN r : (IF i < k THEN i ELSE i + 1) \in DOMAIN q \ {k}
    BY <2>1, <2>3
  <2>5. \A i \in DOMAIN r : r[i] # s /\ \E j \in DOMAIN q : r[i] = q[j]
    BY <2>1, <2>3, <2>4
  <2>6. \A i, j \in DOMAIN r : r[i] = r[j] => i = j
    <3> SUFFICES ASSUME NEW i \in DOMAIN r, NEW j \in DOMAIN r, r[i] = r[j] PROVE i = j
      OBVIOUS
    <3>1. (IF i < k THEN i ELSE i + 1) = (IF j < k THEN j ELSE j + 1)
      BY <2>3, <2>4
    <3> QED
      BY <2>1, <2>3, <3>1
  <2> QED
    BY <2>2, <2>3, <2>5, <2>6
<1> QED
  BY <1>1, <1>2

LEMMA UnparkSender ==
  ASSUME Parked(parked), NEW s, parked' = [t \in Conns |-> Without(parked[t], s)]
  PROVE  /\ Parked(parked)'
         /\ \A u \in Conns, r \in Senders : Waits(r, u)' => Waits(r, u) /\ r # s
<1>1. \A u \in Conns : /\ parked[u] \in Seq(Senders)
                       /\ \A i, j \in DOMAIN parked[u] : parked[u][i] = parked[u][j] => i = j
  BY DEF Parked
<1>2. \A u \in Conns : /\ parked'[u] \in Seq(Senders)
                       /\ \A i, j \in DOMAIN parked'[u] : parked'[u][i] = parked'[u][j] => i = j
                       /\ \A i \in DOMAIN parked'[u] :
                            parked'[u][i] # s /\ \E j \in DOMAIN parked[u] : parked'[u][i] = parked[u][j]
  BY <1>1, WithoutIt
<1>3. \A t, u \in Conns : \A i \in DOMAIN parked'[t], j \in DOMAIN parked'[u] :
         parked'[t][i] = parked'[u][j] => t = u /\ i = j
  BY <1>2 DEF Parked
<1> QED
  BY <1>2, <1>3 DEF Parked, Waits

-----------------------------------------------------------------------------
(***************************************************************************)
(* What a step must leave alone for those that wait before and after it.   *)
(***************************************************************************)
LEMMA SenderIs ==
  \A s \in Senders : s = Incoming(s.conn) \/ s = Broadcaster(s.conn)
  BY DEF Senders, Incoming, Broadcaster

Remains(s) == Suspended(s) /\ Suspended(s)'

LEMMA Frame ==
  ASSUME WaitInv,
         \A t \in Conns, s \in Senders : Waits(s, t)' => Waits(s, t) \/ WaitsRight(s, t)',
         \A c \in Conns : Remains(Incoming(c)) /\ inp[c] = "push" =>
                            pend'[c] = pend[c] /\ inp'[c] = inp[c],
         \A b \in Conns : Remains(Broadcaster(b)) /\ InWalk(b) /\ CallsNotify(b) =>
                            /\ ctl'[b] = ctl[b] /\ out'[b] = out[b] /\ InWalk(b)'
                            /\ bc'[b].at = bc[b].at
                            /\ bc[b].dangling => bc'[b].dangling
  PROVE  AllRight'
<1> SUFFICES ASSUME NEW t \in Conns, NEW s \in Senders, Waits(s, t)', Waits(s, t)
             PROVE  WaitsRight(s, t)'
  BY DEF AllRight
<1>1. WaitsRight(s, t) /\ Remains(s)
  BY DEF WaitInv, WaitKept, AllRight, Remains, Suspended, Waits
<1>2. CASE s.role = "in"
  <2>1. s = Incoming(t) /\ inp[t] = "push" /\ pend[t] # None
    BY <1>1, <1>2, SenderIs DEF WaitsRight, Broadcaster
  <2>2. pend'[t] = pend[t] /\ inp'[t] = inp[t]
    BY <1>1, <2>1
  <2> QED
    BY <1>1, <1>2, <2>1, <2>2 DEF WaitsRight
<1>3. CASE s.role = "bc"
  <2> DEFINE b == s.conn
  <2>1. b \in Conns /\ s = Broadcaster(b)
    BY <1>3, SenderIs DEF Incoming, Senders
  <2>2. InWalk(b) /\ CallsNotify(b) /\ (bc[b].at = t \/ bc[b].dangling)
    BY <1>1, <1>3 DEF WaitsRight
  <2>3. /\ ctl'[b] = ctl[b] /\ out'[b] = out[b] /\ InWalk(b)'
        /\ bc'[b].at = bc[b].at
        /\ bc[b].dangling => bc'[b].dangling
    BY <1>1, <2>1, <2>2
  <2> QED
    BY <1>3, <2>2, <2>3 DEF WaitsRight, CallsNotify
<1> QED
  BY <1>2, <1>3 DEF Senders

\* For the many steps that do not touch the queues.
LEMMA QueuesStay ==
  ASSUME WaitInv, UNCHANGED parked
  PROVE  /\ Parked(parked)'
         /\ \A t \in Conns, s \in Senders : Waits(s, t)' => Waits(s, t) \/ WaitsRight(s, t)'
  BY DEF WaitInv, WaitKept, Parked, Waits

-----------------------------------------------------------------------------
(***************************************************************************)
(* The steps, one lemma per action or group of alike actions.              *)
(***************************************************************************)
LEMMA SnapshotWaits == ASSUME WaitInv, NEW b \in Conns, NotifySnapshot(b) PROVE WaitKept'
<1>1. NewWalk(get_clients_descs) \in Walks
  BY DescsType, WalkType DEF WaitInv, WaitKept
<1>2. TypeOK'
  BY <1>1 DEF NotifySnapshot, WaitInv, WaitKept, TypeOK, registry, channels, client
<1>3. Filled'
  BY DEF NotifySnapshot, WaitInv, WaitKept, TypeOK, Filled, InWalk, CallsNotify, registry, channels, client
<1>4. \A d \in Conns : InWalk(d) => bc'[d] = bc[d]
  BY DEF NotifySnapshot, WaitInv, WaitKept, TypeOK
<1>5. UNCHANGED <<parked, pend, inp, ctl, out>>
  BY DEF NotifySnapshot, channels
<1>6. AllRight'
  BY <1>4, <1>5, QueuesStay, Frame DEF InWalk
<1> QED
  BY <1>2, <1>3, <1>5, <1>6, QueuesStay DEF WaitKept

LEMMA ReturnWaits == ASSUME WaitInv, NEW b \in Conns, NotifyReturn(b) PROVE WaitKept'
<1>1. /\ ctl \in [Conns -> CtlStates] /\ inp \in [Conns -> InpStates]
      /\ out \in [Conns -> OutStates] /\ bc \in [Conns -> Walks \cup {None}]
  BY DEF WaitInv, WaitKept, TypeOK
<1>2. TypeOK'
  <2>1. ctl' \in [Conns -> CtlStates]
    BY <1>1 DEF NotifyReturn, CtlStates
  <2>2. inp' \in [Conns -> InpStates]
    BY <1>1 DEF NotifyReturn, InpStates
  <2>3. out' \in [Conns -> OutStates]
    BY <1>1 DEF NotifyReturn, OutStates
  <2>4. bc' \in [Conns -> Walks \cup {None}]
    BY <1>1 DEF NotifyReturn
  <2> QED
    BY <2>1, <2>2, <2>3, <2>4 DEF NotifyReturn, WaitInv, WaitKept, TypeOK, registry, channels, client
<1>3. Filled'
  BY <1>1 DEF NotifyReturn, WaitInv, WaitKept, Filled, InWalk, CallsNotify
<1>4. UNCHANGED <<parked, pend>>
  BY DEF NotifyReturn, channels
<1>5. \A c \in Conns : inp[c] = "push" => inp'[c] = inp[c]
  BY <1>1 DEF NotifyReturn, WaitInv, LeaseInv, Started
<1>6. ~Suspended(Broadcaster(b))
  BY DEF NotifyReturn, CanStep
<1>7. \A c \in Conns \ {b} : bc'[c] = bc[c] /\ ctl'[c] = ctl[c] /\ out'[c] = out[c]
  BY <1>1 DEF NotifyReturn
<1>8. AllRight'
  BY <1>4, <1>5, <1>6, <1>7, QueuesStay, Frame DEF InWalk, Remains
<1> QED
  BY <1>2, <1>3, <1>4, <1>8, QueuesStay DEF WaitKept

\* async_send: the sender s is not waiting yet; if it has to, it belongs there.
LEMMA SendQueues ==
  ASSUME WaitInv, NEW t \in Conns, NEW s \in Senders, NEW action \in Actions,
         AsyncSend(t, s, action), ~Suspended(s)
  PROVE  /\ m_send_requests' \in [Conns -> Seq(Actions)] /\ UNCHANGED is_open
         /\ Parked(parked)'
         /\ \A u \in Conns, r \in Senders : Waits(r, u)' => Waits(r, u) \/ (r = s /\ u = t)
<1>1. CASE HasRoom(t)
  <2>1. m_send_requests' = [m_send_requests EXCEPT ![t] = Append(@, action)] /\ UNCHANGED <<is_open, parked>>
    BY <1>1 DEF AsyncSend
  <2>2. Append(m_send_requests[t], action) \in Seq(Actions)
    BY DEF WaitInv, WaitKept, TypeOK
  <2>3. m_send_requests' \in [Conns -> Seq(Actions)]
    BY <2>1, <2>2 DEF WaitInv, WaitKept, TypeOK
  <2> QED
    BY <2>1, <2>3 DEF WaitInv, WaitKept, Parked, Waits
<1>2. CASE ~HasRoom(t)
  <2>1. parked' = [parked EXCEPT ![t] = Append(@, s)] /\ UNCHANGED <<m_send_requests, is_open>>
    BY <1>2 DEF AsyncSend
  <2> QED
    BY <2>1, ParkOne DEF WaitInv, WaitKept, TypeOK
<1> QED
  BY <1>1, <1>2

LEMMA SendWaits ==
  ASSUME WaitInv, NEW b \in Conns, NEW t \in Conns, NotifySend(b, t) PROVE WaitKept'
<1>1. InWalk(b) /\ bc[b] \in Walks /\ ListAction(bc[b].list) \in Actions /\ ~Suspended(Broadcaster(b))
  BY InWalkType, ActionsType DEF NotifySend, CanStep, WaitInv, WaitKept
<1>2. Visit(bc[b], t) \in Walks /\ Visit(bc[b], t).at = t /\ Visit(bc[b], t) # None
  BY <1>1, WalkType, NoneAssumption DEF WaitInv, WaitKept, NoneAssumption
<1>3. /\ m_send_requests' \in [Conns -> Seq(Actions)] /\ UNCHANGED is_open
      /\ Parked(parked)'
      /\ \A u \in Conns, r \in Senders : Waits(r, u)' => Waits(r, u) \/ (r = Broadcaster(b) /\ u = t)
  BY <1>1, SendQueues DEF NotifySend, Senders, Broadcaster
<1>4. /\ bc' = [bc EXCEPT ![b] = Visit(bc[b], t)] /\ bc \in [Conns -> Walks \cup {None}]
      /\ UNCHANGED <<registry, m_name, ctl, inp, out, pend, cur, client, up>>
  BY DEF NotifySend, WaitInv, WaitKept, TypeOK
<1>5. TypeOK'
  BY <1>2, <1>3, <1>4 DEF WaitInv, WaitKept, TypeOK, Parked, registry, client
<1>6. Filled'
  BY <1>1, <1>4 DEF WaitInv, WaitKept, Filled, InWalk, CallsNotify
<1>7. WaitsRight(Broadcaster(b), t)'
  BY <1>1, <1>2, <1>4 DEF WaitInv, WaitKept, Filled, WaitsRight, Broadcaster, InWalk, CallsNotify
<1>8. \A d \in Conns \ {b} : bc'[d] = bc[d]
  BY <1>4
<1>9. AllRight'
  BY <1>1, <1>3, <1>4, <1>7, <1>8, Frame DEF InWalk, Remains
<1> QED
  BY <1>3, <1>5, <1>6, <1>9 DEF WaitKept

\* The exceptions that leave the walks of B.
LEMMA ThrownTypes ==
  ASSUME TypeOK, NEW B \in SUBSET Conns
  PROVE  /\ BcThrown(B) \in [Conns -> Walks \cup {None}]
         /\ CtlThrown(B) \in [Conns -> CtlStates]
         /\ OutThrown(B) \in [Conns -> OutStates]
         /\ \A d \in Conns \ B : /\ BcThrown(B)[d] = bc[d] /\ CtlThrown(B)[d] = ctl[d]
                                 /\ OutThrown(B)[d] = out[d]
         /\ \A d \in B : BcThrown(B)[d] = None /\ OutThrown(B)[d] \in {out[d], "threw"}
  BY DEF TypeOK, BcThrown, CtlThrown, OutThrown, CtlStates, OutStates

LEMMA ClosedWaits ==
  ASSUME WaitInv, NEW b \in Conns, NEW t \in Conns, NotifyClosed(b, t) PROVE WaitKept'
<1>1. /\ bc' = BcThrown({b}) /\ ctl' = CtlThrown({b}) /\ out' = OutThrown({b})
      /\ UNCHANGED <<registry, m_name, channels, inp, pend, cur, client, up>>
      /\ ~Suspended(Broadcaster(b))
  BY DEF NotifyClosed, CanStep
<1>2. /\ bc' \in [Conns -> Walks \cup {None}] /\ ctl' \in [Conns -> CtlStates] /\ out' \in [Conns -> OutStates]
      /\ \A d \in Conns \ {b} : bc'[d] = bc[d] /\ ctl'[d] = ctl[d] /\ out'[d] = out[d]
      /\ bc'[b] = None /\ out'[b] \in {out[b], "threw"}
  BY <1>1, ThrownTypes DEF WaitInv, WaitKept
<1>3. TypeOK'
  BY <1>1, <1>2 DEF WaitInv, WaitKept, TypeOK, registry, channels, client
<1>4. Filled'
  BY <1>1, <1>2 DEF WaitInv, WaitKept, Filled, InWalk, CallsNotify
<1>5. AllRight' /\ Parked(parked)'
  BY <1>1, <1>2, QueuesStay, Frame DEF InWalk, Remains, channels
<1> QED
  BY <1>3, <1>4, <1>5 DEF WaitKept

LEMMA FaultsWaits ==
  ASSUME WaitInv, NEW b \in Conns, NotifyFaults(b) PROVE WaitKept'
<1>1. up' = FALSE /\ UNCHANGED <<registry, m_name, channels, ctl, inp, out, bc, pend, cur, client>>
  BY DEF NotifyFaults
<1>2. TypeOK' /\ Filled'
  BY <1>1 DEF WaitInv, WaitKept, TypeOK, Filled, InWalk, CallsNotify, registry, channels, client
<1>3. AllRight' /\ Parked(parked)'
  BY <1>1, QueuesStay, Frame DEF InWalk, channels
<1> QED
  BY <1>2, <1>3 DEF WaitKept

\* What the registry does to the walks leaves them walks, as far on as before.
LEMMA WalksAfter ==
  ASSUME TypeOK, NEW w, \/ \E rehash \in BOOLEAN : w = WalksAfterInsert(rehash)
                        \/ \E c \in Conns : w = WalksAfterErase(c)
  PROVE  /\ w \in [Conns -> Walks \cup {None}]
         /\ \A b \in Conns : /\ w[b] # None <=> InWalk(b)
                             /\ InWalk(b) => w[b].at = bc[b].at /\ (bc[b].dangling => w[b].dangling)
<1>1. bc \in [Conns -> Walks \cup {None}]
  BY DEF TypeOK
<1>2. CASE \E rehash \in BOOLEAN : w = WalksAfterInsert(rehash)
  <2>1. PICK rehash \in BOOLEAN : w = WalksAfterInsert(rehash)
    BY <1>2
  <2>2. w = [b \in Conns |-> IF rehash /\ InWalk(b) /\ bc[b].at # None
                              THEN [bc[b] EXCEPT !.must = {}, !.seen = {bc[b].at}] ELSE bc[b]]
    BY <2>1 DEF WalksAfterInsert
  <2>3. \A b \in Conns : InWalk(b) => bc[b] \in Walks /\ bc[b].at \in Conns \cup {None}
    BY <1>1 DEF InWalk, Walks
  <2>4. ASSUME NEW b \in Conns, InWalk(b), bc[b].at # None,
               NEW x, x = [bc[b] EXCEPT !.must = {}, !.seen = {bc[b].at}]
        PROVE  x \in Walks /\ x.at = bc[b].at /\ x.dangling = bc[b].dangling /\ x # None
    <3>1. bc[b] \in Walks /\ bc[b].at \in Conns
      BY <2>3, <2>4
    <3>2. x \in Walks /\ x.at = bc[b].at /\ x.dangling = bc[b].dangling
      BY <2>4, <3>1 DEF Walks
    <3> QED
      BY <3>2, NoneAssumption DEF NoneAssumption
  <2> QED
    BY <1>1, <2>2, <2>4 DEF InWalk
<1>3. CASE \E c \in Conns : w = WalksAfterErase(c)
  <2>1. PICK c \in Conns : w = WalksAfterErase(c)
    BY <1>3
  <2>2. w = [b \in Conns |-> IF InWalk(b) /\ bc[b].at = c
                              THEN [bc[b] EXCEPT !.must = {}, !.seen = {}, !.dangling = TRUE] ELSE bc[b]]
    BY <2>1 DEF WalksAfterErase
  <2>3. \A b \in Conns : InWalk(b) =>
           LET x == [bc[b] EXCEPT !.must = {}, !.seen = {}, !.dangling = TRUE]
           IN  x \in Walks /\ x.at = bc[b].at /\ x.dangling /\ x # None
    BY <1>1, NoneAssumption DEF InWalk, Walks, NoneAssumption
  <2> QED
    BY <1>1, <2>2, <2>3 DEF InWalk
<1> QED
  BY <1>2, <1>3

\* Steps of Control.
LEMMA RegisterWaits ==
  ASSUME WaitInv, NEW c \in Conns, Register(c), RegistryTyped' PROVE WaitKept'
<1>1. /\ ctl[c] = "new" /\ ctl' = [ctl EXCEPT ![c] = "greet"]
      /\ bc' = WalksAfterInsert(Cardinality(DOMAIN m_clients) + 1 \in RehashAt)
      /\ UNCHANGED <<m_name, channels, inp, out, pend, cur, client, up>>
  BY DEF Register
<1>2. /\ bc' \in [Conns -> Walks \cup {None}]
      /\ \A b \in Conns : /\ InWalk(b)' <=> InWalk(b)
                          /\ InWalk(b) => bc'[b].at = bc[b].at /\ (bc[b].dangling => bc'[b].dangling)
  <2>1. \E rehash \in BOOLEAN : bc' = WalksAfterInsert(rehash)
    <3>1. (Cardinality(DOMAIN m_clients) + 1 \in RehashAt) \in BOOLEAN
      OBVIOUS
    <3> QED
      BY <1>1, <3>1, Zenon
  <2> QED
    BY <2>1, WalksAfter DEF WaitInv, WaitKept, InWalk
<1>3. TypeOK'
  BY <1>1, <1>2 DEF WaitInv, WaitKept, TypeOK, RegistryTyped, channels, client
<1>4. ~InWalk(c) /\ \A d \in Conns \ {c} : ctl'[d] = ctl[d]
  BY <1>1 DEF WaitInv, WaitKept, TypeOK, Filled, CallsNotify
<1>5. Filled'
  BY <1>1, <1>2, <1>4 DEF WaitInv, WaitKept, Filled, CallsNotify
<1>6. AllRight' /\ Parked(parked)'
  BY <1>1, <1>2, <1>4, QueuesStay, Frame DEF channels
<1> QED
  BY <1>3, <1>5, <1>6 DEF WaitKept

LEMMA RegisterThrowsWaits ==
  ASSUME WaitInv, NEW c \in Conns, RegisterThrows(c), RegistryTyped' PROVE WaitKept'
<1>1. /\ ctl[c] = "new" /\ ctl' = [ctl EXCEPT ![c] = "freed"]
      /\ UNCHANGED <<m_clients, m_id, m_name, channels, inp, out, bc, pend, cur, client, up>>
  BY DEF RegisterThrows
<1>2. TypeOK'
  BY <1>1 DEF WaitInv, WaitKept, TypeOK, RegistryTyped, channels, client
<1>3. ~InWalk(c) /\ \A d \in Conns \ {c} : ctl'[d] = ctl[d]
  BY <1>1 DEF WaitInv, WaitKept, TypeOK, Filled, CallsNotify
<1>4. Filled'
  BY <1>1, <1>3 DEF WaitInv, WaitKept, Filled, InWalk, CallsNotify
<1>5. AllRight' /\ Parked(parked)'
  BY <1>1, <1>3, QueuesStay, Frame DEF channels, InWalk
<1> QED
  BY <1>2, <1>4, <1>5 DEF WaitKept

LEMMA UnregisterWaits ==
  ASSUME WaitInv, NEW c \in Conns, Unregister(c), RegistryTyped' PROVE WaitKept'
<1>1. /\ ctl[c] = "serve" /\ ctl' = [ctl EXCEPT ![c] = "farewell"] /\ out[c] # "bcast"
      /\ bc' = WalksAfterErase(c)
      /\ UNCHANGED <<m_next_allocated_client_id, m_id, m_name, channels, inp, out, pend, cur, client, up>>
  BY DEF Unregister, ServingOver
<1>2. /\ bc' \in [Conns -> Walks \cup {None}]
      /\ \A b \in Conns : /\ InWalk(b)' <=> InWalk(b)
                          /\ InWalk(b) => bc'[b].at = bc[b].at /\ (bc[b].dangling => bc'[b].dangling)
  BY <1>1, WalksAfter DEF WaitInv, WaitKept, InWalk
<1>3. TypeOK'
  BY <1>1, <1>2 DEF WaitInv, WaitKept, TypeOK, RegistryTyped, channels, client
<1>4. ~InWalk(c) /\ \A d \in Conns \ {c} : ctl'[d] = ctl[d]
  BY <1>1 DEF WaitInv, WaitKept, TypeOK, Filled, CallsNotify
<1>5. Filled'
  BY <1>1, <1>2, <1>4 DEF WaitInv, WaitKept, Filled, CallsNotify
<1>6. AllRight' /\ Parked(parked)'
  BY <1>1, <1>2, <1>4, QueuesStay, Frame DEF channels
<1> QED
  BY <1>3, <1>5, <1>6 DEF WaitKept

\* A walk that waits in the destroyed channel waits in no other, so the walks
\* that still wait somewhere are not among those that throw.
LEMMA DestroyWaits ==
  ASSUME WaitInv, NEW c \in Conns, Destroy(c) PROVE WaitKept'
<1> DEFINE waiting == {b \in Conns : \E i \in DOMAIN parked[c] : parked[c][i] = Broadcaster(b)}
<1>1. /\ bc' = BcThrown(waiting) /\ ctl' = [CtlThrown(waiting) EXCEPT ![c] = "freed"]
      /\ out' = OutThrown(waiting) /\ ctl[c] = "done"
      /\ parked' = [parked EXCEPT ![c] = <<>>]
      /\ UNCHANGED <<registry, m_name, m_send_requests, is_open, inp, pend, cur, client, up>>
  BY DEF Destroy
<1>2. \A b \in Conns : Waits(Broadcaster(b), c) => b \in waiting
  BY DEF Waits
<1>3. waiting \in SUBSET Conns
  OBVIOUS
<1> HIDE DEF waiting
<1>4. /\ BcThrown(waiting) \in [Conns -> Walks \cup {None}]
      /\ CtlThrown(waiting) \in [Conns -> CtlStates]
      /\ OutThrown(waiting) \in [Conns -> OutStates]
      /\ \A d \in Conns \ waiting : /\ BcThrown(waiting)[d] = bc[d] /\ CtlThrown(waiting)[d] = ctl[d]
                                    /\ OutThrown(waiting)[d] = out[d]
      /\ \A d \in waiting : BcThrown(waiting)[d] = None /\ OutThrown(waiting)[d] \in {out[d], "threw"}
  BY <1>3, ThrownTypes DEF WaitInv, WaitKept
<1>5. ctl' \in [Conns -> CtlStates] /\ \A d \in Conns \ {c} : ctl'[d] = CtlThrown(waiting)[d]
  BY <1>1, <1>4 DEF CtlStates
<1>6. Parked(parked)' /\ \A u \in Conns, r \in Senders : Waits(r, u)' => Waits(r, u) /\ ~Waits(r, c)
  BY <1>1, UnparkAll DEF WaitInv, WaitKept
<1>7. TypeOK'
  BY <1>1, <1>4, <1>5, <1>6 DEF WaitInv, WaitKept, TypeOK, Parked, registry, client
<1>8. ~InWalk(c)
  BY <1>1 DEF WaitInv, WaitKept, Filled, CallsNotify
<1>9. \A d \in Conns : InWalk(d)' => /\ d # c /\ d \notin waiting
                                     /\ InWalk(d) /\ ctl'[d] = ctl[d] /\ out'[d] = out[d] /\ bc'[d] = bc[d]
  BY <1>1, <1>4, <1>5, <1>8 DEF InWalk
<1>10. Filled'
  BY <1>1, <1>4, <1>9 DEF WaitInv, WaitKept, TypeOK, Filled, CallsNotify
<1>11. \A b \in Conns : Suspended(Broadcaster(b))' => b \notin waiting
  <2>1. \A b \in Conns : Broadcaster(b) \in Senders
    BY DEF Broadcaster, Senders
  <2>2. \A b \in waiting : Waits(Broadcaster(b), c)
    BY DEF waiting, Waits
  <2> QED
    BY <1>6, <2>1, <2>2 DEF Suspended, Waits
<1>12. AllRight'
  BY <1>1, <1>4, <1>5, <1>6, <1>8, <1>11, Frame DEF Remains, InWalk
<1> QED
  BY <1>6, <1>7, <1>10, <1>12 DEF WaitKept

\* Steps of Receiving. Only a coroutine at push waits, and no other step than
\* InPush moves it from there.
LEMMA ReadWaits ==
  ASSUME WaitInv, NEW c \in Conns, ReadGetList(c) \/ ReadSetName(c) \/ ReadEof(c) \/ ReadTorn(c)
  PROVE  WaitKept'
<1>1. /\ inp[c] = "read" /\ \E at \in InpStates \ {"off", "read"} : inp' = [inp EXCEPT ![c] = at]
      /\ UNCHANGED <<registry, m_send_requests, parked, ctl, out, bc, cur, peer, got, up>>
      /\ \/ \E p \in Actions : pend' = [pend EXCEPT ![c] = p] /\ p # None
         \/ pend' = pend /\ inp'[c] # "push"
      /\ is_open' = is_open \/ is_open' = [is_open EXCEPT ![c] = FALSE]
      /\ m_name' = m_name \/ m_name' = [m_name EXCEPT ![c] = nread[c] + 1]
      /\ nread' = nread \/ nread' = [nread EXCEPT ![c] = @ + 1]
  <2>1. CASE ReadGetList(c)
    BY <2>1, DescsType, ActionsType, NoneAssumption
       DEF ReadGetList, InReady, Arrived, InpStates, WaitInv, WaitKept, TypeOK, channels, NoneAssumption
  <2>2. CASE ReadSetName(c)
    <3>1. nread[c] + 1 \in Nat
      BY DEF WaitInv, WaitKept, TypeOK
    <3> QED
      BY <2>2, <3>1, ActionsType, NoneAssumption
         DEF ReadSetName, InReady, Arrived, InpStates, WaitInv, WaitKept, TypeOK, channels, NoneAssumption
  <2>3. CASE ReadEof(c)
    BY <2>3 DEF ReadEof, InReady, InpStates, WaitInv, WaitKept, TypeOK, client
  <2>4. CASE ReadTorn(c)
    BY <2>4 DEF ReadTorn, InReady, InpStates, WaitInv, WaitKept, TypeOK, channels, client
  <2> QED
    BY <2>1, <2>2, <2>3, <2>4
<1>2. TypeOK'
  <2>1. /\ inp \in [Conns -> InpStates] /\ pend \in [Conns -> Actions \cup {None}]
        /\ is_open \in [Conns -> BOOLEAN] /\ m_name \in [Conns -> Nat] /\ nread \in [Conns -> Nat]
    BY DEF WaitInv, WaitKept, TypeOK
  <2>2. inp' \in [Conns -> InpStates]
    BY <1>1, <2>1
  <2>3. pend' \in [Conns -> Actions \cup {None}]
    BY <1>1, <2>1
  <2>4. is_open' \in [Conns -> BOOLEAN]
    BY <1>1, <2>1
  <2>5. m_name' \in [Conns -> Nat] /\ nread' \in [Conns -> Nat]
    BY <1>1, <2>1
  <2> QED
    BY <1>1, <2>2, <2>3, <2>4, <2>5 DEF WaitInv, WaitKept, TypeOK, registry
<1>3. Filled'
  BY <1>1 DEF WaitInv, WaitKept, TypeOK, Filled, InWalk, CallsNotify
<1>4. \A d \in Conns : inp[d] = "push" => pend'[d] = pend[d] /\ inp'[d] = inp[d]
  BY <1>1 DEF WaitInv, WaitKept, TypeOK
<1>5. AllRight' /\ Parked(parked)'
  BY <1>1, <1>4, QueuesStay, Frame DEF InWalk
<1> QED
  BY <1>2, <1>3, <1>5 DEF WaitKept

LEMMA PushWaits ==
  ASSUME WaitInv, NEW c \in Conns, InPush(c) PROVE WaitKept'
<1>1. /\ inp[c] = "push" /\ pend[c] # None /\ pend[c] \in Actions /\ ~Suspended(Incoming(c))
      /\ UNCHANGED <<registry, m_name, ctl, out, bc, cur, client, up>>
  BY DEF InPush, WaitInv, WaitKept, Filled, TypeOK
<1>2. Incoming(c) \in Senders
  BY DEF Incoming, Senders
<1>3. /\ m_send_requests' \in [Conns -> Seq(Actions)] /\ UNCHANGED is_open
      /\ Parked(parked)'
      /\ \A u \in Conns, r \in Senders : Waits(r, u)' => Waits(r, u) \/ (r = Incoming(c) /\ u = c)
  BY <1>1, <1>2, SendQueues DEF InPush
<1>4. \/ HasRoom(c) /\ UNCHANGED parked
         /\ pend' = [pend EXCEPT ![c] = None] /\ inp' = [inp EXCEPT ![c] = "read"]
      \/ ~HasRoom(c) /\ UNCHANGED <<pend, inp>>
  BY DEF InPush, AsyncSend, Pushed
<1>5. TypeOK'
  <2>1. inp' \in [Conns -> InpStates] /\ pend' \in [Conns -> Actions \cup {None}]
    BY <1>4 DEF WaitInv, WaitKept, TypeOK, InpStates
  <2> QED
    BY <1>1, <1>3, <2>1 DEF WaitInv, WaitKept, TypeOK, Parked, registry, client
<1>6. Filled'
  BY <1>1, <1>4 DEF WaitInv, WaitKept, TypeOK, Filled, InWalk, CallsNotify
<1>7. \A d \in Conns \ {c} : pend'[d] = pend[d] /\ inp'[d] = inp[d]
  BY <1>4 DEF WaitInv, WaitKept, TypeOK
<1>8. \A u \in Conns, r \in Senders : Waits(r, u)' => Waits(r, u) \/ WaitsRight(r, u)'
  <2>1. CASE HasRoom(c)
    BY <1>4, <2>1 DEF Waits
  <2>2. CASE ~HasRoom(c)
    <3>1. WaitsRight(Incoming(c), c)'
      BY <1>1, <1>4, <2>2 DEF WaitsRight, Incoming
    <3> QED
      BY <1>3, <3>1
  <2> QED
    BY <2>1, <2>2
<1>9. AllRight'
  BY <1>1, <1>7, <1>8, Frame DEF Remains, InWalk
<1> QED
  BY <1>3, <1>5, <1>6, <1>9 DEF WaitKept

\* async_receive: what it gives room to waits no more, and had a value.
LEMMA ReceiveQueues ==
  ASSUME WaitInv, NEW c \in Conns, AsyncReceive(c)
  PROVE  /\ m_send_requests' \in [Conns -> Seq(Actions)] /\ UNCHANGED is_open
         /\ Head(m_send_requests[c]) \in Actions
         /\ Parked(parked)'
         /\ \A u \in Conns, r \in Senders : Waits(r, u)' => Waits(r, u)
         /\ \/ UNCHANGED <<pend, inp>>
            \/ /\ ~Suspended(Incoming(c))' /\ inp[c] = "push"
               /\ pend' = [pend EXCEPT ![c] = None] /\ inp' = [inp EXCEPT ![c] = "read"]
<1>0. m_send_requests \in [Conns -> Seq(Actions)] /\ m_send_requests[c] # <<>> /\ Parked(parked)
  BY DEF AsyncReceive, WaitInv, WaitKept, TypeOK
<1>1. Head(m_send_requests[c]) \in Actions /\ Tail(m_send_requests[c]) \in Seq(Actions)
  BY <1>0
<1>2. CASE parked[c] = <<>>
  <2>1. /\ m_send_requests' = [m_send_requests EXCEPT ![c] = Tail(m_send_requests[c])]
        /\ UNCHANGED <<is_open, parked, pend, inp>>
    BY <1>2 DEF AsyncReceive
  <2>2. m_send_requests' \in [Conns -> Seq(Actions)]
    BY <1>0, <1>1, <2>1
  <2> QED
    BY <1>0, <1>1, <2>1, <2>2 DEF Parked, Waits
<1>3. CASE parked[c] # <<>>
  <2> DEFINE s == Head(parked[c])
  <2>1. /\ m_send_requests' = [m_send_requests EXCEPT ![c] = Append(Tail(m_send_requests[c]), Payload(s))]
        /\ parked' = [parked EXCEPT ![c] = Tail(@)]
        /\ IF s = Incoming(c) THEN Pushed(c) ELSE UNCHANGED <<pend, inp>>
        /\ UNCHANGED is_open
    BY <1>3 DEF AsyncReceive
  <2>2. /\ Parked(parked)' /\ s \in Senders /\ Waits(s, c)
        /\ \A u \in Conns, r \in Senders : Waits(r, u)' => Waits(r, u) /\ r # s
    BY <1>0, <1>3, <2>1, UnparkFirst
  <2>3. Payload(s) \in Actions
    BY <2>2, PayloadType DEF Waits
  <2>4. m_send_requests' \in [Conns -> Seq(Actions)]
    BY <1>0, <1>1, <2>1, <2>3
  <2>5. WaitsRight(s, c)
    BY <2>2 DEF WaitInv, WaitKept, AllRight
  <2>6. s = Incoming(c) => inp[c] = "push"
    BY <2>5 DEF WaitsRight, Incoming
  <2>7. ASSUME s = Incoming(c) PROVE ~Suspended(Incoming(c))'
    <3>1. \A u \in Conns : ~Waits(Incoming(c), u)'
      BY <2>2, <2>7
    <3> QED
      BY <3>1 DEF Suspended, Waits
  <2> HIDE DEF s
  <2> QED
    BY <1>1, <2>1, <2>2, <2>4, <2>6, <2>7 DEF Pushed
<1> QED
  BY <1>2, <1>3

LEMMA TakeWaits == ASSUME WaitInv, NEW c \in Conns, Take(c) PROVE WaitKept'
<1>1. /\ ctl[c] = "serve" /\ out[c] = "recv"
      /\ cur' = [cur EXCEPT ![c] = Head(m_send_requests[c])]
      /\ out' = [out EXCEPT ![c] = "run"]
      /\ UNCHANGED <<registry, m_name, ctl, bc, client, up>>
  BY DEF Take, OutAt
<1>2. /\ m_send_requests' \in [Conns -> Seq(Actions)] /\ UNCHANGED is_open
      /\ Head(m_send_requests[c]) \in Actions
      /\ Parked(parked)'
      /\ \A u \in Conns, r \in Senders : Waits(r, u)' => Waits(r, u)
      /\ \/ UNCHANGED <<pend, inp>>
         \/ /\ ~Suspended(Incoming(c))' /\ inp[c] = "push"
            /\ pend' = [pend EXCEPT ![c] = None] /\ inp' = [inp EXCEPT ![c] = "read"]
  BY ReceiveQueues DEF Take
<1>3. /\ pend' \in [Conns -> Actions \cup {None}] /\ inp' \in [Conns -> InpStates]
      /\ \A d \in Conns \ {c} : pend'[d] = pend[d] /\ inp'[d] = inp[d]
      /\ \/ pend'[c] = pend[c] /\ inp'[c] = inp[c]
         \/ ~Suspended(Incoming(c))' /\ inp'[c] = "read"
  BY <1>2 DEF WaitInv, WaitKept, TypeOK, InpStates
<1>4. /\ cur' \in [Conns -> Actions \cup {None}] /\ out' \in [Conns -> OutStates]
      /\ cur'[c] # None
      /\ \A d \in Conns \ {c} : cur'[d] = cur[d] /\ out'[d] = out[d]
  BY <1>1, <1>2, NoneAssumption DEF WaitInv, WaitKept, TypeOK, OutStates, NoneAssumption
<1>5. TypeOK'
  BY <1>1, <1>2, <1>3, <1>4 DEF WaitInv, WaitKept, TypeOK, Parked, registry, client
<1>6. ~InWalk(c)
  BY <1>1 DEF WaitInv, WaitKept, Filled, CallsNotify
<1>7. Filled'
  BY <1>1, <1>3, <1>4, <1>6 DEF WaitInv, WaitKept, Filled, InWalk, CallsNotify
<1>8. AllRight'
  BY <1>1, <1>2, <1>3, <1>4, <1>6, Frame DEF InWalk, Remains
<1> QED
  BY <1>2, <1>5, <1>7, <1>8 DEF WaitKept

\* The steps of outcoming_messages that leave the queues alone.
LEMMA GotType ==
  ASSUME WaitInv, NEW c \in Conns, NEW field, NEW value,
         \/ field = "id" /\ value \in Ids
         \/ field = "name" /\ value \in Nat
         \/ field = "list" /\ value \in Lists,
         Delivered(c, field, value)
  PROVE  got' \in [Conns -> Views]
<1>1. got \in [Conns -> Views] /\ got[c] \in Views
  BY DEF WaitInv, WaitKept, TypeOK
<1>2. [got[c] EXCEPT ![field] = value] \in Views
  BY <1>1 DEF Views
<1>3. CASE peer[c] = "up"
  BY <1>1, <1>2, <1>3 DEF Delivered
<1>4. CASE peer[c] # "up"
  BY <1>1, <1>4 DEF Delivered
<1> QED
  BY <1>3, <1>4

LEMMA WriteWaits ==
  ASSUME WaitInv, NEW c \in Conns,
         \/ SendId(c) \/ SendName(c) \/ RunList(c) \/ RunName(c) \/ WriteFails(c) \/ LoopExit(c)
  PROVE  WaitKept'
<1>1. /\ ctl[c] = "serve" /\ out[c] # "bcast"
      /\ \E at \in OutStates \ {"off", "run"} : out' = [out EXCEPT ![c] = at]
      /\ UNCHANGED <<registry, m_name, channels, ctl, inp, bc, pend, peer, nread, up>>
      /\ cur' = cur \/ cur' = [cur EXCEPT ![c] = None]
  BY DEF SendId, SendName, RunList, RunName, WriteFails, LoopExit, OutAt, OutStates, client
<1>2. got' \in [Conns -> Views]
  <2>0. WaitKept /\ cur[c] \in Actions \cup {None} /\ (out[c] = "run" => cur[c] # None)
    BY DEF WaitInv, WaitKept, TypeOK, Filled
  <2>1. CASE SendId(c)
    BY <2>1, GotType DEF SendId, WaitInv, WaitKept, TypeOK
  <2>2. CASE SendName(c)
    BY <2>2, GotType DEF SendName, WaitInv, WaitKept, TypeOK
  <2>3. CASE RunList(c)
    <3>1. cur[c].list \in Lists
      BY <2>0, <2>3 DEF RunList, OutAt, Actions
    <3> QED
      BY <2>3, <3>1, GotType DEF RunList
  <2>4. CASE RunName(c)
    <3>1. cur[c].name \in Nat
      BY <2>0, <2>4 DEF RunName, OutAt, Actions
    <3> QED
      BY <2>4, <3>1, GotType DEF RunName
  <2>5. CASE WriteFails(c) \/ LoopExit(c)
    BY <2>0, <2>5 DEF WriteFails, LoopExit, WaitKept, TypeOK, client
  <2> QED
    BY <2>1, <2>2, <2>3, <2>4, <2>5
<1>3. TypeOK'
  <2>1. out \in [Conns -> OutStates] /\ cur \in [Conns -> Actions \cup {None}]
    BY DEF WaitInv, WaitKept, TypeOK
  <2>2. out' \in [Conns -> OutStates] /\ cur' \in [Conns -> Actions \cup {None}]
    BY <1>1, <2>1
  <2> QED
    BY <1>1, <1>2, <2>2 DEF WaitInv, WaitKept, TypeOK, registry, channels
<1>4. ~InWalk(c)
  BY <1>1 DEF WaitInv, WaitKept, Filled, CallsNotify
<1>5. \A d \in Conns \ {c} : out'[d] = out[d] /\ cur'[d] = cur[d]
  BY <1>1 DEF WaitInv, WaitKept, TypeOK
<1>6. out'[c] # "run"
  BY <1>1 DEF WaitInv, WaitKept, TypeOK
<1>7. Filled'
  BY <1>1, <1>4, <1>5, <1>6 DEF WaitInv, WaitKept, Filled, InWalk, CallsNotify
<1>8. AllRight' /\ Parked(parked)'
  BY <1>1, <1>4, <1>5, QueuesStay, Frame DEF InWalk, channels
<1> QED
  BY <1>3, <1>7, <1>8 DEF WaitKept

\* The cancelled walk is taken out of the queue it waits in.
LEMMA CancelWaits == ASSUME WaitInv, NEW c \in Conns, CancelOut(c) PROVE WaitKept'
<1>1. /\ out' = [out EXCEPT ![c] = "cancelled"]
      /\ bc' = [bc EXCEPT ![c] = None]
      /\ cur' = [cur EXCEPT ![c] = None]
      /\ parked' = [t \in Conns |-> Without(parked[t], Broadcaster(c))]
      /\ UNCHANGED <<registry, m_name, m_send_requests, is_open, ctl, inp, pend, client, up>>
  BY DEF CancelOut
<1>2. Parked(parked)' /\ \A u \in Conns, r \in Senders : Waits(r, u)' => Waits(r, u) /\ r # Broadcaster(c)
  BY <1>1, UnparkSender DEF WaitInv, WaitKept
<1>3. TypeOK'
  BY <1>1, <1>2 DEF WaitInv, WaitKept, TypeOK, OutStates, Parked, registry, client
<1>4. /\ bc'[c] = None /\ out'[c] = "cancelled"
      /\ \A d \in Conns \ {c} : out'[d] = out[d] /\ cur'[d] = cur[d] /\ bc'[d] = bc[d]
  BY <1>1 DEF WaitInv, WaitKept, TypeOK
<1>5. Filled'
  BY <1>1, <1>4 DEF WaitInv, WaitKept, Filled, InWalk, CallsNotify
<1>6. Broadcaster(c) \in Senders
  BY DEF Broadcaster, Senders
<1>7. ~Remains(Broadcaster(c))
  BY <1>2, <1>6 DEF Remains, Suspended, Waits
<1>8. AllRight'
  BY <1>1, <1>2, <1>4, <1>7, Frame DEF InWalk
<1> QED
  BY <1>2, <1>3, <1>5, <1>8 DEF WaitKept

LEMMA LeaveWaits == ASSUME WaitInv, NEW c \in Conns, Leave(c) PROVE WaitKept'
<1>1. /\ peer' = [peer EXCEPT ![c] = "gone"]
      /\ UNCHANGED <<registry, m_name, channels, ctl, inp, out, bc, pend, cur, nread, got, up>>
  BY DEF Leave
<1>2. TypeOK' /\ Filled'
  BY <1>1 DEF WaitInv, WaitKept, TypeOK, Filled, InWalk, CallsNotify, registry, channels
<1>3. AllRight' /\ Parked(parked)'
  BY <1>1, QueuesStay, Frame DEF InWalk, channels
<1> QED
  BY <1>2, <1>3 DEF WaitKept

-----------------------------------------------------------------------------
LEMMA WaitStep == WaitInv /\ [Next]_vars => WaitInv'
<1> SUFFICES ASSUME WaitInv, [Next]_vars PROVE WaitInv'
  OBVIOUS
<1>1. LeaseInv' /\ RegistryTyped'
  BY LeaseStep DEF WaitInv, LeaseInv, RegistryInv
<1>2. CASE UNCHANGED vars
  <2>1. UNCHANGED <<registry, m_name, channels, ctl, inp, out, bc, pend, cur, client, up>>
    BY <1>2 DEF vars
  <2>2. TypeOK' /\ Filled'
    BY <2>1 DEF WaitInv, WaitKept, TypeOK, Filled, InWalk, CallsNotify, registry, channels, client
  <2>3. AllRight' /\ Parked(parked)'
    BY <2>1, QueuesStay, Frame DEF InWalk, channels
  <2> QED
    BY <1>1, <2>2, <2>3 DEF WaitInv, WaitKept
<1>3. CASE Next
  <2>1. PICK c \in Conns : \/ Control(c) \/ Notify(c) \/ Receiving(c) \/ Sending(c)
                           \/ NotifyFaults(c) \/ Leave(c)
    BY <1>3 DEF Next
  <2>2. CASE Control(c)
    BY <1>1, <2>2, RegisterWaits, RegisterThrowsWaits, UnregisterWaits, DestroyWaits DEF Control, WaitInv
  <2>3. CASE Notify(c)
    BY <1>1, <2>3, SnapshotWaits, ReturnWaits, SendWaits, ClosedWaits DEF Notify, WaitInv
  <2>4. CASE Receiving(c)
    BY <1>1, <2>4, ReadWaits, PushWaits DEF Receiving, WaitInv
  <2>5. CASE Sending(c)
    BY <1>1, <2>5, TakeWaits, WriteWaits, CancelWaits DEF Sending, WaitInv
  <2>6. CASE NotifyFaults(c) \/ Leave(c)
    BY <1>1, <2>6, FaultsWaits, LeaveWaits DEF WaitInv
  <2> QED
    BY <2>1, <2>2, <2>3, <2>4, <2>5, <2>6
<1> QED
  BY <1>2, <1>3

\* Every variable keeps its type; what a channel receives from a sender that
\* waited is an action, whatever happened to that sender since.
THEOREM TypesHold == Spec => []TypeOK
<1>1. WaitInv => TypeOK
  BY DEF WaitInv, WaitKept
<1> QED
  BY WaitInit, WaitStep, <1>1, PTL DEF Spec

\* A coroutine waits in at most one channel, incoming_messages in its own only,
\* and it still has what it is sending, for any number of connections and any
\* capacity.
THEOREM SendersWaitOnce == Spec => []SendersWait
<1>1. WaitInv => SendersWait
  BY WaitHalves DEF WaitInv
<1> QED
  BY WaitInit, WaitStep, <1>1, PTL DEF Spec

-----------------------------------------------------------------------------
(***************************************************************************)
(* What a client is told first, and who waits for what. A client whose     *)
(* coroutine is past the greeting has been told its id and a name, unless  *)
(* it is gone; its id stays what it was told. A channel in which somebody  *)
(* waits is full, and its connection has been registered and is not freed, *)
(* for only a registered one is walked over.                               *)
(***************************************************************************)
Told == {"recv", "run", "bcast"}

GreetedAt(c) ==
  /\ ctl[c] = "new" => out[c] = "off" /\ got[c].list = None
  /\ peer[c] = "up" /\ out[c] \in Told \cup {"name"} => got[c].id = m_id[c]
  /\ peer[c] = "up" /\ out[c] \in Told => got[c].name # None
  /\ got[c].list # None => got[c].id = m_id[c] /\ got[c].name # None

Greeted == \A c \in Conns : GreetedAt(c)

Reading == \A c \in Conns : inp[c] \in {"read", "push"} => ctl[c] = "serve"
Crowded == \A c \in Conns : parked[c] # <<>> => ~HasRoom(c) /\ ctl[c] \notin {"new", "freed"}

ToldInv == WaitInv /\ Greeted /\ Reading /\ Crowded

LEMMA ToldInit == Init => ToldInv
  BY WaitInit DEF Init, ToldInv, Greeted, GreetedAt, Reading, Crowded, Told

\* The steps that tell the client nothing.
LEMMA GreetedStays ==
  ASSUME Greeted, UNCHANGED <<m_id, got>>,
         \A c \in Conns : peer'[c] = "up" => peer[c] = "up",
         \A c \in Conns : \/ out'[c] = out[c] \/ out'[c] \notin Told \cup {"name"}
                          \/ out[c] \in Told /\ out'[c] \in Told,
         \A c \in Conns : ctl'[c] = "new" => ctl[c] = "new" /\ out'[c] = out[c]
  PROVE  Greeted'
  BY DEF Greeted, GreetedAt

\* The steps that write to it.
LEMMA GreetedOn ==
  ASSUME WaitInv, Greeted, NEW c \in Conns, ctl[c] = "serve",
         NEW f \in {"id", "name", "list"}, NEW v, Delivered(c, f, v),
         NEW at \in {"name", "recv", "bcast"}, out' = [out EXCEPT ![c] = at],
         UNCHANGED <<m_id, ctl, peer>>,
         \/ f = "id" /\ v = m_id[c] /\ at = "name"
         \/ f = "name" /\ v # None /\ (out[c] = "name" \/ out[c] \in Told)
         \/ f = "list" /\ out[c] \in Told /\ at = "recv"
  PROVE  Greeted'
<1>1. got \in [Conns -> Views] /\ got[c] \in Views /\ out \in [Conns -> OutStates]
  BY DEF WaitInv, WaitKept, TypeOK
<1>2. \A d \in Conns \ {c} : GreetedAt(d)'
  BY <1>1 DEF Greeted, GreetedAt, Delivered
<1>3. GreetedAt(c)'
  <2>1. CASE peer[c] = "up"
    <3>1. got'[c] = [got[c] EXCEPT ![f] = v]
      BY <1>1, <2>1 DEF Delivered
    <3>2. /\ f = "id" => got'[c].id = v /\ got'[c].name = got[c].name /\ got'[c].list = got[c].list
          /\ f = "name" => got'[c].name = v /\ got'[c].id = got[c].id /\ got'[c].list = got[c].list
          /\ f = "list" => got'[c].name = got[c].name /\ got'[c].id = got[c].id
      BY <1>1, <3>1 DEF Views
    <3>3. out'[c] = at /\ GreetedAt(c)
      BY <1>1 DEF Greeted
    <3> QED
      BY <2>1, <3>2, <3>3 DEF GreetedAt, Told
  <2>2. CASE peer[c] # "up"
    <3>1. got' = got /\ GreetedAt(c)
      BY <2>2 DEF Greeted, Delivered
    <3> QED
      BY <2>2, <3>1 DEF GreetedAt
  <2> QED
    BY <2>1, <2>2
<1> QED
  BY <1>2, <1>3 DEF Greeted

LEMMA SendingGreets ==
  ASSUME ToldInv, NEW c \in Conns, Sending(c) PROVE Greeted'
<1>0. /\ Greeted /\ WaitInv /\ out \in [Conns -> OutStates] /\ m_id[c] \in Ids /\ m_name[c] \in Nat
      /\ cur[c] \in Actions \cup {None} /\ (out[c] = "run" => cur[c] # None)
  BY DEF ToldInv, WaitInv, WaitKept, TypeOK, Filled
<1>1. \A x \in Nat \cup Ids : x # None
  BY ControlAssumption DEF ControlAssumption, Ids
<1>2. CASE SendId(c)
  <2>1. /\ ctl[c] = "serve" /\ Delivered(c, "id", m_id[c]) /\ out' = [out EXCEPT ![c] = "name"]
        /\ UNCHANGED <<m_id, ctl, peer>>
    BY <1>2 DEF SendId, OutAt, registry
  <2> QED
    BY <1>0, <1>1, <2>1, GreetedOn
<1>3. CASE SendName(c)
  <2>1. /\ ctl[c] = "serve" /\ Delivered(c, "name", m_name[c]) /\ out' = [out EXCEPT ![c] = "recv"]
        /\ UNCHANGED <<m_id, ctl, peer>> /\ out[c] = "name"
    BY <1>3 DEF SendName, OutAt, registry
  <2> QED
    BY <1>0, <1>1, <2>1, GreetedOn
<1>4. CASE RunList(c)
  <2>1. /\ ctl[c] = "serve" /\ Delivered(c, "list", cur[c].list) /\ out' = [out EXCEPT ![c] = "recv"]
        /\ UNCHANGED <<m_id, ctl, peer>> /\ out[c] = "run" /\ out[c] \in Told
    BY <1>4 DEF RunList, OutAt, registry, Told
  <2> QED
    BY <1>0, <2>1, GreetedOn
<1>5. CASE RunName(c)
  <2>1. /\ ctl[c] = "serve" /\ Delivered(c, "name", cur[c].name) /\ out' = [out EXCEPT ![c] = "bcast"]
        /\ UNCHANGED <<m_id, ctl, peer>> /\ out[c] = "run" /\ out[c] \in Told
    BY <1>5 DEF RunName, OutAt, registry, Told
  <2>2. cur[c].name # None
    <3>1. cur[c] \in Actions /\ cur[c].kind = "name"
      BY <1>0, <1>5 DEF RunName, OutAt
    <3>2. cur[c].name \in Nat
      BY <3>1 DEF Actions
    <3> QED
      BY <1>1, <3>2
  <2>3. PICK v : v # None /\ Delivered(c, "name", v)
    BY <2>1, <2>2
  <2>4. ctl[c] = "serve" /\ out[c] \in Told /\ UNCHANGED <<m_id, ctl, peer>>
    BY <2>1
  <2>5. out' = [out EXCEPT ![c] = "bcast"] /\ WaitInv /\ Greeted
    BY <1>0, <2>1
  <2> QED
    BY <2>3, <2>4, <2>5, GreetedOn
<1>6. CASE Take(c) \/ WriteFails(c) \/ LoopExit(c) \/ CancelOut(c)
  <2>1. /\ ctl[c] = "serve" /\ UNCHANGED <<m_id, got, peer, ctl>>
        /\ \/ out[c] = "recv" /\ out' = [out EXCEPT ![c] = "run"]
           \/ \E at \in {"threw", "returned", "cancelled"} : out' = [out EXCEPT ![c] = at]
    BY <1>6 DEF Take, WriteFails, LoopExit, CancelOut, OutAt, registry, client
  <2> QED
    BY <1>0, <2>1, GreetedStays DEF Told
<1> QED
  BY <1>2, <1>3, <1>4, <1>5, <1>6 DEF Sending

\* A walk that returns or throws was called from SetName's action or from
\* process_control_conn, whose coroutines are not past their greeting.
LEMMA NotifyGreets ==
  ASSUME ToldInv, NEW b \in Conns, Notify(b) \/ NotifyFaults(b) PROVE Greeted'
<1>0. /\ Greeted /\ out \in [Conns -> OutStates] /\ ctl \in [Conns -> CtlStates]
      /\ InWalk(b) => CallsNotify(b)
  BY DEF ToldInv, WaitInv, WaitKept, TypeOK, Filled
<1>1. CASE NotifySnapshot(b) \/ NotifyFaults(b) \/ \E t \in Conns : NotifySend(b, t)
  <2>1. UNCHANGED <<m_id, got, peer, ctl, out>>
    BY <1>1 DEF NotifySnapshot, NotifyFaults, NotifySend, registry, client
  <2> QED
    BY <1>0, <2>1, GreetedStays
<1>2. CASE NotifyReturn(b)
  <2>1. /\ UNCHANGED <<m_id, got, peer>>
        /\ \/ ctl[b] = "greet" /\ ctl' = [ctl EXCEPT ![b] = "serve"] /\ out' = [out EXCEPT ![b] = "id"]
           \/ ctl[b] = "farewell" /\ ctl' = [ctl EXCEPT ![b] = "done"] /\ UNCHANGED out
           \/ ctl[b] = "serve" /\ UNCHANGED ctl /\ out' = [out EXCEPT ![b] = "recv"]
    BY <1>2 DEF NotifyReturn, registry, client
  <2>2. ctl[b] = "serve" => out[b] = "bcast"
    BY <1>0, <1>2 DEF NotifyReturn, CanStep, CallsNotify
  <2> QED
    BY <1>0, <2>1, <2>2, GreetedStays DEF Told
<1>3. ASSUME NEW t \in Conns, NotifyClosed(b, t) PROVE Greeted'
  <2>1. /\ UNCHANGED <<m_id, got, peer>> /\ ctl' = CtlThrown({b}) /\ out' = OutThrown({b})
    BY <1>3 DEF NotifyClosed, registry, client
  <2>2. \A d \in Conns : /\ ctl'[d] = "new" => ctl[d] = "new"
                         /\ out'[d] = out[d] \/ (out'[d] = "threw" /\ ctl[d] = "serve")
    BY <1>0, <2>1 DEF CtlThrown, OutThrown
  <2> QED
    BY <1>0, <2>1, <2>2, GreetedStays DEF Told, CtlThrown
<1> QED
  BY <1>1, <1>2, <1>3 DEF Notify

\* A newcomer has been told nothing, so its id may still be assigned.
LEMMA ControlGreets ==
  ASSUME ToldInv, NEW c \in Conns, Control(c) PROVE Greeted'
<1>0. /\ Greeted /\ out \in [Conns -> OutStates] /\ ctl \in [Conns -> CtlStates]
      /\ m_id \in [Conns -> Ids]
  BY DEF ToldInv, WaitInv, WaitKept, TypeOK
<1>1. CASE Register(c)
  <2>1. /\ ctl[c] = "new" /\ ctl' = [ctl EXCEPT ![c] = "greet"] /\ UNCHANGED <<out, peer, got>>
        /\ \E id \in Ids : m_id' = [m_id EXCEPT ![c] = id]
    BY <1>1 DEF Register, client
  <2>2. \A d \in Conns \ {c} : m_id'[d] = m_id[d] /\ ctl'[d] = ctl[d]
    BY <1>0, <2>1
  <2>3. ctl'[c] = "greet" /\ out[c] = "off" /\ got[c].list = None
    BY <1>0, <2>1 DEF Greeted, GreetedAt
  <2> QED
    BY <1>0, <2>1, <2>2, <2>3 DEF Greeted, GreetedAt, Told
<1>2. CASE RegisterThrows(c) \/ Unregister(c)
  <2>1. /\ UNCHANGED <<m_id, out, peer, got>>
        /\ \E at \in {"freed", "farewell"} : ctl' = [ctl EXCEPT ![c] = at]
    BY <1>2 DEF RegisterThrows, Unregister, client
  <2> QED
    BY <1>0, <2>1, GreetedStays
<1>3. CASE Destroy(c)
  <2> DEFINE waiting == {b \in Conns : \E i \in DOMAIN parked[c] : parked[c][i] = Broadcaster(b)}
  <2>1. /\ UNCHANGED <<m_id, peer, got>> /\ out' = OutThrown(waiting)
        /\ ctl' = [CtlThrown(waiting) EXCEPT ![c] = "freed"]
    BY <1>3 DEF Destroy, registry, client
  <2> HIDE DEF waiting
  <2>2. \A d \in Conns : /\ ctl'[d] = "new" => ctl[d] = "new"
                         /\ out'[d] = out[d] \/ (out'[d] = "threw" /\ ctl[d] = "serve")
    BY <1>0, <2>1 DEF CtlThrown, OutThrown
  <2>3. \A d \in Conns : ctl'[d] = "new" => out'[d] = out[d]
    BY <2>2
  <2> QED
    BY <1>0, <2>1, <2>2, <2>3, GreetedStays DEF Told
<1> QED
  BY <1>1, <1>2, <1>3 DEF Control

LEMMA OthersGreet ==
  ASSUME ToldInv, NEW c \in Conns, Receiving(c) \/ Leave(c) PROVE Greeted'
<1>1. /\ UNCHANGED <<m_id, out, got, ctl>> /\ \A d \in Conns : peer'[d] = "up" => peer[d] = "up"
  BY DEF Receiving, ReadGetList, ReadSetName, InPush, ReadEof, ReadTorn, Leave, Arrived, registry,
         client, ToldInv, WaitInv, WaitKept, TypeOK
<1> QED
  BY <1>1, GreetedStays DEF ToldInv

\* Only a connection that serves reads on, or sends what it has read.
LEMMA ReadingStep ==
  ASSUME ToldInv, NEW c \in Conns,
         \/ Control(c) \/ Notify(c) \/ Receiving(c) \/ Sending(c) \/ NotifyFaults(c) \/ Leave(c)
  PROVE  Reading'
<1>0. /\ Reading /\ ctl \in [Conns -> CtlStates] /\ inp \in [Conns -> InpStates]
      /\ \A d \in Conns : ctl[d] \in {"new", "greet", "aborted"} => inp[d] = "off"
      /\ \A d \in Conns : InWalk(d) => CallsNotify(d)
  BY DEF ToldInv, WaitInv, WaitKept, TypeOK, LeaseInv, Started, Filled
<1>1. CASE Receiving(c) \/ Sending(c)
  <2>1. /\ UNCHANGED ctl
        /\ inp' = inp \/ (ctl[c] = "serve" /\ \E at \in InpStates \ {"off"} : inp' = [inp EXCEPT ![c] = at])
    BY <1>1, ServingStarted DEF ToldInv, WaitInv
  <2> QED
    BY <1>0, <2>1 DEF Reading
<1>2. CASE Register(c) \/ RegisterThrows(c)
  <2>1. /\ ctl[c] = "new" /\ UNCHANGED inp
        /\ \E at \in {"greet", "freed"} : ctl' = [ctl EXCEPT ![c] = at]
    BY <1>2 DEF Register, RegisterThrows
  <2> QED
    BY <1>0, <2>1 DEF Reading
<1>3. CASE Unregister(c)
  <2>1. /\ inp[c] \in {"returned", "threw"} /\ UNCHANGED inp /\ ctl' = [ctl EXCEPT ![c] = "farewell"]
    BY <1>3 DEF Unregister, ServingOver
  <2> QED
    BY <1>0, <2>1 DEF Reading
<1>4. ASSUME NEW B \in SUBSET Conns, UNCHANGED inp, \A d \in Conns : ctl'[d] # CtlThrown(B)[d] => ctl[d] = "done"
      PROVE  Reading'
  <2>1. \A d \in Conns : ctl[d] = "serve" => CtlThrown(B)[d] = "serve"
    BY <1>0 DEF CtlThrown
  <2> QED
    BY <1>0, <1>4, <2>1 DEF Reading
<1>5. CASE Destroy(c)
  <2> DEFINE waiting == {b \in Conns : \E i \in DOMAIN parked[c] : parked[c][i] = Broadcaster(b)}
  <2>1. UNCHANGED inp /\ ctl' = [CtlThrown(waiting) EXCEPT ![c] = "freed"] /\ ctl[c] = "done"
    BY <1>5 DEF Destroy
  <2>2. waiting \in SUBSET Conns
    OBVIOUS
  <2> HIDE DEF waiting
  <2>3. \A d \in Conns \ {c} : ctl'[d] = CtlThrown(waiting)[d]
    BY <2>1 DEF CtlThrown
  <2> QED
    BY <1>4, <2>1, <2>2, <2>3
<1>6. CASE Notify(c)
  <2>1. CASE NotifySnapshot(c) \/ \E t \in Conns : NotifySend(c, t)
    BY <1>0, <2>1 DEF NotifySnapshot, NotifySend, Reading
  <2>2. CASE NotifyReturn(c)
    BY <1>0, <2>2 DEF NotifyReturn, Reading
  <2>3. ASSUME NEW t \in Conns, NotifyClosed(c, t) PROVE Reading'
    BY <1>4, <2>3 DEF NotifyClosed
  <2> QED
    BY <1>6, <2>1, <2>2, <2>3 DEF Notify
<1>7. CASE NotifyFaults(c) \/ Leave(c)
  BY <1>0, <1>7 DEF NotifyFaults, Leave, Reading
<1> QED
  BY <1>1, <1>2, <1>3, <1>5, <1>6, <1>7 DEF Control

\* A sender that has to wait finds the channel full; the receiver gives the room
\* it makes to the first that waits.
LEMMA CrowdedStays ==
  ASSUME Crowded, UNCHANGED m_send_requests,
         \A t \in Conns : parked'[t] # <<>> => parked[t] # <<>>,
         \A t \in Conns : ctl[t] \notin {"new", "freed", "done"} => ctl'[t] \notin {"new", "freed"},
         \A t \in Conns : ctl[t] = "done" => parked'[t] = <<>> \/ ctl'[t] = "done"
  PROVE  Crowded'
  BY DEF Crowded, HasRoom

LEMMA CrowdedSend ==
  ASSUME WaitInv, Crowded, NEW t \in Conns, NEW s, NEW action, AsyncSend(t, s, action),
         ctl[t] \notin {"new", "freed"}, UNCHANGED ctl
  PROVE  Crowded'
<1>0. /\ m_send_requests \in [Conns -> Seq(Actions)] /\ parked \in [Conns -> Seq(Senders)]
      /\ SendCap \in Nat
  BY ControlAssumption DEF WaitInv, WaitKept, TypeOK, ControlAssumption
<1>1. CASE HasRoom(t)
  <2>1. m_send_requests' = [m_send_requests EXCEPT ![t] = Append(@, action)] /\ UNCHANGED parked
    BY <1>1 DEF AsyncSend
  <2>2. parked[t] = <<>>
    BY <1>1 DEF Crowded
  <2> QED
    BY <1>0, <2>1, <2>2 DEF Crowded, HasRoom
<1>2. CASE ~HasRoom(t)
  <2>1. parked' = [parked EXCEPT ![t] = Append(@, s)] /\ UNCHANGED m_send_requests
    BY <1>2 DEF AsyncSend
  <2> QED
    BY <1>0, <1>2, <2>1 DEF Crowded, HasRoom
<1> QED
  BY <1>1, <1>2

LEMMA CrowdedReceive ==
  ASSUME WaitInv, Crowded, NEW t \in Conns, AsyncReceive(t), UNCHANGED ctl
  PROVE  Crowded'
<1>0. /\ m_send_requests \in [Conns -> Seq(Actions)] /\ parked \in [Conns -> Seq(Senders)]
      /\ m_send_requests[t] # <<>>
  BY DEF WaitInv, WaitKept, TypeOK, AsyncReceive
<1>1. CASE parked[t] = <<>>
  <2>1. m_send_requests' = [m_send_requests EXCEPT ![t] = Tail(@)] /\ UNCHANGED parked
    BY <1>1 DEF AsyncReceive
  <2> QED
    BY <1>0, <1>1, <2>1 DEF Crowded, HasRoom
<1>2. CASE parked[t] # <<>>
  <2> DEFINE p == Payload(Head(parked[t]))
  <2>1. /\ m_send_requests' = [m_send_requests EXCEPT ![t] = Append(Tail(@), p)]
        /\ parked' = [parked EXCEPT ![t] = Tail(@)]
    BY <1>2 DEF AsyncReceive
  <2> HIDE DEF p
  <2>2. Len(m_send_requests'[t]) = Len(m_send_requests[t])
    BY <1>0, <2>1
  <2>3. \A u \in Conns \ {t} : m_send_requests'[u] = m_send_requests[u] /\ parked'[u] = parked[u]
    BY <1>0, <2>1
  <2> QED
    BY <1>2, <2>2, <2>3 DEF Crowded, HasRoom
<1> QED
  BY <1>1, <1>2

\* Whoever is visited is registered, and so has an owner that is not freed.
LEMMA VisitedOwns ==
  ASSUME ToldInv, NEW b \in Conns, NEW t \in Ahead(b)
  PROVE  t \in Conns /\ ctl[t] \notin {"new", "freed"}
<1>1. t \in Registered
  BY DEF Ahead
<1>2. PICK i \in DOMAIN m_clients : t = m_clients[i]
  BY <1>1 DEF Registered
<1> QED
  BY <1>2 DEF ToldInv, WaitInv, LeaseInv, RegistryInv, RegistryTyped, RegistryOwned, Owner

LEMMA CrowdedStep ==
  ASSUME ToldInv, NEW c \in Conns,
         \/ Control(c) \/ Notify(c) \/ Receiving(c) \/ Sending(c) \/ NotifyFaults(c) \/ Leave(c)
  PROVE  Crowded'
<1>0. /\ Crowded /\ WaitInv /\ ctl \in [Conns -> CtlStates] /\ parked \in [Conns -> Seq(Senders)]
  BY DEF ToldInv, WaitInv, WaitKept, TypeOK
<1>1. CASE Register(c) \/ RegisterThrows(c) \/ Unregister(c)
  <2>1. /\ UNCHANGED <<m_send_requests, parked>>
        /\ \/ ctl[c] = "new" /\ ctl' = [ctl EXCEPT ![c] = "greet"]
           \/ ctl[c] = "new" /\ ctl' = [ctl EXCEPT ![c] = "freed"]
           \/ ctl[c] = "serve" /\ ctl' = [ctl EXCEPT ![c] = "farewell"]
    BY <1>1 DEF Register, RegisterThrows, Unregister, channels
  <2> QED
    BY <1>0, <2>1, CrowdedStays
<1>2. CASE Destroy(c)
  <2> DEFINE waiting == {b \in Conns : \E i \in DOMAIN parked[c] : parked[c][i] = Broadcaster(b)}
  <2>1. /\ UNCHANGED m_send_requests /\ parked' = [parked EXCEPT ![c] = <<>>]
        /\ ctl' = [CtlThrown(waiting) EXCEPT ![c] = "freed"] /\ ctl[c] = "done"
    BY <1>2 DEF Destroy
  <2> HIDE DEF waiting
  <2>2. \A d \in Conns \ {c} : /\ ctl'[d] = CtlThrown(waiting)[d] /\ parked'[d] = parked[d]
                               /\ CtlThrown(waiting)[d] \in {ctl[d], "aborted", "done"}
    BY <1>0, <2>1 DEF CtlThrown
  <2>3. parked'[c] = <<>>
    BY <1>0, <2>1
  <2>4. \A d \in Conns \ {c} : ctl[d] = "done" => ctl'[d] = "done"
    BY <2>2 DEF CtlThrown
  <2> QED
    BY <1>0, <2>1, <2>2, <2>3, <2>4, CrowdedStays
<1>3. CASE NotifySnapshot(c) \/ NotifyReturn(c) \/ NotifyFaults(c)
  <2>1. /\ UNCHANGED <<m_send_requests, parked>>
        /\ \/ ctl' = ctl
           \/ ctl[c] = "greet" /\ ctl' = [ctl EXCEPT ![c] = "serve"]
           \/ ctl[c] = "farewell" /\ ctl' = [ctl EXCEPT ![c] = "done"]
    BY <1>3 DEF NotifySnapshot, NotifyReturn, NotifyFaults, channels
  <2> QED
    BY <1>0, <2>1, CrowdedStays
<1>4. ASSUME NEW t \in Conns, NotifySend(c, t) PROVE Crowded'
  <2>1. ctl[t] \notin {"new", "freed"}
    BY <1>4, VisitedOwns DEF NotifySend
  <2> QED
    BY <1>0, <1>4, <2>1, CrowdedSend DEF NotifySend
<1>5. ASSUME NEW t \in Conns, NotifyClosed(c, t) PROVE Crowded'
  <2>1. UNCHANGED <<m_send_requests, parked>> /\ ctl' = CtlThrown({c})
    BY <1>5 DEF NotifyClosed, channels
  <2>2. \A d \in Conns : ctl'[d] \in {ctl[d], "aborted", "done"} /\ (ctl[d] = "done" => ctl'[d] = "done")
    BY <1>0, <2>1 DEF CtlThrown
  <2> QED
    BY <1>0, <2>1, <2>2, CrowdedStays
<1>6. CASE InPush(c)
  BY <1>0, <1>6, CrowdedSend DEF InPush
<1>7. CASE Take(c)
  BY <1>0, <1>7, CrowdedReceive DEF Take
<1>8. CASE CancelOut(c)
  <2>1. /\ UNCHANGED <<m_send_requests, ctl>>
        /\ parked' = [t \in Conns |-> Without(parked[t], Broadcaster(c))]
    BY <1>8 DEF CancelOut
  <2>2. \A t \in Conns : parked[t] = <<>> => parked'[t] = <<>>
    <3>1. DOMAIN <<>> = {}
      OBVIOUS
    <3> QED
      BY <2>1, <3>1, Zenon DEF Without
  <2> QED
    BY <1>0, <2>1, <2>2, CrowdedStays
<1>9. CASE \/ ReadGetList(c) \/ ReadSetName(c) \/ ReadEof(c) \/ ReadTorn(c) \/ Leave(c)
           \/ SendId(c) \/ SendName(c) \/ RunList(c) \/ RunName(c) \/ WriteFails(c) \/ LoopExit(c)
  <2>1. UNCHANGED <<m_send_requests, parked, ctl>>
    BY <1>9 DEF ReadGetList, ReadSetName, ReadEof, ReadTorn, Leave, SendId, SendName, RunList, RunName,
                WriteFails, LoopExit, channels
  <2> QED
    BY <1>0, <2>1, CrowdedStays
<1> QED
  BY <1>1, <1>2, <1>3, <1>4, <1>5, <1>6, <1>7, <1>8, <1>9 DEF Control, Notify, Receiving, Sending

LEMMA ToldStep == ToldInv /\ [Next]_vars => ToldInv'
<1> SUFFICES ASSUME ToldInv, [Next]_vars PROVE ToldInv'
  OBVIOUS
<1>1. WaitInv'
  BY WaitStep DEF ToldInv
<1>2. CASE UNCHANGED vars
  BY <1>1, <1>2 DEF ToldInv, vars, registry, channels, client, Greeted, GreetedAt, Reading, Crowded, HasRoom
<1>3. CASE Next
  <2>1. PICK c \in Conns : \/ Control(c) \/ Notify(c) \/ Receiving(c) \/ Sending(c)
                           \/ NotifyFaults(c) \/ Leave(c)
    BY <1>3 DEF Next
  <2>2. Greeted'
    BY <2>1, ControlGreets, NotifyGreets, SendingGreets, OthersGreet
  <2> QED
    BY <1>1, <2>1, <2>2, ReadingStep, CrowdedStep DEF ToldInv
<1> QED
  BY <1>2, <1>3

\* A client has its id and a name before the first list reaches it
\* (ClientCtrl::outcoming_messages writes both before it takes an action),
\* although lists are queued for it from the moment it is registered.
THEOREM HelloIsFirst == Spec => []HelloBeforeLists
<1>1. ToldInv => HelloBeforeLists
  BY DEF ToldInv, Greeted, GreetedAt, HelloBeforeLists
<1> QED
  BY ToldInit, ToldStep, <1>1, PTL DEF Spec

\* Nobody waits in a channel that has room or was destroyed with its
\* ClientCtrl, and the coroutines of a connection that is over are over.
THEOREM NobodyIsForgotten == Spec => []NobodyForgotten
<1>1. ToldInv => NobodyForgotten
  <2> SUFFICES ASSUME ToldInv, NEW c \in Conns
               PROVE  /\ parked[c] # <<>> => ~HasRoom(c)
                      /\ ctl[c] \in {"done", "freed"} => ~InWalk(c) /\ inp[c] \notin {"read", "push"}
                      /\ ctl[c] = "freed" => parked[c] = <<>>
    BY DEF NobodyForgotten
  <2>1. InWalk(c) => CallsNotify(c)
    BY DEF ToldInv, WaitInv, WaitKept, Filled
  <2> QED
    BY <2>1 DEF ToldInv, CallsNotify, Reading, Crowded
<1> QED
  BY ToldInit, ToldStep, <1>1, PTL DEF Spec
==============================================================================
