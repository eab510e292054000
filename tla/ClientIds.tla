------------------------------ MODULE ClientIds ------------------------------
(***************************************************************************)
(* What the registry of Control connections promises: an id is held by at  *)
(* most one connection at a time, from its assignment in                   *)
(* Server::process_control_conn to its erasure there (src/src/server.cpp). *)
(* A connection holds one id for its whole life and never another.         *)
(***************************************************************************)
CONSTANTS Conns, Ids, None

VARIABLES
  held,   \* the id a connection holds, or None
  served  \* the connections that have been given an id

vars == <<held, served>>

Init == held = [c \in Conns |-> None] /\ served = {}

Acquire(c, i) ==
  /\ c \notin served /\ \A d \in Conns : held[d] # i
  /\ held' = [held EXCEPT ![c] = i]
  /\ served' = served \cup {c}

Release(c) ==
  /\ held[c] # None
  /\ held' = [held EXCEPT ![c] = None]
  /\ UNCHANGED served

Next == \E c \in Conns : Release(c) \/ \E i \in Ids : Acquire(c, i)

Spec == Init /\ [][Next]_vars
=============================================================================
