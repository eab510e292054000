----------------------------- MODULE MCRendezvous -----------------------------
(***************************************************************************)
(* Small instances of Rendezvous: two clients host and reader, a third one *)
(* watch that asks for copies, and requests among them.                    *)
(***************************************************************************)
EXTENDS Rendezvous, TLC

CONSTANTS host, reader, watch, b1, b2, c1, c2

\* b1 and b2 browse in opposite directions; c1 and c2 copy between the same
\* two clients, c2 asked for by its own destination.
MCKind == [r \in Requests |-> IF r \in {b1, b2} THEN "browser" ELSE "copy"]
MCClient ==
  [r \in Requests |-> [first  |-> IF r = b2 THEN reader ELSE host,
                       second |-> IF r = b2 THEN host ELSE reader]]
MCAsker ==
  [r \in Requests |-> CASE r = b2 -> host [] r = c1 -> watch [] OTHER -> reader]
=============================================================================
