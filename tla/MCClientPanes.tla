----------------------------- MODULE MCClientPanes -----------------------------
(***************************************************************************)
(* Small instances of ClientPanes. Two requests to connect are enough for  *)
(* a session in each pane and for a second one in the pane of the first.   *)
(***************************************************************************)
EXTENDS ClientPanes
=============================================================================
