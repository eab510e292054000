--------------------------- MODULE MCClientControl ---------------------------
(***************************************************************************)
(* Small values for ClientControl: a client whose host has a name.         *)
(***************************************************************************)
EXTENDS ClientControl

MCHostname == <<"host">>
=============================================================================
