--------------------------- MODULE MCServerControl ---------------------------
(***************************************************************************)
(* Small instances of ServerControl.                                       *)
(***************************************************************************)
EXTENDS ServerControl

MixedScript == [c \in Conns |-> IF c = CHOOSE d \in Conns : TRUE
                                THEN <<"GetClientsList", "SetName">> ELSE <<"SetName">>]
NameScript == [c \in Conns |-> <<"SetName">>]
QuietScript == [c \in Conns |-> <<>>]
=============================================================================
