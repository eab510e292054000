----------------------------- MODULE RemoteFiles -----------------------------
(***************************************************************************)
(* What a pane promises over the files of another client, without any      *)
(* connection: requests are served one at a time in the order in which     *)
(* they were made, each once and on the files as the earlier ones left     *)
(* them, and the answers are shown in that order.                          *)
(*                                                                         *)
(* `Outcomes(r, t)` is the set of <<answer, files afterwards>> allowed for *)
(* request r on files t.                                                   *)
(***************************************************************************)
EXTENDS Sequences, Naturals

CONSTANTS First,     \* the request a pane makes when it connects
          Menu,      \* the requests it may make later
          Start,     \* the files at the start
          Outcomes(_, _)

VARIABLES asked, answers, shown, files

promise == <<asked, answers, shown, files>>

Init == asked = <<First>> /\ answers = <<>> /\ shown = <<>> /\ files = Start

Ask == /\ \E r \in Menu : asked' = Append(asked, r)
       /\ UNCHANGED <<answers, shown, files>>

Serve == /\ Len(answers) < Len(asked)
         /\ \E o \in Outcomes(asked[Len(answers) + 1], files) :
              answers' = Append(answers, o[1]) /\ files' = o[2]
         /\ UNCHANGED <<asked, shown>>

Show == /\ Len(shown) < Len(answers)
        /\ shown' = Append(shown, answers[Len(shown) + 1])
        /\ UNCHANGED <<asked, answers, files>>

Spec == Init /\ [][Ask \/ Serve \/ Show]_promise
=============================================================================
