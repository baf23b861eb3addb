--------------------------- MODULE RestoreAtomic ---------------------------
(***************************************************************************)
(* What a restore promises to the people who use the site: the data they   *)
(* see is one whole generation, the one before the restore ("old") or the  *)
(* restored one ("new"), and it changes only across a restart.             *)
(*                                                                         *)
(* The specification says nothing of files, markers or rollbacks.  It is   *)
(* implemented by RestoreSwitch.                                           *)
(***************************************************************************)
VARIABLES
  up,      \* the server is answering requests
  data,    \* the generation it answered from last
  choice   \* the generations the next start may answer from

vars == <<up, data, choice>>

Generations == {"old", "new"}

Init ==
  /\ up = TRUE
  /\ data = "old"
  /\ choice = {"old"}

\* An administrator asks for a restore: from here both outcomes are possible.
Request ==
  /\ up
  /\ choice = {data}
  /\ choice' = Generations
  /\ UNCHANGED <<up, data>>

\* The outcome of the restore is settled, for good or until the next request.
Resolve ==
  /\ choice = Generations
  /\ \E g \in Generations : choice' = {g}
  /\ UNCHANGED <<up, data>>

Stop ==
  /\ up
  /\ up' = FALSE
  /\ UNCHANGED <<data, choice>>

Start ==
  /\ ~up
  /\ up' = TRUE
  /\ data' \in choice
  /\ UNCHANGED choice

Next == Request \/ Resolve \/ Stop \/ Start

Spec == Init /\ [][Next]_vars

=============================================================================
