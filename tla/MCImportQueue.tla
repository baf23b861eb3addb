--------------------------- MODULE MCImportQueue ---------------------------
(* Two jobs that ask for the same name; one suffixed name is free, one taken. *)
EXTENDS ImportQueue

CONSTANTS plain, free, taken

AllNames == {plain, free, taken}
TakenNames == {taken}
SameTitle == [j \in Jobs |-> plain]
=============================================================================
