-------------------------- MODULE MCRestoreSwitch --------------------------
(***************************************************************************)
(* Instances of RestoreSwitch for TLC.  MCKind is a directory, the         *)
(* write-ahead log of the database, and the database, in the order of the  *)
(* marker; MCJournalKind leaves out the directory.                         *)
(***************************************************************************)
EXTENDS RestoreSwitch

MCKind == <<"replace", "remove", "replace">>
MCJournalKind == <<"remove", "replace">>

=============================================================================
