---------------------------- MODULE MCTaskDesk ----------------------------
(* Finite instances of TaskDesk.                                           *)
EXTENDS TaskDesk, TLC

=============================================================================
