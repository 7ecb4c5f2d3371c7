---------------------------- MODULE MCEmailDesk ----------------------------
(* Finite instances of EmailDesk: two copies of a mail that answers one of *)
(* the desk, and gets a task when it arrives before that one is known.     *)
EXTENDS EmailDesk, TLC

CONSTANTS c1, c2, m1

TwoCopies == (c1 :> m1) @@ (c2 :> m1)
AnswersOurs == m1 :> Ours
OpensTask == m1 :> "open"

=============================================================================
