------------------------------ MODULE MailSpec ------------------------------
(***************************************************************************)
(* What the mail desk promises its provider, which repeats, reorders and   *)
(* overlaps its calls until they are answered: a mail is stored once,      *)
(* whatever the number of its copies, and a report counts once, and only   *)
(* about a mail that was sent.                                             *)
(***************************************************************************)
EXTENDS Naturals, Sequences

CONSTANTS
  Mails,  \* that may come in
  Kinds   \* of reports about sent ones

VARIABLES
  stored,   \* mail -> how often it is in the inbox
  sent,     \* number of the mails sent; each is numbered in turn
  reported  \* the reports that were counted, in their order

Init == stored = [m \in Mails |-> 0] /\ sent = 0 /\ reported = <<>>

Store(m) ==
  /\ stored[m] = 0
  /\ stored' = [stored EXCEPT ![m] = 1]
  /\ UNCHANGED <<sent, reported>>

Send == sent' = sent + 1 /\ UNCHANGED <<stored, reported>>

IsNew(report) == \A i \in DOMAIN reported : reported[i] # report

Report(mail, kind) ==
  /\ IsNew(<<mail, kind>>)
  /\ reported' = Append(reported, <<mail, kind>>)
  /\ UNCHANGED <<stored, sent>>

Next ==
  \/ \E m \in Mails : Store(m)
  \/ Send
  \/ \E mail \in 1 .. sent, kind \in Kinds : Report(mail, kind)

Spec == Init /\ [][Next]_<<stored, sent, reported>>

=============================================================================
