-------------------------- MODULE StockLedgerSpec --------------------------
(***************************************************************************)
(* What the stock ledger promises to the rest of the hub, whatever the     *)
(* interleaving of the requests that write it: movements are only ever     *)
(* appended, a whole request at a time; a movement is reversed at most     *)
(* once and a reversal never; and a business event of one of the types in  *)
(* OnceTypes (a keyed receipt, a workshop need, an inventory session, a    *)
(* discrepancy) is booked by one request only, once per article.           *)
(***************************************************************************)
EXTENDS Naturals, Sequences

CONSTANT OnceTypes   \* source types whose events are booked at most once

VARIABLE movements   \* the ledger: the committed rows of stock_movements

Init == movements = <<>>

(* A movement that `batch` adds may reverse only a posting committed       *)
(* before, and only if nothing else reversed it.                           *)
LegalReversals(log, batch) ==
  \A i \in DOMAIN batch :
    batch[i].type = "reversal" =>
      /\ batch[i].reverses \in DOMAIN log
      /\ log[batch[i].reverses].type # "reversal"
      /\ \A j \in DOMAIN log : log[j].type = "reversal" => log[j].reverses # batch[i].reverses
      /\ \A j \in DOMAIN batch \ {i} :
           batch[j].type = "reversal" => batch[j].reverses # batch[i].reverses

(* An event already in `log` is not booked again, and `batch` itself       *)
(* books it at most once per article.                                      *)
FreshSources(log, batch) ==
  \A i \in DOMAIN batch :
    batch[i].source.type \in OnceTypes =>
      /\ \A j \in DOMAIN log : log[j].source # batch[i].source
      /\ \A j \in DOMAIN batch \ {i} :
           batch[j].source = batch[i].source => batch[j].article # batch[i].article

Book(batch) ==
  /\ LegalReversals(movements, batch)
  /\ FreshSources(movements, batch)
  /\ movements' = movements \o batch

Next == Book(SubSeq(movements', Len(movements) + 1, Len(movements')))

Spec == Init /\ [][Next]_movements

=============================================================================
