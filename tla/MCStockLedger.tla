--------------------------- MODULE MCStockLedger ---------------------------
(***************************************************************************)
(* Small instances of StockLedger for TLC.                                 *)
(***************************************************************************)
EXTENDS StockLedger, TLC

Main == CHOOSE l \in Locations : TRUE

NoLines == <<>>
NoNeeds == <<>>

(* One order of two lines, for two articles, at one location.              *)
TwoLines ==
  <<[order |-> 1, article |-> 1, location |-> Main, ordered |-> 1],
    [order |-> 1, article |-> 2, location |-> Main, ordered |-> 1]>>

OneLine == <<[order |-> 1, article |-> 1, location |-> Main, ordered |-> 1]>>

(* One request of two needs, and a direct usage that awaits its exit.      *)
TwoNeeds ==
  <<[request |-> 1, quantity |-> 1, direct |-> FALSE],
    [request |-> 1, quantity |-> 1, direct |-> TRUE]>>

OneNeed == <<[request |-> 1, quantity |-> 1, direct |-> FALSE]>>

=============================================================================
