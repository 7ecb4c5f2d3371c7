--------------------------- MODULE MCVehicleSales ---------------------------
(* Finite instances of VehicleSales.                                       *)
EXTENDS VehicleSales, TLC

MCDefault == [x \in Vehicles |-> "candidate"]

Alike == Permutations(Vehicles) \cup Permutations(Lots)

=============================================================================
