------------------------- MODULE MCRoutingTableAge -------------------------
(* Instances of RoutingTableAge for TLC.                                   *)
EXTENDS RoutingTableAge, TLC

AddrSymmetry == Permutations(Addr)
=============================================================================
