------------------------- MODULE MCReliableDatagram -------------------------
(* Instances of ReliableDatagram for TLC.                                  *)
EXTENDS ReliableDatagram, TLC

\* Nodes are interchangeable: no step compares addresses except for equality.
NodeSymmetry == Permutations(Node)
=============================================================================
