------------------------------- MODULE MCMesh -------------------------------
(* Mesh on two small networks. *)
EXTENDS Mesh, TLC

CONSTANTS n1, n2, n3, n4, n5

\* The first network of RHRouter's RH_TEST_NETWORK: 1-2-3-4.
LineNode == {n1, n2, n3, n4}
LineLink == (n1 :> {n2}) @@ (n2 :> {n1, n3}) @@ (n3 :> {n2, n4}) @@ (n4 :> {n3})
LineCalls == (n1 :> 1) @@ (n2 :> 0) @@ (n3 :> 0) @@ (n4 :> 1)

\* The second one, with a node behind it:
\* 1-2-4-5
\* | | |
\* --3--
MeshNode == {n1, n2, n3, n4, n5}
MeshLink == (n1 :> {n2, n3}) @@ (n2 :> {n1, n3, n4}) @@ (n3 :> {n1, n2, n4})
              @@ (n4 :> {n2, n3, n5}) @@ (n5 :> {n4})
MeshCalls == [n \in MeshNode |-> IF n = n1 THEN 1 ELSE 0]
=============================================================================
