--------------------------- MODULE MCClusterLock ----------------------------
(* An instance of ClusterLock: two nodes, with a client each.              *)
EXTENDS ClusterLock

CONSTANTS n1, n2, c1, c2

TwoNodes == <<n1, n2>>
Apart == [c \in {c1, c2} |-> IF c = c1 THEN n1 ELSE n2]
=============================================================================
