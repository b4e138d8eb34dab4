------------------------------- MODULE MCImon -------------------------------
(* Instances of Imon for TLC.                                              *)
EXTENDS Imon, TLC
CONSTANTS n1, n2
MCRank == n1 :> 1 @@ n2 :> 2
=============================================================================
