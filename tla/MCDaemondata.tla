---------------------------- MODULE MCDaemondata ----------------------------
(* Daemondata for TLC. *)
EXTENDS Daemondata, TLC

(* The clocks of the nodes agree at first, or the nodes that write nothing *)
(* are ahead, and send two messages less.                                  *)
Together == [n \in Node |-> 0]
Apart == [n \in Node |-> IF n \in Writers THEN 0 ELSE 2]
=============================================================================
