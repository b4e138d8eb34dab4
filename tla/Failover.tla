------------------------------ MODULE Failover ------------------------------
(***************************************************************************)
(* What the instance monitors promise of a failover object: it runs on one *)
(* node at a time, and a node that ended a stop of it does not start it    *)
(* again by itself.                                                        *)
(***************************************************************************)
CONSTANTS
  Node            \* the nodes of the object

VARIABLES
  running,        \* the nodes where an instance runs, or is being started
  ended           \* the nodes that ended the last stop on request

Init == running = {} /\ ended = {}

(* A node starts the instance: nothing else runs, and it ended no stop     *)
(* since the last start.                                                   *)
Take(n) == running = {} /\ n \notin ended /\ running' = {n} /\ ended' = {}

(* The instance leaves the node: stopped, failed, or gone with the node.   *)
Leave(n) == n \in running /\ running' = running \ {n} /\ UNCHANGED ended

(* A stop ends on a node: nothing runs.                                    *)
EndStop(n) == running = {} /\ ended' = ended \cup {n} /\ UNCHANGED running

(* A start is asked.                                                       *)
AskStart == ended' = {} /\ UNCHANGED running

Next == (\E n \in Node : Take(n) \/ Leave(n) \/ EndStop(n)) \/ AskStart

Spec == Init /\ [][Next]_<<running, ended>>
=============================================================================
