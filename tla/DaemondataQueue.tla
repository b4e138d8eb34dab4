-------------------------- MODULE DaemondataQueue ---------------------------
(***************************************************************************)
(* Two more invariants of Daemondata proved for every value of its         *)
(* constants: the event queue of a node has no hole (QueueIsContiguous),   *)
(* and no gens of a stranger are kept (NoGensOfStrangers).  Both are       *)
(* inductive once the types and the top of the queue are known, which the  *)
(* invariant IInv of DaemondataSteps gives.                                *)
(***************************************************************************)
EXTENDS DaemondataProofs

(* The gens with events of q follow one another up to g.                   *)
UpTo(q, g) == \A e \in Entries(q) : e..g \subseteq Entries(q)

(* A nonempty set of naturals has a least element, which is its Min.       *)
LEMMA MinOfNats ==
  ASSUME NEW S \in SUBSET Nat, S # {}
  PROVE  Min(S) \in S
<1>1. PICK x \in S : \A y \in S : ~(<<y, x>> \in OpToRel(<, Nat))
  BY Zenon, NatLessThanWellFounded, WFMin
<1>2. \A y \in S : x <= y
  <2> SUFFICES ASSUME NEW y \in S, y < x PROVE FALSE
    OBVIOUS
  <2>1. <<y, x>> \in OpToRel(<, Nat)
    BY DEF OpToRel
  <2> QED BY Zenon, <1>1, <2>1
<1> QED BY Zenon, <1>2 DEF Min

(* The purge removes the gens from the lowest on: what is left has no hole *)
(* if the queue had none (purgeAppliedPatchQueue).                         *)
LEMMA PurgeUpTo ==
  ASSUME TypeOK, NEW n \in Node, NEW q \in [Gen -> Delta], NEW g \in Gen, UpTo(q, g)
  PROVE  UpTo(PurgeAppliedPatchQueue(n, q, g), g)
<1> DEFINE S == {g} \cup {view[n][p].gens[n] : p \in
                   {p \in Peers(n) : view[n][p].heard /\ view[n][p].gens[n] # 0}}
           m == Min(S)
           purged == PurgeAppliedPatchQueue(n, q, g)
<1>1. m \in Nat
  <2>1. \A p \in Peers(n) : view[n][p].gens[n] \in Gen
    BY DEF TypeOK, View, Peers
  <2>2. S \subseteq Gen /\ g \in S
    BY <2>1
  <2>3. S \in SUBSET Nat /\ S # {}
    BY <2>2, DaemondataAssumption DEF Gen
  <2> HIDE DEF S
  <2>4. m \in S
    BY Zenon, <2>3, MinOfNats
  <2> QED BY <2>3, <2>4
<1>2. purged = [h \in Gen |-> IF h <= m THEN NoDelta ELSE q[h]]
  BY DEF PurgeAppliedPatchQueue
<1> HIDE DEF m, purged
<1>3. \A e \in Gen : e \in Entries(purged) <=> ~(e <= m) /\ e \in Entries(q)
  BY <1>2 DEF Entries
<1> SUFFICES ASSUME NEW e \in Entries(purged), NEW i \in e..g
             PROVE  i \in Entries(purged)
  BY DEF UpTo, purged
<1>4. e \in Gen /\ i \in Gen /\ e <= i
  BY DaemondataAssumption DEF Entries, Gen
<1>5. ~(e <= m) /\ e \in Entries(q)
  BY <1>3, <1>4
<1>6. i \in Entries(q)
  BY <1>5 DEF UpTo
<1>7. ~(i <= m)
  BY <1>1, <1>4, <1>5, DaemondataAssumption DEF Gen
<1> QED BY <1>3, <1>4, <1>6, <1>7

(* The queue committed by a tick has no hole up to the gen committed       *)
(* (commitPendingOps).                                                     *)
LEMMA CommitUpTo ==
  ASSUME IInv, NEW n \in Node, CommittedGen(n) <= MaxGen, UpTo(queue[n], gen[n])
  PROVE  UpTo(CommittedQueue(n), CommittedGen(n))
<1> DEFINE g == gen[n]
           c == CommittedGen(n)
           q == queue[n]
           committed == IF Changes(n) THEN [q EXCEPT ![c] = pending[n]] ELSE q
<1>1. /\ TypeOK /\ g \in Gen \ {0} /\ q \in [Gen -> Delta] /\ pending[n] \in Delta
  BY DEF IInv, TypeOK
<1>2. /\ c \in Gen /\ g <= c
      /\ Changes(n) => c = g + 1
      /\ ~Changes(n) => c = g
  BY <1>1, DaemondataAssumption DEF CommittedGen, Gen
<1>3. \A e \in Entries(q) : e <= g
  BY Zenon DEF IInv, SenderOK
<1> HIDE DEF c
<1>4. committed \in [Gen -> Delta]
  BY <1>1, <1>2
<1>5. UpTo(committed, c)
  <2>1. CASE Changes(n)
    <3>1. Entries(committed) = Entries(q) \cup {c}
      BY <1>1, <1>2, <2>1 DEF Entries, Changes
    <3> HIDE DEF committed
    <3> SUFFICES ASSUME NEW e \in Entries(q) \cup {c}, NEW i \in e..c
                 PROVE  i \in Entries(q) \cup {c}
      BY <3>1 DEF UpTo
    <3>2. CASE i = c
      BY <3>2
    <3>3. CASE i # c
      <4>1. e \in Entries(q) /\ e \in Gen /\ i \in e..g
        BY <1>1, <1>2, <2>1, <3>3, DaemondataAssumption DEF Entries, Gen
      <4> QED BY <4>1 DEF UpTo
    <3> QED BY <3>2, <3>3
  <2>2. CASE ~Changes(n)
    BY <1>2, <2>2
  <2> QED BY <2>1, <2>2
<1> HIDE DEF committed
<1>6. CommittedQueue(n) \in {EmptyQueue, PurgeAppliedPatchQueue(n, committed, c)}
  BY DEF CommittedQueue, committed, c
<1>7. UpTo(EmptyQueue, c)
  BY DEF UpTo, Entries, EmptyQueue
<1>8. UpTo(PurgeAppliedPatchQueue(n, committed, c), c)
  BY <1>1, <1>2, <1>4, <1>5, PurgeUpTo
<1> QED BY <1>6, <1>7, <1>8 DEF c

(* Every step keeps the queues without a hole: only a tick and a restart   *)
(* change a queue or a gen.                                                *)
LEMMA NextUpTo == IInv /\ QueueIsContiguous /\ [Next]_vars => QueueIsContiguous'
<1> SUFFICES ASSUME IInv, \A n \in Node : UpTo(queue[n], gen[n]), [Next]_vars
             PROVE  \A n \in Node : UpTo(queue'[n], gen'[n])
  BY Zenon DEF QueueIsContiguous, UpTo
<1>1. queue \in [Node -> [Gen -> Delta]] /\ gen \in [Node -> Gen \ {0}]
  BY DEF IInv, TypeOK
<1>2. ASSUME NEW n \in Node, NEW refresh \in BOOLEAN, Tick(n, refresh)
      PROVE  \A m \in Node : UpTo(queue'[m], gen'[m])
  <2>1. /\ CommittedGen(n) <= MaxGen
        /\ gen' = [gen EXCEPT ![n] = CommittedGen(n)]
        /\ queue' = [queue EXCEPT ![n] = CommittedQueue(n)]
    BY <1>2 DEF Tick
  <2>2. UpTo(CommittedQueue(n), CommittedGen(n))
    BY <2>1, CommitUpTo
  <2> QED BY Zenon, <1>1, <2>1, <2>2
<1>3. ASSUME NEW n \in Node, NEW at \in Time, Restart(n, at)
      PROVE  \A m \in Node : UpTo(queue'[m], gen'[m])
  <2>1. gen' = [gen EXCEPT ![n] = 1] /\ queue' = [queue EXCEPT ![n] = EmptyQueue]
    BY Zenon, <1>3 DEF Restart
  <2>2. UpTo(EmptyQueue, 1)
    BY DEF UpTo, Entries, EmptyQueue
  <2> QED BY Zenon, <1>1, <2>1, <2>2
<1>4. CASE UNCHANGED <<queue, gen>>
  BY Zenon, <1>4
<1>5. ASSUME NEW n \in Node, PropagationTick(n)
      PROVE  \E refresh \in BOOLEAN : Tick(n, refresh)
  BY Zenon, <1>5 DEF PropagationTick
<1>6. ASSUME NEW n \in Node, NEW p \in Node,
             MsgFromRx(n, p) \/ DropPeer(n, p) \/ RemoveMember(n, p) \/ AddMember(n, p)
               \/ ForgetMsgTime(n, p)
      PROVE  UNCHANGED <<queue, gen>>
  BY <1>6 DEF MsgFromRx, Receive, DropPeer, RemoveMember, AddMember, ForgetMsgTime
<1>7. ASSUME NEW n \in Node, NEW k \in Key, NEW deleted \in BOOLEAN, Change(n, k, deleted)
      PROVE  UNCHANGED <<queue, gen>>
  BY <1>7 DEF Change
<1>8. ASSUME NEW n \in Node, NEW at \in Time, StepBack(n, at)
      PROVE  UNCHANGED <<queue, gen>>
  BY <1>8 DEF StepBack
<1>9. CASE UNCHANGED vars
  BY <1>4, <1>9 DEF vars
<1>10. CASE Next
  BY <1>2, <1>3, <1>4, <1>5, <1>6, <1>7, <1>8, <1>10 DEF Next
<1> QED BY <1>9, <1>10

(* Every step keeps the gens of the members only: the gens of a peer are   *)
(* set on its messages when it is a member (onReceiveHbMsg), and forgotten *)
(* with its membership (dropPeer).                                         *)
LEMMA NextNoStrangers == IInv /\ NoGensOfStrangers /\ [Next]_vars => NoGensOfStrangers'
<1> DEFINE Ours(n, p) == view[n][p].heard => p \in members[n]
<1> SUFFICES ASSUME IInv, \A n \in Node : \A p \in Peers(n) : Ours(n, p), [Next]_vars,
                    NEW m \in Node, NEW q \in Peers(m)
             PROVE  Ours(m, q)'
  BY Zenon DEF NoGensOfStrangers, Peers
<1>1. /\ view \in [Node -> [Node -> View]] /\ members \in [Node -> SUBSET Node]
      /\ q \in Node /\ TypeOK
  BY DEF IInv, TypeOK, Peers
<1>2. ~UnknownPeer.heard
  BY DEF UnknownPeer
<1>3. ASSUME NEW n \in Node, PropagationTick(n) PROVE Ours(m, q)'
  <2>1. members' = members /\ (view' = view \/ view' = [view EXCEPT ![n] = ForgetStrangers(n)])
    BY <1>3 DEF PropagationTick, Tick, QueueNewHbMsg
  <2>2. \A p \in Node : ForgetStrangers(n)[p].heard => view[n][p].heard
    <3>1. \A v \in View : ~[v EXCEPT !.heard = FALSE, !.gens = NoGens].heard
      BY Zenon DEF View
    <3>2. \A p \in Node : view[n][p] \in View
      BY <1>1
    <3> QED BY Zenon, <3>1, <3>2 DEF ForgetStrangers
  <2> QED BY Zenon, <1>1, <2>1, <2>2
<1>4. ASSUME NEW n \in Node, NEW p \in Node, MsgFromRx(n, p) PROVE Ours(m, q)'
  <2>1. members' = members /\ (view' = view \/ (p \in members[n]
                                 /\ \E w : view' = [view EXCEPT ![n][p] = w]))
    BY Zenon, <1>4 DEF MsgFromRx, Receive
  <2>2. CASE view' = view
    BY Zenon, <2>1, <2>2
  <2>3. ASSUME NEW w, view' = [view EXCEPT ![n][p] = w], p \in members[n]
        PROVE  Ours(m, q)'
    <3>1. CASE m = n /\ q = p
      BY <2>1, <2>3, <3>1
    <3>2. CASE ~(m = n /\ q = p)
      <4>1. view'[m][q] = view[m][q]
        BY Zenon, <1>1, <2>3, <3>2
      <4> QED BY Zenon, <2>1, <4>1
    <3> QED BY <3>1, <3>2
  <2> QED BY Zenon, <2>1, <2>2, <2>3
<1>5. ASSUME NEW n \in Node, NEW p \in Node,
             DropPeer(n, p) \/ RemoveMember(n, p) PROVE Ours(m, q)'
  <2>1. /\ view' = [view EXCEPT ![n][p] = UnknownPeer]
        /\ members' = members \/ members' = [members EXCEPT ![n] = @ \ {p}]
    BY Zenon, <1>5 DEF DropPeer, RemoveMember
  <2>2. CASE m = n /\ q = p
    BY <1>1, <1>2, <2>1, <2>2
  <2>3. CASE ~(m = n /\ q = p)
    BY <1>1, <2>1, <2>3
  <2> QED BY <2>2, <2>3
<1>6. ASSUME NEW n \in Node, NEW p \in Node, AddMember(n, p) PROVE Ours(m, q)'
  BY <1>1, <1>6 DEF AddMember
<1>7. ASSUME NEW n \in Node, NEW at \in Time, Restart(n, at) PROVE Ours(m, q)'
  <2>1. members' = members /\ view' = [view EXCEPT ![n] = [p \in Node |-> UnknownPeer]]
    BY ZenonT(30), <1>7 DEF Restart
  <2> QED BY Zenon, <1>1, <1>2, <2>1
<1>8. CASE UNCHANGED <<view, members>>
  BY Zenon, <1>8
<1>9. ASSUME NEW n \in Node, NEW p \in Node, ForgetMsgTime(n, p)
      PROVE  UNCHANGED <<view, members>>
  BY <1>9 DEF ForgetMsgTime
<1>10. ASSUME NEW n \in Node, NEW k \in Key, NEW deleted \in BOOLEAN, Change(n, k, deleted)
       PROVE  UNCHANGED <<view, members>>
  BY <1>10 DEF Change
<1>11. ASSUME NEW n \in Node, NEW at \in Time, StepBack(n, at)
       PROVE  UNCHANGED <<view, members>>
  BY <1>11 DEF StepBack
<1>12. CASE UNCHANGED vars
  BY <1>8, <1>12 DEF vars
<1>13. CASE Next
  <2> HIDE DEF Ours
  <2> QED BY <1>3, <1>4, <1>5, <1>6, <1>7, <1>8, <1>9, <1>10, <1>11, <1>13 DEF Next
<1> QED BY <1>12, <1>13

(* The gens of the event queue of a node follow one another up to its gen, *)
(* whatever its peers say they applied (commitPendingOps,                  *)
(* purgeAppliedPatchQueue).                                                *)
THEOREM QueueIsContiguousHolds == Spec => []QueueIsContiguous
<1>1. Init => QueueIsContiguous
  BY DEF Init, QueueIsContiguous, Entries, EmptyQueue
<1> QED BY <1>1, InitOK, NextOK, NextUpTo, PTL DEF Spec

(* No gens of a node that is not a cluster member are kept, so the cleanup *)
(* of setNextMsgType never has anything to clean.                          *)
THEOREM NoGensOfStrangersHolds == Spec => []NoGensOfStrangers
<1>1. Init => NoGensOfStrangers
  BY DEF Init, NoGensOfStrangers, UnknownPeer, Peers
<1> QED BY <1>1, InitOK, NextOK, NextNoStrangers, PTL DEF Spec
=============================================================================
