-------------------------- MODULE DaemondataProofs --------------------------
(***************************************************************************)
(* Proofs about Daemondata, for every value of its constants: the types,   *)
(* and that a gen applied means the data of that gen (GenMeansData).       *)
(*                                                                         *)
(* The argument: a node never rewrites the data of a gen it reached        *)
(* (Kept), its event queue and its pending events lead from the data of    *)
(* one gen to the next (SenderOK), so every message on its way is right    *)
(* about the run that sent it (SentOK), and a view that only plays events  *)
(* on the gen they follow, or takes the data of a full message, stays      *)
(* right about the run it knows (ViewOK).                                  *)
(***************************************************************************)
EXTENDS DaemondataSteps

(* The purge of the queue keeps its type, and only removes gens            *)
(* (purgeAppliedPatchQueue).                                               *)
LEMMA PurgedQueue ==
  ASSUME NEW n, NEW q \in [Gen -> Delta], NEW g
  PROVE  /\ PurgeAppliedPatchQueue(n, q, g) \in [Gen -> Delta]
         /\ \A e \in Gen : PurgeAppliedPatchQueue(n, q, g)[e] \in {NoDelta, q[e]}
BY ZenonT(30), Members DEF PurgeAppliedPatchQueue

(* The commit of a tick: hist is the history with the data of the gen      *)
(* committed.  Its queue leads to that data.                               *)
LEMMA CommitOK ==
  ASSUME IInv, NEW n \in Node, CommittedGen(n) <= MaxGen,
         NEW hist \in [Run -> [Gen -> Data]],
         \A s \in Run, e \in Gen :
           hist[s][e] = IF s = run[n] /\ e = CommittedGen(n) THEN live[n] ELSE history[n][s][e]
  PROVE  /\ CommittedGen(n) \in Gen \ {0}
         /\ CommittedQueue(n) \in [Gen -> Delta]
         /\ \A e \in Entries(CommittedQueue(n)) : e <= CommittedGen(n)
         /\ EventsOK(hist[run[n]], CommittedQueue(n))
         /\ hist[run[n]][CommittedGen(n)] = live[n]
         /\ Kept(history[n], run[n], gen[n], hist, run[n], CommittedGen(n))
<1> DEFINE g == gen[n]
           c == CommittedGen(n)
           h == history[n][run[n]]
           i == hist[run[n]]
           q == queue[n]
           committed == IF Changes(n) THEN [q EXCEPT ![c] = pending[n]] ELSE q
<1>1. /\ run[n] \in Run /\ g \in Gen \ {0} /\ h \in [Gen -> Data] /\ q \in [Gen -> Delta]
      /\ pending[n] \in Delta /\ live[n] \in Data
  BY DEF IInv, TypeOK
<1>2. /\ c \in Gen \ {0} /\ g <= c
      /\ Changes(n) => c = g + 1
      /\ ~Changes(n) => c = g
  BY <1>1, DaemondataAssumption DEF CommittedGen, Gen
<1>3. /\ live[n] = Overlay(h[g], pending[n])
      /\ EventsOK(h, q)
      /\ \A e \in Entries(q) : e <= g
  BY Zenon DEF IInv, SenderOK
<1>4. i[c] = live[n] /\ \A e \in Gen : e # c => i[e] = h[e]
  BY ZenonT(30), <1>1, <1>2
<1>5. ~Changes(n) => live[n] = h[g]
  <2>1. h[g] \in [Key -> Val]
    BY <1>1 DEF Data
  <2>2. Overlay(h[g], NoDelta) = h[g]
    BY <2>1 DEF Overlay, NoDelta
  <2> QED BY <1>3, <2>2 DEF Changes
<1>6. \A e \in Gen : e <= g => i[e] = h[e]
  BY <1>1, <1>2, <1>4, <1>5, DaemondataAssumption DEF Gen
<1>7. committed \in [Gen -> Delta]
  BY <1>1, <1>2
<1>8. \A e \in Entries(committed) : e <= c
  BY <1>1, <1>2, <1>3, DaemondataAssumption DEF Entries, Gen
<1>9. EventsOK(i, committed)
  <2>1. CASE Changes(n)
    <3>1. g \in Gen /\ g + 1 \in Gen /\ i[g + 1] = Overlay(h[g], pending[n])
      BY ZenonT(30), <1>1, <1>2, <1>3, <1>4, <2>1
    <3>2. committed[g + 1] = pending[n] /\ \A e \in Gen : e # g + 1 => committed[e] = q[e]
      BY ZenonT(30), <1>1, <1>2, <2>1, <3>1
    <3> HIDE DEF g, h, i, q, committed
    <3>3. h \in [Gen -> Data] /\ q \in [Gen -> Delta] /\ pending[n] \in Delta
      BY <1>1
    <3>4. Committed(h, q, pending[n], g, i, committed)
      BY <1>3, <1>6, <1>7, <3>1, <3>2, <3>3 DEF Committed
    <3> QED BY <3>4, EventsCommit
  <2>2. CASE ~Changes(n)
    <3>1. committed = q /\ g \in Gen
      BY <1>1, <2>2
    <3> HIDE DEF g, h, i, q, committed
    <3> QED BY <1>3, <1>6, <3>1, EventsLater
  <2> QED BY <2>1, <2>2
<1> HIDE DEF committed
<1>10. /\ CommittedQueue(n) \in [Gen -> Delta]
       /\ \A e \in Gen : CommittedQueue(n)[e] \in {NoDelta, committed[e]}
  <2>1. CommittedQueue(n) \in {EmptyQueue, PurgeAppliedPatchQueue(n, committed, c)}
    BY DEF CommittedQueue, committed
  <2>2. \A e \in Gen : EmptyQueue[e] = NoDelta
    BY DEF EmptyQueue
  <2>3. EmptyQueue \in [Gen -> Delta]
    BY Members
  <2>4. /\ PurgeAppliedPatchQueue(n, committed, c) \in [Gen -> Delta]
        /\ \A e \in Gen : PurgeAppliedPatchQueue(n, committed, c)[e] \in {NoDelta, committed[e]}
    BY <1>7, PurgedQueue
  <2> QED BY <2>1, <2>2, <2>3, <2>4
<1> HIDE DEF c, g, h, i, q
<1>11. EventsOK(i, CommittedQueue(n))
  BY <1>9, <1>10, EventsPurge
<1>12. \A e \in Entries(CommittedQueue(n)) : e <= c
  BY <1>8, <1>10 DEF Entries
<1>13. Kept(history[n], run[n], gen[n], hist, run[n], c)
  <2>1. ASSUME NEW s \in Run, NEW e \in Gen, s < run[n] \/ (s = run[n] /\ e <= g)
        PROVE  hist[s][e] = history[n][s][e]
    <3>1. CASE s = run[n]
      <4>1. e <= g
        BY <1>1, <2>1, <3>1, DaemondataAssumption DEF Run
      <4> QED BY <1>6, <3>1, <4>1 DEF h, i
    <3>2. CASE s # run[n]
      BY <3>2
    <3> QED BY <3>1, <3>2
  <2>2. run[n] <= run[n]
    BY <1>1, DaemondataAssumption DEF Run
  <2> QED BY <1>2, <2>1, <2>2 DEF Kept, g
<1> QED BY ZenonT(30), <1>2, <1>4, <1>10, <1>11, <1>12, <1>13 DEF c, i

(* The message of a tick is a message of the gen committed, with the       *)
(* events of the queue or none, and the live data when full                *)
(* (getHbMessage).                                                         *)
LEMMA HbMessageOK ==
  ASSUME TypeOK, NEW n \in Node, CommittedGen(n) \in Gen,
         CommittedQueue(n) \in [Gen -> Delta], clock[n] < MaxClock
  PROVE  LET msg == HbMessage(n)
         IN  /\ msg \in Message
             /\ msg.from = n /\ msg.run = run[n] /\ msg.gens[n] = CommittedGen(n)
             /\ msg.events \in {EmptyQueue, CommittedQueue(n)}
             /\ msg.kind = "full" => msg.data = live[n]
<1> DEFINE type == NextMsgType(n)
           gens == [p \in Node |-> IF p = n THEN CommittedGen(n) ELSE view[n][p].gen]
           events == IF type = "ping" THEN EmptyQueue ELSE CommittedQueue(n)
           data == IF type = "full" THEN live[n] ELSE NoData
<1>1. HbMessage(n) = [from |-> n, run |-> run[n], kind |-> type, gens |-> gens,
                      at |-> clock[n] + 1, events |-> events, data |-> data]
  BY DEF HbMessage
<1>2. type \in Kind \ {"undef"}
  BY DEF NextMsgType, Kind
<1>3. gens \in [Node -> Gen] /\ gens[n] = CommittedGen(n)
  <2>1. \A p \in Node : view[n][p].gen \in Gen
    BY DEF TypeOK, View
  <2> QED BY <2>1
<1>4. clock[n] + 1 \in Time
  <2>1. clock[n] \in Time
    BY DEF TypeOK
  <2> QED BY <2>1, DaemondataAssumption DEF Time
<1>5. /\ events \in [Gen -> Delta] /\ events \in {EmptyQueue, CommittedQueue(n)}
      /\ data \in Data \cup {NoData} /\ (type = "full" => data = live[n]) /\ run[n] \in Run
  BY Members DEF TypeOK
<1> HIDE DEF type, gens, events, data
<1>6. HbMessage(n) \in Message
  BY <1>1, <1>2, <1>3, <1>4, <1>5 DEF Message
<1> QED BY <1>1, <1>3, <1>5, <1>6

(* The messages on their way after one more are that one and some of the   *)
(* previous ones (msgToTx).                                                *)
LEMMA EnqueuedOK ==
  ASSUME NEW sent \in [1..MaxInFlight -> Message \cup {NoMsg}], NEW msg \in Message
  PROVE  /\ Enqueue(sent, msg) \in [1..MaxInFlight -> Message \cup {NoMsg}]
         /\ \A i \in 1..MaxInFlight :
              Enqueue(sent, msg)[i] = msg \/ \E j \in 1..MaxInFlight : Enqueue(sent, msg)[i] = sent[j]
<1>1. ASSUME NEW i \in 1..MaxInFlight, i # 1 PROVE i - 1 \in 1..MaxInFlight
  BY <1>1, DaemondataAssumption
<1> QED BY <1>1 DEF Enqueue

(* Forgetting the gens of the strangers leaves what is known of them.      *)
LEMMA ForgetStrangersOK ==
  ASSUME TypeOK, NEW n \in Node
  PROVE  /\ ForgetStrangers(n) \in [Node -> View]
         /\ \A p \in Node : /\ ForgetStrangers(n)[p].run = view[n][p].run
                            /\ ForgetStrangers(n)[p].gen = view[n][p].gen
                            /\ ForgetStrangers(n)[p].data = view[n][p].data
<1>1. view[n] \in [Node -> View]
  BY DEF TypeOK
<1>2. ASSUME NEW v \in View
      PROVE  LET w == [v EXCEPT !.heard = FALSE, !.gens = NoGens]
             IN  w \in View /\ w.run = v.run /\ w.gen = v.gen /\ w.data = v.data
  <2>1. [v EXCEPT !.heard = FALSE, !.gens = NoGens] \in View
    BY Zenon, ViewExcept
  <2> QED BY <2>1 DEF View
<1>3. CASE kind[n] = "undef"
  BY <1>1, <1>3 DEF ForgetStrangers
<1>4. CASE kind[n] # "undef"
  <2> DEFINE f(p) == [view[n][p] EXCEPT !.heard = FALSE, !.gens = NoGens]
  <2>1. ForgetStrangers(n) = [p \in Node |-> IF p \in members[n] THEN view[n][p] ELSE f(p)]
    BY <1>4 DEF ForgetStrangers
  <2>2. \A p \in Node : /\ view[n][p] \in View
                        /\ f(p) \in View /\ f(p).run = view[n][p].run
                        /\ f(p).gen = view[n][p].gen /\ f(p).data = view[n][p].data
    BY ZenonT(30), <1>1, <1>2
  <2> HIDE DEF f
  <2> QED BY <2>1, <2>2
<1> QED BY <1>3, <1>4

(* A propagation tick preserves the invariant: the commit, then the        *)
(* message (commitPendingOps, queueNewHbMsg).                              *)
LEMMA TickOK ==
  ASSUME IInv, NEW n \in Node, NEW refresh \in BOOLEAN, Tick(n, refresh),
         faults' \in 0..MaxFaults
  PROVE  IInv'
<1> DEFINE c == CommittedGen(n)
           q == CommittedQueue(n)
           msg == HbMessage(n)
<1>1. TypeOK /\ run[n] \in Run /\ live[n] \in Data /\ gen[n] \in Gen
  BY DEF IInv, TypeOK
<1>2. /\ c <= MaxGen
      /\ gen' = [gen EXCEPT ![n] = c]
      /\ queue' = [queue EXCEPT ![n] = q]
      /\ pending' = [pending EXCEPT ![n] = NoDelta]
      /\ history' = [history EXCEPT ![n][run[n]][c] = live[n]]
      /\ QueueNewHbMsg(n) \/ UNCHANGED <<clock, kind, view, sentGens, net, needMsg>>
      /\ UNCHANGED <<live, members, run, rxTime, change>>
  BY DEF Tick
<1>3. c \in Gen
  BY <1>1, <1>2, DaemondataAssumption DEF CommittedGen, Gen
<1>4. /\ history' \in [Node -> [Run -> [Gen -> Data]]]
      /\ \A s \in Run, e \in Gen :
           history'[n][s][e] = IF s = run[n] /\ e = c THEN live[n] ELSE history[n][s][e]
      /\ \A p \in Node : p # n => history'[p] = history[p]
  <2> HIDE DEF c
  <2>1. history \in [Node -> [Run -> [Gen -> Data]]]
        /\ history' = [history EXCEPT ![n][run[n]][c] = live[n]]
    BY <1>1, <1>2 DEF TypeOK
  <2> QED BY ZenonT(30), <1>1, <1>3, <2>1
<1>5. /\ c \in Gen \ {0}
      /\ q \in [Gen -> Delta]
      /\ \A e \in Entries(q) : e <= c
      /\ EventsOK(history'[n][run[n]], q)
      /\ history'[n][run[n]][c] = live[n]
      /\ Kept(history[n], run[n], gen[n], history'[n], run[n], c)
  <2>1. history'[n] \in [Run -> [Gen -> Data]]
    BY ZenonT(30), <1>4
  <2> QED BY ZenonT(30), <1>2, <1>4, <2>1, CommitOK
<1> HIDE DEF c, q, msg
<1>6. /\ gen' \in [Node -> Gen \ {0}] /\ queue' \in [Node -> [Gen -> Delta]]
      /\ pending' \in [Node -> Delta]
  BY ZenonT(30), <1>1, <1>2, <1>5, Members DEF TypeOK
<1>7. pubGens' \in [Node -> [Node -> Gen]]
  <2>1. pubGens \in [Node -> [Node -> Gen]] /\ sentGens[n] \in [Node -> Gen]
    BY <1>1 DEF TypeOK
  <2> QED BY <2>1 DEF Tick
<1>8. ASSUME QueueNewHbMsg(n)
      PROVE  /\ msg \in Message
             /\ msg.from = n /\ msg.run = run[n] /\ msg.gens[n] = c
             /\ msg.events \in {EmptyQueue, q}
             /\ msg.kind = "full" => msg.data = live[n]
  BY ZenonT(30), <1>1, <1>3, <1>5, <1>8, HbMessageOK DEF QueueNewHbMsg, c, q, msg
<1>9. /\ clock' \in [Node -> Time] /\ kind' \in [Node -> Kind]
      /\ sentGens' \in [Node -> [Node -> Gen]] /\ needMsg' \in [Node -> BOOLEAN]
  <2>1. CASE QueueNewHbMsg(n)
    <3>1. msg.at \in Time /\ msg.kind \in Kind /\ msg.gens \in [Node -> Gen]
      BY ZenonT(30), <1>8, <2>1 DEF Message
    <3> QED BY ZenonT(30), <1>1, <2>1, <3>1 DEF QueueNewHbMsg, TypeOK, msg
  <2> QED BY <1>1, <1>2, <2>1 DEF TypeOK
<1>10. /\ view' \in [Node -> [Node -> View]]
       /\ \A m, p \in Node : /\ view'[m][p].run = view[m][p].run
                             /\ view'[m][p].gen = view[m][p].gen
                             /\ view'[m][p].data = view[m][p].data
  <2>0. view \in [Node -> [Node -> View]]
    BY <1>1 DEF TypeOK
  <2>1. CASE QueueNewHbMsg(n)
    <3>1. view' = [view EXCEPT ![n] = ForgetStrangers(n)]
      BY <2>1 DEF QueueNewHbMsg
    <3> QED BY <1>1, <2>0, <3>1, ForgetStrangersOK
  <2> QED BY <1>2, <2>0, <2>1
<1>11. /\ net' \in [Node -> [1..MaxInFlight -> Message \cup {NoMsg}]]
       /\ \A m \in Node : \A x \in InFlight(m)' :
            x \in InFlight(m) \/ (m = n /\ x = msg /\ QueueNewHbMsg(n))
  <2>1. net \in [Node -> [1..MaxInFlight -> Message \cup {NoMsg}]]
    BY <1>1 DEF TypeOK
  <2>2. CASE QueueNewHbMsg(n)
    <3>1. net' = [net EXCEPT ![n] = Enqueue(net[n], msg)]
      BY <2>2 DEF QueueNewHbMsg, msg
    <3>2. /\ Enqueue(net[n], msg) \in [1..MaxInFlight -> Message \cup {NoMsg}]
          /\ \A i \in 1..MaxInFlight :
               \/ Enqueue(net[n], msg)[i] = msg
               \/ \E j \in 1..MaxInFlight : Enqueue(net[n], msg)[i] = net[n][j]
      BY <1>8, <2>1, <2>2, EnqueuedOK
    <3> QED BY <2>1, <2>2, <3>1, <3>2 DEF InFlight
  <2> QED BY Zenon, <1>2, <2>1, <2>2 DEF InFlight
<1>12. TypeOK'
  BY ZenonT(30), <1>1, <1>2, <1>4, <1>6, <1>7, <1>9, <1>10, <1>11 DEF TypeOK
<1>13. ASSUME NEW p \in Node
       PROVE  Kept(history[p], run[p], gen[p], history'[p], run'[p], gen'[p])
  <2>1. CASE p = n
    BY <1>1, <1>2, <1>5, <2>1 DEF TypeOK
  <2>2. CASE p # n
    <3>1. history'[p] = history[p] /\ run'[p] = run[p] /\ gen'[p] = gen[p]
          /\ run[p] \in Run /\ gen[p] \in Gen
      BY <1>1, <1>2, <1>4, <2>2 DEF TypeOK
    <3> QED BY ZenonT(30), <3>1, KeptSame
  <2> QED BY ZenonT(30), <2>1, <2>2
<1>14. ASSUME NEW m \in Node PROVE SenderOK(m)'
  <2>1. CASE m = n
    <3>1. /\ gen'[n] = c /\ queue'[n] = q /\ pending'[n] = NoDelta /\ run'[n] = run[n]
          /\ live'[n] = live[n]
      BY <1>1, <1>2 DEF TypeOK
    <3>2. Overlay(live[n], NoDelta) = live[n]
      BY ZenonT(30), <1>1 DEF Overlay, NoDelta, Data
    <3> QED BY ZenonT(30), <1>5, <2>1, <3>1, <3>2 DEF SenderOK
  <2>2. CASE m # n
    <3>1. /\ live'[m] = live[m] /\ pending'[m] = pending[m] /\ queue'[m] = queue[m]
          /\ gen'[m] = gen[m] /\ run'[m] = run[m] /\ history'[m] = history[m]
      BY <1>1, <1>2, <1>4, <2>2 DEF TypeOK
    <3> QED BY ZenonT(30), <3>1 DEF IInv, SenderOK
  <2> QED BY <2>1, <2>2
<1>15. ASSUME NEW m \in Node, NEW p \in Node
       PROVE  ViewOK(view'[m][p], history'[p], run'[p], gen'[p])
  <2>1. ViewOK(view[m][p], history'[p], run'[p], gen'[p])
    BY ZenonT(30), <1>12, <1>13, StepKept
  <2> QED BY ZenonT(30), <1>10, <2>1 DEF ViewOK, KnownOK
<1>16. ASSUME NEW m \in Node, NEW x \in InFlight(m)'
       PROVE  SentOK(x, m, history'[m], run'[m], gen'[m])
  <2>1. CASE x \in InFlight(m)
    BY ZenonT(30), <1>12, <1>13, <2>1, StepKept
  <2>2. CASE m = n /\ x = msg /\ QueueNewHbMsg(n)
    <3>1. gen'[n] = c /\ run'[n] = run[n]
      BY <1>1, <1>2 DEF TypeOK
    <3>2. EventsOK(history'[n][run[n]], msg.events) /\ \A e \in Entries(msg.events) : e <= c
      <4>1. Entries(EmptyQueue) = {}
        BY DEF Entries, EmptyQueue
      <4> QED BY <1>5, <1>8, <2>2, <4>1, EventsEmpty
    <3>3. run[n] <= run[n] /\ c <= c
      BY <1>1, <1>3, DaemondataAssumption DEF Run, Gen
    <3> QED BY ZenonT(30), <1>5, <1>8, <2>2, <3>1, <3>2, <3>3 DEF SentOK, MsgOK
  <2> QED BY ZenonT(30), <1>11, <2>1, <2>2
<1> QED BY ZenonT(30), <1>12, <1>14, <1>15, <1>16 DEF IInv

(* The invariant holds when the daemons start (newData).                   *)
LEMMA InitOK == Init => IInv
<1> SUFFICES ASSUME Init PROVE IInv
  OBVIOUS
<1>1. TypeOK
  <2>2. \A n \in Node : [NoGens EXCEPT ![n] = 1] \in [Node -> Gen]
    BY Members
  <2>3. /\ live \in [Node -> Data] /\ pending \in [Node -> Delta]
        /\ queue \in [Node -> [Gen -> Delta]] /\ sentGens \in [Node -> [Node -> Gen]]
        /\ pubGens \in [Node -> [Node -> Gen]]
    BY <2>2, Members DEF Init
  <2>4. /\ gen \in [Node -> Gen \ {0}] /\ kind \in [Node -> Kind]
        /\ needMsg \in [Node -> BOOLEAN] /\ members \in [Node -> SUBSET Node]
    BY Members DEF Init, Kind
  <2>5. /\ view \in [Node -> [Node -> View]] /\ run \in [Node -> Run]
        /\ clock \in [Node -> Time] /\ rxTime \in [Node -> [Node -> Time]]
        /\ net \in [Node -> [1..MaxInFlight -> Message \cup {NoMsg}]]
    BY UnknownPeerOK, Members, DaemondataAssumption DEF Init
  <2>6. change \in [Node -> Val] /\ faults \in 0..MaxFaults
        /\ history \in [Node -> [Run -> [Gen -> Data]]]
    BY Members, DaemondataAssumption DEF Init
  <2> QED BY <2>3, <2>4, <2>5, <2>6 DEF TypeOK
<1>2. ASSUME NEW n \in Node PROVE SenderOK(n)
  <2>1. /\ live[n] = EmptyData /\ pending[n] = NoDelta /\ queue[n] = EmptyQueue
        /\ history[n][run[n]][gen[n]] = EmptyData
    BY Members DEF Init
  <2>2. Overlay(EmptyData, NoDelta) = EmptyData
    BY DEF Overlay, EmptyData, NoDelta
  <2>3. Entries(EmptyQueue) = {}
    BY DEF Entries, EmptyQueue
  <2> QED BY Zenon, <2>1, <2>2, <2>3, EventsEmpty DEF SenderOK
<1>3. \A n \in Node : InFlight(n) = {}
  BY DEF Init, InFlight
<1>4. ASSUME NEW n \in Node, NEW p \in Node
      PROVE  ViewOK(view[n][p], history[p], run[p], gen[p])
  <2>1. view[n][p] = UnknownPeer /\ run[p] \in Run
    BY Members DEF Init
  <2> QED BY Zenon, <2>1, UnknownPeerOK
<1> QED BY <1>1, <1>2, <1>3, <1>4 DEF IInv

(* Every step preserves the invariant.                                     *)
LEMMA NextOK == IInv /\ [Next]_vars => IInv'
<1> SUFFICES ASSUME IInv, [Next]_vars PROVE IInv'
  OBVIOUS
<1>1. TypeOK
  BY DEF IInv
<1>2. ASSUME NEW n \in Node, PropagationTick(n) PROVE IInv'
  <2>1. faults' \in 0..MaxFaults /\ \E refresh \in BOOLEAN : Tick(n, refresh)
    <3>1. faults \in 0..MaxFaults
      BY <1>1 DEF TypeOK
    <3> QED BY Zenon, <1>1, <1>2, <3>1, FaultType DEF PropagationTick
  <2> QED BY <2>1, TickOK
<1>3. ASSUME NEW n \in Node, NEW k \in Key, NEW deleted \in BOOLEAN, Change(n, k, deleted)
      PROVE  IInv'
  BY <1>3, ChangeOK
<1>4. ASSUME NEW n \in Node, NEW at \in Time, Restart(n, at) PROVE IInv'
  BY <1>4, RestartOK
<1>5. ASSUME NEW n \in Node, NEW at \in Time, StepBack(n, at) PROVE IInv'
  BY <1>5, LocalFaultOK
<1>6. ASSUME NEW n \in Node, NEW p \in Node, MsgFromRx(n, p) PROVE IInv'
  <2>1. PICK msg \in InFlight(p), expired \in BOOLEAN :
          Receive(n, p, msg, expired) /\ faults' \in 0..MaxFaults
    <3>1. faults \in 0..MaxFaults
      BY <1>1 DEF TypeOK
    <3> QED BY ZenonT(30), <1>1, <1>6, <3>1, FaultType DEF MsgFromRx
  <2> QED BY <2>1, ReceiveOK
<1>7. ASSUME NEW n \in Node, NEW p \in Node,
             DropPeer(n, p) \/ RemoveMember(n, p) \/ AddMember(n, p) \/ ForgetMsgTime(n, p)
      PROVE  IInv'
  BY <1>7, LocalFaultOK
<1>8. CASE UNCHANGED vars
  <2>1. TypeOK'
    BY <1>1, <1>8 DEF TypeOK, vars
  <2> QED BY Zenon, <1>8, <2>1, SameGens DEF IInv, InFlight, vars
<1> QED BY <1>2, <1>3, <1>4, <1>5, <1>6, <1>7, <1>8 DEF Next

(* The state of daemondata keeps its types: a gen is never 0 for the node  *)
(* itself (commitPendingOps), nor above the bound.                         *)
THEOREM TypeCorrect == Spec => []TypeOK
<1>1. IInv => TypeOK
  BY DEF IInv
<1> QED BY <1>1, InitOK, NextOK, PTL DEF Spec

(* A node that says it applied gen g of a peer has the data the peer had   *)
(* at gen g of its run, for any number of nodes, items, gens and messages  *)
(* on their way, and any faults (applyMsgEvents, applyNodeData,            *)
(* acceptPeerRun).                                                         *)
THEOREM GenMeansDataHolds == Spec => []GenMeansData
<1>1. IInv => GenMeansData
  BY Zenon DEF IInv, ViewOK, KnownOK, GenMeansData
<1> QED BY <1>1, InitOK, NextOK, PTL DEF Spec
=============================================================================
