-------------------------- MODULE DaemondataSteps ---------------------------
(* The inductive invariant of Daemondata, and the actions that leave it    *)
(* true: the changes, the faults, the restarts and the receptions.         *)
EXTENDS DaemondataFacts

-----------------------------------------------------------------------------
(* The inductive invariant.  hist, r and g are the history of a node, its  *)
(* run and its gen.                                                        *)

(* The queue and the pending events of n lead from what n had at its gens  *)
(* to what it has.                                                         *)
SenderOK(n) ==
  LET h == history[n][run[n]]
  IN  /\ live[n] = Overlay(h[gen[n]], pending[n])
      /\ EventsOK(h, queue[n])
      /\ \A e \in Entries(queue[n]) : e <= gen[n]

SentOK(msg, n, hist, r, g) ==
  /\ msg.from = n
  /\ msg.run <= r
  /\ msg.run = r => msg.gens[n] <= g
  /\ MsgOK(msg, hist[msg.run])

ViewOK(v, hist, r, g) ==
  /\ v.run <= r
  /\ v.run = r => v.gen <= g
  /\ KnownOK(v, hist[v.run])

IInv ==
  /\ TypeOK
  /\ \A n \in Node : SenderOK(n)
  /\ \A n \in Node : \A msg \in InFlight(n) : SentOK(msg, n, history[n], run[n], gen[n])
  /\ \A n, p \in Node : ViewOK(view[n][p], history[p], run[p], gen[p])

(* A step never rewrites the data of a gen that was reached.               *)
Kept(hist, r, g, hist2, r2, g2) ==
  /\ r <= r2
  /\ r2 = r => g <= g2
  /\ \A s \in Run, e \in Gen : s < r \/ (s = r /\ e <= g) => hist2[s][e] = hist[s][e]

(* What is known of a peer stays right while the gens reached are kept.    *)
LEMMA ViewKept ==
  ASSUME NEW hist \in [Run -> [Gen -> Data]], NEW r \in Run, NEW g \in Gen,
         NEW hist2 \in [Run -> [Gen -> Data]], NEW r2 \in Run, NEW g2 \in Gen,
         Kept(hist, r, g, hist2, r2, g2),
         NEW v \in View, ViewOK(v, hist, r, g)
  PROVE  ViewOK(v, hist2, r2, g2)
<1>1. v.run \in 0..MaxRun /\ v.gen \in Gen
  BY DEF View
<1>2. v.run <= r2 /\ (v.run = r2 => v.gen <= g2)
  BY <1>1, DaemondataAssumption DEF ViewOK, Kept, Run, Gen
<1>3. ASSUME v.gen # 0 PROVE v.data = hist2[v.run][v.gen]
  <2>1. v.run \in Run /\ (v.run < r \/ (v.run = r /\ v.gen <= g))
    BY <1>1, <1>3, DaemondataAssumption DEF ViewOK, KnownOK, Run
  <2>2. hist2[v.run][v.gen] = hist[v.run][v.gen]
    BY <1>1, <2>1 DEF Kept
  <2> QED BY <1>3, <2>2 DEF ViewOK, KnownOK
<1> QED BY <1>2, <1>3 DEF ViewOK, KnownOK

(* A message on its way stays right while the gens reached are kept.       *)
LEMMA SentKept ==
  ASSUME NEW hist \in [Run -> [Gen -> Data]], NEW r \in Run, NEW g \in Gen,
         NEW hist2 \in [Run -> [Gen -> Data]], NEW r2 \in Run, NEW g2 \in Gen,
         Kept(hist, r, g, hist2, r2, g2), NEW n \in Node,
         NEW msg \in Message, SentOK(msg, n, hist, r, g)
  PROVE  SentOK(msg, n, hist2, r2, g2)
<1> DEFINE top == msg.gens[n]
           h == hist[msg.run]
           i == hist2[msg.run]
<1>1. msg.run \in Run /\ top \in Gen /\ msg.from = n
  BY DEF Message, SentOK
<1>2. msg.run <= r2 /\ (msg.run = r2 => top <= g2)
  BY <1>1, DaemondataAssumption DEF SentOK, Kept, Run, Gen
<1>3. \A e \in Gen : e <= top => i[e] = h[e]
  <2> SUFFICES ASSUME NEW e \in Gen, e <= top PROVE i[e] = h[e]
    OBVIOUS
  <2>1. msg.run < r \/ (msg.run = r /\ e <= g)
    BY <1>1, DaemondataAssumption DEF SentOK, Run, Gen
  <2> QED BY <1>1, <2>1 DEF Kept
<1>4. EventsOK(h, msg.events) /\ \A e \in Entries(msg.events) : e <= top
  BY <1>1 DEF SentOK, MsgOK
<1>5. msg.kind = "full" => msg.data = i[top]
  <2>1. top <= top
    BY <1>1, DaemondataAssumption DEF Gen
  <2> QED BY <1>1, <1>3, <2>1 DEF SentOK, MsgOK
<1> HIDE DEF h, i, top
<1>6. EventsOK(i, msg.events)
  BY <1>1, <1>3, <1>4, EventsLater
<1> QED BY <1>1, <1>2, <1>4, <1>5, <1>6 DEF SentOK, MsgOK, h, i, top

(* A history left alone keeps its gens.                                    *)
LEMMA KeptSame ==
  ASSUME NEW hist, NEW r \in Run, NEW g \in Gen
  PROVE  Kept(hist, r, g, hist, r, g)
BY DaemondataAssumption DEF Kept, Run, Gen

(* So what the nodes know, and the messages on their way, stay right.      *)
LEMMA StepKept ==
  ASSUME IInv, TypeOK',
         \A p \in Node : Kept(history[p], run[p], gen[p], history'[p], run'[p], gen'[p])
  PROVE  /\ \A n, p \in Node : ViewOK(view[n][p], history'[p], run'[p], gen'[p])
         /\ \A n \in Node : \A msg \in InFlight(n) :
              SentOK(msg, n, history'[n], run'[n], gen'[n])
<1>1. \A p \in Node : /\ history[p] \in [Run -> [Gen -> Data]]
                      /\ run[p] \in Run /\ gen[p] \in Gen
                      /\ history'[p] \in [Run -> [Gen -> Data]]
                      /\ run'[p] \in Run /\ gen'[p] \in Gen
  BY DEF IInv, TypeOK
<1>2. \A n, p \in Node : view[n][p] \in View
  BY DEF IInv, TypeOK
<1>3. \A n \in Node : InFlight(n) \subseteq Message
  <2>1. net \in [Node -> [1..MaxInFlight -> Message \cup {NoMsg}]]
    BY DEF IInv, TypeOK
  <2> QED BY Zenon, <2>1 DEF InFlight
<1>4. ASSUME NEW n \in Node, NEW p \in Node
      PROVE  ViewOK(view[n][p], history'[p], run'[p], gen'[p])
  BY Zenon, <1>1, <1>2, ViewKept DEF IInv
<1>5. ASSUME NEW n \in Node, NEW msg \in InFlight(n)
      PROVE  SentOK(msg, n, history'[n], run'[n], gen'[n])
  <2>1. msg \in Message /\ SentOK(msg, n, history[n], run[n], gen[n])
    BY <1>3 DEF IInv
  <2> QED BY ZenonT(30), <1>1, <2>1, SentKept
<1> QED BY <1>4, <1>5

(* A step that leaves the gens alone keeps the rest of the invariant.      *)
LEMMA SameGens ==
  ASSUME IInv, TypeOK', UNCHANGED <<gen, run, history>>
  PROVE  /\ \A n, p \in Node : ViewOK(view[n][p], history'[p], run'[p], gen'[p])
         /\ \A n \in Node : \A msg \in InFlight(n) :
              SentOK(msg, n, history'[n], run'[n], gen'[n])
         /\ UNCHANGED <<live, pending, queue>> => \A n \in Node : SenderOK(n)'
<1>1. \A p \in Node : run[p] \in Run /\ gen[p] \in Gen
  BY DEF IInv, TypeOK
<1>2. \A p \in Node : Kept(history[p], run[p], gen[p], history'[p], run'[p], gen'[p])
  BY <1>1, KeptSame
<1> QED BY <1>2, StepKept DEF IInv, SenderOK

(* A fault keeps the count of the faults in its bounds.                    *)
LEMMA FaultType ==
  ASSUME NEW f, Fault(f), TypeOK
  PROVE  faults' \in 0..MaxFaults
BY DaemondataAssumption DEF Fault, TypeOK

(* A peer nothing is known of is right whatever its history (dropPeer).    *)
LEMMA UnknownPeerOK ==
  /\ UnknownPeer \in View
  /\ \A hist, g : \A r \in Run : ViewOK(UnknownPeer, hist, r, g)
<1>1. UnknownPeer \in View
  BY Members DEF UnknownPeer, View
<1>2. UnknownPeer.run = 0 /\ UnknownPeer.gen = 0
  BY DEF UnknownPeer
<1> QED BY <1>1, <1>2, DaemondataAssumption DEF ViewOK, KnownOK, Run

(* A local event preserves the invariant: it is pending until it is        *)
(* committed (onSubEvent).                                                 *)
LEMMA ChangeOK ==
  ASSUME IInv, NEW n \in Node, NEW k \in Key, NEW deleted \in BOOLEAN,
         Change(n, k, deleted)
  PROVE  IInv'
<1> DEFINE v == IF deleted THEN 0 ELSE change[n] + 1
<1>1. v \in Val /\ v # NoChange /\ change[n] + 1 \in Val
  BY DaemondataAssumption DEF IInv, TypeOK, Change, Val, NoChange
<1>2. /\ live' = [live EXCEPT ![n][k] = v]
      /\ pending' = [pending EXCEPT ![n][k] = v]
      /\ change' = [change EXCEPT ![n] = @ + 1]
      /\ UNCHANGED <<queue, gen, kind, needMsg, sentGens, pubGens, members, view,
                     run, clock, net, rxTime, history>>
  BY DEF Change
<1> HIDE DEF v
<1>3. TypeOK'
  <2>1. live' \in [Node -> Data] /\ pending' \in [Node -> Delta]
    BY <1>1, <1>2 DEF IInv, TypeOK, Data, Delta
  <2>2. change' \in [Node -> Val]
    BY <1>1, <1>2 DEF IInv, TypeOK
  <2>3. faults' \in 0..MaxFaults
    BY DaemondataAssumption DEF IInv, TypeOK, Change, Hasty
  <2> QED BY <1>2, <2>1, <2>2, <2>3 DEF IInv, TypeOK
<1>4. ASSUME NEW m \in Node PROVE SenderOK(m)'
  <2> DEFINE x == history[m][run[m]][gen[m]]
  <2>1. /\ live[m] \in [Key -> Val] /\ pending[m] \in [Key -> Val \cup {NoChange}]
        /\ live[m] = Overlay(x, pending[m])
    BY DEF IInv, TypeOK, SenderOK, Data, Delta
  <2>2. live'[m] = Overlay(x, pending'[m])
    <3>1. CASE m = n
      <4>1. live'[m] = [live[m] EXCEPT ![k] = v] /\ pending'[m] = [pending[m] EXCEPT ![k] = v]
        BY <1>2, <3>1 DEF IInv, TypeOK
      <4> HIDE DEF x
      <4> QED BY <1>1, <2>1, <4>1 DEF Overlay
    <3>2. CASE m # n
      BY <1>2, <2>1, <3>2 DEF IInv, TypeOK
    <3> QED BY <3>1, <3>2
  <2> QED BY <1>2, <2>2 DEF IInv, SenderOK
<1> QED BY ZenonT(30), <1>2, <1>3, <1>4, SameGens DEF IInv, InFlight

(* What only changes the members, a clock, or what is known of a peer.     *)
LEMMA LocalChangeOK ==
  ASSUME IInv, faults' \in 0..MaxFaults,
         UNCHANGED <<live, pending, queue, gen, kind, needMsg, sentGens, pubGens, run,
                     net, change, history>>,
         members' \in [Node -> SUBSET Node],
         clock' \in [Node -> Time],
         rxTime' \in [Node -> [Node -> Time]],
         view' \in [Node -> [Node -> View]],
         \A m, p \in Node : view'[m][p] \in {view[m][p], UnknownPeer}
  PROVE  IInv'
<1>1. TypeOK'
  BY DEF IInv, TypeOK
<1>2. \A p \in Node : run'[p] \in Run
  BY <1>1 DEF TypeOK
<1>3. \A m, p \in Node : ViewOK(view'[m][p], history'[p], run'[p], gen'[p])
  BY <1>1, <1>2, SameGens, UnknownPeerOK
<1> QED BY <1>1, <1>3, SameGens DEF IInv, InFlight

(* Forgetting a peer leaves what is known of the others (dropPeer).        *)
LEMMA ForgetPeerView ==
  ASSUME view \in [Node -> [Node -> View]], NEW n \in Node, NEW p \in Node
  PROVE  LET e == [view EXCEPT ![n][p] = UnknownPeer]
         IN  /\ e \in [Node -> [Node -> View]]
             /\ \A m, q \in Node : e[m][q] \in {view[m][q], UnknownPeer}
BY UnknownPeerOK

(* The faults that touch no data of a gen preserve the invariant: a clock  *)
(* stepped back, a peer dropped, a member removed or added, a stamp        *)
(* forgotten.                                                              *)
LEMMA LocalFaultOK ==
  ASSUME IInv, NEW n \in Node
  PROVE  /\ \A at \in Time : StepBack(n, at) => IInv'
         /\ \A p \in Node : /\ DropPeer(n, p) => IInv'
                            /\ RemoveMember(n, p) => IInv'
                            /\ AddMember(n, p) => IInv'
                            /\ ForgetMsgTime(n, p) => IInv'
<1>1. /\ TypeOK
      /\ members \in [Node -> SUBSET Node]
      /\ clock \in [Node -> Time]
      /\ rxTime \in [Node -> [Node -> Time]]
      /\ view \in [Node -> [Node -> View]]
  BY DEF IInv, TypeOK
<1>2. ASSUME NEW at \in Time, StepBack(n, at) PROVE IInv'
  <2>1. clock' \in [Node -> Time]
    BY <1>1, <1>2 DEF StepBack
  <2> QED BY <1>1, <1>2, <2>1, FaultType, LocalChangeOK DEF StepBack
<1>3. ASSUME NEW p \in Node, DropPeer(n, p) PROVE IInv'
  <2>1. /\ view' \in [Node -> [Node -> View]]
        /\ \A m, q \in Node : view'[m][q] \in {view[m][q], UnknownPeer}
    BY <1>1, <1>3, ForgetPeerView DEF DropPeer
  <2> QED BY <1>1, <1>3, <2>1, FaultType, LocalChangeOK DEF DropPeer
<1>4. ASSUME NEW p \in Node, RemoveMember(n, p) PROVE IInv'
  <2>1. members' \in [Node -> SUBSET Node]
    BY <1>1, <1>4 DEF RemoveMember
  <2>2. /\ view' \in [Node -> [Node -> View]]
        /\ \A m, q \in Node : view'[m][q] \in {view[m][q], UnknownPeer}
    BY <1>1, <1>4, ForgetPeerView DEF RemoveMember
  <2> QED BY <1>1, <1>4, <2>1, <2>2, FaultType, LocalChangeOK DEF RemoveMember
<1>5. ASSUME NEW p \in Node, AddMember(n, p) PROVE IInv'
  <2>1. members' \in [Node -> SUBSET Node]
    BY <1>1, <1>5 DEF AddMember
  <2>2. faults' \in 0..MaxFaults
    BY <1>1, <1>5 DEF AddMember, TypeOK
  <2> QED BY <1>1, <1>5, <2>1, <2>2, LocalChangeOK DEF AddMember
<1>6. ASSUME NEW p \in Node, ForgetMsgTime(n, p) PROVE IInv'
  <2>1. rxTime' \in [Node -> [Node -> Time]]
    BY <1>1, <1>6, Members DEF ForgetMsgTime
  <2> QED BY <1>1, <1>6, <2>1, FaultType, LocalChangeOK DEF ForgetMsgTime
<1> QED BY <1>2, <1>3, <1>4, <1>5, <1>6

(* A restart preserves the invariant: the new run has a history of its own *)
(* (newData).                                                              *)
LEMMA RestartOK ==
  ASSUME IInv, NEW n \in Node, NEW at \in Time, Restart(n, at)
  PROVE  IInv'
<1>1. TypeOK /\ run[n] \in Run /\ run[n] + 1 \in Run
  <2>1. TypeOK /\ run[n] \in Run
    BY DEF IInv, TypeOK
  <2>2. run[n] < MaxRun
    BY Zenon DEF Restart
  <2> QED BY <2>1, <2>2, DaemondataAssumption DEF Run
<1>2. TypeOK'
  <2>1. live' \in [Node -> Data] /\ pending' \in [Node -> Delta]
        /\ queue' \in [Node -> [Gen -> Delta]]
    BY Zenon, <1>1, Members DEF TypeOK, Restart
  <2>2. gen' \in [Node -> Gen \ {0}] /\ kind' \in [Node -> Kind]
        /\ needMsg' \in [Node -> BOOLEAN]
    <3>1. 1 \in Gen \ {0} /\ "undef" \in Kind
      BY Members DEF Kind
    <3> QED BY Zenon, <1>1, <3>1 DEF TypeOK, Restart
  <2>3. [NoGens EXCEPT ![n] = 1] \in [Node -> Gen]
    BY Members
  <2>4. sentGens' \in [Node -> [Node -> Gen]] /\ pubGens' \in [Node -> [Node -> Gen]]
    BY Zenon, <1>1, <2>3, Members DEF TypeOK, Restart
  <2>5. [p \in Node |-> UnknownPeer] \in [Node -> View] /\ [p \in Node |-> 0] \in [Node -> Time]
    BY UnknownPeerOK, Members
  <2>6. view' \in [Node -> [Node -> View]] /\ rxTime' \in [Node -> [Node -> Time]]
    BY Zenon, <1>1, <2>5 DEF TypeOK, Restart
  <2>7. run' \in [Node -> Run] /\ clock' \in [Node -> Time]
    BY Zenon, <1>1 DEF TypeOK, Restart
  <2>8. history' \in [Node -> [Run -> [Gen -> Data]]]
    BY ZenonT(30), <1>1, Members DEF TypeOK, Restart
  <2>9. faults' \in 0..MaxFaults
    BY Zenon, <1>1, FaultType DEF Restart
  <2>10. UNCHANGED <<members, net, change>>
    BY ZenonT(30) DEF Restart
  <2> QED BY <1>1, <2>1, <2>2, <2>4, <2>6, <2>7, <2>8, <2>9, <2>10 DEF TypeOK
<1>3. ASSUME NEW p \in Node
      PROVE  Kept(history[p], run[p], gen[p], history'[p], run'[p], gen'[p])
  <2>1. CASE p = n
    <3>1. run'[n] = run[n] + 1
      BY ZenonT(30), <1>1 DEF TypeOK, Restart
    <3>2. ASSUME NEW s \in Run, NEW e \in Gen, s <= run[n]
          PROVE  history'[n][s][e] = history[n][s][e]
      <4>1. s # run[n] + 1
        BY <1>1, <3>2 DEF Run
      <4> QED BY Zenon, <1>1, <4>1 DEF TypeOK, Restart
    <3> QED BY <1>1, <2>1, <3>1, <3>2 DEF Kept, Run
  <2>2. CASE p # n
    <3>1. history'[p] = history[p] /\ run'[p] = run[p] /\ gen'[p] = gen[p]
          /\ run[p] \in Run /\ gen[p] \in Gen
      BY Zenon, <1>1, <2>2 DEF TypeOK, Restart
    <3> QED BY Zenon, <3>1, KeptSame
  <2> QED BY Zenon, <2>1, <2>2
<1>4. ASSUME NEW m \in Node PROVE SenderOK(m)'
  <2>1. CASE m = n
    <3>1. /\ run'[n] = run[n] + 1 /\ gen'[n] = 1 /\ live'[n] = EmptyData
          /\ pending'[n] = NoDelta /\ queue'[n] = EmptyQueue
      BY Zenon, <1>1 DEF TypeOK, Restart
    <3>2. history'[n][run[n] + 1][1] = EmptyData
      <4>1. /\ history \in [Node -> [Run -> [Gen -> Data]]]
            /\ history' = [history EXCEPT ![n][run[n] + 1][1] = EmptyData]
            /\ run[n] + 1 \in Run /\ 1 \in Gen
        BY Zenon, <1>1, Members DEF TypeOK, Restart
      <4> QED BY <4>1
    <3>3. Overlay(EmptyData, NoDelta) = EmptyData
      BY DEF Overlay, EmptyData, NoDelta
    <3>4. Entries(EmptyQueue) = {}
      BY DEF Entries, EmptyQueue
    <3> QED BY <2>1, <3>1, <3>2, <3>3, <3>4, EventsEmpty DEF SenderOK
  <2>2. CASE m # n
    <3>1. /\ live'[m] = live[m] /\ pending'[m] = pending[m] /\ queue'[m] = queue[m]
          /\ gen'[m] = gen[m] /\ run'[m] = run[m] /\ history'[m] = history[m]
      BY ZenonT(30), <1>1, <2>2 DEF TypeOK, Restart
    <3> QED BY ZenonT(30), <3>1 DEF IInv, SenderOK
  <2> QED BY <2>1, <2>2
<1>5. ASSUME NEW m \in Node, NEW p \in Node
      PROVE  ViewOK(view'[m][p], history'[p], run'[p], gen'[p])
  <2>1. run'[p] \in Run
    BY <1>2 DEF TypeOK
  <2>2. view'[m][p] \in {view[m][p], UnknownPeer}
    BY Zenon, <1>1 DEF TypeOK, Restart
  <2> QED BY Zenon, <1>2, <1>3, <2>1, <2>2, StepKept, UnknownPeerOK
<1>6. net' = net
  BY ZenonT(30) DEF Restart
<1> QED BY Zenon, <1>2, <1>3, <1>4, <1>5, <1>6, StepKept DEF IInv, InFlight

(* A message of a peer keeps what is known of the peer right, whether its  *)
(* run is accepted or not.                                                 *)
LEMMA ReceivedViewOK ==
  ASSUME NEW hist \in [Run -> [Gen -> Data]], NEW r \in Run, NEW g \in Gen,
         NEW v \in View, ViewOK(v, hist, r, g), NEW p \in Node,
         NEW msg \in Message, SentOK(msg, p, hist, r, g), NEW expired \in BOOLEAN
  PROVE  LET w == AcceptPeerRun(v, msg, expired)
             x == OnReceiveHbMsg(w, msg)
         IN  /\ w \in View /\ ViewOK(w, hist, r, g)
             /\ AcceptedPeerRun(v, msg, expired) => x \in View /\ ViewOK(x, hist, r, g)
<1> DEFINE w == AcceptPeerRun(v, msg, expired)
           x == OnReceiveHbMsg(w, msg)
<1>1. /\ w \in View
      /\ AcceptedPeerRun(v, msg, expired) => w.run = msg.run /\ msg.run # 0
      /\ ~AcceptedPeerRun(v, msg, expired) => w.run = v.run
      /\ \/ w.run = v.run /\ w.gen = v.gen /\ w.data = v.data
         \/ v.run = 0 /\ w.gen = v.gen
         \/ w.gen = 0
  BY AcceptPeerRunOK
<1> HIDE DEF w
<1>2. w.run <= r
  BY <1>1 DEF ViewOK, SentOK
<1>3. w.gen = 0 \/ (w.run = v.run /\ w.gen = v.gen /\ w.data = v.data)
  BY <1>1 DEF ViewOK, KnownOK
<1>4. 0 <= g
  BY DaemondataAssumption DEF Gen
<1>5. ViewOK(w, hist, r, g)
  BY <1>2, <1>3, <1>4 DEF ViewOK, KnownOK
<1>6. ASSUME AcceptedPeerRun(v, msg, expired)
      PROVE  x \in View /\ ViewOK(x, hist, r, g)
  <2>1. /\ w.run = msg.run /\ w.run # 0 /\ hist[msg.run] \in [Gen -> Data]
        /\ KnownOK(w, hist[msg.run]) /\ MsgOK(msg, hist[msg.run]) /\ msg.from = p
    BY <1>1, <1>5, <1>6 DEF ViewOK, SentOK, Message
  <2>2. x \in View /\ KnownOK(x, hist[msg.run]) /\ x.run = w.run /\ GenFrom(x, w, msg)
    BY <1>1, <2>1, OnReceiveHbMsgOK
  <2>3. x.gen \in Gen /\ msg.gens[p] \in Gen
    BY <2>2 DEF View, Message
  <2>4. x.run = r => x.gen <= g
    BY <1>4, <1>5, <2>1, <2>2, <2>3, DaemondataAssumption DEF GenFrom, ViewOK, SentOK, Gen
  <2> QED BY <1>2, <2>1, <2>2, <2>4 DEF ViewOK
<1> QED BY <1>1, <1>5, <1>6 DEF w

(* An update of what n knows of p leaves the rest.                         *)
LEMMA SetPeerView ==
  ASSUME view \in [Node -> [Node -> View]], NEW n \in Node, NEW p \in Node, NEW w \in View
  PROVE  LET e == [view EXCEPT ![n][p] = w]
         IN  /\ e \in [Node -> [Node -> View]]
             /\ \A m, q \in Node : e[m][q] \in {view[m][q]} \cup {x \in {w} : m = n /\ q = p}
OBVIOUS

(* A message received preserves the invariant, whichever message on its    *)
(* way it is (msgFromRx, onReceiveHbMsg).                                  *)
LEMMA ReceiveOK ==
  ASSUME IInv, NEW n \in Node, NEW p \in Node, NEW msg \in InFlight(p),
         NEW expired \in BOOLEAN, Receive(n, p, msg, expired), faults' \in 0..MaxFaults
  PROVE  IInv'
<1> DEFINE w == AcceptPeerRun(view[n][p], msg, expired)
           x == OnReceiveHbMsg(w, msg)
<1>1. /\ TypeOK /\ view \in [Node -> [Node -> View]] /\ view[n][p] \in View
      /\ history[p] \in [Run -> [Gen -> Data]] /\ run[p] \in Run /\ gen[p] \in Gen
  BY DEF IInv, TypeOK
<1>2. msg \in Message
  <2>1. net \in [Node -> [1..MaxInFlight -> Message \cup {NoMsg}]]
    BY <1>1 DEF TypeOK
  <2> QED BY ZenonT(30), <2>1 DEF InFlight
<1>3. SentOK(msg, p, history[p], run[p], gen[p])
      /\ ViewOK(view[n][p], history[p], run[p], gen[p])
  BY Zenon DEF IInv
<1>4. /\ w \in View /\ ViewOK(w, history[p], run[p], gen[p])
      /\ AcceptedPeerRun(view[n][p], msg, expired) =>
           x \in View /\ ViewOK(x, history[p], run[p], gen[p])
  BY ZenonT(30), <1>1, <1>2, <1>3, ReceivedViewOK
<1>5. /\ UNCHANGED <<live, pending, queue, gen, kind, sentGens, pubGens, members, run,
                     clock, net, change, history>>
      /\ rxTime' = [rxTime EXCEPT ![n][p] = msg.at]
      /\ \/ view' = view
         \/ view' = [view EXCEPT ![n][p] = w]
         \/ /\ view' = [view EXCEPT ![n][p] = x]
            /\ AcceptedPeerRun(view[n][p], msg, expired)
  BY DEF Receive
<1>6. needMsg' \in [Node -> BOOLEAN]
  BY Zenon, <1>1 DEF Receive, TypeOK, NeedMsg
<1>7. rxTime' \in [Node -> [Node -> Time]]
  <2>1. msg.at \in Time /\ rxTime \in [Node -> [Node -> Time]]
    BY <1>1, <1>2 DEF TypeOK, Message
  <2> QED BY <1>5, <2>1
<1> HIDE DEF w, x
<1>8. /\ view' \in [Node -> [Node -> View]]
      /\ \A m, q \in Node :
           view'[m][q] = view[m][q] \/ ViewOK(view'[m][q], history[q], run[q], gen[q])
  <2>1. CASE view' = view
    BY ZenonT(30), <1>1, <2>1
  <2>2. CASE view' = [view EXCEPT ![n][p] = w]
    BY <1>1, <1>4, <2>2, SetPeerView
  <2>3. CASE view' = [view EXCEPT ![n][p] = x] /\ AcceptedPeerRun(view[n][p], msg, expired)
    BY <1>1, <1>4, <2>3, SetPeerView
  <2> QED BY <1>5, <2>1, <2>2, <2>3
<1>9. TypeOK'
  BY <1>1, <1>5, <1>6, <1>7, <1>8 DEF TypeOK
<1>10. \A m, q \in Node : ViewOK(view'[m][q], history'[q], run'[q], gen'[q])
  BY <1>5, <1>8, <1>9, SameGens
<1> QED BY ZenonT(30), <1>5, <1>9, <1>10, SameGens DEF IInv, InFlight
=============================================================================
