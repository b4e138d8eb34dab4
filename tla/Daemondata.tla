----------------------------- MODULE Daemondata -----------------------------
(***************************************************************************)
(* The replication of the node data by the heartbeat messages              *)
(* (daemon/daemondata), with the filter of the received messages           *)
(* (daemon/hb/main.go, msgFromRx).                                         *)
(*                                                                         *)
(* Every node owns its node data.  A change is an event, the events        *)
(* pending at a propagation tick are committed as one more generation      *)
(* (gen) of the data, and the heartbeat message of the tick carries either *)
(* nothing (ping), the events of the last gens (patch), or the data and    *)
(* the events (full).  A node keeps, for each peer, the gen it applied of  *)
(* it; gen 0 means "nothing", and asks the peer a full message.            *)
(*                                                                         *)
(* The items of the node data are its pools and the parts of its instances *)
(* (config, status, monitor).  The data is a function from items to the    *)
(* number of the change that wrote the item, 0 for no item.  The numbers   *)
(* of a node only grow, across its restarts too, and stand for both the    *)
(* content and the UpdatedAt of an item.  The rest of the node data (its   *)
(* config, status, monitor, stats, daemon subsystems) is left out: it is   *)
(* compared, held and dropped in other ways.                               *)
(***************************************************************************)
EXTENDS Integers, FiniteSets, FiniteSetsExt

CONSTANTS
  Node,              \* the nodes of the cluster
  Key,               \* the items of the data of a node
  PoolKey,           \* the items that are pools, written on a full message
                     \* when stamped after the previous read; the others are
                     \* of instances, written when the two stamps differ
  NoData,            \* no data known of a peer
  NoMsg,             \* no message
  ConfirmCount,      \* peerRunConfirmCount
  StaleAge,          \* staleMsgMaxAge, in ticks of the clock of a node
  Writers,           \* bound: the nodes whose data changes
  MaxChange,         \* bound: changes of the data of a node, restarts included
  MaxGen,            \* bound: gens of a run
  MaxRun,            \* bound: daemon runs of a node
  Start,             \* Start[n]: wall clock of n at first; the clocks differ
  MaxClock,          \* bound: clock of a node, so MaxClock - Start[n] messages
  MaxInFlight,       \* bound: messages of a node still deliverable
  FaultKinds,        \* the faults of the instance
  MaxFaults,         \* bound: faults
  Calm               \* bound: what comes only between two exchanges of
                     \* messages, among "fault" and "change" (a change that
                     \* comes during an exchange counts as a fault)

Val == 0..MaxChange
Data == [Key -> Val]
NoChange == -1
Delta == [Key -> Val \cup {NoChange}]
Gen == 0..MaxGen
Run == 1..MaxRun
Time == 0..MaxClock
NoDelta == [k \in Key |-> NoChange]
EmptyData == [k \in Key |-> 0]
NoGens == [p \in Node |-> 0]
NoCandidate == [id |-> 0, at |-> 0, count |-> 0]
EmptyQueue == [g \in Gen |-> NoDelta]

VARIABLES
  live,       \* live[n]: data of n, clusterData.Cluster.Node[local]
  pending,    \* pending[n]: pendingEvs, the last write of each item
  queue,      \* queue[n]: eventQueue, the events by gen (NoDelta: no entry)
  gen,        \* gen[n]: gen of the local data
  kind,       \* kind[n]: hbMessageType
  needMsg,    \* needMsg[n]
  sentGens,   \* sentGens[n]: msgLocalGen
  pubGens,    \* pubGens[n]: node.GenData of the local node
  members,    \* members[n]: clusterNodes
  view,       \* view[n][p]: what n knows of p
  run,        \* run[n]: runID
  clock,      \* clock[n]: wall clock of n, the stamp of its last message
  net,        \* net[n]: last messages of n, the latest first
  rxTime,     \* rxTime[n][p]: msgTimes, stamp of the last message processed
  change,     \* change[n]: number of the last change of n
  faults,     \* number of faults so far
  history     \* history[n][r][g]: data of n at gen g of its run r

vars == <<live, pending, queue, gen, kind, needMsg, sentGens, pubGens, members,
          view, run, clock, net, rxTime, change, faults, history>>

(* What a node knows of a peer.  gen is hbGens[local][peer], gens is       *)
(* hbGens[peer] when heard, data is clusterData.Cluster.Node[peer], held   *)
(* is what the data holders of the items (instance.ConfigData, StatusData  *)
(* and MonitorData, pool.StatusData) have of the peer, prev is             *)
(* previousRemoteInfo[peer].                                               *)
Candidate == [id : 0..MaxRun, at : Time, count : Nat]
View == [gen : Gen, heard : BOOLEAN, gens : [Node -> Gen],
         data : Data \cup {NoData}, held : Data, prev : Data \cup {NoData},
         patchAt : Time, run : 0..MaxRun, runAt : Time, cand : Candidate]
UnknownPeer == [gen |-> 0, heard |-> FALSE, gens |-> NoGens,
                data |-> NoData, held |-> EmptyData, prev |-> NoData,
                patchAt |-> 0, run |-> 0, runAt |-> 0, cand |-> NoCandidate]

Kind == {"undef", "ping", "full", "patch"}
Message == [from : Node, run : Run, kind : Kind \ {"undef"}, gens : [Node -> Gen],
            at : Time, events : [Gen -> Delta], data : Data \cup {NoData}]

ASSUME DaemondataAssumption ==
  /\ PoolKey \subseteq Key
  /\ NoData \notin Data
  /\ NoMsg \notin Message
  /\ ConfirmCount \in Nat \ {0}
  /\ StaleAge \in Nat
  /\ Writers \subseteq Node
  /\ MaxChange \in Nat
  /\ MaxGen \in Nat \ {0}
  /\ MaxRun \in Nat \ {0}
  /\ MaxClock \in Nat
  /\ Start \in [Node -> Time]
  /\ MaxInFlight \in Nat \ {0}
  /\ MaxFaults \in Nat
-----------------------------------------------------------------------------
(* The gens of a queue, or of the events of a message, that have events.   *)
Entries(events) == {g \in Gen : events[g] # NoDelta}

(* The data x after the events of the gens lo+1..hi, in this order: the    *)
(* last write of each item.                                                *)
Play(x, events, lo, hi) ==
  [k \in Key |->
     LET writes == {g \in lo+1..hi : events[g][k] # NoChange}
     IN  IF writes = {} THEN x[k] ELSE events[Max(writes)][k]]

(* hbGens[local][local], which is set by the first commit.                 *)
OwnGen(n) == IF kind[n] = "undef" THEN 0 ELSE gen[n]

Peers(n) == Node \ {n}

InFlight(n) == {net[n][i] : i \in 1..MaxInFlight} \ {NoMsg}
-----------------------------------------------------------------------------
(* Sending.                                                                *)

(* Mutant: only the gen all the peers applied is purged.                   *)
PurgeThatGen(n, q, g) ==
  LET peerMinGen == Min({g} \cup {view[n][p].gens[n] : p \in
                           {p \in Peers(n) : view[n][p].heard /\ view[n][p].gens[n] # 0}})
  IN  [q EXCEPT ![peerMinGen] = NoDelta]

(* The lowest gen the peers applied, the ones that applied none excepted:  *)
(* they are sent a full message.                                           *)
PurgeAppliedPatchQueue(n, q, g) ==
  LET peerMinGen == Min({g} \cup {view[n][p].gens[n] : p \in
                           {p \in Peers(n) : view[n][p].heard /\ view[n][p].gens[n] # 0}})
  IN  [h \in Gen |-> IF h <= peerMinGen THEN NoDelta ELSE q[h]]

(* Mutant: the initial type is kept until a peer is heard.                 *)
KeptMsgType(n) ==
  IF \A p \in Peers(n) : ~view[n][p].heard THEN kind[n] ELSE "full"

(* Mutant: the ping mode is never left.                                    *)
StuckInPing(n) == IF kind[n] \in {"undef", "ping"} THEN "ping" ELSE "patch"

(* The type of the next message.                                           *)
NextMsgType(n) ==
  IF kind[n] = "undef" \/ \A p \in Peers(n) : ~view[n][p].heard THEN "ping"
  ELSE IF \/ kind[n] = "ping"
          \/ \E p \in Peers(n) \cap members[n] :
               view[n][p].heard /\ view[n][p].gens[n] = 0
       THEN "full"
       ELSE "patch"

(* setNextMsgType forgets the gens of a node that is not a member, which   *)
(* its comment calls a bug: see NoGensOfStrangers.                         *)
ForgetStrangers(n) ==
  IF kind[n] = "undef" THEN view[n]
  ELSE [p \in Node |-> IF p \in members[n] THEN view[n][p]
                       ELSE [view[n][p] EXCEPT !.heard = FALSE, !.gens = NoGens]]

(* The last MaxInFlight messages are still deliverable.  A lost message is *)
(* one that is not received.                                               *)
Enqueue(sent, msg) == [i \in 1..MaxInFlight |-> IF i = 1 THEN msg ELSE sent[i - 1]]

(* Mutant: the late messages are not stale.                                *)
NotSeen(at, last) == at # last

(* isStaleMsg, and the drop of a message already processed.                *)
Fresh(at, last) == at # last /\ (last = 0 \/ at > last \/ last - at >= StaleAge)

(* No message is due, and none is to be received.                          *)
Settled ==
  \A n \in Node :
    /\ pending[n] = NoDelta /\ sentGens[n] = pubGens[n] /\ ~needMsg[n]
    /\ \A p \in Peers(n) : \A msg \in InFlight(p) : ~Fresh(msg.at, rxTime[n][p])

(* commitPendingOps: the gen once the pending events are committed, and    *)
(* the event queue.  In ping mode the events are dropped, with the queue.  *)
Changes(n) == pending[n] # NoDelta
CommittedGen(n) == IF Changes(n) THEN gen[n] + 1 ELSE gen[n]

CommittedQueue(n) ==
  LET g == CommittedGen(n)
  IN  IF kind[n] \in {"patch", "full"}
      THEN PurgeAppliedPatchQueue(n, IF Changes(n) THEN [queue[n] EXCEPT ![g] = pending[n]]
                                     ELSE queue[n], g)
      ELSE EmptyQueue

(* getHbMessage.                                                           *)
HbMessage(n) ==
  LET type == NextMsgType(n)
  IN  [from |-> n, run |-> run[n], kind |-> type,
       gens |-> [p \in Node |-> IF p = n THEN CommittedGen(n) ELSE view[n][p].gen],
       at |-> clock[n] + 1,
       events |-> IF type = "ping" THEN EmptyQueue ELSE CommittedQueue(n),
       data |-> IF type = "full" THEN live[n] ELSE NoData]

(* queueNewHbMsg: the transmitters repeat the message until the next one.  *)
QueueNewHbMsg(n) ==
  LET msg == HbMessage(n)
  IN  /\ clock[n] < MaxClock
      /\ clock' = [clock EXCEPT ![n] = msg.at]
      /\ kind' = [kind EXCEPT ![n] = msg.kind]
      /\ view' = [view EXCEPT ![n] = ForgetStrangers(n)]
      /\ sentGens' = [sentGens EXCEPT ![n] = msg.gens]
      /\ net' = [net EXCEPT ![n] = Enqueue(@, msg)]
      /\ needMsg' = [needMsg EXCEPT ![n] = FALSE]

(* One propagation tick: commitPendingOps, then a message when something   *)
(* changed, when the gens of the last message are not published yet, when  *)
(* the heartbeat status is refreshed, or when a peer lacks something.      *)
Tick(n, refresh) ==
  LET toPublish == ~Changes(n) /\ sentGens[n] # pubGens[n]
      needMessage == Changes(n) \/ toPublish \/ refresh \/ needMsg[n]
  IN  /\ CommittedGen(n) <= MaxGen
      /\ gen' = [gen EXCEPT ![n] = CommittedGen(n)]
      /\ queue' = [queue EXCEPT ![n] = CommittedQueue(n)]
      /\ pending' = [pending EXCEPT ![n] = NoDelta]
      /\ history' = [history EXCEPT ![n][run[n]][CommittedGen(n)] = live[n]]
      /\ pubGens' = [pubGens EXCEPT ![n] = IF toPublish THEN sentGens[n] ELSE @]
      /\ \/ needMessage /\ QueueNewHbMsg(n)
         \/ ~needMessage /\ UNCHANGED <<clock, kind, view, sentGens, net, needMsg>>
      /\ UNCHANGED <<live, members, run, rxTime, change>>

(* Bound: the faults a change counts for.                                  *)
Hasty == IF "change" \in Calm /\ ~Settled THEN 1 ELSE 0

(* A local event (onSubEvent, forwardEvent): an item written or deleted.   *)
Change(n, k, deleted) ==
  LET v == IF deleted THEN 0 ELSE change[n] + 1
  IN  /\ n \in Writers
      /\ faults + Hasty <= MaxFaults
      /\ change[n] < MaxChange
      /\ deleted => live[n][k] # 0
      /\ live' = [live EXCEPT ![n][k] = v]
      /\ pending' = [pending EXCEPT ![n][k] = v]
      /\ change' = [change EXCEPT ![n] = @ + 1]
      /\ faults' = faults + Hasty
      /\ UNCHANGED <<queue, gen, kind, needMsg, sentGens, pubGens, members, view,
                     run, clock, net, rxTime, history>>
-----------------------------------------------------------------------------
(* Receiving.  The operators below take what the node knows of the peer    *)
(* and return it updated by the message.                                   *)

(* Mutant: the gen applied of the previous run is kept.                    *)
SwitchPeerRunOnly(v, msg) ==
  [v EXCEPT !.patchAt = 0, !.prev = NoData, !.cand = NoCandidate,
            !.run = msg.run, !.runAt = msg.at]

SwitchPeerRun(v, msg) ==
  [v EXCEPT !.gen = 0, !.patchAt = 0, !.prev = NoData, !.cand = NoCandidate,
            !.run = msg.run, !.runAt = msg.at]

(* The candidate run of the peer once msg, of an older run, is counted.    *)
(* expired: the candidate was not seen for peerRunCandidateExpire.         *)
NextCandidate(v, msg, expired) ==
  IF v.cand.id # msg.run \/ expired
  THEN [id |-> msg.run, at |-> msg.at, count |-> 1]
  ELSE IF msg.at > v.cand.at
       THEN [v.cand EXCEPT !.at = msg.at, !.count = @ + 1]
       ELSE v.cand

AcceptedPeerRun(v, msg, expired) ==
  \/ v.run \in {0, msg.run}
  \/ msg.at > v.runAt
  \/ NextCandidate(v, msg, expired).count >= ConfirmCount

AcceptPeerRun(v, msg, expired) ==
  CASE v.run = 0 -> [v EXCEPT !.run = msg.run, !.runAt = msg.at]
    [] v.run = msg.run ->
         [v EXCEPT !.runAt = IF msg.at > @ THEN msg.at ELSE @, !.cand = NoCandidate]
    [] OTHER ->
         IF AcceptedPeerRun(v, msg, expired) THEN SwitchPeerRun(v, msg)
         ELSE [v EXCEPT !.cand = NextCandidate(v, msg, expired)]

SetFromPeerMsg(v, msg) == [v EXCEPT !.heard = TRUE, !.gens = msg.gens]

(* Mutant: every message is answered.                                      *)
AlwaysNeedMsg(n, v, msg) == TRUE

(* The peer did not apply the gen of n, or n not the gen of the peer.      *)
NeedMsg(n, v, msg) == msg.gens[n] # OwnGen(n) \/ msg.gens[msg.from] # v.gen

(* Mutant: a hole, or no event, is not a reason to ask a full message.     *)
ApplyWhatFollows(v, msg) ==
  LET top == Max({g \in v.gen..MaxGen : v.gen+1..g \subseteq Entries(msg.events)})
  IN  IF v.gen = 0 \/ msg.at < v.patchAt THEN v
      ELSE [v EXCEPT !.data = Play(@, msg.events, v.gen, top),
                     !.held = Play(@, msg.events, v.gen, top), !.gen = top,
                     !.patchAt = IF top > v.gen THEN msg.at ELSE @]

(* The events above the gen applied, while they follow one another.  A     *)
(* hole, a gen that went back, and no event to reach the gen of the peer   *)
(* ask for a full message.                                                 *)
ApplyMsgEvents(v, msg) ==
  LET peerGen == msg.gens[msg.from]
      entries == Entries(msg.events)
      top == Max({g \in v.gen..MaxGen : v.gen+1..g \subseteq entries})
      broken == \E g \in entries : g > top
  IN  IF v.gen = 0 \/ msg.at < v.patchAt THEN v
      ELSE IF peerGen < v.gen \/ (entries = {} /\ peerGen > v.gen)
           THEN [v EXCEPT !.gen = 0]
           ELSE [v EXCEPT !.data = Play(@, msg.events, v.gen, top),
                          !.held = Play(@, msg.events, v.gen, top),
                          !.gen = IF broken THEN 0 ELSE top,
                          !.patchAt = IF top > v.gen THEN msg.at ELSE @]

(* Mutant: the items removed are the ones of the previous read.            *)
RemovedSincePrevious(v, data) ==
  [k \in Key |-> IF data[k] # 0 \/ (v.prev # NoData /\ v.prev[k] # 0)
                 THEN data[k] ELSE v.held[k]]

(* What the holders of pools and instances have of the peer after a full   *)
(* message: an item is written when it is new since, or changed from, the  *)
(* previous read, and removed when the peer no longer has it.              *)
PubPeerDataChanges(v, data) ==
  [k \in Key |->
     IF \/ data[k] = 0
        \/ v.prev = NoData
        \/ v.prev[k] = 0
        \/ (IF k \in PoolKey THEN data[k] > v.prev[k] ELSE data[k] # v.prev[k])
     THEN data[k]
     ELSE v.held[k]]

ApplyNodeData(v, msg) ==
  [v EXCEPT !.data = msg.data, !.gen = msg.gens[msg.from],
            !.held = PubPeerDataChanges(v, msg.data), !.prev = msg.data]

OnReceiveHbMsg(v, msg) ==
  LET seen == SetFromPeerMsg(v, msg)
      peerGen == msg.gens[msg.from]
      patched == IF v.gen + Cardinality(Entries(msg.events)) >= peerGen
                 THEN ApplyMsgEvents(seen, msg)
                 ELSE seen
  IN  CASE msg.kind = "patch" -> [ApplyMsgEvents(seen, msg) EXCEPT !.prev = NoData]
        [] msg.kind = "ping" -> [seen EXCEPT !.prev = NoData]
        [] msg.kind = "full" ->
             IF v.gen = peerGen THEN seen
             ELSE IF patched.gen = peerGen THEN patched
             ELSE ApplyNodeData(patched, msg)

(* msgFromRx hands msg over to daemondata, which drops it when its sender  *)
(* is not a cluster member.                                                *)
Receive(n, p, msg, expired) ==
  LET v == AcceptPeerRun(view[n][p], msg, expired)
  IN  /\ p # n
      /\ Fresh(msg.at, rxTime[n][p])
      /\ rxTime' = [rxTime EXCEPT ![n][p] = msg.at]
      /\ \/ /\ p \notin members[n]
            /\ UNCHANGED <<view, needMsg>>
         \/ /\ p \in members[n]
            /\ ~AcceptedPeerRun(view[n][p], msg, expired)
            /\ view' = [view EXCEPT ![n][p] = v]
            /\ UNCHANGED needMsg
         \/ /\ p \in members[n]
            /\ AcceptedPeerRun(view[n][p], msg, expired)
            /\ view' = [view EXCEPT ![n][p] = OnReceiveHbMsg(v, msg)]
            /\ needMsg' = [needMsg EXCEPT ![n] = @ \/ NeedMsg(n, v, msg)]
      /\ UNCHANGED <<live, pending, queue, gen, kind, sentGens, pubGens, members, run,
                     clock, net, change, history>>
-----------------------------------------------------------------------------
(* Faults, and what changes the members.                                   *)

Fault(f) ==
  /\ f \in FaultKinds
  /\ faults < MaxFaults
  /\ "fault" \in Calm => Settled
  /\ faults' = faults + 1

(* The daemon of n restarts: newData, with the clock possibly stepped back *)
(* meanwhile.  What it sent is still on its way.                           *)
Restart(n, at) ==
  /\ at <= clock[n]
  /\ run[n] < MaxRun
  /\ Fault(IF at < clock[n] THEN "restart back" ELSE "restart")
  /\ run' = [run EXCEPT ![n] = @ + 1]
  /\ live' = [live EXCEPT ![n] = EmptyData]
  /\ pending' = [pending EXCEPT ![n] = NoDelta]
  /\ queue' = [queue EXCEPT ![n] = EmptyQueue]
  /\ gen' = [gen EXCEPT ![n] = 1]
  /\ kind' = [kind EXCEPT ![n] = "undef"]
  /\ needMsg' = [needMsg EXCEPT ![n] = FALSE]
  /\ sentGens' = [sentGens EXCEPT ![n] = NoGens]
  /\ pubGens' = [pubGens EXCEPT ![n] = [NoGens EXCEPT ![n] = 1]]
  /\ view' = [view EXCEPT ![n] = [p \in Node |-> UnknownPeer]]
  /\ rxTime' = [rxTime EXCEPT ![n] = [p \in Node |-> 0]]
  /\ clock' = [clock EXCEPT ![n] = at]
  /\ history' = [history EXCEPT ![n][run[n] + 1][1] = EmptyData]
  /\ UNCHANGED <<members, net, change>>

(* dropPeer: the peer is stale (DropPeerNode).  Its instances and pools    *)
(* are unset whatever is known of it.                                      *)
DropPeer(n, p) ==
  /\ Fault("drop")
  /\ p # n
  /\ view' = [view EXCEPT ![n][p] = UnknownPeer]
  /\ UNCHANGED <<live, pending, queue, gen, kind, needMsg, sentGens, pubGens, members,
                 run, clock, net, rxTime, change, history>>

(* Mutant: the node removed is not dropped.                                *)
RemoveMemberOnly(n, p) ==
  /\ Fault("member")
  /\ p \in members[n] \ {n}
  /\ members' = [members EXCEPT ![n] = @ \ {p}]
  /\ UNCHANGED <<live, pending, queue, gen, kind, needMsg, sentGens, pubGens, view,
                 run, clock, net, rxTime, change, history>>

(* ClusterConfigUpdated: a node removed from the cluster, or added.        *)
RemoveMember(n, p) ==
  /\ Fault("member")
  /\ p \in members[n] \ {n}
  /\ members' = [members EXCEPT ![n] = @ \ {p}]
  /\ view' = [view EXCEPT ![n][p] = UnknownPeer]
  /\ UNCHANGED <<live, pending, queue, gen, kind, needMsg, sentGens, pubGens,
                 run, clock, net, rxTime, change, history>>

AddMember(n, p) ==
  /\ p \in Node \ members[n]
  /\ members' = [members EXCEPT ![n] = @ \cup {p}]
  /\ UNCHANGED <<live, pending, queue, gen, kind, needMsg, sentGens, pubGens, view,
                 run, clock, net, rxTime, change, history, faults>>

(* The wall clock of n is stepped back.                                    *)
StepBack(n, at) ==
  /\ at < clock[n]
  /\ Fault("step")
  /\ clock' = [clock EXCEPT ![n] = at]
  /\ UNCHANGED <<live, pending, queue, gen, kind, needMsg, sentGens, pubGens, members,
                 view, run, net, rxTime, change, history>>

(* msgFromRx forgets the stamp of the last message of p, older than        *)
(* msgTimeDuration on the clock of n.                                      *)
ForgetMsgTime(n, p) ==
  /\ Fault("forget")
  /\ rxTime[n][p] # 0
  /\ rxTime' = [rxTime EXCEPT ![n][p] = 0]
  /\ UNCHANGED <<live, pending, queue, gen, kind, needMsg, sentGens, pubGens, members,
                 view, run, clock, net, change, history>>
-----------------------------------------------------------------------------
Init ==
  /\ live = [n \in Node |-> EmptyData]
  /\ pending = [n \in Node |-> NoDelta]
  /\ queue = [n \in Node |-> EmptyQueue]
  /\ gen = [n \in Node |-> 1]
  /\ kind = [n \in Node |-> "undef"]
  /\ needMsg = [n \in Node |-> FALSE]
  /\ sentGens = [n \in Node |-> NoGens]
  /\ pubGens = [n \in Node |-> [NoGens EXCEPT ![n] = 1]]
  /\ members = [n \in Node |-> Node]
  /\ view = [n \in Node |-> [p \in Node |-> UnknownPeer]]
  /\ run = [n \in Node |-> 1]
  /\ clock = Start
  /\ net = [n \in Node |-> [i \in 1..MaxInFlight |-> NoMsg]]
  /\ rxTime = [n \in Node |-> [p \in Node |-> 0]]
  /\ change = [n \in Node |-> 0]
  /\ faults = 0
  /\ history = [n \in Node |-> [r \in Run |-> [g \in Gen |-> EmptyData]]]

Converged ==
  \A n \in Node : \A p \in Peers(n) :
    view[n][p].data = live[p] /\ view[n][p].held = live[p]

(* A tick, with the heartbeat status refreshed (subHbRefreshTicker) or     *)
(* not.  Bound: the periodic refresh is slow, it is explored between two   *)
(* exchanges of messages and until the cluster converged, or as a fault.   *)
PropagationTick(n) ==
  \/ Tick(n, FALSE) /\ UNCHANGED faults
  \/ Fault("refresh") /\ Tick(n, TRUE)
  \/ Settled /\ ~Converged /\ Tick(n, TRUE) /\ UNCHANGED faults

(* A message received, the run candidate of its sender expired or not.     *)
MsgFromRx(n, p) ==
  \E msg \in InFlight(p) :
    \/ Receive(n, p, msg, FALSE) /\ UNCHANGED faults
    \/ /\ "expire" \in FaultKinds
       /\ view[n][p].cand # NoCandidate
       /\ Receive(n, p, msg, TRUE)
       /\ UNCHANGED faults

Next ==
  \E n \in Node :
    \/ PropagationTick(n)
    \/ \E k \in Key, deleted \in BOOLEAN : Change(n, k, deleted)
    \/ \E at \in Time : Restart(n, at) \/ StepBack(n, at)
    \/ \E p \in Node :
         MsgFromRx(n, p) \/ DropPeer(n, p) \/ RemoveMember(n, p) \/ AddMember(n, p)
           \/ ForgetMsgTime(n, p)

Spec == Init /\ [][Next]_vars

(* The propagation ticker fires for ever, and the transmitters repeat the  *)
(* last message, which a peer ends up receiving.                           *)
FairSpec ==
  /\ Spec
  /\ \A n \in Node : WF_vars(PropagationTick(n))
  /\ \A n \in Node : \A p \in Peers(n) : WF_vars(MsgFromRx(n, p))
-----------------------------------------------------------------------------
(* Properties.                                                             *)

(* Every variable has its type: in particular the gen of a node is never   *)
(* 0, which its peers would take for no data (newData, commitPendingOps),  *)
(* and no message is sent with the type "undef" (getHbMessage).            *)
TypeOK ==
  /\ live \in [Node -> Data]
  /\ pending \in [Node -> Delta]
  /\ queue \in [Node -> [Gen -> Delta]]
  /\ gen \in [Node -> Gen \ {0}]
  /\ kind \in [Node -> Kind]
  /\ needMsg \in [Node -> BOOLEAN]
  /\ sentGens \in [Node -> [Node -> Gen]]
  /\ pubGens \in [Node -> [Node -> Gen]]
  /\ members \in [Node -> SUBSET Node]
  /\ view \in [Node -> [Node -> View]]
  /\ run \in [Node -> Run]
  /\ clock \in [Node -> Time]
  /\ net \in [Node -> [1..MaxInFlight -> Message \cup {NoMsg}]]
  /\ rxTime \in [Node -> [Node -> Time]]
  /\ change \in [Node -> Val]
  /\ faults \in 0..MaxFaults
  /\ history \in [Node -> [Run -> [Gen -> Data]]]

(* A node that says it applied gen g of a peer has the data the peer had   *)
(* at gen g of the run the node knows of it, whatever was lost, repeated,  *)
(* reordered, dropped or restarted: events are never played on another     *)
(* base than theirs (applyMsgEvents, applyNodeData, acceptPeerRun).  It    *)
(* has data to play events on too, so the panic of applyMsgEvents is not   *)
(* reached.                                                                *)
GenMeansData ==
  \A n, p \in Node :
    LET v == view[n][p]
    IN  v.gen # 0 => /\ v.run # 0
                     /\ v.data = history[p][v.run][v.gen]

(* What the holders of pools and instances have of a peer, which the       *)
(* monitors of the daemon read, is what the cluster data has of it,        *)
(* whichever of the events, the difference of two full messages or a drop  *)
(* of the peer wrote it (setCacheAndPublish,                               *)
(* pubMsgFromNodeInstanceDiffForNode, pubMsgFromNodePoolDiffForNode,       *)
(* dropPeer).  The holders of the node level are not in it.                *)
HoldersAgree ==
  \A n, p \in Node :
    view[n][p].held = IF view[n][p].data = NoData THEN EmptyData ELSE view[n][p].data

(* The gens of a peer are kept only while the peer is a cluster member:    *)
(* the cleanup setNextMsgType logs as a bug never has anything to clean.   *)
NoGensOfStrangers ==
  \A n \in Node : \A p \in Peers(n) : view[n][p].heard => p \in members[n]

(* The gens with events in the queue of a node follow one another up to    *)
(* its gen: a patch never has a hole of its own, so a peer finds a hole    *)
(* only when it is behind the whole queue (commitPendingOps,               *)
(* purgeAppliedPatchQueue).                                                *)
QueueIsContiguous ==
  \A n \in Node :
    \A g \in Entries(queue[n]) : g..gen[n] \subseteq Entries(queue[n])

(* A message of the known run of a peer handed over by msgFromRx brings    *)
(* this node to the gen of the peer, or asks a full message: it is never   *)
(* processed for nothing (onReceiveHbMsg).                                 *)
ProcessedIsAppliedOrAsked ==
  [][\A n, p \in Node : \A msg \in InFlight(p) :
       /\ rxTime'[n][p] # rxTime[n][p]
       /\ rxTime'[n][p] = msg.at
       /\ msg.kind # "ping"
       /\ p \in members[n]
       /\ view'[n][p].run = msg.run
       => view'[n][p].gen \in {0, msg.gens[p]}]_vars

(* The gen applied of a run of a peer is never set back to an older gen of *)
(* that run (msgFromRx drops the stale messages for this).                 *)
NeverSetBack ==
  [][\A n, p \in Node :
       /\ view[n][p].run = view'[n][p].run
       /\ view[n][p].run # 0
       /\ view'[n][p].gen # 0
       => view'[n][p].gen >= view[n][p].gen]_vars

(* The nodes do not answer one another for ever: without a refresh, a      *)
(* change, a restart or a dropped peer makes a few messages only           *)
(* (setFromPeerMsg, gensEqual), less than MaxClock for a node.             *)
NoMessageStorm == \A n \in Node : clock[n] < MaxClock

(* Once the data stops changing and the faults stop, every node ends up    *)
(* with the data of every peer, and keeps it.                              *)
Convergence == <>[]Converged
=============================================================================
