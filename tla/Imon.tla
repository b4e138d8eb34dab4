-------------------------------- MODULE Imon --------------------------------
(***************************************************************************)
(* The instance monitors of a failover object (daemon/imon), one on each   *)
(* node: what the nodes do of the requests to start, stop and abort, of a  *)
(* failed start, of an instance or a node that goes, and how they end an   *)
(* orchestration together.  The object has orchestrate=ha and is placed by *)
(* the order of the nodes.                                                 *)
(*                                                                         *)
(* A monitor is one goroutine.  It reads the monitors and the statuses of  *)
(* the others as the object monitor (daemon/omon) forwards them, in the    *)
(* order each node published them, changes its own monitor and publishes   *)
(* it.  An action of the instance is run by the runner, and the goroutine  *)
(* waits for its end: nothing is read meanwhile.                           *)
(***************************************************************************)
EXTENDS Integers, Sequences, FiniteSets, SequencesExt, FiniteSetsExt

CONSTANTS
  Node,              \* the nodes of the object
  None,              \* what is not known yet
  Rank,              \* Rank[n]: the place of n in the configuration
  Requests,          \* the global expects asked
  MaxRequests,       \* bound: requests accepted
  Faults,            \* the faults there are: an action fails, "action", an
                     \* instance goes down by itself, "instance", a node
                     \* crashes, "node"
  MaxFaults,         \* bound: faults
  MaxQueue,          \* bound: events a node has not read from another
  Calm               \* "prompt": the ready period, the heartbeat timeout and
                     \* a rejoin are longer than the propagation; "local":
                     \* the monitor reads its own events first

VARIABLES
  mon,      \* mon[n]: t.state
  said,     \* said[n]: t.previousState, as published
  own,      \* own[n]: t.instStatus[n]
  stat,     \* stat[n]: the status of istat, as published
  view,     \* view[n][m]: t.instMonitor[m], t.instStatus[m], and whether
            \* t.nodeMonitor[m] is rankable
  inbox,    \* inbox[n][m]: the events of m that n has not read
  again,    \* again[n]: the delay timer runs
  cmds,     \* cmds[n]: the cmdOrchestrate being sent to n
  pend,     \* pend[n]: t.pendingCtx: "none", "ready", "over", "stop"
  exec,     \* exec[n]: the action that runs: "none", "start", "stop"
  order,    \* order[n]: t.orchestrationPending, 0 or a request
  up,       \* up[n]: the instance runs on n
  alive,    \* the nodes that run
  rejoin,   \* the nodes in the rejoin state
  missed,   \* missed[n]: the nodes flagged stopped after n last touched its
            \* last shutdown file
  lost,     \* lost[n]: missed[n] as n rejoined: flagged between LeftAt and
            \* RejoinedAt
  told,     \* the nodes whose monitor knows RejoinedAt
  merged,   \* the nodes with isPeerStoppedMerged
  asked,    \* the requests accepted, in the order of their stamps
  verdict,  \* verdict[r]: what was said of the end of the request r
  ended,    \* the nodes that ended the last stop, with no start since
  faults

loopVars == <<mon, said, own, stat, view, inbox, again, cmds, pend, order, merged>>
nodeVars == <<exec, up, alive, rejoin, missed, lost, told, faults>>
askVars == <<asked, verdict, ended>>
vars == <<loopVars, nodeVars, askVars>>

State == {"idle", "ready", "starting", "started", "start failed",
          "stopping", "stopped", "stop failed"}
GlobalExpect == {"none", "started", "stopped", "aborted"}
Request == 1..MaxRequests

(* The stamp of a global expect is the number of its request, its          *)
(* orchestration id too: 0 is none.                                        *)
Monitor == [state : State, ge : GlobalExpect, at : {0} \cup Request,
            id : {0} \cup Request, done : BOOLEAN]
IdleMonitor == [state |-> "idle", ge |-> "none", at |-> 0, id |-> 0, done |-> FALSE]

(* A status: the instance is up, it is flagged stopped, and the status was *)
(* evaluated since the flag was raised.                                    *)
InstStatus == [up : BOOLEAN, stopped : BOOLEAN, fresh : BOOLEAN]
NoView == [mon |-> None, stat |-> None, ranked |-> FALSE]
Ev(kind, v) == [kind |-> kind, v |-> v]
Peers(n) == Node \ {n}

ASSUME ImonAssumption ==
  /\ Rank \in [Node -> Nat]
  /\ \A n, m \in Node : Rank[n] = Rank[m] => n = m
  /\ Requests \subseteq GlobalExpect \ {"none"}
  /\ Faults \subseteq {"action", "instance", "node"}
  /\ {MaxRequests, MaxFaults, MaxQueue} \subseteq Nat
-----------------------------------------------------------------------------
(* What a step of the monitor of n reads and changes: a record L, from     *)
(* Local(n), which Commit writes back.  L.out is what it publishes.        *)

Local(n) == [n |-> n, mon |-> mon[n], said |-> said[n], own |-> own[n], stat |-> stat[n],
             view |-> view[n], pend |-> pend[n], exec |-> "none", order |-> order[n],
             merged |-> n \in merged, rejoin |-> n \in rejoin, told |-> n \in told,
             lost |-> lost[n], verdict |-> verdict, ended |-> ended, out |-> <<>>]

(* A step, then another from where it ended.                               *)
Then(L, Step(_)) == CHOOSE M \in {Step(a) : a \in {L}} : TRUE

(* updateIfChange: the monitor is published when it changed.               *)
Publish(L) == IF L.mon = L.said THEN L
              ELSE [L EXCEPT !.said = L.mon, !.out = Append(@, Ev("mon", L.mon))]

TransitionTo(L, state) == Then([L EXCEPT !.mon.state = state], Publish)

Done(L) == IF L.mon.id = 0 THEN L ELSE [L EXCEPT !.mon.done = TRUE]
DoneAndIdle(L) == [Done(L) EXCEPT !.mon.state = "idle"]

(* setStopped, unsetStopped: the flag is seen at once here, and istat      *)
(* publishes the status it changes.                                        *)
SetStopped(L, raised) ==
  IF L.own.stopped = raised THEN L
  ELSE LET s == [L.stat EXCEPT !.stopped = raised, !.fresh = ~raised]
       IN  [L EXCEPT !.own.stopped = raised, !.own.fresh = ~raised,
                     !.stat = s, !.out = Append(@, Ev("stat", s))]

StatusOf(L, m) == IF m = L.n THEN L.own ELSE L.view[m].stat
MonitorOf(L, m) == IF m = L.n THEN L.mon ELSE L.view[m].mon
AllMonitors(L) == {MonitorOf(L, m) : m \in {k \in Node : MonitorOf(L, k) # None}}

(* The avail of a failover object (omon updateStatus), isObjectStarted.    *)
(* An instance is up or down: one in warn is not modelled.                 *)
UpInstances(L) == Cardinality({m \in Node : StatusOf(L, m) # None /\ StatusOf(L, m).up})
IsStarted(L) == UpInstances(L) = 1
IsWarn(L) == UpInstances(L) > 1

(* hasInstanceMonitorAndStatusOnPeers: a node known by one of them has     *)
(* both.                                                                   *)
PeersAreKnown(L) ==
  \A m \in Peers(L.n) : (L.view[m].mon = None) = (L.view[m].stat = None)

(* Mutant: the states of the peers are not looked at.                      *)
NoPeerState(L, states) == FALSE

IsAnyPeerState(L, states) ==
  \E m \in Peers(L.n) : L.view[m].mon # None /\ L.view[m].mon.state \in states

HasOtherNodeActing(L) == IsAnyPeerState(L, {"starting", "stopping"})

(* isStartCandidateLeader.                                                 *)
IsStartCandidateLeader(L, isDaemonDecision) ==
  LET candidates == {m \in Node : /\ StatusOf(L, m) # None /\ MonitorOf(L, m) # None
                                  /\ isDaemonDecision => ~StatusOf(L, m).stopped
                                  /\ MonitorOf(L, m).state # "start failed"
                                  /\ IF m = L.n THEN ~L.rejoin ELSE L.view[m].ranked}
  IN  L.n \in candidates /\ \A m \in candidates : Rank[L.n] <= Rank[m]

(* isStartLeader: the cached IsHALeader is up to date where it is read, as *)
(* every event updates it, and no step changes what it depends on and then *)
(* reads it.                                                               *)
IsStartLeader(L) == IsStartCandidateLeader(L, L.mon.ge # "started")

(* isConvergedGlobalExpect.                                                *)
IsConverged(L) ==
  /\ \A m \in Peers(L.n) : L.view[m].mon # None => L.mon.at <= L.view[m].mon.at
  /\ \A m \in Peers(L.n) : L.view[m].mon = None => L.view[m].stat = None

(* savePendingOrchestration.                                               *)
SavePending(L) == IF L.order = 0 THEN L
                  ELSE [L EXCEPT !.verdict[L.order] = "aborted", !.order = 0]

(* convergeGlobalExpectFromRemote.                                         *)
Converge(L) ==
  LET seen == {L.view[m].mon : m \in {k \in Peers(L.n) : L.view[k].mon # None}}
      recent == CHOOSE v \in seen : \A w \in seen : w.at <= v.at
  IN  IF seen = {} \/ recent.at <= L.mon.at THEN L
      ELSE Then([L EXCEPT !.mon = [state |-> "idle", ge |-> recent.ge, at |-> recent.at,
                                   id |-> recent.id, done |-> FALSE]],
                LAMBDA a : IF a.mon.ge = "aborted" THEN SavePending(a) ELSE a)
-----------------------------------------------------------------------------
(* The orchestrations.                                                     *)

Reached(L) == L.own.up \/ IsStarted(L)

(* startedClearIfReached, when it is.                                      *)
StartedClear(L) == [(IF L.mon.done THEN L ELSE DoneAndIdle(L)) EXCEPT !.pend = "none"]

StartedFromUnfrozen(L) ==
  IF Reached(L) THEN StartedClear(L)
  ELSE IF \/ ~IsStartLeader(L)
          \/ HasOtherNodeActing(L)
          \/ IsAnyPeerState(L, {"starting", "ready"})
  THEN L
  ELSE [TransitionTo(L, "ready") EXCEPT !.pend = "ready"]

StartedFromIdle(L) ==
  IF L.mon.ge = "none" /\ L.own.stopped THEN L ELSE StartedFromUnfrozen(L)

(* cancelReadyState: what ends a ready state, and how.                     *)
ReadyIsOver(L) == \/ L.pend = "none" \/ Reached(L) \/ ~IsStartLeader(L)
                  \/ IsAnyPeerState(L, {"starting", "ready"})
CancelReady(L) == IF L.pend # "none" /\ Reached(L) THEN StartedClear(L)
                  ELSE [TransitionTo(L, "idle") EXCEPT !.pend = "none"]

(* Mutant: the monitor is in the state the action is named after.          *)
QueueActionByName(L, action) ==
  [TransitionTo(L, action)
     EXCEPT !.exec = action, !.ended = IF action = "start" THEN {} ELSE @]

(* queueAction, doAction: up to the action.                                *)
QueueAction(L, action) ==
  [TransitionTo(L, IF action = "start" THEN "starting" ELSE "stopping")
     EXCEPT !.exec = action, !.ended = IF action = "start" THEN {} ELSE @]

StartedFromReady(L) ==
  IF ReadyIsOver(L) THEN CancelReady(L)
  ELSE IF L.pend = "over" THEN QueueAction(L, "start") ELSE L

StartedFromStartFailed(L) ==
  IF ~L.mon.done /\ \A v \in AllMonitors(L) : v.state = "start failed" THEN Done(L) ELSE L

OrchestrateStarted(L) ==
  IF IsStarted(L) THEN StartedClear(L)
  ELSE CASE L.mon.state = "idle" -> StartedFromIdle(L)
         [] L.mon.state = "ready" -> StartedFromReady(L)
         [] L.mon.state = "start failed" -> StartedFromStartFailed(L)
         [] /\ L.mon.state \in {"started", "starting", "stopping"}
            /\ L.mon.state = "started" \/ L.pend = "none"
            /\ Reached(L) -> StartedClear(L)
         [] OTHER -> L

(* stoppedClearIfReached, of an instance that is down.                     *)
StoppedClear(L) == IF L.mon.done THEN L ELSE [DoneAndIdle(L) EXCEPT !.pend = "none"]
StoppedClearIfReached(L) == IF L.own.up THEN L ELSE StoppedClear(L)

DoStop(L) == IF ~L.own.up THEN StoppedClear(L)
             ELSE QueueAction([L EXCEPT !.pend = "stop"], "stop")

OrchestrateStopped(L) ==
  CASE L.mon.state = "idle" -> Then(SetStopped(L, TRUE), DoStop)
    [] L.mon.state = "ready" ->
         Then([L EXCEPT !.pend = "none", !.mon.state = "idle"], StoppedClearIfReached)
    [] L.mon.state = "start failed" -> Then([L EXCEPT !.mon.state = "idle"], StoppedClearIfReached)
    [] L.mon.state = "stopped" -> TransitionTo(L, "idle")
    [] L.mon.state = "stop failed" -> Done(L)
    [] OTHER -> L

ClearStartFailed(L) ==
  IF /\ L.mon.state = "start failed" /\ IsStarted(L)
     /\ \A m \in Peers(L.n) : L.view[m].mon # None => L.view[m].mon.ge = "none"
  THEN TransitionTo(L, "idle") ELSE L

ClearStoppedFlagWhenUp(L) ==
  IF /\ L.own.stopped /\ L.own.fresh /\ L.mon.state \notin {"starting", "stopping"}
     /\ Reached(L)
  THEN SetStopped(L, FALSE) ELSE L

OrchestrateHAStart(L) ==
  CASE L.mon.state = "started" -> IF L.own.up THEN TransitionTo(L, "idle") ELSE L
    [] L.mon.state = "stopped" -> TransitionTo(L, "idle")
    [] OTHER ->
         Then(IF L.mon.state = "ready" /\ ReadyIsOver(L) THEN CancelReady(L) ELSE L,
              LAMBDA a :
                IF IsWarn(a) \/ ~PeersAreKnown(a) \/ IsStarted(a)
                THEN IF a.pend # "none" /\ a.mon.state = "ready"
                     THEN [TransitionTo(a, "idle") EXCEPT !.pend = "none"] ELSE a
                ELSE IF a.own.up THEN a ELSE OrchestrateStarted(a))

OrchestrateNone(L) ==
  Then(Then(ClearStartFailed(L), ClearStoppedFlagWhenUp), OrchestrateHAStart)

(* endOrchestration, with the verdict of setOrchestrationVerdict.          *)
EndOrchestration(L) ==
  LET failed == \E v \in AllMonitors(L) : v.state \in {"start failed", "stop failed"}
      isStop == L.mon.ge = "stopped" /\ L.mon.id = Len(asked) /\ ~failed
  IN  Then([L EXCEPT !.mon.ge = "none", !.mon.done = FALSE, !.mon.id = 0, !.pend = "none",
                     !.order = 0,
                     !.verdict = IF L.order = 0 THEN @
                                 ELSE [@ EXCEPT ![L.order] = IF failed THEN "failed" ELSE "ended"],
                     !.ended = IF isStop THEN @ \cup {L.n} ELSE @],
           Publish)

(* Mutant: a node that left the orchestration is not done with it.         *)
DoneOnAllStrictly(L) == \A v \in AllMonitors(L) : v.done

DoneOnAll(L) == \A v \in AllMonitors(L) : v.done \/ v.id = 0

(* orchestrate, of global expects that are the same on all the nodes.      *)
OrchestrateConverged(L) ==
  IF L.mon.id # 0 /\ L.mon.done
  THEN IF DoneOnAll(L) THEN EndOrchestration(L) ELSE L
  ELSE IF L.rejoin THEN L
  ELSE Then(CASE L.mon.ge = "none" -> OrchestrateNone(L)
              [] L.mon.ge = "started" -> Then(SetStopped(L, FALSE), OrchestrateStarted)
              [] L.mon.ge = "stopped" -> OrchestrateStopped(L)
              [] OTHER -> L,
            Publish)

Orchestrate(L) ==
  IF ~IsConverged(L) THEN L
  ELSE Then(IF L.mon.ge = "aborted" THEN Then([L EXCEPT !.mon.done = TRUE], Publish) ELSE L,
            OrchestrateConverged)

(* mergePeerStopped, once: a peer was stopped on purpose while this node   *)
(* was down.  A status still missing two minutes after the rejoin, which   *)
(* ends it too, is left out: the peers of a node that rejoins are alive.   *)
MergePeerStopped(L) ==
  LET stats == {L.view[m].stat : m \in Peers(L.n)}
  IN  IF L.merged THEN L
      ELSE IF L.mon.ge = "started" \/ IsStarted(L) THEN [L EXCEPT !.merged = TRUE]
      ELSE IF ~L.told THEN L
      ELSE IF L.own.stopped THEN [L EXCEPT !.merged = TRUE]
      ELSE IF \E m \in L.lost : L.view[m].stat # None /\ L.view[m].stat.stopped
      THEN SetStopped([L EXCEPT !.merged = TRUE], TRUE)
      ELSE [L EXCEPT !.merged = None \notin stats]
-----------------------------------------------------------------------------
(* The steps of the monitor of n.                                          *)

(* Of its own monitor n only reads that it changed, once for all the       *)
(* changes in a row it has not read.                                       *)
Echoed(q, e) == IF e.kind = "stat" THEN Append(q, e)
                ELSE IF q # <<>> /\ Last(q).kind = "echo" THEN q
                ELSE Append(q, Ev("echo", None))

(* The events out of n go to the live nodes, n too, where box is unread.   *)
DeliverIn(box, n, out) ==
  /\ \A m \in alive \ {n} : Len(box[m][n]) + Len(out) <= MaxQueue
  /\ inbox' = [m \in Node |-> [k \in Node |->
       IF k # n \/ m \notin alive THEN box[m][k]
       ELSE IF m # n THEN box[m][n] \o out
       ELSE FoldLeft(Echoed, box[n][n], out)]]
Deliver(n, out) == DeliverIn(inbox, n, out)

(* Every node that is not waiting for an action has read and done it all.  *)
Settled == \A n \in alive : exec[n] = "none" =>
             /\ ~again[n] /\ cmds[n] = {} /\ \A m \in Node : inbox[n][m] = <<>>

Loop(n) == n \in alive /\ exec[n] = "none"

(* The monitor of n, with its own events read before the others.           *)
LoopAfterOwn(n) == Loop(n) /\ ("local" \in Calm => inbox[n][n] = <<>>)

(* The step of n ends in L.                                                *)
Commit(L, isAgain) ==
  /\ mon' = [mon EXCEPT ![L.n] = L.mon]
  /\ said' = [said EXCEPT ![L.n] = L.said]
  /\ own' = [own EXCEPT ![L.n] = L.own]
  /\ stat' = [stat EXCEPT ![L.n] = L.stat]
  /\ view' = [view EXCEPT ![L.n] = L.view]
  /\ again' = [again EXCEPT ![L.n] = isAgain]
  /\ pend' = [pend EXCEPT ![L.n] = L.pend]
  /\ exec' = [exec EXCEPT ![L.n] = L.exec]
  /\ order' = [order EXCEPT ![L.n] = L.order]
  /\ merged' = IF L.merged THEN merged \cup {L.n} ELSE merged
  /\ missed' = IF L.own.stopped /\ ~own[L.n].stopped
               THEN [m \in Node |-> IF m = L.n THEN missed[m] ELSE missed[m] \cup {L.n}]
               ELSE missed
  /\ verdict' = L.verdict
  /\ ended' = L.ended
  /\ UNCHANGED <<up, alive, told, faults>>

(* onMyObjectStatusUpdated: an event of m.                                 *)
OnObjectStatusUpdated(n, m) ==
  /\ IF m = n THEN Loop(n) ELSE LoopAfterOwn(n)
  /\ inbox[n][m] # <<>>
  /\ \E e \in {Head(inbox[n][m])}, a \in {Local(n)} :
     \E L \in {CASE e.kind = "echo" -> a
                [] e.kind = "mon" -> Then([a EXCEPT !.view[m].mon = e.v], Converge)
                [] e.kind = "node" -> [a EXCEPT !.view[m].ranked = TRUE]
                [] e.kind = "gone" -> Then([a EXCEPT !.view[m] = NoView], Converge)
                [] e.kind = "stat" /\ m = n -> Then([a EXCEPT !.own = e.v], MergePeerStopped)
                [] e.kind = "stat" /\ m # n ->
                     Then([a EXCEPT !.view[m].stat = e.v], MergePeerStopped)} :
       /\ Commit(L, TRUE)
       /\ DeliverIn([inbox EXCEPT ![n][m] = Tail(@)], n, L.out)
  /\ UNCHANGED <<cmds, rejoin, lost, asked>>

(* onDelayTimer.                                                           *)
OnDelayTimer(n) ==
  /\ LoopAfterOwn(n) /\ again[n]
  /\ \E L \in {Then(Then(Then(Local(n), Publish), Orchestrate), Publish)} :
       Commit(L, FALSE) /\ Deliver(n, L.out)
  /\ UNCHANGED <<cmds, rejoin, lost, asked>>

(* needOrchestrate: the state an action ended in, unless it changed        *)
(* meanwhile, then the orchestration.                                      *)
NeedOrchestrate(n) ==
  /\ LoopAfterOwn(n)
  /\ \E c \in cmds[n], a \in {Local(n)} :
     \E L \in {Then(IF a.mon.state = c.from THEN TransitionTo(a, c.to) ELSE a, Orchestrate)} :
       /\ Commit(L, again[n]) /\ Deliver(n, L.out)
       /\ cmds' = [cmds EXCEPT ![n] = @ \ {c}]
  /\ UNCHANGED <<rejoin, lost, asked>>

(* onSetInstanceMonitor, accepted: a refused request changes nothing.      *)
OnSetInstanceMonitor(n, ge) ==
  /\ LoopAfterOwn(n) /\ Len(asked) < MaxRequests
  /\ ge # mon[n].ge
  /\ ge # "aborted" => mon[n].id = 0
  /\ ge = "started" => /\ PeersAreKnown(Local(n))
                       /\ UpInstances(Local(n)) = 0
  /\ \A m \in Peers(n) : view[n][m].mon # None /\ view[n][m].mon.ge \notin {ge, "none"} =>
       view[n][m].mon.at <= mon[n].at
  /\ \E a \in {SavePending(Local(n))}, r \in {Len(asked) + 1} :
       Commit([a EXCEPT !.mon = [state |-> "idle", ge |-> ge, at |-> r, id |-> r, done |-> FALSE],
                        !.order = r, !.ended = IF ge = "started" THEN {} ELSE @],
              TRUE)
  /\ asked' = Append(asked, ge)
  /\ UNCHANGED <<inbox, cmds, rejoin, lost>>

(* The end of the ready period.                                            *)
ReadyTimer(n) ==
  /\ LoopAfterOwn(n) /\ pend[n] = "ready"
  /\ "prompt" \in Calm => Settled
  /\ pend' = [pend EXCEPT ![n] = "over"]
  /\ cmds' = [cmds EXCEPT ![n] = @ \cup {[from |-> "ready", to |-> "ready"]}]
  /\ UNCHANGED <<mon, said, own, stat, view, inbox, again, order, merged, nodeVars, askVars>>
-----------------------------------------------------------------------------
(* The instance, the node, and the rest of its daemon.                     *)

(* The status s of n is posted, and goes to n and its peers.               *)
PostStatus(n, isUp) ==
  LET s == [stat[n] EXCEPT !.up = isUp, !.fresh = TRUE]
  IN  /\ stat' = [stat EXCEPT ![n] = s]
      /\ Deliver(n, <<Ev("stat", s)>>)

(* The action of n ends, in a state it is to be orchestrated from: its     *)
(* command posted the status of the instance before.                       *)
ActionEnds(n, isOk) ==
  /\ n \in alive /\ exec[n] # "none"
  /\ isOk \/ ("action" \in Faults /\ faults < MaxFaults)
  /\ faults' = IF isOk THEN faults ELSE faults + 1
  /\ LET isStart == exec[n] = "start"
         isUp == isOk = isStart
     IN  /\ up' = [up EXCEPT ![n] = isUp]
         /\ PostStatus(n, isUp)
         /\ cmds' = [cmds EXCEPT ![n] = @ \cup
              {[from |-> IF isStart THEN "starting" ELSE "stopping",
                to |-> CASE isStart /\ isOk -> "started"
                         [] isStart /\ ~isOk -> "start failed"
                         [] ~isStart /\ isOk -> "stopped"
                         [] ~isStart /\ ~isOk -> "stop failed"]}]
         /\ pend' = IF isStart THEN [pend EXCEPT ![n] = "none"] ELSE pend
  /\ exec' = [exec EXCEPT ![n] = "none"]
  /\ UNCHANGED <<mon, said, own, view, again, order, merged, alive, rejoin, missed, lost, told, askVars>>

(* The instance goes down by itself.                                       *)
InstanceFails(n) ==
  /\ n \in alive /\ up[n] /\ exec[n] = "none"
  /\ "instance" \in Faults /\ faults < MaxFaults
  /\ faults' = faults + 1
  /\ up' = [up EXCEPT ![n] = FALSE]
  /\ PostStatus(n, FALSE)
  /\ UNCHANGED <<mon, said, own, view, again, cmds, pend, order, merged,
                 exec, alive, rejoin, missed, lost, told, askVars>>

(* The node of n crashes.                                                  *)
NodeCrashes(n) ==
  /\ n \in alive /\ "node" \in Faults /\ faults < MaxFaults
  /\ faults' = faults + 1
  /\ alive' = alive \ {n}
  /\ rejoin' = rejoin \ {n} /\ told' = told \ {n} /\ merged' = merged \ {n}
  /\ lost' = [lost EXCEPT ![n] = {}]
  /\ up' = [up EXCEPT ![n] = FALSE]
  /\ stat' = [stat EXCEPT ![n].up = FALSE, ![n].fresh = TRUE]
  /\ own' = [own EXCEPT ![n] = stat'[n]]
  /\ mon' = [mon EXCEPT ![n] = IdleMonitor] /\ said' = [said EXCEPT ![n] = IdleMonitor]
  /\ view' = [view EXCEPT ![n] = [m \in Node |-> NoView]]
  /\ again' = [again EXCEPT ![n] = FALSE] /\ cmds' = [cmds EXCEPT ![n] = {}]
  /\ pend' = [pend EXCEPT ![n] = "none"] /\ exec' = [exec EXCEPT ![n] = "none"]
  /\ order' = [order EXCEPT ![n] = 0]
  /\ inbox' = [inbox EXCEPT ![n] = [m \in Node |-> <<>>]]
  /\ UNCHANGED <<missed, askVars>>

(* Its peers do not hear n any more: they drop its data.  One event stands *)
(* for the deletions of its status, its monitor and its node data, which   *)
(* dropPeer publishes in a row.                                            *)
PeerDropped(n) ==
  /\ n \notin alive
  /\ "prompt" \in Calm => Settled
  /\ \E m \in alive : view[m][n] # NoView /\ Ev("gone", None) \notin Range(inbox[m][n])
  /\ inbox' = [m \in Node |-> IF m \in alive
                              THEN [inbox[m] EXCEPT ![n] = Append(@, Ev("gone", None))]
                              ELSE inbox[m]]
  /\ UNCHANGED <<mon, said, own, stat, view, again, cmds, pend, order, merged, nodeVars, askVars>>

(* The daemon of n starts again, in the rejoin state of nmon: it gets the  *)
(* data of its peers, and they get its own.                                *)
NodeReturns(n) ==
  /\ n \notin alive
  /\ \A m \in alive : view[m][n] = NoView
  /\ alive' = alive \cup {n} /\ rejoin' = rejoin \cup {n}
  /\ inbox' = [m \in Node |-> [k \in Node |->
       IF m = n /\ k \in alive
       THEN <<Ev("stat", stat[k]), Ev("mon", said[k])>>
            \o (IF k \in rejoin THEN <<>> ELSE <<Ev("node", None)>>)
       ELSE IF k = n /\ m \in alive
       THEN inbox[m][n] \o <<Ev("stat", stat[n]), Ev("mon", said[n])>>
       ELSE inbox[m][k]]]
  /\ UNCHANGED <<mon, said, own, stat, view, again, cmds, pend, order, merged,
                 exec, up, missed, lost, told, faults, askVars>>

(* nmon leaves the rejoin state once all its peers joined, a few messages  *)
(* after their data came ("prompt": which the monitor has read by then).   *)
(* It publishes NodeRejoin and the node monitor, in one step here, and not *)
(* the node status with the time it rejoined.                              *)
NodeRejoins(n) ==
  /\ LoopAfterOwn(n) /\ n \in rejoin
  /\ Peers(n) \subseteq alive
  /\ "prompt" \in Calm =>
       \A m \in Peers(n) : view[n][m].mon # None /\ view[n][m].stat # None
  /\ rejoin' = rejoin \ {n}
  /\ lost' = [lost EXCEPT ![n] = missed[n]]
  /\ \E L \in {Then([Local(n) EXCEPT !.rejoin = FALSE, !.lost = missed[n]], MergePeerStopped)} :
       Commit(L, TRUE) /\ Deliver(n, L.out \o <<Ev("node", None)>>)
  /\ UNCHANGED <<cmds, asked>>

(* nmon publishes the node status, for a change of the speaker, of an      *)
(* arbitrator, of the load, of the frozen flag.                            *)
NodeStatusUpdated(n) ==
  /\ LoopAfterOwn(n) /\ n \notin rejoin /\ n \notin told
  /\ told' = told \cup {n}
  /\ again' = [again EXCEPT ![n] = TRUE]
  /\ UNCHANGED <<mon, said, own, stat, view, inbox, cmds, pend, order, merged,
                 exec, up, alive, rejoin, missed, lost, faults, askVars>>

(* onLastShutdownFileTouchTicker.                                          *)
TouchLastShutdown(n) ==
  /\ n \in alive /\ n \notin rejoin /\ missed[n] # {}
  /\ "prompt" \in Calm => Settled
  /\ missed' = [missed EXCEPT ![n] = {}]
  /\ UNCHANGED <<loopVars, exec, up, alive, rejoin, lost, told, faults, askVars>>
-----------------------------------------------------------------------------
Init ==
  /\ mon = [n \in Node |-> IdleMonitor] /\ said = mon
  /\ up = [n \in Node |-> FALSE]
  /\ own = [n \in Node |-> [up |-> FALSE, stopped |-> FALSE, fresh |-> TRUE]] /\ stat = own
  /\ view = [n \in Node |-> [m \in Node |-> IF m = n THEN NoView
                               ELSE [mon |-> mon[m], stat |-> stat[m], ranked |-> TRUE]]]
  /\ inbox = [n \in Node |-> [m \in Node |-> <<>>]]
  /\ again = [n \in Node |-> TRUE] /\ cmds = [n \in Node |-> {}]
  /\ pend = [n \in Node |-> "none"] /\ exec = [n \in Node |-> "none"]
  /\ order = [n \in Node |-> 0]
  /\ alive = Node /\ rejoin = {} /\ told = Node /\ merged = Node
  /\ missed = [n \in Node |-> {}] /\ lost = missed
  /\ asked = <<>> /\ verdict = [r \in Request |-> None] /\ ended = {}
  /\ faults = 0

Next ==
  \E n \in Node :
    \/ \E m \in Node : OnObjectStatusUpdated(n, m)
    \/ \E ge \in Requests : OnSetInstanceMonitor(n, ge)
    \/ \E isOk \in BOOLEAN : ActionEnds(n, isOk)
    \/ OnDelayTimer(n) \/ NeedOrchestrate(n) \/ ReadyTimer(n)
    \/ InstanceFails(n) \/ NodeCrashes(n) \/ PeerDropped(n) \/ NodeReturns(n) \/ NodeRejoins(n)
    \/ NodeStatusUpdated(n) \/ TouchLastShutdown(n)

Spec == Init /\ [][Next]_vars

(* The loop of a live monitor goes on, a ready period and an action end, a *)
(* node that returned rejoins, and its peers drop one that does not.       *)
Progress(n) == \/ \E m \in Node : OnObjectStatusUpdated(n, m)
               \/ OnDelayTimer(n) \/ NeedOrchestrate(n) \/ ReadyTimer(n)
               \/ ActionEnds(n, TRUE) \/ NodeRejoins(n) \/ PeerDropped(n)

Fairness == WF_vars(\E n \in Node : Progress(n))

FairSpec == Spec /\ Fairness
-----------------------------------------------------------------------------
(* Every variable of the monitors, of the nodes and of the requests has    *)
(* its type, and no queue is longer than its bound, but for the events of  *)
(* a node that went and came back.                                         *)
TypeOK ==
  /\ {mon, said} \subseteq [Node -> Monitor] /\ {own, stat} \subseteq [Node -> InstStatus]
  /\ \A n, m \in Node : /\ view[n][m].mon \in Monitor \cup {None}
                        /\ view[n][m].stat \in InstStatus \cup {None}
                        /\ n # m => Len(inbox[n][m]) <= MaxQueue + 3
  /\ again \in [Node -> BOOLEAN] /\ up \in [Node -> BOOLEAN]
  /\ pend \in [Node -> {"none", "ready", "over", "stop"}]
  /\ exec \in [Node -> {"none", "start", "stop"}]
  /\ order \in [Node -> {0} \cup Request]
  /\ {alive, rejoin, told, merged, ended} \subseteq SUBSET Node
  /\ {missed, lost} \subseteq [Node -> SUBSET Node]

Running == {n \in Node : up[n] \/ exec[n] = "start"}

(* The monitors implement Failover: an instance is started where no other  *)
(* runs or is being started, and a node that ended a stop does not start   *)
(* the instance again by itself, after a crash either.                     *)
Promise == INSTANCE Failover WITH running <- Running
ImplementsFailover == Promise!Spec

(* mergePeerStopped: no node starts by itself what was stopped on request, *)
(* the node that was down meanwhile either.                                *)
StopReachesAll ==
  [][\A n \in Node : n \in Running' \ Running => ended = {}]_vars

(* orchestrationIsDoneOnAll, endOrchestration: an orchestration ends on    *)
(* every node that takes part in it, whatever action fails, and whatever   *)
(* request comes meanwhile.  It may not when an instance goes down by      *)
(* itself after its node is done: Faults has no "instance" then.           *)
OrchestrationEnds == \A n \in Node : mon[n].id # 0 ~> mon[n].id = 0
=============================================================================
