# Verification of the om3 daemon

A TLA+ development kept beside the OpenSVC v3 agent (`src/`). It models how
the daemons of a cluster replicate their data over heartbeats, how they find out
that a peer is gone, how they grant cluster locks, and how their instance
monitors start and stop a failover object together. TLC checks all of it on small
instances, and TLAPS proves, for any number of nodes, messages and faults, what
the replication rests on. Paths below are relative to the repository's sources.

## 1. The system

One daemon runs on each node. It is a set of goroutines, one per subsystem,
that talk through a publish/subscribe bus and through the command channels of
the owner of each piece of state.

| part | source | what it does | model |
|---|---|---|---|
| daemondata | `daemon/daemondata` | owns the cluster data: the local node's, replicated to the peers, and theirs | `Daemondata` |
| message filter | `daemon/hb/main.go` (`msgToTx`, `msgFromRx`) | hands messages over to the transmitters, drops repeated and stale ones received | `Daemondata` |
| locktable | `daemon/locktable` | locks granted, locks held, rebuild after a speaker change | `LockTable` |
| cluster lock API and client | `daemon/daemonapi/*cluster_lock.go`, `core/clusterlock` | hand over to the speaker, rebuild, grant, release, deadline of the client | `ClusterLock` |
| speaker | `daemon/nmon/speaker.go` | who speaks for the cluster, drop of the lock table | `ClusterLock` |
| hbctrl | `daemon/hb/hbctrl` | which peers beat, on which heartbeat; drop of a stale peer | `Hbctrl` |
| heartbeat life | `daemon/hb/main.go` | start, stop, rescan and retry of the drivers | `Hbctrl` |
| imon | `daemon/imon` | one monitor per instance: orchestration, convergence of the global expect | `Imon`, for a failover object |
| omon, istat | `daemon/omon`, `daemon/istat` | object status from the instance statuses, the status and its stopped flag | in `Imon`, as it uses them |
| nmon | `daemon/nmon` | rejoin, freeze, drain, arbitrators, node orchestration | the rejoin, in `Imon` |
| runner | `daemon/runner`, `util/prioqueue` | bounded pool of commands | no: an action runs, then ends |
| session | `daemon/session` | ends of executions and orchestrations awaited by clients | no |
| pubsub | `util/pubsub` | the bus | no: a FIFO without loss |
| discover, icfg | `daemon/discover`, `daemon/icfg` | configurations fetched from the newest node, files to events | no |
| scheduler | `daemon/scheduler` | calendar of the jobs | no: date arithmetic |
| ccfg, cstat, dns, collector, node probes | `daemon/...` | functions of the last event, or pure I/O | no |
| heartbeat drivers | `daemon/hb/hb*` | sockets, disks, encryption | no: a message arrives or not |
| listener, API, auth | `daemon/listener`, `daemon/daemonapi` | HTTP; most handlers read the data or publish one event | no, but for the locks |
| objects, resources, drivers, CLI, TUI | `core`, `drivers` | actions on the system run in their own process, clients of the API | no: inputs of the monitors |

`PROJECT.json` lists every part with its status, the source line behind every
definition, and the hazards of the code with the properties that cover them.

Why the replication is the core: every monitor decides from what its node
knows of the others, so a data that no peer ever had, or that stays old, breaks
all of them silently. Why the locks come next: they are the only mutual
exclusion across the nodes, and their table is rebuilt from partial knowledge.
`Hbctrl` is what tells the replication that a peer is gone (`DropPeer` of
`Daemondata`, `PeerDropped` of `Imon`), and `Imon` is what all of it is for.

## 2. Modules

| module | models | use |
|---|---|---|
| `Daemondata` | state, ticks, messages, receptions and faults of the replication | the specification |
| `MCDaemondata`, `MCDaemondata_*.cfg` | instances for TLC | runs |
| `DaemondataFacts` | lemmas on the operators (events played, messages applied) | proof |
| `DaemondataSteps` | the inductive invariant, and the steps but the tick | proof |
| `DaemondataProofs` | the tick, the initial state, the theorems | proof |
| `DaemondataQueue` | the event queues and the gens of strangers | proof |
| `LockTable` | the methods of `Table` and `Held`, as operators | part of `ClusterLock` |
| `ClusterLock` | requests, rebuilds, speaker changes, stops and clients | the specification |
| `MCClusterLock`, `MCClusterLock_*.cfg` | instances for TLC | runs |
| `Hbctrl` | the controller of the heartbeats, its watchers, the janitor, the dropper | the specification |
| `MCHbctrl`, `MCHbctrl_*.cfg` | instances for TLC | runs |
| `Failover` | what the monitors promise of a failover object | the abstract specification |
| `Imon` | the instance monitors of a failover object, one per node | the specification, refines `Failover` |
| `MCImon`, `MCImon_*.cfg` | instances for TLC | runs |

### 2.1 Daemondata

A change of the local data is an event (`Change`: `onSubEvent`, `forwardEvent`).
At each propagation tick (`PropagationTick`, `Tick`) the pending events become
one more generation, the *gen* of the data (`commitPendingOps`), the queue of
events is purged of what the peers applied, and a message leaves when something
changed or a peer lacks something (`queueNewHbMsg`, `getHbMessage`). It is a
*ping* (gens only), a *patch* (the events of the queue) or a *full* (the data
and the events): `setNextMsgType`. `MsgFromRx` is the reception: the filter by
stamp, the member check, the run of the sender (`acceptPeerRun`), and the
application (`onReceiveHbMsg`, `applyMsgEvents`, `applyNodeData`,
`pubPeerDataChanges`). All of it is one action, as in the code it runs in one
iteration of the daemondata loop; the filter runs before it, in the goroutine
of the heartbeat manager, which alone writes `msgTimes`.

Abstractions:

* the items of the data of a node are its pools and the configs, statuses and
  monitors of its instances: what a full message writes to the holders by
  comparing stamps, pools when later (`PoolKey`), instances when different. The
  data is a function from items to the number of the change that wrote them, 0
  for none. The number stands for the content and its UpdatedAt; the numbers of a
  node grow across its restarts, as the wall clock does;
* pending events keep the last write of an item: the events of one gen are
  always played together;
* `view[n][p]` gathers what the code keeps in several maps keyed by the peer:
  `hbGens`, `Cluster.Node`, the holders of the items (`instance.ConfigData`,
  `StatusData` and `MonitorData`, `pool.StatusData`), `previousRemoteInfo`,
  `hbPatchMsgUpdated`, the run and its candidate;
* the network keeps the last `MaxInFlight` messages of each node. Any of them
  may be received at any time, again, in any order, or never. A transmitter
  repeats the last message, so this covers several heartbeats of different
  speed;
* the comparison of the gens at the propagation tick (`gensEqual`) and the
  publication of the gens one tick later (`sentGens`, `pubGens`) are kept, since
  they decide how many messages are exchanged;
* `history` is not in the code: it records the data of each gen of each run, to
  say what a gen means.

Faults: a daemon restart with or without its clock stepped back, a peer dropped
(`dropPeer`), a node leaving and joining the cluster, a clock stepped back while
the daemon runs, the stamp of the last message forgotten, a candidate run
expiring, a refresh message out of turn.

Left out: the commands that only read the data, the message compatibility
level, publications whose listeners are not modelled, and a peer that gives no
run id (`on-hb-receive-message.go:105-108`), a daemon of an older version. The
node level holders (`node.*`, `daemonsubsystem.*`) are left out too, as they are
kept in other ways: the node config, status and stats are written when the content
differs from the previous read, and a content may come back
(`apply_full.go:103-222`); the heartbeats and the os paths are written by events
only (`apply_patch.go:146`, `:209`); and `dropPeer` drops them only while the node
monitor of the peer is known (`node_data.go:106`), which the `NodeMonitorDeleted`
of a peer that stops unsets first (`apply_patch.go:202`). `HoldersAgree` says
nothing of them.

### 2.2 LockTable and ClusterLock

`LockTable` has an operator per method of `Table` and `Held`, for one lock name:
the names share only the `rebuilt` mark and the generation. `ClusterLock` runs
them from requests. `req[c]` is where the request of client `c` is: sent to the
speaker, checked, reading the nodes for a rebuild, ready for the table, waiting,
granted with the answer on its way. Each is a point where the code has released
the mutex of the table or waits for another node, so any other step may come
there. The read of one node by a rebuild (`LocalHeld.List`, then `Granted`) is
one step.

A speaker change is three independent steps: the node starts or stops speaking
and drops its table (`UpdateSpeaker`), publishes it (`PublishNodeStatus`), and
each peer hears it (`HearPeer`), which is where `Daemondata` would be composed:
`status[n][p]` is one item of `view[n][p]`. Which node is elected is left free.

Leases are passed as the time left, so one clock stands for all. An answer takes
at most `Margin` to come back, which is what `returnMargin` assumes.

`Calm` names assumptions that a run makes, each stated where it is defined in
the module. A run with `Calm = {}` assumes nothing.

Left out: the release of a lock by another than its holder, `GetClusterLocks`
(a listing that may rebuild the table), the skip of a peer in maintenance, a
peer with data here that is up but can not be reached while unheard, and what
remains of a request whose own node stops (it ends at once).

### 2.3 Hbctrl

One peer of one node: the controller keeps nothing that relates two peers. Every
command to the controller is a rendezvous on an unbuffered channel with its only
goroutine, so it is one step. A watcher is a record of what `peerWatch` keeps
(`beating`, `changes`, `lastPub`) and of the command it is blocked on: between
`pubTicker` firing and the controller taking the event anything may happen, and
a blocked watcher does not see its cancellation. The event and the status that
follows it are two commands, as in the code.

The janitor runs one operation at a time; `todo` is the commands it has still to
send, so the steps of the others come between them. A start may fail, of the
transmitter, the receiver or both. `rescanHb` and `retryFailedHb` unregister a
stream before they stop it, `daemonCtlStop` does not. `bus` is what the dropper
has not handled yet; `dropM` and the deadline of its context are `dropM` and
`timer`.

Time: the timeout of a heartbeat is longer than the interval of its messages
and than `pubDelay`, so a watcher goes stale only when nothing reaches its
receiver. The grace period is counted in ticks.

`Calm = {"steady"}` is an assumption of a run, and not of the code: a receiver is
stopped only while every watcher has said what it hears, and a beating one only when
it is unregistered and another one beats; and neither the peer nor a link changes
while the commands of that stop are being sent. The unregistration of a receiver that
beats is in it. Without it the count of the beating receivers goes wrong: those are the
findings of `hb_restart` and `hb_panic`, and a peer never dropped after a rescan
(section 6).

Left out: the status shown of a transmitter, a driver that fails to stop, a rescan
that changes several heartbeats at once.

### 2.4 Imon and Failover

`Failover` is what a failover object is for: `Take`, `Leave`, `EndStop`,
`AskStart`. `Imon` maps `running` to the nodes where the instance is up or being
started.

A monitor is one goroutine, so a step is one event of its loop: an event the
object monitor forwards (`OnObjectStatusUpdated`), the delay timer that
orchestrates (`OnDelayTimer`), the end of an action or of a ready period
(`NeedOrchestrate`), a request (`OnSetInstanceMonitor`), the rejoin of its node
(`NodeRejoins`). While an action runs the goroutine waits in `runner.Run`, and
reads nothing. The functions of the code are operators on a record `L`, the local
state during one step; `Commit` writes it back, and `L.out` is what the step
published, in order.

`inbox[n][m]` is the FIFO of what `n` has not read of `m`, its own events
included: `n` sees its own status change as it sees those of its peers, through
the bus. What a peer publishes is the `view` that `Daemondata` replicates; here a
FIFO stands for it, which is what the peer sees when no message is skipped.

The stamp of a global expect is the number of its request: requests are ordered
by the clock of the nodes, taken to agree. An instance is up or down: an action that
fails leaves a failed start down and a failed stop up, where the code may find the
instance, and so the object, in warn (`omon/main.go:391`, `orchestration_ha.go:223`),
in which case no monitor starts it. The leadership the code caches (`IsHALeader`) is
computed where it is read: every event updates the cache, and no step changes what it
depends on and then reads it. One event stands for the deletions that `dropPeer`
publishes in a row, and `NodeRejoins` is both the `NodeRejoin` event and the node
monitor that follows it.

A crash loses all but the stopped flag and the time of the last shutdown file,
which are files. `missed[n]` is what that file is compared with: the nodes
flagged stopped since `n` last touched it.

`Calm`: `"prompt"`, the ready period (5 s by default) and the heartbeat timeout
are longer than the propagation, so they end when everything published has been
read, and a node leaves the rejoin state, which takes a few messages more than the
data of its peers, once its monitor has read that data; `"local"`, a monitor reads its own events before those that came from the
network after them. Two nodes that become ready without hearing each other for
the whole ready period do both start: the code has nothing else to separate
them, and `"prompt"` is what it relies on.

Left out: the other global expects and the local expects, flex objects, the
restart of resources, frozen instances, parents and children, affinities,
stonith, boot and deletion, the rejoin grace period, and the end of
`mergePeerStopped` two minutes after a rejoin with a status still missing
(`imon/main_cmd.go:1629`), as a node rejoins when all its peers are there.

## 3. Runs

`tlc -config X.cfg M`. Five runs are expected to violate their only property: each
is a finding (section 5).

| run | instance | checks | distinct states |
|---|---|---|---|
| `daemondata_reorder` | 2 nodes, a pool and an instance, 2 changes, 4 messages of a node and 2 of the other, 3 in flight, 1 fault of drop, member, refresh, restart | `TypeOK`, `QueueIsContiguous`, `HoldersAgree`, `GenMeansData`, `NoGensOfStrangers`, `ProcessedIsAppliedOrAsked`, `NeverSetBack` | 329,230 |
| `daemondata_recover` | fair; 1 change, and 1 fault of any kind but member, all between two exchanges of messages, or the change during one | `NoMessageStorm`, `Convergence` | 142,274 |
| `daemondata_stepback` | a clock stepped back | violates `ProcessedIsAppliedOrAsked` | |
| `lock_agreed` | 2 nodes, 2 clients, 2 requests, 2 speaker changes, 1 stop | `TypeOK`, `MutualExclusion`, `RebuiltHoldsAll`, `ForgottenStaysForgotten`, `NoLostWakeup` | 1,769,121 |
| `lock_answered` | fair; 2 requests, 1 speaker change at any time | `ForgottenStaysForgotten`, `NoLostWakeup`, `Answered` | 195,862 |
| `lock_race` | the speaker changes after the check of a request | violates `MutualExclusion` | |
| `hb_dropped` | fair; 1 heartbeat with 3 operations and 2 changes of the peer or of its link, or 2 heartbeats with 1 of each | `TypeOK`, `SilentIsDropped` | 258,163 |
| `hb_restart` | a receiver restarted while it beats | violates `SilentIsDropped` | |
| `hb_panic` | a receiver rescanned while its watcher is blocked | violates `NeverStaleTwice` | |
| `imon_failover` | 2 nodes, 1 request of start, stop or abort, 1 fault of action, instance, node | `TypeOK`, `ImplementsFailover` | 595,075 |
| `imon_ends` | fair; 2 requests of start or stop, 1 failing action | `OrchestrationEnds` | 158,910 |
| `imon_rejoin` | 1 stop, 1 node crash | violates `StopReachesAll` | |

Every invariant and property has a mutant in `PROJECT.json`: a definition changed
as a plausible bug would, which TLC must find with the same configuration.

**Why these bounds.** Two nodes have every pairwise exchange; what a third adds
to the replication (whose gens a message carries, whom the purge waits for) is
covered by the proofs, which hold for any number. Two changes are needed for an
older message to matter: an earlier version checked `HoldersAgree` with a single
change, and missed that it does not hold when an older full message is taken
after a newer one (section 6). Three messages in flight give losses, repetitions
and any order of them; the node whose data changes sends four, for a full message, a
patch and a full message again, and the other two, which ask and acknowledge. In
`daemondata_recover` a stamp is stale for three ticks, so that a clock stepped back
meets both the drop of the messages and the candidate runs. Two requests of two clients, two speaker changes: a table dropped,
rebuilt elsewhere, and back. Three operations on one heartbeat: a stop, a start
and a restart in any order; the links that are up at first are any. One fault per run of `Imon`, at any point. The larger
instances below were run once and pass, and are too slow to keep:

* `Imon`, two requests with all the faults, safety: 11,751,870 states;
* `Imon`, fair, one request with failing actions and a node crash: 487,288;
* `ClusterLock`, fair, two speaker changes: 1,226,868;
* `Daemondata`, the instance of `daemondata_reorder` with four messages of each node,
  two in flight: 1,690,032;
* `Daemondata`, one item, two changes with the faults of `daemondata_reorder`, the restart
  with the clock back and the expiry of a candidate run: 1,550,464.

All instances have `CHECK_DEADLOCK FALSE`: the bounded counters run out, and a
cluster at rest does nothing.

**Fairness.** `Daemondata`: the propagation ticker fires for ever, and a
transmitter repeats its last message until a peer receives it. `ClusterLock`:
the handler of a request goes on (`Handle`: no lost answer, no failed read is
required), and time passes. `Hbctrl`: the goroutines of the janitor, of the
dropper and its timers go on, and so do the watchers; nothing is assumed of the
peer, the links or the operator. `Imon`: some live monitor that can go on does,
an action and a ready period end, and a crashed node is dropped. Each is what the
Go scheduler and the timers give; no step that could only be hoped for (an
action that succeeds rather than fails, a node that returns) is assumed: a
running action ends, and fairness of its success says only that it does not run
for ever, its failures being bounded.

## 4. Proofs

TLAPS checks them all (`tlapm M.tla`) from `DaemondataAssumption` alone: any set
of nodes and items, any bounds, any set of faults, any assumption in `Calm`.

* `TypeCorrect`: `Spec => []TypeOK`.
* `GenMeansDataHolds`: `Spec => []GenMeansData`. A gen applied of a peer means
  the data that peer had at that gen of that run.
* `QueueIsContiguousHolds`: `Spec => []QueueIsContiguous`. The queue of events
  reaches the gen of its node without a hole.
* `NoGensOfStrangersHolds`: `Spec => []NoGensOfStrangers`.

`GenMeansData` speaks of what a node knows of its peers, and a step changes it
from a message sent long before, from a queue filled before that. The inductive
invariant `IInv` (`DaemondataSteps`) therefore follows the data along its way:

* `SenderOK`: the pending events lead from the data of the last gen to the live
  data, and the events of the queue lead from each gen to the next;
* `SentOK`, of every message in flight: its run and its gen were reached by its
  sender, and its full data or its events are those of `history`;
* `ViewOK`, of every view: the run and the gen known were reached by the peer,
  and the data known is that of `history` at that gen.

The step of another node preserves these because it never rewrites the data of
a gen that was reached (`Kept`, `StepKept`). `DaemondataFacts` has what applying a
message does to a view that is right; `DaemondataSteps` has one lemma per
action but the tick; `DaemondataProofs` has the tick (commit, purge, the message),
the initial state and the theorems.

`DaemondataQueue` adds the two others to `IInv`. `UpTo(q, g)` says that the
entries of a queue are all the gens from its lowest to `g`; a purge takes away the
gens up to the lowest one the peers applied, so it keeps the top (`PurgeUpTo`),
and a commit adds the next gen (`CommitUpTo`).

**Only model-checked.** Liveness (`Convergence`, `Answered`, `SilentIsDropped`,
`OrchestrationEnds`): fairness and `ENABLED` are out of the reach of the prover.
`NoMessageStorm` counts messages over a whole behaviour. `HoldersAgree`,
`ProcessedIsAppliedOrAsked`, `NeverSetBack`, `MutualExclusion` and
`RebuiltHoldsAll` hold under the assumptions of their runs and not in general,
as the counterexamples of sections 5 and 6 show. `ClusterLock.TypeOK`,
`ForgottenStaysForgotten` and `NoLostWakeup` go through a fold over the list a
rebuild read, which would need an induction over data. The refinement of
`Failover` rests on `"prompt"`, a statement about the whole state of the network.

## 5. Findings

* **`daemondata_stepback`.** `daemon/hb/main.go:576-578` says a clock stepped back
  costs at most `staleMsgMaxAge` of dropped messages. The messages are handed
  over after that time, but `applyMsgEvents` (`apply_patch.go:37`) skips every
  patch stamped before the last one it applied: the data of the peer is stuck for
  the size of the step.
* **`lock_race`.** `daemonapi/cluster_lock.go:22-23` says every lock is granted by
  the speaker. `PostClusterLock` reads the speaker, then rebuilds and grants without
  looking again: a node that stopped speaking in between grants a lock the new
  speaker grants too.
* **`hb_restart`.** `peer_drop.go:17` and `peer_watcher.go:27` say a peer nobody
  hears is said stale and dropped. `daemonCtlStop` stops a receiver without
  unregistering it: its watcher ends without a stale event and stays counted in
  `rxBeating`, the next watcher is counted again, and the count never comes back
  to 0.
* **`hb_panic`.** The controller asserts that a receiver says stale only while one is
  counted (`hbctrl/main.go:308`, `panic("stale on already staled node")`). `CmdUnregister`
  (`:256-260`) takes a receiver out of the count by the last status of its watcher, which
  comes after the event of the same change (`peer_watcher.go:100-112`). A rescan that deletes
  the last beating receiver while its watcher is blocked on its stale event uncounts it
  twice, and the daemon panics.
* **`imon_rejoin`.** The doc of `mergePeerStopped` (`imon/main_cmd.go:1547-1556`)
  says the flag of the peers keeps a returning node from starting what was stopped
  meanwhile, and `:1597` leaves the merge to the `NodeRejoin` handler while
  `RejoinedAt` is zero. `nmon/main_cmd.go:504` publishes `NodeRejoin` before
  `RejoinedAt` is set (`:510`) and publishes no node status then: the handler
  puts the merge off as well, and the node starts the object.

## 6. Counterexamples without a run

TLC found these while the assumptions of the runs were chosen. They explain the
assumptions; the configurations are those of section 3 with the change given.

* Replication, `"forget"` or `"step"` faults with two changes: an older full
  message is applied after a newer one, and the data holders, updated by what is
  newer than the previous read, are ahead of the data until the next message
  (`HoldersAgree`).
* Replication: `hb_message.go:161-165` says a peer that applied any gen catches
  up from patches. `purgeAppliedPatchQueue` (`apply_commit.go:60`) ignores peers
  known to have applied no gen, so gens committed while the only word of a peer is
  gen 0 are purged at once, and the peer asks a full message again.
* Locks, `Calm = {"checked", "die"}`: two nodes that both think they speak, while
  the news of the change is on its way, grant the same lock (`MutualExclusion`).
* Locks, `Calm = {"agreed", "checked"}`: a speaker that restarts has forgotten the
  locks of its own clients, which live on (`MutualExclusion`).
* Locks: a daemon that starts speaks until it hears its peers
  (`nmon/speaker.go:12`) and rebuilds its table without them
  (`lib_cluster_lock.go:48-50`), so the table is marked rebuilt and misses locks
  (`RebuiltHoldsAll`).
* Locks, both clients on one node that does not speak at first, with the assumptions of
  `lock_agreed` (whose clients are on different nodes): the speaker grants a lock, and the
  answer is on its way when it stops speaking. The node of the clients speaks next, the
  other client asks, and the rebuild reads the locks held on its own node first, before the
  answer comes there. The old speaker stops before the rebuild reads it, and the table is
  rebuilt without the lock (`RebuiltHoldsAll`, then `MutualExclusion`;
  `lib_cluster_lock.go:35-81`).
* Heartbeats, `Ops = {"rescan"}`, `Calm = {}`, fair: a rescan unregisters the last
  receiver that beats, which brings the count to 0 without `NodeStale`
  (`hbctrl/main.go:256-260`). The peer goes down before the receiver hears it again, and
  its data is never dropped (`SilentIsDropped`).
* Monitors, a rejoin that does not wait for the monitor to read the data of its peers
  (`NodeRejoins` without `"prompt"`): a stop asked on the node back, whose monitor knows
  no peer yet, is said ended while the instance runs on one of them
  (`ImplementsFailover`).
* Heartbeats: each update of a configuration file stamps the delayed drop anew
  (`peer_drop.go:73`), so two updates already make the delay longer than
  `maintenance_grace_period`.
* Monitors, `"instance"` faults, fair: an instance that goes down by itself on a node
  already done with a start leaves a start that does not end until it is aborted
  (`OrchestrationEnds`); one that goes down right after its start, outside an
  orchestration, leaves its monitor in the state started.
* Monitors: of two requests accepted at once on two nodes the older is superseded,
  and its verdict is given by the end of the other.

## 7. Not modelled, and why

* **Pure I/O and generated code**: the heartbeat drivers, the HTTP listener and most
  handlers, the collector, dns, the probes, the generated API, the command lines. What
  they deliver or lose is free in the models.
* **Objects, resources, drivers** (most of the lines of the repository): actions run
  in processes of their own against the system; they succeed or fail here.
* **Functions of the last event**: ccfg, cstat, the data holders but for
  `HoldersAgree`. **Date arithmetic**: the scheduler.
* **Within reach, and not done**, in the order they would come: the other orchestrations
  of imon and the resource restarts; the convergence, drain and freeze of nmon, and its
  split decision with the arbitrators; discover; the session registry; the runner and the
  bus at their limits. The hazards of `PROJECT.json` without a property are mostly
  theirs.
* **The composition** of `Hbctrl`, `Daemondata` and `Imon` in one state space is out of
  TLC's reach: each is close to a million states alone. They meet through the promises
  stated above: a dropped peer, a view that is the data of a gen.
