------------------------------- MODULE Hbctrl -------------------------------
(***************************************************************************)
(* How a node finds out that a peer is alive or gone: the controller of    *)
(* the heartbeats (daemon/hb/hbctrl), its peer watchers, the janitor that  *)
(* starts and stops the heartbeats (daemon/hb/main.go), and the dropper of *)
(* the data of the peers nobody hears (peer_drop.go).                      *)
(*                                                                         *)
(* There is one peer: the controller keeps nothing that relates two of     *)
(* them.  Each heartbeat has a tx and an rx stream.  A receiver that hears *)
(* the peer tells its watcher, which tells the controller when it changed  *)
(* its mind; the controller counts the receivers that hear the peer, and   *)
(* says NodeAlive and NodeStale when the count leaves and reaches 0.       *)
(*                                                                         *)
(* Every command to the controller is a rendezvous on an unbuffered        *)
(* channel, handled at once by its only goroutine: an action here.  A      *)
(* watcher blocked on such a channel no longer sees its cancellation.      *)
(***************************************************************************)
EXTENDS Integers, Sequences, FiniteSets, FiniteSetsExt, SequencesExt

CONSTANTS
  Rid,               \* the heartbeats (hb#1, hb#2...)
  Grace,             \* maintenance_grace_period, in ticks
  MaxWatch,          \* bound: watchers of receivers over time
  MaxOps,            \* bound: MaxOps[k] rescans, "om daemon hb" commands and
                     \* updates of the configuration files, with k heartbeats
                     \* at first
  MaxFlips,          \* bound: MaxFlips[k] changes of the peer and of the links
  MaxBus,            \* bound: events the dropper has not handled yet
  Ops,               \* the operations of the instance
  OpRid,             \* the heartbeats they are about
  Calm               \* what a run assumes of the stops of the receivers:
                     \* "steady" (see MayStop), or nothing

Stream == Rid \X {"tx", "rx"}
Tx(r) == <<r, "tx">>
Rx(r) == <<r, "rx">>
Watch == 1..MaxWatch
NoWatch == 0

VARIABLES
  status,    \* status[r]: heartbeat[r.rx] and its Peers[peer].IsBeating; the
             \* one of a transmitter is read by nothing
  remote,    \* remotes[peer]
  watcher,   \* watcher[w]: the goroutines of peerWatch
  born,      \* number of watchers started
  crashed,   \* the controller panicked
  todo,      \* commands the janitor has still to send
  txs, rxs,  \* the janitor's t.txs and t.rxs
  recorded,  \* ridSignature
  configured, \* the heartbeats of the cluster configuration
  listening, \* the receivers that run
  peer,      \* the state of the peer: "plain", "maint" or "down"
  link,      \* the heartbeats whose link with the peer works
  known,     \* the state of the peer in the local data, "none" when dropped
  bus,       \* what the dropper has still to handle
  dropM,     \* dropM[peer]: age is the time since dropCall.at
  timer,     \* time before the deadline of the delayed drop, -1 without one
  expired,   \* a drop whose deadline is over
  ops,       \* operations left
  flips      \* changes of the peer and of the links left

ctrlVars == <<status, remote, crashed>>
janitorVars == <<todo, txs, rxs, recorded, configured, listening>>
dropVars == <<known, bus, dropM, timer, expired>>
envVars == <<peer, link, flips, ops>>
vars == <<ctrlVars, watcher, born, janitorVars, dropVars, envVars>>

Status == {"unregistered", "absent", "quiet", "beating"}
NoRemote == [known |-> FALSE, watched |-> {}, rxBeating |-> 0,
             chan |-> [r \in Rid |-> NoWatch]]
Remote == [known : BOOLEAN, watched : SUBSET Stream, rxBeating : Int,
           chan : [Rid -> Watch \cup {NoWatch}]]

(* A watcher: at is "loop", or the command it is blocked on: "event" (a    *)
(* CmdEvent, then a CmdSetPeerStatus), "status" (that second one),         *)
(* "refresh" (the CmdSetPeerStatus of setPeerStatusTicker).                *)
NoWatcher == [rid |-> NoWatch, live |-> FALSE, beating |-> FALSE, changes |-> FALSE,
              lastPub |-> FALSE, heard |-> FALSE, at |-> "loop"]
Watcher(r) == [NoWatcher EXCEPT !.rid = r, !.live = TRUE]
WatcherType == [rid : Rid \cup {NoWatch}, live : BOOLEAN, beating : BOOLEAN,
                changes : BOOLEAN, lastPub : BOOLEAN, heard : BOOLEAN,
                at : {"loop", "event", "status", "refresh"}]
NoDrop == [set |-> FALSE, age |-> 0]

ASSUME HbctrlAssumption ==
  /\ NoWatch \notin Rid
  /\ OpRid \subseteq Rid
  /\ Grace \in Nat \ {0}
  /\ {MaxWatch, MaxBus} \subseteq Nat
  /\ {MaxOps, MaxFlips} \subseteq [1..Cardinality(Rid) -> Nat]
-----------------------------------------------------------------------------
(* The controller.                                                         *)

Publish(events) == /\ Len(bus) + Len(events) <= MaxBus
                   /\ bus' = bus \o events

(* CmdRegister.                                                            *)
Register(r) ==
  /\ status' = [status EXCEPT ![r] = "absent"]
  /\ UNCHANGED <<remote, watcher, born>>

(* Mutant: a receiver that is stopped stays counted.                       *)
UnregisterOnly(r) ==
  /\ status' = [status EXCEPT ![r] = "unregistered"]
  /\ UNCHANGED <<remote, watcher, born>>

(* CmdUnregister: a receiver whose status is beating is uncounted.         *)
Unregister(r) ==
  /\ remote' = IF remote.known /\ status[r] = "beating"
               THEN [remote EXCEPT !.rxBeating = @ - 1] ELSE remote
  /\ status' = [status EXCEPT ![r] = "unregistered"]
  /\ UNCHANGED <<watcher, born>>

(* CmdAddWatcher.  The watcher of a transmitter changes nothing here: only *)
(* its place in the counts of the remote is kept.                          *)
AddWatcher(s) ==
  IF s \in remote.watched \/ (s[2] = "rx" /\ status[s[1]] = "unregistered")
  THEN UNCHANGED <<status, remote, watcher, born>>
  ELSE IF s[2] = "tx"
  THEN /\ remote' = [remote EXCEPT !.known = TRUE, !.watched = @ \cup {s}]
       /\ UNCHANGED <<status, watcher, born>>
  ELSE /\ born < MaxWatch
       /\ born' = born + 1
       /\ watcher' = [watcher EXCEPT ![born + 1] = Watcher(s[1])]
       /\ status' = [status EXCEPT ![s[1]] = "quiet"]
       /\ remote' = [remote EXCEPT !.known = TRUE, !.watched = @ \cup {s},
                                   !.chan[s[1]] = born + 1]

(* A cancelled watcher that is not blocked ends.                           *)
Ended(w) == IF ~w.live /\ w.at = "loop" THEN NoWatcher ELSE w
Cancelled(r) ==
  [w \in Watch |-> IF watcher[w].rid = r THEN Ended([watcher[w] EXCEPT !.live = FALSE])
                   ELSE watcher[w]]

(* CmdDelWatcher.                                                          *)
DelWatcher(s) ==
  /\ status' = IF s[2] = "tx" \/ status[s[1]] = "unregistered" THEN status
               ELSE [status EXCEPT ![s[1]] = "absent"]
  /\ remote' = IF s \notin remote.watched THEN remote
               ELSE IF remote.watched = {s} THEN NoRemote
               ELSE [remote EXCEPT !.watched = @ \ {s}]
  /\ watcher' = IF s[2] = "rx" /\ s \in remote.watched THEN Cancelled(s[1]) ELSE watcher
  /\ UNCHANGED born

(* CmdEvent: the count of the receivers that hear the peer.                *)
HandleEvent(isBeating) ==
  IF ~remote.known
  THEN UNCHANGED <<remote, bus, crashed>>
  ELSE IF ~isBeating /\ remote.rxBeating = 0
  THEN /\ crashed' = TRUE
       /\ UNCHANGED <<remote, bus>>
  ELSE LET n == IF isBeating THEN remote.rxBeating + 1 ELSE remote.rxBeating - 1
       IN  /\ Publish((IF isBeating /\ remote.rxBeating = 0 THEN <<"alive">> ELSE <<>>)
                      \o (IF n = 0 THEN <<"stale">> ELSE <<>>))
           /\ remote' = [remote EXCEPT !.rxBeating = n]
           /\ UNCHANGED crashed

(* CmdSetPeerStatus.                                                       *)
SetPeerStatus(r, isBeating) ==
  status' = IF status[r] = "unregistered" THEN status
            ELSE [status EXCEPT ![r] = IF isBeating THEN "beating" ELSE "quiet"]
-----------------------------------------------------------------------------
(* The receivers and their watchers.                                       *)

(* The messages of the peer reach the receiver r.                          *)
Reaches(r) == peer # "down" /\ r \in link /\ r \in listening

(* A receiver hears the peer: CmdSetPeerSuccess starts a goroutine that    *)
(* waits for the watcher, and the message goes to the data.  The messages  *)
(* a watcher has not read yet are taken for one.                           *)
Hear(r) ==
  /\ Reaches(r)
  /\ IF remote.known /\ remote.chan[r] # NoWatch /\ watcher[remote.chan[r]].live
     THEN watcher' = [watcher EXCEPT ![remote.chan[r]].heard = TRUE]
     ELSE UNCHANGED watcher
  /\ known' = peer
  /\ UNCHANGED <<ctrlVars, born, janitorVars, bus, dropM, timer, expired, envVars>>

InLoop(w) == watcher[w].live /\ watcher[w].at = "loop"
SetBeating(w, v) == [watcher EXCEPT ![w].beating = v, ![w].changes = TRUE, ![w].heard = FALSE]

(* The watcher reads that the peer was heard.                              *)
ReadBeat(w) ==
  /\ InLoop(w) /\ watcher[w].heard
  /\ watcher' = IF watcher[w].beating THEN [watcher EXCEPT ![w].heard = FALSE]
                ELSE SetBeating(w, TRUE)
  /\ UNCHANGED <<ctrlVars, born, janitorVars, dropVars, envVars>>

(* staleTicker: nothing was heard for the timeout of the heartbeat, which  *)
(* is longer than the interval of the messages, and than pubDelay.         *)
StaleTicker(w) ==
  /\ InLoop(w) /\ watcher[w].beating /\ ~watcher[w].changes
  /\ ~watcher[w].heard /\ ~Reaches(watcher[w].rid)
  /\ watcher' = SetBeating(w, FALSE)
  /\ UNCHANGED <<ctrlVars, born, janitorVars, dropVars, envVars>>

(* pubTicker.                                                              *)
PubTicker(w) ==
  /\ InLoop(w) /\ watcher[w].changes
  /\ watcher' = [watcher EXCEPT ![w].changes = FALSE,
                   ![w].at = IF watcher[w].beating # watcher[w].lastPub THEN "event" ELSE "loop"]
  /\ UNCHANGED <<ctrlVars, born, janitorVars, dropVars, envVars>>

(* setPeerStatusTicker.                                                    *)
SetPeerStatusTicker(w) ==
  /\ InLoop(w)
  /\ status[watcher[w].rid] # (IF watcher[w].beating THEN "beating" ELSE "quiet")
  /\ watcher' = [watcher EXCEPT ![w].at = "refresh"]
  /\ UNCHANGED <<ctrlVars, born, janitorVars, dropVars, envVars>>

(* The controller takes the CmdEvent of a watcher.                         *)
SendEvent(w) ==
  /\ watcher[w].at = "event" /\ ~crashed
  /\ HandleEvent(watcher[w].beating)
  /\ watcher' = [watcher EXCEPT ![w].at = "status"]
  /\ UNCHANGED <<status, born, janitorVars, known, dropM, timer, expired, envVars>>

(* The controller takes the CmdSetPeerStatus of a watcher.                 *)
SendStatus(w) ==
  /\ watcher[w].at \in {"status", "refresh"} /\ ~crashed
  /\ SetPeerStatus(watcher[w].rid, watcher[w].beating)
  /\ watcher' = [watcher EXCEPT ![w] =
       Ended([watcher[w] EXCEPT !.at = "loop",
                !.lastPub = IF watcher[w].at = "status" THEN watcher[w].beating ELSE @])]
  /\ UNCHANGED <<remote, crashed, born, janitorVars, dropVars, envVars>>
-----------------------------------------------------------------------------
(* The janitor: one operation at a time, as the commands it sends.         *)

Cmd(do, s) == [do |-> do, on |-> s]

(* The commands that only matter for a receiver.                           *)
OfRx(do, s) == IF s[2] = "rx" THEN <<Cmd(do, s)>> ELSE <<>>

(* Stop of a driver: its context is cancelled, then its watcher deleted.   *)
StopDriver(s) == OfRx("cancel", s) \o <<Cmd("del", s)>>

StopHb(s) == OfRx("unregister", s) \o StopDriver(s)

(* startHbTx, startHbRx: a driver that fails to start stays registered.    *)
StartStream(s, failed) == OfRx("register", s) \o
                          (IF s \in failed THEN <<>> ELSE <<Cmd("add", s)>>)
StartHb(r, failed) == StartStream(Tx(r), failed) \o StartStream(Rx(r), failed)

StopHbRid(r) == (IF r \in txs THEN StopHb(Tx(r)) ELSE <<>>)
                \o (IF r \in rxs THEN StopHb(Rx(r)) ELSE <<>>)

(* The streams of r that fail to start.                                    *)
Failures(r) == IF "fail" \in Ops THEN SUBSET {Tx(r), Rx(r)} ELSE {{}}

Begin(op, cmds) ==
  /\ op \in Ops /\ todo = <<>> /\ ops > 0 /\ ~crashed
  /\ ops' = ops - 1
  /\ todo' = cmds
  /\ UNCHANGED <<ctrlVars, watcher, born, listening, dropVars, peer, link, flips>>

(* Not in the code, which stops a receiver at any time: what a run with    *)
(* "steady" in Calm assumes.  Every watcher has said what its receiver     *)
(* hears, and the controller has it as its status; nothing changes of it   *)
(* while a receiver is stopped and started.  A receiver that is counted is *)
(* stopped only by the operations that unregister it, and only while       *)
(* another one is counted.                                                 *)
Steady ==
  \A w \in Watch : watcher[w].rid # NoWatch =>
    /\ watcher[w].at = "loop" /\ ~watcher[w].changes
    /\ watcher[w].beating = watcher[w].lastPub
    /\ watcher[w].heard => watcher[w].beating
    /\ watcher[w].beating <=> status[watcher[w].rid] = "beating"
    /\ watcher[w].beating <=> Reaches(watcher[w].rid)
MayStop(r, unregister) ==
  "steady" \in Calm =>
    Steady /\ (status[r] = "beating" => unregister /\ remote.rxBeating > 1)
MayChange == "steady" \in Calm => \A i \in 1..Len(todo) : todo[i].on[2] # "rx"

With(set, r, in) == IF in THEN set \cup {r} ELSE set \ {r}

(* startHb: what runs, and what is recorded, after a start.                *)
Started(r, failed) ==
  /\ txs' = With(txs, r, Tx(r) \notin failed)
  /\ rxs' = With(rxs, r, Rx(r) \notin failed)
  /\ recorded' = With(recorded, r, failed = {})
  /\ configured' = configured \cup {r}

(* rescanHb, the configuration of r changed, or new.                       *)
RescanHb(r) ==
  /\ MayStop(r, TRUE)
  /\ \E failed \in Failures(r) :
       /\ Begin("rescan", StopHbRid(r) \o StartHb(r, failed))
       /\ Started(r, failed)

(* rescanHb, the configuration of r deleted.                               *)
RescanDeleted(r) ==
  /\ MayStop(r, TRUE)
  /\ r \in recorded \cup txs \cup rxs
  /\ Begin("delete", StopHbRid(r))
  /\ txs' = txs \ {r} /\ rxs' = rxs \ {r} /\ recorded' = recorded \ {r}
  /\ configured' = configured \ {r}

(* retryFailedHb: a heartbeat a restart completed is recorded, another one *)
(* started again.                                                          *)
RetryFailedHb(r) ==
  /\ r \in configured \ recorded
  /\ \/ /\ r \in txs \cap rxs
        /\ todo = <<>> /\ ~crashed
        /\ recorded' = recorded \cup {r}
        /\ UNCHANGED <<ctrlVars, watcher, born, todo, txs, rxs, configured, listening,
                       dropVars, envVars>>
     \/ /\ r \notin txs \cap rxs
        /\ MayStop(r, TRUE)
        /\ \E failed \in Failures(r) :
             /\ Begin("fail", StopHbRid(r) \o StartHb(r, failed))
             /\ Started(r, failed)

Running(s) == IF s[2] = "tx" THEN s[1] \in txs ELSE s[1] \in rxs
SetRunning(s, in) ==
  /\ txs' = IF s[2] = "tx" THEN With(txs, s[1], in) ELSE txs
  /\ rxs' = IF s[2] = "rx" THEN With(rxs, s[1], in) ELSE rxs
  /\ UNCHANGED <<recorded, configured>>

(* "om daemon hb stop": the stream is not unregistered.                    *)
DaemonCtlStop(s) ==
  /\ Running(s)
  /\ s[2] = "rx" => MayStop(s[1], FALSE)
  /\ Begin("stop", StopDriver(s))
  /\ SetRunning(s, FALSE)

(* "om daemon hb start".                                                   *)
DaemonCtlStart(s) ==
  /\ ~Running(s) /\ s[1] \in configured
  /\ \E failed \in Failures(s[1]) :
       /\ Begin("start", StartStream(s, failed))
       /\ SetRunning(s, s \notin failed)

(* "om daemon hb restart": the start finds no component for a heartbeat    *)
(* that is not configured.                                                 *)
DaemonCtlRestart(s) ==
  /\ s[2] = "rx" => MayStop(s[1], FALSE)
  /\ \E failed \in Failures(s[1]) :
       /\ Begin("restart", (IF Running(s) THEN StopDriver(s) ELSE <<>>)
                           \o (IF s[1] \in configured THEN StartStream(s, failed) ELSE <<>>))
       /\ SetRunning(s, s[1] \in configured /\ s \notin failed)

(* The context of a receiver is cancelled: it stops, its watcher too.      *)
CancelRx(r) ==
  /\ listening' = listening \ {r}
  /\ watcher' = Cancelled(r)
  /\ UNCHANGED <<status, remote, born>>

(* The next command of the operation.  A receiver listens once watched.    *)
JanitorStep ==
  /\ todo # <<>> /\ ~crashed
  /\ todo' = Tail(todo)
  /\ LET do == Head(todo).do
         s == Head(todo).on
     IN  \/ do = "register" /\ Register(s[1]) /\ UNCHANGED listening
         \/ do = "unregister" /\ Unregister(s[1]) /\ UNCHANGED listening
         \/ do = "add" /\ AddWatcher(s)
            /\ listening' = IF s[2] = "rx" THEN listening \cup {s[1]} ELSE listening
         \/ do = "del" /\ DelWatcher(s) /\ UNCHANGED listening
         \/ do = "cancel" /\ CancelRx(s[1])
  /\ UNCHANGED <<crashed, txs, rxs, recorded, configured, dropVars, envVars>>
-----------------------------------------------------------------------------
(* The dropper.                                                            *)

(* Mutant: the age is added.                                               *)
DelayAdded == IF dropM.set THEN Grace + dropM.age ELSE Grace

(* What is left of the grace period: all of it, or, of a dropCall, what    *)
(* its age leaves.                                                         *)
Delay == IF dropM.set THEN Grace - dropM.age ELSE Grace

(* delayDropPeer: at once, or, for a peer in maintenance, when the rest of *)
(* the grace period is over.  The new dropCall is stamped now, an earlier  *)
(* one cancelled.                                                          *)
DelayDropPeer ==
  IF known = "maint"
  THEN /\ dropM' = [dropM EXCEPT !.set = TRUE, !.age = 0]
       /\ IF Delay <= 0 THEN timer' = -1 /\ expired' = TRUE
          ELSE timer' = Delay /\ UNCHANGED expired
       /\ UNCHANGED known
  ELSE /\ known' = "none"
       /\ UNCHANGED <<dropM, timer, expired>>

OnNodeAlive ==
  /\ dropM' = NoDrop
  /\ timer' = -1
  /\ UNCHANGED <<expired, known>>

(* onConfigFileUpdated.                                                    *)
OnConfigFileUpdated ==
  IF dropM.set THEN DelayDropPeer ELSE UNCHANGED <<dropM, timer, expired, known>>

PeerDropper ==
  /\ bus # <<>> /\ ~crashed
  /\ bus' = Tail(bus)
  /\ \/ Head(bus) = "alive" /\ OnNodeAlive
     \/ Head(bus) = "stale" /\ DelayDropPeer
     \/ Head(bus) = "conf" /\ OnConfigFileUpdated
  /\ UNCHANGED <<ctrlVars, watcher, born, janitorVars, envVars>>

(* The goroutine of a delayed drop whose deadline is over.                 *)
DropPeer ==
  /\ expired /\ ~crashed
  /\ expired' = FALSE
  /\ known' = "none"
  /\ UNCHANGED <<ctrlVars, watcher, born, janitorVars, bus, dropM, timer, envVars>>

(* Time passes for the delayed drop.                                       *)
Tick ==
  /\ timer > 0 \/ (dropM.set /\ dropM.age < Grace)
  /\ ~crashed
  /\ timer' = IF timer <= 1 THEN -1 ELSE timer - 1
  /\ expired' = (expired \/ timer = 1)
  /\ dropM' = [dropM EXCEPT !.age = Min({@ + 1, Grace})]
  /\ UNCHANGED <<ctrlVars, watcher, born, janitorVars, known, bus, envVars>>
-----------------------------------------------------------------------------
(* The peer, its links, and the configuration files.                       *)

PeerChanges ==
  /\ flips > 0
  /\ MayChange
  /\ flips' = flips - 1
  /\ peer' \in {"plain", "maint", "down"} \ {peer}
  /\ UNCHANGED <<ctrlVars, watcher, born, janitorVars, dropVars, link, ops>>

LinkChanges(r) ==
  /\ flips > 0
  /\ MayChange
  /\ flips' = flips - 1
  /\ link' = IF r \in link THEN link \ {r} ELSE link \cup {r}
  /\ UNCHANGED <<ctrlVars, watcher, born, janitorVars, dropVars, peer, ops>>

(* One that comes while no drop is delayed, nor to be, changes nothing.    *)
ConfigFileUpdated ==
  /\ "conf" \in Ops /\ ops > 0
  /\ dropM.set \/ "stale" \in Range(bus)
  /\ ops' = ops - 1
  /\ Publish(<<"conf">>)
  /\ UNCHANGED <<ctrlVars, watcher, born, janitorVars, known, dropM, timer, expired,
                 peer, link, flips>>
-----------------------------------------------------------------------------
(* The initial rescan has started every heartbeat configured, some of Rid  *)
(* with those of OpRid, some of them over a link that works, and nothing   *)
(* is heard yet.                                                           *)
Init ==
  /\ configured \in {c \in SUBSET Rid : OpRid \subseteq c}
  /\ status = [r \in Rid |-> IF r \in configured THEN "quiet" ELSE "unregistered"]
  /\ LET order == SetToSeq(configured) IN
       /\ remote = [known |-> TRUE, watched |-> configured \X {"tx", "rx"}, rxBeating |-> 0,
                    chan |-> [r \in Rid |-> IF r \in configured
                                            THEN CHOOSE w \in Watch : order[w] = r ELSE NoWatch]]
       /\ watcher = [w \in Watch |-> IF w <= Len(order) THEN Watcher(order[w]) ELSE NoWatcher]
  /\ born = Cardinality(configured)
  /\ crashed = FALSE
  /\ todo = <<>>
  /\ txs = configured /\ rxs = configured /\ recorded = configured /\ listening = configured
  /\ peer \in {"plain", "maint"} /\ link \in SUBSET configured
  /\ known = "none" /\ bus = <<>> /\ dropM = NoDrop /\ timer = -1 /\ expired = FALSE
  /\ ops = MaxOps[Cardinality(configured)] /\ flips = MaxFlips[Cardinality(configured)]

Next ==
  \/ \E r \in Rid : Hear(r)
  \/ \E r \in OpRid \cup configured : LinkChanges(r)
  \/ \E r \in OpRid : RescanHb(r) \/ RescanDeleted(r) \/ RetryFailedHb(r)
  \/ \E w \in Watch : \/ ReadBeat(w) \/ StaleTicker(w) \/ PubTicker(w)
                      \/ SetPeerStatusTicker(w) \/ SendEvent(w) \/ SendStatus(w)
  \/ \E s \in OpRid \X {"tx", "rx"} : DaemonCtlStop(s) \/ DaemonCtlStart(s) \/ DaemonCtlRestart(s)
  \/ JanitorStep \/ PeerDropper \/ DropPeer \/ Tick \/ PeerChanges \/ ConfigFileUpdated

Spec == Init /\ [][Next]_vars

(* The janitor, the dropper and its timer go on, and so do the watchers:   *)
(* while one of them can, one does.                                        *)
Fairness ==
  /\ WF_vars(JanitorStep \/ PeerDropper \/ DropPeer \/ Tick)
  /\ WF_vars(\E w \in Watch : \/ ReadBeat(w) \/ PubTicker(w) \/ StaleTicker(w)
                              \/ SendEvent(w) \/ SendStatus(w))

FairSpec == Spec /\ Fairness
-----------------------------------------------------------------------------
(* Every variable of the controller, of its watchers, of the janitor and   *)
(* of the dropper has its type, the count of beating receivers an integer: *)
(* nothing keeps it from going below 0.                                    *)
TypeOK ==
  /\ status \in [Rid -> Status] /\ remote \in Remote /\ crashed \in BOOLEAN
  /\ watcher \in [Watch -> WatcherType] /\ born \in 0..MaxWatch
  /\ {txs, rxs, recorded, configured, listening, link} \subseteq SUBSET Rid
  /\ \A i \in 1..Len(todo) : todo[i].on \in Stream
  /\ peer \in {"plain", "maint", "down"} /\ known \in {"none", "plain", "maint"}
  /\ bus \in Seq({"alive", "stale", "conf"}) /\ Len(bus) <= MaxBus
  /\ dropM \in [set : BOOLEAN, age : 0..Grace]
  /\ timer \in -1..Grace /\ expired \in BOOLEAN

(* A stale event is of a receiver that is counted: the controller never    *)
(* meets one with rxBeating at 0, panic("stale on already staled node"),   *)
(* which ends the daemon.                                                  *)
NeverStaleTwice == ~crashed

(* The data of a peer that nobody hears any more is dropped, in            *)
(* maintenance or not, and stays dropped.                                  *)
SilentIsDropped == <>[](peer = "down") => <>[](known = "none")
=============================================================================
