---------------------------- MODULE ClusterLock -----------------------------
(***************************************************************************)
(* The cluster locks (daemon/daemonapi/cluster_lock.go and                 *)
(* lib_cluster_lock.go, core/clusterlock, daemon/nmon/speaker.go), over    *)
(* the tables of LockTable.                                                *)
(*                                                                         *)
(* A client asks a lock to the daemon of its node, which hands the request *)
(* over to the node it knows to speak for the cluster, or grants the lock  *)
(* itself.  A table dropped is rebuilt, by the request that finds it so,   *)
(* from what every node says its clients hold and it granted.  The speaker *)
(* changes at any time, each node learns of it at its own time, and the    *)
(* requests go on meanwhile.                                               *)
(*                                                                         *)
(* The leases are passed as the time left, so only durations count: one    *)
(* clock, now, stands for the clocks of all.                               *)
(***************************************************************************)
EXTENDS LockTable, FiniteSets, FiniteSetsExt

CONSTANTS
  NodeList,     \* the nodes, in the order of the cluster configuration
  Client,       \* the clients
  Home,         \* Home[c]: the node of the client
  AskedLease,   \* the lease the requests name, 0 for none
  Wait,         \* how long a request waits for a lock held
  Margin,       \* returnMargin: the longest way back of an answer
  Calm,         \* the assumptions made, of those below
  MaxAsks,      \* bound: locks asked for
  MaxTime,      \* bound: time
  MaxFlips,     \* bound: speaker changes
  MaxStops      \* bound: daemon stops

(* What the code may be assumed not to meet:                               *)
(*   "agreed"   a request is checked only while the nodes agree on the     *)
(*              speaker;                                                   *)
(*   "checked"  a node does not start or stop speaking between the check   *)
(*              of a request and its reading of the table;                 *)
(*   "die"      the clients of a node die with its daemon;                 *)
(*   "prompt"   only the waits take time.                                  *)
Assumption == {"agreed", "checked", "die", "prompt"}

Node == Range(NodeList)
Time == 0..MaxTime
Lease == LeaseOf(AskedLease)

ASSUME ClusterLockAssumption ==
  /\ MaxLease \in Nat /\ DefaultLease \in 1..MaxLease /\ AskedLease \in Nat
  /\ Horizon >= MaxTime + MaxLease
  /\ MaxAsks <= MaxId /\ Calm \subseteq Assumption
  /\ Wait \in Nat /\ Margin \in Nat /\ MaxTime \in Nat
  /\ Home \in [Client -> Node]

VARIABLES
  up,        \* up[n]: the daemon of n runs
  lead,      \* lead[n]: nodeStatus.IsLeader of nmon
  status,    \* status[n][p]: IsLeader of p in node.StatusData of n
  table,     \* table[n]: SpeakerTable
  held,      \* held[n]: LocalHeld
  req,       \* req[c]: the request of c, PostClusterLock or DeleteClusterLock
  client,    \* client[c]: the lock c holds, and its deadline
  forgets,   \* the calls of forgetLock to come, <<id, node>>
  told,      \* told[n]: the ids n was told were released
  now,       \* the time
  ids,       \* the locks asked for so far
  flips,     \* the speaker changes so far
  stops      \* the daemon stops so far

vars == <<up, lead, status, table, held, req, client, forgets, told, now, ids, flips, stops>>

(* A request: the node its table operations run on, the time it was sent,  *)
(* the lock granted or to release (the id a grant would draw is known from *)
(* the start), the time the answer was written, the rebuild it does        *)
(* (generation, position of the next node to read, locks found), and for a *)
(* request waiting the end of its wait, its timer and if it was woken.     *)
Step == {"idle", "sent", "checked", "reading", "ready", "waiting", "granted"}
Request == [op : {"acquire", "release"}, step : Step, at : Node, sent : Time,
            until : Nat, lock : Lock, written : Time, gen : Nat,
            next : Nat, found : Seq(Lock), timer : Nat, woken : BOOLEAN]
Idle(c) == [op |-> "acquire", step |-> "idle", at |-> Home[c], sent |-> 0, until |-> 0,
            lock |-> NoLock, written |-> 0, gen |-> 0, next |-> 0, found |-> <<>>,
            timer |-> 0, woken |-> FALSE]

NoHold == [id |-> 0, deadline |-> 0]
-----------------------------------------------------------------------------
(* The speaker.                                                            *)

(* speakerNode of the API, and whether a node handles a request itself:    *)
(* it does when it knows no speaker too.                                   *)
Leaders(n) == {i \in DOMAIN NodeList : status[n][NodeList[i]] = "yes"}
SpeakerNode(n) == NodeList[Min(Leaders(n))]
Handles(n) == Leaders(n) = {} \/ SpeakerNode(n) = n

(* The nodes agree on the speaker, and have the data of one another.       *)
Agreed ==
  \E s \in Node : up[s] /\ \A n \in {n \in Node : up[n]} :
    /\ lead[n] <=> n = s
    /\ \A p \in Node : /\ status[n][p] = "yes" <=> p = s
                       /\ up[p] => status[n][p] # "none"

(* wake: the requests waiting on the table of n are woken.                 *)
Wake(n, reqs) ==
  [c \in Client |-> IF reqs[c].step = "waiting" /\ reqs[c].at = n
                    THEN [reqs[c] EXCEPT !.woken = TRUE] ELSE reqs[c]]

(* updateSpeaker, when the election of n changed: n starts or stops        *)
(* speaking.  The status is published next.                                *)
UpdateSpeaker(n) ==
  /\ up[n]
  /\ flips < MaxFlips
  /\ "checked" \in Calm => \A c \in Client : ~(req[c].step = "checked" /\ req[c].at = n)
  /\ flips' = flips + 1
  /\ lead' = [lead EXCEPT ![n] = ~@]
  /\ table' = [table EXCEPT ![n] = Drop(@)]
  /\ req' = Wake(n, req)
  /\ UNCHANGED <<up, status, held, client, forgets, told, now, ids, stops>>

(* publishNodeStatus, and the peers that receive it.                       *)
PublishNodeStatus(n) ==
  /\ up[n]
  /\ status' = [status EXCEPT ![n][n] = IF lead[n] THEN "yes" ELSE "no"]
  /\ UNCHANGED <<up, lead, table, held, req, client, forgets, told, now, ids, flips, stops>>

(* n receives the data of p, or drops the data of p that stopped.          *)
HearPeer(n, p) ==
  /\ n # p
  /\ up[n]
  /\ status' = [status EXCEPT ![n][p] = IF up[p] THEN status[p][p] ELSE "none"]
  /\ UNCHANGED <<up, lead, table, held, req, client, forgets, told, now, ids, flips, stops>>
-----------------------------------------------------------------------------
(* The calls of forgetLock from n: to itself, and to the nodes it has data *)
(* of.                                                                     *)
ForgetLock(n, id) == {id} \X {p \in Node : p = n \/ status[n][p] # "none"}

(* A request that ends without its lock.  A release that could not be done *)
(* is done by having every node told from n.                               *)
Refuse(c, n) ==
  /\ req' = [req EXCEPT ![c] = Idle(c)]
  /\ forgets' = IF req[c].op = "release"
                THEN forgets \cup ForgetLock(n, req[c].lock.id) ELSE forgets

(* A request of c, on its node: handled there, or handed over.             *)
Routed(c, r) ==
  IF Handles(Home[c]) THEN [r EXCEPT !.step = "checked"]
  ELSE [r EXCEPT !.step = "sent", !.at = SpeakerNode(Home[c])]

Ask(c) ==
  /\ up[Home[c]]
  /\ "agreed" \in Calm => Agreed
  /\ req[c].step = "idle"
  /\ client[c] = NoHold
  /\ ids < MaxAsks
  /\ "prompt" \in Calm => now + Wait <= MaxTime
  /\ ids' = ids + 1
  /\ req' = [req EXCEPT ![c] = Routed(c, [Idle(c) EXCEPT !.sent = now, !.lock.id = ids + 1])]
  /\ UNCHANGED <<up, lead, status, table, held, client, forgets, told, now, flips, stops>>

(* The client releases its lock, which its node no longer records.         *)
LetGo(c) ==
  /\ up[Home[c]]
  /\ "agreed" \in Calm => Agreed
  /\ req[c].step = "idle"
  /\ client[c] # NoHold
  /\ client' = [client EXCEPT ![c] = NoHold]
  /\ held' = [held EXCEPT ![Home[c]] = HeldRemove(@, client[c].id)]
  /\ req' = [req EXCEPT ![c] =
       Routed(c, [Idle(c) EXCEPT !.op = "release", !.sent = now, !.lock.id = client[c].id])]
  /\ UNCHANGED <<up, lead, status, table, forgets, told, now, ids, flips, stops>>

(* The client dies: its lock is left to its lease.                         *)
Die(c) ==
  /\ client[c] # NoHold
  /\ client' = [client EXCEPT ![c] = NoHold]
  /\ UNCHANGED <<up, lead, status, table, held, req, forgets, told, now, ids, flips, stops>>

(* A request handed over arrives, and is not handed over again; or it is   *)
(* lost with the node it was sent to.                                      *)
Arrive(c) ==
  LET n == req[c].at
  IN  /\ req[c].step = "sent"
      /\ "agreed" \in Calm => Agreed
      /\ IF up[n] /\ Handles(n)
         THEN req' = [req EXCEPT ![c].step = "checked"] /\ UNCHANGED forgets
         ELSE Refuse(c, Home[c])
      /\ UNCHANGED <<up, lead, status, table, held, client, told, now, ids, flips, stops>>
-----------------------------------------------------------------------------
(* rebuildLockTable, by the request of c on the node n.                    *)

(* The position after i of the next node but n.                            *)
NextPeer(n, i) ==
  Min({j \in (i + 1)..Len(NodeList) : NodeList[j] # n} \cup {Len(NodeList) + 1})

(* LocalHeld.List and Granted, which n answers to GetNodeLocks too.        *)
Reported(n) ==
  SelectSeq(<<Listed(held[n], now)>>, LAMBDA l : l # NoLock) \o Granted(table[n], now)

(* What they leave.                                                        *)
Report(n) ==
  /\ held' = [held EXCEPT ![n] = Listed(@, now)]
  /\ table' = [table EXCEPT ![n] = GrantedTable(@, now)]

(* One request rebuilds at a time.  The generation is read first.          *)
BeginRebuild(c) ==
  LET n == req[c].at
  IN  /\ req[c].step = "checked"
      /\ \A d \in Client : ~(req[d].step = "reading" /\ req[d].at = n)
      /\ IF table[n].rebuilt
         THEN /\ req' = [req EXCEPT ![c].step = "ready"]
              /\ UNCHANGED <<held, table>>
         ELSE /\ req' = [req EXCEPT ![c].step = "reading", ![c].gen = table[n].generation,
                                    ![c].next = NextPeer(n, 0), ![c].found = Reported(n)]
              /\ Report(n)
      /\ UNCHANGED <<up, lead, status, client, forgets, told, now, ids, flips, stops>>

(* The next node is passed when n has no data of it, or when it does not   *)
(* answer and is not heard; it is read when it answers.                    *)
ReadNode(c) ==
  LET n == req[c].at
      p == NodeList[req[c].next]
      read == status[n][p] # "none" /\ up[p]
  IN  /\ req[c].step = "reading"
      /\ req[c].next <= Len(NodeList)
      /\ req' = [req EXCEPT ![c].next = NextPeer(n, @),
                            ![c].found = IF read THEN @ \o Reported(p) ELSE @]
      /\ IF read THEN Report(p) ELSE UNCHANGED <<held, table>>
      /\ UNCHANGED <<up, lead, status, client, forgets, told, now, ids, flips, stops>>

(* A node heard does not answer.                                           *)
ReadFails(c) ==
  LET n == req[c].at
  IN  /\ req[c].step = "reading"
      /\ req[c].next <= Len(NodeList)
      /\ status[n][NodeList[req[c].next]] # "none"
      /\ Refuse(c, n)
      /\ UNCHANGED <<up, lead, status, table, held, client, told, now, ids, flips, stops>>

(* Mutant: the generation is not compared.                                 *)
FinishAnyRebuild(c) ==
  LET n == req[c].at
  IN  /\ req[c].step = "reading"
      /\ req[c].next > Len(NodeList)
      /\ table' = [table EXCEPT ![n] = Rebuild(@, req[c].found, now)]
      /\ req' = [req EXCEPT ![c].step = "ready", ![c].gen = 0, ![c].next = 0,
                            ![c].found = <<>>]
      /\ UNCHANGED <<up, lead, status, held, client, forgets, told, now, ids, flips, stops>>

(* Every node was read: the table is rebuilt, unless it was dropped since. *)
FinishRebuild(c) ==
  LET n == req[c].at
  IN  /\ req[c].step = "reading"
      /\ req[c].next > Len(NodeList)
      /\ IF req[c].gen = table[n].generation
         THEN /\ table' = [table EXCEPT ![n] = Rebuild(@, req[c].found, now)]
              /\ req' = [req EXCEPT ![c].step = "ready", ![c].gen = 0, ![c].next = 0,
                                    ![c].found = <<>>]
              /\ UNCHANGED forgets
         ELSE Refuse(c, n) /\ UNCHANGED table
      /\ UNCHANGED <<up, lead, status, held, client, told, now, ids, flips, stops>>
-----------------------------------------------------------------------------
(* Table.Acquire, and the answer.                                          *)

(* The request comes to the table, or is woken, or its timer fires.        *)
AtTable(c) ==
  /\ req[c].op = "acquire"
  /\ \/ req[c].step = "ready"
     \/ req[c].step = "waiting" /\ (req[c].woken \/ req[c].timer <= now)

(* The end of the wait of a request that is at the table.                  *)
WaitEnd(c) == IF req[c].step = "ready" THEN now + Wait ELSE req[c].until

Free(n) == table[n].lock.expires <= now

(* The lock is free, or its lease ended.                                   *)
Acquire(c) ==
  LET n == req[c].at
  IN  /\ AtTable(c)
      /\ table[n].rebuilt
      /\ Free(n)
      /\ table' = [table EXCEPT ![n] = Grant(@, req[c].lock.id, now + Lease)]
      /\ req' = [req EXCEPT ![c].step = "granted", ![c].lock.expires = now + Lease,
                            ![c].written = now, ![c].until = 0, ![c].timer = 0,
                            ![c].woken = FALSE]
      /\ UNCHANGED <<up, lead, status, held, client, forgets, told, now, ids, flips, stops>>

(* Mutant: the timer is armed for the wait and not for the lease held, and *)
(* never when the lease is the shorter.                                    *)
WaitForRelease(c) ==
  LET n == req[c].at
  IN  /\ AtTable(c)
      /\ table[n].rebuilt
      /\ ~Free(n)
      /\ WaitEnd(c) > now
      /\ req' = [req EXCEPT ![c].step = "waiting", ![c].until = WaitEnd(c),
                            ![c].timer = Horizon + 1, ![c].woken = FALSE]
      /\ UNCHANGED <<up, lead, status, table, held, client, forgets, told, now, ids, flips, stops>>

(* The lock is held: the request waits for a change of the table, the end  *)
(* of the lease or the end of its wait.                                    *)
WaitTurn(c) ==
  LET n == req[c].at
  IN  /\ AtTable(c)
      /\ table[n].rebuilt
      /\ ~Free(n)
      /\ WaitEnd(c) > now
      /\ req' = [req EXCEPT ![c].step = "waiting", ![c].until = WaitEnd(c),
                            ![c].timer = Min({table[n].lock.expires, WaitEnd(c)}),
                            ![c].woken = FALSE]
      /\ UNCHANGED <<up, lead, status, table, held, client, forgets, told, now, ids, flips, stops>>

(* The table is not rebuilt, or the wait ended with the lock held.         *)
AcquireFails(c) ==
  LET n == req[c].at
  IN  /\ AtTable(c)
      /\ ~table[n].rebuilt \/ (~Free(n) /\ WaitEnd(c) <= now)
      /\ Refuse(c, n)
      /\ UNCHANGED <<up, lead, status, table, held, client, told, now, ids, flips, stops>>

(* The time left of the lock granted, as the answer says it.               *)
Left(c) == req[c].lock.expires - req[c].written

(* LocalHeld.Add on the node of the client, of the lock granted there or   *)
(* rebased by lockFromAPI.                                                 *)
HeldAdd(c) ==
  held' = [held EXCEPT ![Home[c]] =
    IF req[c].at = Home[c] THEN req[c].lock
    ELSE [id |-> req[c].lock.id, expires |-> now + Left(c)]]

Deadline(c) == Max({req[c].sent + Lease, now + Left(c) - Margin})

(* The answer is back: the node of the client records the lock, and the    *)
(* client holds it.                                                        *)
Granting(c) ==
  /\ req[c].step = "granted"
  /\ HeldAdd(c)
  /\ client' = [client EXCEPT ![c] = [id |-> req[c].lock.id, deadline |-> Deadline(c)]]
  /\ req' = [req EXCEPT ![c] = Idle(c)]
  /\ UNCHANGED <<up, lead, status, table, forgets, told, now, ids, flips, stops>>

(* The answer is lost, before or after the node of the client records it.  *)
LoseAnswer(c) ==
  /\ req[c].step = "granted"
  /\ HeldAdd(c) \/ UNCHANGED held
  /\ req' = [req EXCEPT ![c] = Idle(c)]
  /\ UNCHANGED <<up, lead, status, table, client, forgets, told, now, ids, flips, stops>>
-----------------------------------------------------------------------------
(* Table.Release, then forgetLock, or Forget of a lock not held.           *)
ReleaseLock(c) ==
  LET n == req[c].at
      id == req[c].lock.id
      ok == table[n].lock.id = id
  IN  /\ req[c].op = "release"
      /\ req[c].step = "ready"
      /\ table' = [table EXCEPT ![n] = IF ok THEN Release(@, id, now)
                                       ELSE Forget(Release(@, id, now), id, now)]
      /\ forgets' = IF ok THEN forgets \cup ForgetLock(n, id) ELSE forgets
      /\ told' = [told EXCEPT ![n] = @ \cup {id}]
      /\ req' = LET done == [req EXCEPT ![c] = Idle(c)]
                IN  IF ok THEN Wake(n, done) ELSE done
      /\ UNCHANGED <<up, lead, status, held, client, now, ids, flips, stops>>

(* Mutant: a lock forgotten wakes no request.                              *)
DeleteSilently(id, n) ==
  /\ <<id, n>> \in forgets
  /\ up[n]
  /\ forgets' = forgets \ {<<id, n>>}
  /\ held' = [held EXCEPT ![n] = HeldRemove(@, id)]
  /\ table' = [table EXCEPT ![n] = Forget(@, id, now)]
  /\ told' = [told EXCEPT ![n] = @ \cup {id}]
  /\ UNCHANGED <<up, lead, status, req, client, now, ids, flips, stops>>

(* DeleteNodeLock, and forgetLock on its own node.                         *)
DeleteNodeLock(id, n) ==
  /\ <<id, n>> \in forgets
  /\ up[n]
  /\ forgets' = forgets \ {<<id, n>>}
  /\ held' = [held EXCEPT ![n] = HeldRemove(@, id)]
  /\ table' = [table EXCEPT ![n] = Forget(@, id, now)]
  /\ told' = [told EXCEPT ![n] = @ \cup {id}]
  /\ req' = IF table[n].lock.id = id THEN Wake(n, req) ELSE req
  /\ UNCHANGED <<up, lead, status, client, now, ids, flips, stops>>

(* A call of forgetNodeLock fails.                                         *)
LoseForget(id, n) ==
  /\ <<id, n>> \in forgets
  /\ forgets' = forgets \ {<<id, n>>}
  /\ UNCHANGED <<up, lead, status, table, held, req, client, told, now, ids, flips, stops>>
-----------------------------------------------------------------------------
(* The daemon of n stops: its memory is lost, its requests end, and those  *)
(* handed over to it fail on the node that handed them.                    *)
Stop(n) ==
  LET cut == {c \in Client : req[c].at = n /\ Home[c] # n /\ req[c].op = "release"}
  IN  /\ up[n]
      /\ stops < MaxStops
      /\ stops' = stops + 1
      /\ up' = [up EXCEPT ![n] = FALSE]
      /\ lead' = [lead EXCEPT ![n] = FALSE]
      /\ status' = [status EXCEPT ![n] = [p \in Node |-> "none"]]
      /\ table' = [table EXCEPT ![n] = NewTable]
      /\ held' = [held EXCEPT ![n] = NoLock]
      /\ told' = [told EXCEPT ![n] = {}]
      /\ req' = [c \in Client |-> IF n \in {Home[c], req[c].at} THEN Idle(c) ELSE req[c]]
      /\ client' = [c \in Client |-> IF "die" \in Calm /\ Home[c] = n THEN NoHold ELSE client[c]]
      /\ forgets' = forgets \cup UNION {ForgetLock(Home[c], req[c].lock.id) : c \in cut}
      /\ UNCHANGED <<now, ids, flips>>

(* It starts: it has no peer yet, so it speaks.                            *)
Start(n) ==
  /\ ~up[n]
  /\ up' = [up EXCEPT ![n] = TRUE]
  /\ lead' = [lead EXCEPT ![n] = TRUE]
  /\ status' = [status EXCEPT ![n][n] = "yes"]
  /\ table' = [table EXCEPT ![n] = Drop(NewTable)]
  /\ UNCHANGED <<held, req, client, forgets, told, now, ids, flips, stops>>

(* Time passes.  No answer takes more than Margin to come back.            *)
Tick ==
  /\ now < MaxTime
  /\ \A c \in Client :
       /\ req[c].step = "granted" => now < req[c].written + Margin
       /\ "prompt" \in Calm => req[c].step \notin {"sent", "checked", "reading", "ready"}
  /\ now' = now + 1
  /\ UNCHANGED <<up, lead, status, table, held, req, client, forgets, told, ids, flips, stops>>
-----------------------------------------------------------------------------
(* The first node of the list speaks, and every node knows it.             *)
Init ==
  /\ up = [n \in Node |-> TRUE]
  /\ lead = [n \in Node |-> n = NodeList[1]]
  /\ status = [n \in Node |-> [p \in Node |-> IF p = NodeList[1] THEN "yes" ELSE "no"]]
  /\ table = [n \in Node |-> NewTable]
  /\ held = [n \in Node |-> NoLock]
  /\ req = [c \in Client |-> Idle(c)]
  /\ client = [c \in Client |-> NoHold]
  /\ forgets = {}
  /\ told = [n \in Node |-> {}]
  /\ now = 0 /\ ids = 0 /\ flips = 0 /\ stops = 0

(* What the handlers do of the request of c, but for the failures.         *)
Handle(c) ==
  \/ Arrive(c)
  \/ BeginRebuild(c) \/ ReadNode(c) \/ FinishRebuild(c)
  \/ Acquire(c) \/ WaitTurn(c) \/ AcquireFails(c)
  \/ Granting(c)
  \/ ReleaseLock(c)

Next ==
  \/ \E c \in Client : Handle(c)
  \/ \E c \in Client : Ask(c) \/ LetGo(c) \/ Die(c)
  \/ \E c \in Client : ReadFails(c) \/ LoseAnswer(c)
  \/ \E id \in Id, n \in Node : DeleteNodeLock(id, n) \/ LoseForget(id, n)
  \/ \E n \in Node : UpdateSpeaker(n) \/ PublishNodeStatus(n) \/ Stop(n) \/ Start(n)
  \/ \E n \in Node, p \in Node : HearPeer(n, p)
  \/ Tick

Spec == Init /\ [][Next]_vars

(* A handler goes on with its request, and time passes.                    *)
FairSpec == Spec /\ (\A c \in Client : WF_vars(Handle(c))) /\ WF_vars(Tick)
-----------------------------------------------------------------------------
(* The type of the state.                                                  *)
TypeOK ==
  /\ up \in [Node -> BOOLEAN]
  /\ lead \in [Node -> BOOLEAN]
  /\ status \in [Node -> [Node -> {"none", "no", "yes"}]]
  /\ table \in [Node -> Table]
  /\ held \in [Node -> Lock]
  /\ \A c \in Client : req[c] \in Request
  /\ client \in [Client -> [id : 0..MaxId, deadline : Instant]]
  /\ forgets \subseteq Id \X Node
  /\ told \in [Node -> SUBSET Id]
  /\ now \in Time /\ ids \in 0..MaxAsks /\ flips \in 0..MaxFlips /\ stops \in 0..MaxStops

(* The clients that hold the lock and, on their clock, may still act under *)
(* it.                                                                     *)
Holders == {c \in Client : client[c] # NoHold /\ now < client[c].deadline}

(* Two clients never hold the lock at once, whatever the speaker changes,  *)
(* rebuilds and lost answers between their two requests.                   *)
MutualExclusion == Cardinality(Holders) <= 1

(* A table marked rebuilt has the lock of every client that still holds    *)
(* one: "rebuilt says the table holds every lock the cluster holds".       *)
RebuiltHoldsAll ==
  \A n \in Node, c \in Holders : table[n].rebuilt => table[n].lock.id = client[c].id

(* A lock a node was told was released never comes back to its table, by a *)
(* rebuild that read a node the word had not reached.                      *)
ForgottenStaysForgotten == \A n \in Node : table[n].lock.id \notin told[n]

(* A request that waits and was not woken has a reason to: the lock it     *)
(* waits for is in the table, and its timer fires before the lease ends.   *)
NoLostWakeup ==
  \A c \in Client :
    LET t == table[req[c].at]
    IN  req[c].step = "waiting" /\ ~req[c].woken /\ req[c].timer > now =>
          t.rebuilt /\ t.lock # NoLock /\ req[c].timer <= t.lock.expires

(* Every request is answered, be it of a lock whose holder died.           *)
Answered == \A c \in Client : req[c].step # "idle" ~> req[c].step = "idle"
=============================================================================
