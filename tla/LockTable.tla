----------------------------- MODULE LockTable ------------------------------
(***************************************************************************)
(* The table of the cluster locks a node grants from while it speaks for   *)
(* the cluster (daemon/locktable), for one lock name: the names share only *)
(* rebuilt and generation.  A method of Table is an operator from a table  *)
(* to the table it leaves.                                                 *)
(*                                                                         *)
(* The time is counted in ticks.  No lock is NoLock, which is lapsed at    *)
(* any time.                                                               *)
(***************************************************************************)
EXTENDS Integers, Sequences, SequencesExt

CONSTANTS
  DefaultLease, \* DefaultLease: the lease of a request naming none
  MaxLease,     \* MaxLease: the longest lease, and how long the id of a lock
                \* released is kept
  MaxId,        \* bound: locks granted
  Horizon       \* bound: time of a lease end

Id == 1..MaxId
Instant == 0..Horizon
Lock == [id : 0..MaxId, expires : Instant]
NoLock == [id |-> 0, expires |-> 0]

(* lock is locks[name], former is former[name], released gives the time an *)
(* id released is kept until, 0 for an id that is not.                     *)
Table == [lock : Lock, rebuilt : BOOLEAN, generation : Nat, former : Lock,
          released : [Id -> Instant]]
NewTable == [lock |-> NoLock, rebuilt |-> FALSE, generation |-> 0, former |-> NoLock,
             released |-> [i \in Id |-> 0]]
-----------------------------------------------------------------------------
(* Mutant: the longest lease granted is not bounded.                       *)
AnyLease(d) == IF d <= 0 THEN DefaultLease ELSE d

(* Lease: the lease granted to a request naming d.                         *)
LeaseOf(d) == IF d <= 0 THEN DefaultLease ELSE IF d > MaxLease THEN MaxLease ELSE d

(* list: the lock, forgotten when its lease ended.                         *)
Listed(l, now) == IF l.expires > now THEN l ELSE NoLock

(* Granted, and the table it leaves.                                       *)
GrantedTable(t, now) ==
  [t EXCEPT !.former = Listed(@, now), !.lock = Listed(@, now)]

(* Mutant: the grants of the former terms are not listed.                  *)
TableOnly(t, now) ==
  SelectSeq(<<Listed(t.lock, now)>>, LAMBDA l : l # NoLock)

Granted(t, now) ==
  LET former == Listed(t.former, now)
      lock == Listed(t.lock, now)
  IN  SelectSeq(IF lock.id = former.id THEN <<former>> ELSE <<former, lock>>,
                LAMBDA l : l # NoLock)

PruneReleased(released, now) == [i \in Id |-> IF released[i] > now THEN released[i] ELSE 0]

(* Mutant: the ids released are not kept from the rebuilds.                *)
RebuildAll(t, found, now) ==
  LET keep(kept, l) ==
        IF l.expires <= now \/ (kept.id \notin {0, l.id} /\ l.expires <= kept.expires)
        THEN kept ELSE l
  IN  [t EXCEPT !.lock = FoldLeft(keep, NoLock, found), !.rebuilt = TRUE]

(* Rebuild of the current generation: of the locks found that are neither  *)
(* lapsed nor released, the one held the longest.                          *)
Rebuild(t, found, now) ==
  LET released == PruneReleased(t.released, now)
      keep(kept, l) ==
        IF \/ l.expires <= now
           \/ released[l.id] # 0
           \/ kept.id \notin {0, l.id} /\ l.expires <= kept.expires
        THEN kept ELSE l
  IN  [t EXCEPT !.lock = FoldLeft(keep, NoLock, found), !.rebuilt = TRUE,
                !.released = released]

Drop(t) ==
  [t EXCEPT !.former = IF t.lock # NoLock THEN t.lock ELSE @, !.lock = NoLock,
            !.rebuilt = FALSE, !.generation = @ + 1]

(* The lock is granted under id.                                           *)
Grant(t, id, expires) == [t EXCEPT !.lock = [id |-> id, expires |-> expires]]

(* Release of a lock held under id (its id is kept) or not.                *)
Release(t, id, now) ==
  [t EXCEPT !.former = IF @.id = id THEN NoLock ELSE @,
            !.lock = IF @.id = id THEN NoLock ELSE @,
            !.released[id] = IF t.lock.id = id THEN now + MaxLease ELSE @]

(* Forget: a lock is said released, its id is kept from the rebuilds.      *)
Forget(t, id, now) ==
  [t EXCEPT !.released = [PruneReleased(@, now) EXCEPT ![id] = now + MaxLease],
            !.former = IF @.id = id THEN NoLock ELSE @,
            !.lock = IF @.id = id THEN NoLock ELSE @]

(* Held.Remove: l is the lock a node records its clients hold.             *)
HeldRemove(l, id) == IF l.id = id THEN NoLock ELSE l
=============================================================================
