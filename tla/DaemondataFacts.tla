-------------------------- MODULE DaemondataFacts ---------------------------
(* What the operators of Daemondata compute: the play of events over the   *)
(* data, and what the handling of a message makes of the view of a peer.   *)
(* No lemma of this module is about a step.                                *)
EXTENDS Daemondata, WellFoundedInduction, TLAPS


(* A bounded set of naturals has a greatest element, which is its Max.     *)
LEMMA MaxOfBounded ==
  ASSUME NEW b \in Nat, NEW S \in SUBSET (0..b), S # {}
  PROVE  Max(S) \in S /\ \A y \in S : Max(S) >= y
<1> DEFINE T == {b - x : x \in S}
<1>1. T \subseteq Nat /\ T # {}
  <2>1. PICK x \in S : TRUE
    BY Zenon
  <2>2. b - x \in T
    OBVIOUS
  <2>3. \A y \in S : b - y \in Nat
    OBVIOUS
  <2> QED BY <2>2, <2>3
<1>2. PICK t \in T : \A u \in T : ~(<<u, t>> \in OpToRel(<, Nat))
  BY Zenon, <1>1, NatLessThanWellFounded, WFMin
<1>3. PICK x \in S : t = b - x
  OBVIOUS
<1>4. \A y \in S : x >= y
  <2> SUFFICES ASSUME NEW y \in S, y > x PROVE FALSE
    OBVIOUS
  <2>1. b - y \in T /\ b - y < t
    BY <1>3
  <2>2. <<b - y, t>> \in OpToRel(<, Nat)
    BY <2>1, <1>1 DEF OpToRel
  <2> QED BY Zenon, <2>1, <2>2, <1>2
<1> QED BY Zenon, <1>4 DEF Max

-----------------------------------------------------------------------------
(* The data x after the events d of one gen.                               *)
Overlay(x, d) == [k \in Key |-> IF d[k] = NoChange THEN x[k] ELSE d[k]]

(* The events ev lead from each gen of the data h to the next ones, while  *)
(* they follow one another.                                                *)
EventsOK(h, ev) ==
  \A lo, hi \in Gen :
    lo < hi /\ lo+1..hi \subseteq Entries(ev) => h[hi] = Play(h[lo], ev, lo, hi)

(* The play of events over data gives data (setCacheAndPublish).           *)
LEMMA PlayType ==
  ASSUME NEW x \in Data, NEW ev \in [Gen -> Delta], NEW lo \in Gen, NEW hi \in Gen
  PROVE  Play(x, ev, lo, hi) \in Data
<1> SUFFICES ASSUME NEW k \in Key,
                    NEW w, w = {g \in lo+1..hi : ev[g][k] # NoChange}
             PROVE  (IF w = {} THEN x[k] ELSE ev[Max(w)][k]) \in Val
  BY DEF Play, Data
<1>1. CASE w = {}
  BY <1>1 DEF Data
<1>2. CASE w # {}
  <2>1. MaxGen \in Nat /\ w \subseteq 0..MaxGen
    BY DaemondataAssumption DEF Gen
  <2>2. Max(w) \in w
    BY Zenon, <1>2, <2>1, MaxOfBounded
  <2>3. Max(w) \in Gen /\ ev[Max(w)][k] # NoChange
    BY <2>1, <2>2 DEF Gen
  <2> QED BY <1>2, <2>3 DEF Delta
<1> QED BY <1>1, <1>2

(* Nothing is played between a gen and itself.                             *)
LEMMA PlayNothing ==
  ASSUME NEW x \in Data, NEW ev, NEW lo \in Gen
  PROVE  Play(x, ev, lo, lo) = x
<1>1. \A k \in Key : {g \in lo+1..lo : ev[g][k] # NoChange} = {}
  BY DaemondataAssumption DEF Gen
<1> QED BY <1>1 DEF Play, Data

(* The events out of the gens played do not matter.                        *)
LEMMA PlaySame ==
  ASSUME NEW x, NEW ev, NEW ew, NEW lo \in Gen, NEW hi \in Gen,
         \A g \in lo+1..hi : ev[g] = ew[g]
  PROVE  Play(x, ev, lo, hi) = Play(x, ew, lo, hi)
<1>1. ASSUME NEW k \in Key
      PROVE  {g \in lo+1..hi : ev[g][k] # NoChange} = {g \in lo+1..hi : ew[g][k] # NoChange}
  OBVIOUS
<1>2. ASSUME NEW k \in Key, {g \in lo+1..hi : ew[g][k] # NoChange} # {}
      PROVE  Max({g \in lo+1..hi : ew[g][k] # NoChange}) \in lo+1..hi
  <2> DEFINE w == {g \in lo+1..hi : ew[g][k] # NoChange}
  <2>1. MaxGen \in Nat /\ w \in SUBSET (0..MaxGen)
    BY DaemondataAssumption DEF Gen
  <2> HIDE DEF w
  <2>2. Max(w) \in w
    BY Zenon, <2>1, <1>2, MaxOfBounded DEF w
  <2> QED BY <2>2 DEF w
<1> QED BY Zenon, <1>1, <1>2 DEF Play

(* Playing one more gen overlays its events.                               *)
LEMMA PlayStep ==
  ASSUME NEW x \in Data, NEW ev \in [Gen -> Delta], NEW lo \in Gen, NEW g \in Gen,
         lo <= g, g + 1 \in Gen
  PROVE  Play(x, ev, lo, g + 1) = Overlay(Play(x, ev, lo, g), ev[g + 1])
<1> SUFFICES ASSUME NEW k \in Key,
                    NEW v, v = {i \in lo+1..g : ev[i][k] # NoChange},
                    NEW w, w = {i \in lo+1..g+1 : ev[i][k] # NoChange}
             PROVE  (IF w = {} THEN x[k] ELSE ev[Max(w)][k])
                      = IF ev[g + 1][k] = NoChange
                        THEN IF v = {} THEN x[k] ELSE ev[Max(v)][k]
                        ELSE ev[g + 1][k]
  BY Zenon DEF Play, Overlay
<1>1. CASE ev[g + 1][k] = NoChange
  <2>1. v = w
    BY <1>1, DaemondataAssumption DEF Gen
  <2> QED BY Zenon, <1>1, <2>1
<1>2. CASE ev[g + 1][k] # NoChange
  <2>1. g + 1 \in w /\ \A i \in w : i <= g + 1
    BY <1>2, DaemondataAssumption DEF Gen
  <2>2. MaxGen \in Nat /\ w \in SUBSET (0..MaxGen)
    BY DaemondataAssumption DEF Gen
  <2>3. Max(w) \in w /\ Max(w) >= g + 1
    BY Zenon, <2>1, <2>2, MaxOfBounded
  <2>4. Max(w) = g + 1
    BY <2>1, <2>2, <2>3
  <2> QED BY <1>2, <2>1, <2>4
<1> QED BY <1>1, <1>2

(* No events, and fewer events, are still right.                           *)
LEMMA EventsEmpty ==
  ASSUME NEW h
  PROVE  EventsOK(h, EmptyQueue)
BY DaemondataAssumption DEF EventsOK, EmptyQueue, Entries, Gen

(* Events purged of some gens still lead from gen to gen                   *)
(* (purgeAppliedPatchQueue).                                               *)
LEMMA EventsPurge ==
  ASSUME NEW h, NEW ev, NEW ew, EventsOK(h, ev),
         \A g \in Gen : ew[g] \in {NoDelta, ev[g]}
  PROVE  EventsOK(h, ew)
<1> SUFFICES ASSUME NEW lo \in Gen, NEW hi \in Gen, lo < hi,
                    lo+1..hi \subseteq Entries(ew)
             PROVE  h[hi] = Play(h[lo], ew, lo, hi)
  BY DEF EventsOK
<1>1. \A g \in lo+1..hi : ev[g] = ew[g] /\ g \in Entries(ev)
  BY DEF Entries
<1>2. h[hi] = Play(h[lo], ev, lo, hi)
  BY <1>1 DEF EventsOK
<1> QED BY <1>1, <1>2, PlaySame

(* The events are right for the gens they reach, whatever comes next.      *)
LEMMA EventsLater ==
  ASSUME NEW h, NEW i, NEW ev, NEW top \in Gen, EventsOK(h, ev),
         \A g \in Entries(ev) : g <= top,
         \A g \in Gen : g <= top => i[g] = h[g]
  PROVE  EventsOK(i, ev)
<1> SUFFICES ASSUME NEW lo \in Gen, NEW hi \in Gen, lo < hi,
                    lo+1..hi \subseteq Entries(ev)
             PROVE  i[hi] = Play(i[lo], ev, lo, hi)
  BY DEF EventsOK
<1>1. hi \in Entries(ev)
  BY DaemondataAssumption DEF Gen
<1>2. i[hi] = h[hi] /\ i[lo] = h[lo]
  BY <1>1, DaemondataAssumption DEF Gen
<1> QED BY <1>2 DEF EventsOK

(* The events d of one more gen than g are added to ev, which gives ew,    *)
(* and the data they lead to is added to h, which gives i.                 *)
Committed(h, ev, d, g, i, ew) ==
  /\ h \in [Gen -> Data] /\ ev \in [Gen -> Delta] /\ d \in Delta
  /\ g \in Gen /\ g + 1 \in Gen
  /\ EventsOK(h, ev)
  /\ \A e \in Entries(ev) : e <= g
  /\ i[g + 1] = Overlay(h[g], d)
  /\ \A e \in Gen : e <= g => i[e] = h[e]
  /\ ew \in [Gen -> Delta]
  /\ ew[g + 1] = d
  /\ \A e \in Gen : e # g + 1 => ew[e] = ev[e]

(* The events committed lead to the data committed.                        *)
LEMMA EventsCommit ==
  ASSUME NEW h, NEW ev, NEW d, NEW g, NEW i, NEW ew, Committed(h, ev, d, g, i, ew)
  PROVE  EventsOK(i, ew)
<1> USE DEF Committed
<1> SUFFICES ASSUME NEW lo \in Gen, NEW hi \in Gen, lo < hi,
                    lo+1..hi \subseteq Entries(ew)
             PROVE  i[hi] = Play(i[lo], ew, lo, hi)
  BY DEF EventsOK
<1>1. hi \in Entries(ew) /\ hi <= g + 1
  <2>0. hi \in lo+1..hi
    BY DaemondataAssumption DEF Gen
  <2>1. hi \in Entries(ew)
    BY <2>0
  <2> QED BY <2>1, DaemondataAssumption DEF Entries, Gen
<1>2. i[lo] = h[lo] /\ h[lo] \in Data /\ ew \in [Gen -> Delta]
  BY <1>1, DaemondataAssumption DEF Gen
<1>3. \A e \in lo+1..hi : e <= g => ew[e] = ev[e] /\ e \in Entries(ev)
  BY DaemondataAssumption DEF Gen, Entries
<1>4. CASE hi <= g
  <2>1. i[hi] = h[hi]
    BY <1>4, DaemondataAssumption DEF Gen
  <2>2. \A e \in lo+1..hi : ew[e] = ev[e] /\ e \in Entries(ev)
    BY <1>3, <1>4, DaemondataAssumption DEF Gen
  <2>3. h[hi] = Play(h[lo], ev, lo, hi)
    BY <2>2 DEF EventsOK
  <2>4. \A e \in lo+1..hi : ev[e] = ew[e]
    BY <2>2
  <2>5. Play(h[lo], ev, lo, hi) = Play(h[lo], ew, lo, hi)
    BY <2>4, PlaySame
  <2> QED BY <1>2, <2>1, <2>3, <2>5
<1>5. CASE hi = g + 1
  <2>1. i[hi] = Overlay(h[g], d) /\ ew[g + 1] = d /\ lo <= g
    BY <1>5, DaemondataAssumption DEF Gen
  <2>2. Play(h[lo], ew, lo, g + 1) = Overlay(Play(h[lo], ew, lo, g), d)
    BY <1>2, <2>1, PlayStep
  <2>3. Play(h[lo], ew, lo, g) = h[g]
    <3>1. CASE lo = g
      BY <3>1, PlayNothing
    <3>2. CASE lo < g
      <4>1. \A e \in lo+1..g : ew[e] = ev[e] /\ e \in Entries(ev)
        BY <1>3, <1>5, DaemondataAssumption DEF Gen
      <4>2. h[g] = Play(h[lo], ev, lo, g)
        BY <3>2, <4>1 DEF EventsOK
      <4>3. \A e \in lo+1..g : ev[e] = ew[e]
        BY <4>1
      <4>4. Play(h[lo], ev, lo, g) = Play(h[lo], ew, lo, g)
        BY <4>3, PlaySame
      <4> QED BY <4>2, <4>4
    <3> QED BY <2>1, <3>1, <3>2, DaemondataAssumption DEF Gen
  <2> QED BY <1>2, <1>5, <2>1, <2>2, <2>3
<1> QED BY <1>1, <1>4, <1>5, DaemondataAssumption DEF Gen
-----------------------------------------------------------------------------
(* What a node knows of a peer is the data h of the run it knows, at the   *)
(* gen it applied; and a message of that run is right about it.            *)
KnownOK(v, h) == v.gen # 0 => v.run # 0 /\ v.data = h[v.gen]

MsgOK(msg, h) ==
  /\ \A g \in Entries(msg.events) : g <= msg.gens[msg.from]
  /\ EventsOK(h, msg.events)
  /\ msg.kind = "full" => msg.data = h[msg.gens[msg.from]]

(* The gen of w comes from v, from the message, or asks a full message.    *)
GenFrom(w, v, msg) == w.gen = 0 \/ w.gen = v.gen \/ w.gen <= msg.gens[msg.from]

(* The constant values the state starts from have their types (newData).   *)
LEMMA Members ==
  /\ 0 \in Gen /\ 1 \in Gen /\ 0 \in Time /\ 1 \in Run /\ 0 \in 0..MaxRun /\ 0 \in Val
  /\ NoGens \in [Node -> Gen] /\ NoDelta \in Delta /\ EmptyQueue \in [Gen -> Delta]
  /\ EmptyData \in Data /\ NoData \notin Data /\ NoMsg \notin Message
  /\ NoCandidate \in Candidate
<1>1. 0 \in Gen /\ 1 \in Gen /\ 0 \in Time /\ 1 \in Run /\ 0 \in 0..MaxRun /\ 0 \in Val
  BY DaemondataAssumption DEF Gen, Time, Run, Val
<1>2. NoCandidate \in Candidate
  BY <1>1 DEF NoCandidate, Candidate
<1> QED BY <1>1, <1>2, DaemondataAssumption
       DEF NoGens, NoDelta, EmptyQueue, EmptyData, Delta, Data

(* The updates of one field of what is known of a peer keep its type.      *)
LEMMA ViewExcept ==
  ASSUME NEW v \in View
  PROVE  /\ \A g \in Gen : [v EXCEPT !.gen = g] \in View
         /\ \A x \in Data \cup {NoData} : [v EXCEPT !.prev = x] \in View
         /\ \A x \in [Node -> Gen] : [v EXCEPT !.heard = TRUE, !.gens = x] \in View
         /\ [v EXCEPT !.heard = FALSE, !.gens = NoGens] \in View
BY ZenonT(30), Members DEF View

(* Forgetting the previous read changes nothing else.                      *)
LEMMA ForgetPrev ==
  ASSUME NEW h, NEW v \in View, KnownOK(v, h)
  PROVE  LET w == [v EXCEPT !.prev = NoData]
         IN  w \in View /\ KnownOK(w, h) /\ w.run = v.run /\ w.gen = v.gen
<1>1. LET w == [v EXCEPT !.prev = NoData]
      IN  w.run = v.run /\ w.gen = v.gen /\ w.data = v.data
  BY DEF View
<1>2. [v EXCEPT !.prev = NoData] \in View
  BY Zenon, ViewExcept
<1> QED BY <1>1, <1>2 DEF KnownOK

(* Events applied to the data of a gen give the data of a later gen, or    *)
(* the gen is forgotten (applyMsgEvents).                                  *)
LEMMA ApplyMsgEventsOK ==
  ASSUME NEW h \in [Gen -> Data], NEW v \in View, NEW msg \in Message,
         KnownOK(v, h), MsgOK(msg, h)
  PROVE  LET w == ApplyMsgEvents(v, msg)
         IN  w \in View /\ KnownOK(w, h) /\ w.run = v.run /\ GenFrom(w, v, msg)
<1> DEFINE peerGen == msg.gens[msg.from]
           entries == Entries(msg.events)
           tops == {g \in v.gen..MaxGen : v.gen+1..g \subseteq entries}
           top == Max(tops)
           broken == \E g \in entries : g > top
           played == [v EXCEPT !.data = Play(@, msg.events, v.gen, top),
                               !.held = Play(@, msg.events, v.gen, top),
                               !.gen = IF broken THEN 0 ELSE top,
                               !.patchAt = IF top > v.gen THEN msg.at ELSE @]
<1>1. /\ v.gen \in Gen /\ v.data \in Data \cup {NoData} /\ v.held \in Data
      /\ v.patchAt \in Time /\ msg.at \in Time /\ peerGen \in Gen
      /\ msg.events \in [Gen -> Delta]
  BY DEF View, Message
<1>2. CASE v.gen = 0 \/ msg.at < v.patchAt
  BY <1>2 DEF ApplyMsgEvents, GenFrom
<1>3. CASE /\ ~(v.gen = 0 \/ msg.at < v.patchAt)
           /\ peerGen < v.gen \/ (entries = {} /\ peerGen > v.gen)
  <2>1. ApplyMsgEvents(v, msg) = [v EXCEPT !.gen = 0]
    BY <1>3 DEF ApplyMsgEvents
  <2>2. [v EXCEPT !.gen = 0] \in View
    BY Zenon, ViewExcept, Members
  <2> QED BY <2>1, <2>2 DEF KnownOK, GenFrom, View
<1>4. CASE /\ ~(v.gen = 0 \/ msg.at < v.patchAt)
           /\ ~(peerGen < v.gen \/ (entries = {} /\ peerGen > v.gen))
  <2>1. ApplyMsgEvents(v, msg) = played
    BY <1>4 DEF ApplyMsgEvents
  <2>2. top \in tops
    <3>1. MaxGen \in Nat /\ tops \subseteq 0..MaxGen
      BY <1>1, DaemondataAssumption DEF Gen
    <3>2. v.gen \in tops
      BY <1>1, DaemondataAssumption DEF Gen
    <3> HIDE DEF tops
    <3> QED BY <3>1, <3>2, MaxOfBounded
  <2>3. top \in Gen /\ v.gen <= top /\ v.gen+1..top \subseteq entries
    BY <1>1, <2>2, DaemondataAssumption DEF Gen
  <2>4. v.data \in Data /\ v.data = h[v.gen] /\ v.run # 0
    BY <1>1, <1>4 DEF KnownOK
  <2> HIDE DEF top
  <2>5. Play(v.data, msg.events, v.gen, top) \in Data
        /\ Play(v.held, msg.events, v.gen, top) \in Data
    BY <1>1, <2>3, <2>4, PlayType
  <2>6. Play(v.data, msg.events, v.gen, top) = h[top]
    <3>1. CASE top = v.gen
      BY <1>1, <2>4, <3>1, PlayNothing
    <3>2. CASE v.gen < top
      BY <1>1, <2>3, <2>4, <3>2 DEF MsgOK, EventsOK
    <3> QED BY <1>1, <2>3, <3>1, <3>2, DaemondataAssumption DEF Gen
  <2>7. top = v.gen \/ top <= peerGen
    <3>1. CASE v.gen < top
      <4>1. top \in v.gen+1..top
        BY <1>1, <2>3, <3>1, DaemondataAssumption DEF Gen
      <4> QED BY <2>3, <4>1 DEF MsgOK
    <3> QED BY <1>1, <2>3, <3>1, DaemondataAssumption DEF Gen
  <2> HIDE DEF broken
  <2>8. played \in View /\ played.run = v.run /\ played.data = h[top]
        /\ played.gen \in {0, top}
    BY Zenon, <1>1, <2>3, <2>5, <2>6, Members DEF View
  <2> HIDE DEF played
  <2> QED BY <2>1, <2>4, <2>7, <2>8 DEF KnownOK, GenFrom
<1> QED BY <1>2, <1>3, <1>4

(* A full message gives the data of its gen (applyNodeData).               *)
LEMMA ApplyNodeDataOK ==
  ASSUME NEW h \in [Gen -> Data], NEW v \in View, NEW msg \in Message,
         v.run # 0, MsgOK(msg, h), msg.kind = "full"
  PROVE  LET w == ApplyNodeData(v, msg)
         IN  w \in View /\ KnownOK(w, h) /\ w.run = v.run /\ GenFrom(w, v, msg)
<1>1. msg.gens[msg.from] \in Gen /\ msg.data = h[msg.gens[msg.from]] /\ msg.data \in Data
  BY DEF Message, MsgOK
<1>2. PubPeerDataChanges(v, msg.data) \in Data
  BY <1>1 DEF PubPeerDataChanges, Data, View
<1>3. msg.gens[msg.from] <= msg.gens[msg.from]
  BY <1>1, DaemondataAssumption DEF Gen
<1> QED BY Zenon, <1>1, <1>2, <1>3 DEF ApplyNodeData, View, KnownOK, GenFrom

(* A message of the known run is applied on what the node knows of it.     *)
LEMMA OnReceiveHbMsgOK ==
  ASSUME NEW h \in [Gen -> Data], NEW v \in View, NEW msg \in Message,
         v.run # 0, KnownOK(v, h), MsgOK(msg, h)
  PROVE  LET w == OnReceiveHbMsg(v, msg)
         IN  w \in View /\ KnownOK(w, h) /\ w.run = v.run /\ GenFrom(w, v, msg)
<1> DEFINE seen == SetFromPeerMsg(v, msg)
           events == ApplyMsgEvents(seen, msg)
           patched == IF v.gen + Cardinality(Entries(msg.events)) >= msg.gens[msg.from]
                      THEN events ELSE seen
<1>1. seen \in View /\ seen.run = v.run /\ seen.gen = v.gen /\ KnownOK(seen, h)
  BY ZenonT(30), ViewExcept DEF SetFromPeerMsg, View, KnownOK, Message
<1> HIDE DEF seen
<1>2. events \in View /\ KnownOK(events, h) /\ events.run = v.run /\ GenFrom(events, v, msg)
  BY <1>1, ApplyMsgEventsOK DEF GenFrom
<1> HIDE DEF events
<1>3. patched \in View /\ KnownOK(patched, h) /\ patched.run = v.run
      /\ GenFrom(patched, v, msg)
  BY <1>1, <1>2 DEF GenFrom
<1>4. CASE msg.kind = "patch"
  <2>1. OnReceiveHbMsg(v, msg) = [events EXCEPT !.prev = NoData]
    BY <1>4 DEF OnReceiveHbMsg, events, seen
  <2> QED BY <1>2, <2>1, ForgetPrev DEF GenFrom
<1>5. CASE msg.kind = "ping"
  <2>1. OnReceiveHbMsg(v, msg) = [seen EXCEPT !.prev = NoData]
    BY <1>5 DEF OnReceiveHbMsg, seen
  <2> QED BY <1>1, <2>1, ForgetPrev DEF GenFrom
<1>6. CASE msg.kind = "full"
  <2>1. OnReceiveHbMsg(v, msg) \in {seen, patched, ApplyNodeData(patched, msg)}
    BY <1>6 DEF OnReceiveHbMsg, events, seen
  <2> HIDE DEF patched
  <2>2. LET w == ApplyNodeData(patched, msg)
        IN  w \in View /\ KnownOK(w, h) /\ w.run = patched.run /\ GenFrom(w, patched, msg)
    BY <1>3, <1>6, ApplyNodeDataOK
  <2> QED BY <1>1, <1>3, <2>1, <2>2 DEF GenFrom
<1> QED BY <1>4, <1>5, <1>6 DEF Message, Kind

(* Once a message is accepted its run is the known one, and the gen is     *)
(* kept only if the run is.                                                *)
LEMMA AcceptPeerRunOK ==
  ASSUME NEW v \in View, NEW msg \in Message, NEW expired \in BOOLEAN
  PROVE  LET w == AcceptPeerRun(v, msg, expired)
         IN  /\ w \in View
             /\ AcceptedPeerRun(v, msg, expired) => w.run = msg.run /\ msg.run # 0
             /\ ~AcceptedPeerRun(v, msg, expired) => w.run = v.run
             /\ \/ w.run = v.run /\ w.gen = v.gen /\ w.data = v.data
                \/ v.run = 0 /\ w.gen = v.gen
                \/ w.gen = 0
<1>1. /\ msg.run \in 0..MaxRun /\ msg.run # 0 /\ msg.at \in Time
      /\ v.runAt \in Time /\ v.cand \in Candidate
  BY DaemondataAssumption DEF Message, Run, View
<1>2. NextCandidate(v, msg, expired) \in Candidate
  <2>1. [id |-> msg.run, at |-> msg.at, count |-> 1] \in Candidate
    BY <1>1 DEF Candidate
  <2>2. ASSUME NEW c \in Candidate
        PROVE  [c EXCEPT !.at = msg.at, !.count = @ + 1] \in Candidate
    <3>1. c.count + 1 \in Nat
      BY DEF Candidate
    <3>2. \A i \in Nat : [c EXCEPT !.at = msg.at, !.count = i] \in Candidate
      BY Zenon, <1>1 DEF Candidate
    <3> QED BY Zenon, <3>1, <3>2
  <2> QED BY Zenon, <1>1, <2>1, <2>2 DEF NextCandidate
<1>3. SwitchPeerRun(v, msg) \in View /\ SwitchPeerRun(v, msg).run = msg.run
      /\ SwitchPeerRun(v, msg).gen = 0
  BY Zenon, <1>1, Members DEF SwitchPeerRun, View
<1>4. CASE v.run = 0
  BY Zenon, <1>1, <1>4 DEF AcceptPeerRun, AcceptedPeerRun, View
<1>5. CASE v.run # 0 /\ v.run = msg.run
  <2>1. AcceptPeerRun(v, msg, expired) =
          [v EXCEPT !.runAt = IF msg.at > @ THEN msg.at ELSE @, !.cand = NoCandidate]
    BY <1>5 DEF AcceptPeerRun
  <2> QED BY Zenon, <1>1, <1>5, <2>1, Members DEF AcceptedPeerRun, View
<1>6. CASE v.run # 0 /\ v.run # msg.run
  <2>1. AcceptPeerRun(v, msg, expired) =
          IF AcceptedPeerRun(v, msg, expired) THEN SwitchPeerRun(v, msg)
          ELSE [v EXCEPT !.cand = NextCandidate(v, msg, expired)]
    BY <1>6 DEF AcceptPeerRun
  <2>2. [v EXCEPT !.cand = NextCandidate(v, msg, expired)] \in View
    BY <1>2 DEF View
  <2> QED BY <1>1, <1>3, <2>1, <2>2 DEF View
<1> QED BY <1>4, <1>5, <1>6
=============================================================================
