---------------------------- MODULE ClusterEvents ----------------------------
(***************************************************************************)
(* How one node turns the notifications of the membership engine into the  *)
(* NodeJoined and NodeLeft events of the actor system                      *)
(* (internal/cluster/cluster.go).                                          *)
(*                                                                         *)
(* Every change of the topology is published three times on a channel:     *)
(* that a node joined or left, that a rebalance of some epoch started, and *)
(* that this rebalance is complete.  The node holds an event back until    *)
(* the rebalance it belongs to has completed.  Several members publish, so *)
(* the three can be received in any order and more than once.              *)
(***************************************************************************)
EXTENDS Naturals, Sequences, FiniteSets, SequencesExt

CONSTANTS Nodes,    \* addresses of the other members
          None,
          Confs,    \* the histories considered, records of
                    \* [changes, ordered, dup, stops]
          BufSize   \* defaultEventsBufSize, the capacity of the event channel

VARIABLES conf,
          sent,      \* notifications published, change by change
          inbox,     \* notifications under way to this node
          c,         \* the fields of the cluster struct that track events
          events,    \* the event channel, None once it is closed
          told,      \* the events read by the actor system, oldest first
          dropped    \* events dropped because the channel was full

evars == <<conf, sent, inbox, c, events, told, dropped>>

-----------------------------------------------------------------------------

\* The i-th change of the history is <<reason, node>>; its epoch is i.
Change(i) == conf.changes[i]
Note(i, k) == [kind |-> k, epoch |-> i, reason |-> Change(i)[1], node |-> Change(i)[2]]

\* The tracking state a cluster engine starts with.
NewTracking ==
  [running |-> TRUE, joinedFilter |-> {}, leftFilter |-> {}, joinPending |-> {}, leftPending |-> {},
   joinEpoch |-> [n \in Nodes |-> 0], leftEpoch |-> [n \in Nodes |-> 0],
   startSeen |-> {}, completeSeen |-> {}, latestJoin |-> 0, latestLeft |-> 0]

EInit ==
  /\ conf \in Confs
  /\ sent = <<0, 0>>
  /\ inbox = {}
  /\ c = NewTracking
  /\ events = <<>>
  /\ told = <<>>
  /\ dropped = 0

-----------------------------------------------------------------------------

\* The engine publishes the three notifications of a change in their order,
\* and the changes one after the other.
Kinds == <<"node", "start", "complete">>

Publish ==
  LET i == sent[1] + 1 IN
  /\ i \in 1..Len(conf.changes)
  /\ inbox' = inbox \cup {Note(i, Kinds[sent[2] + 1])}
  /\ sent' = IF sent[2] = 2 THEN <<i, 0>> ELSE <<sent[1], sent[2] + 1>>
  /\ UNCHANGED <<conf, c, events, told, dropped>>

\* sendEventLocked for a sequence of events: the channel is never waited for.
Sends(es) ==
  LET room == IF events = None THEN 0 ELSE BufSize - Len(events)
      fit == IF Len(es) <= room THEN es ELSE SubSeq(es, 1, room) IN
  IF events = None
  THEN UNCHANGED <<events, dropped>>
  ELSE /\ events' = events \o fit
       /\ dropped' = dropped + Len(es) - Len(fit)

\* The nodes whose pending join (left) belongs to the epoch and is announced
\* now, and the state afterwards; the filters keep a node from being announced
\* a second time.
JoinsOf(s, e) == {n \in s.joinPending : s.joinEpoch[n] = e}
LeftsOf(s, e) == {n \in s.leftPending : s.leftEpoch[n] = e}
emitPendingJoinForEpoch(s, e) ==
  [s EXCEPT !.joinPending = @ \ JoinsOf(s, e),
            !.joinEpoch = [n \in Nodes |-> IF @[n] = e THEN 0 ELSE @[n]],
            !.joinedFilter = @ \cup JoinsOf(s, e)]
emitPendingLeftForEpoch(s, e) ==
  [s EXCEPT !.leftPending = @ \ LeftsOf(s, e),
            !.leftEpoch = [n \in Nodes |-> IF @[n] = e THEN 0 ELSE @[n]],
            !.leftFilter = @ \cup LeftsOf(s, e),
            !.joinedFilter = @ \ LeftsOf(s, e)]
emitNodeJoined(s, e) == {n \in JoinsOf(s, e) : n \notin s.joinedFilter}
emitNodeLeft(s, e) == {n \in LeftsOf(s, e) : n \notin s.leftFilter}
Events(k, ns) == [i \in 1..Cardinality(ns) |-> [kind |-> k, node |-> SetToSeq(ns)[i]]]

trackNodeJoinEvent(m) ==
  LET ignored == m.node \in c.joinedFilter \/ m.node \in c.joinPending
      s == [c EXCEPT !.joinPending = @ \cup {m.node},
                     !.joinEpoch[m.node] = IF c.latestJoin # 0 THEN c.latestJoin ELSE @] IN
  IF ignored THEN UNCHANGED <<c, events, dropped>>
  ELSE IF c.latestJoin \in c.completeSeen
  THEN /\ c' = emitPendingJoinForEpoch(s, c.latestJoin)
       /\ Sends(Events("joined", emitNodeJoined(s, c.latestJoin)))
  ELSE c' = s /\ UNCHANGED <<events, dropped>>

trackNodeLeftEvent(m) ==
  LET rejoinable == [c EXCEPT !.joinedFilter = @ \ {m.node}]
      ignored == m.node \in c.leftFilter \/ m.node \in c.leftPending
      s == [rejoinable EXCEPT !.leftPending = @ \cup {m.node},
                              !.leftEpoch[m.node] = IF c.latestLeft # 0 THEN c.latestLeft ELSE @] IN
  IF ignored THEN c' = rejoinable /\ UNCHANGED <<events, dropped>>
  ELSE IF c.latestLeft \in c.completeSeen
  THEN /\ c' = emitPendingLeftForEpoch(s, c.latestLeft)
       /\ Sends(Events("left", emitNodeLeft(s, c.latestLeft)))
  ELSE c' = s /\ UNCHANGED <<events, dropped>>

\* The nodes still waiting for an epoch all take the newest one.
assignJoinEpoch(s, e) == [s EXCEPT !.joinEpoch = [n \in Nodes |-> IF n \in s.joinPending THEN e ELSE @[n]]]
assignLeftEpoch(s, e) == [s EXCEPT !.leftEpoch = [n \in Nodes |-> IF n \in s.leftPending THEN e ELSE @[n]]]

processRebalanceStart(m) ==
  LET seen == [c EXCEPT !.startSeen = @ \cup {m.epoch}]
      join == assignJoinEpoch([seen EXCEPT !.latestJoin = m.epoch], m.epoch)
      left == assignLeftEpoch([seen EXCEPT !.latestLeft = m.epoch], m.epoch) IN
  IF m.epoch \in c.startSeen THEN UNCHANGED <<c, events, dropped>>
  ELSE IF m.epoch \notin c.completeSeen
  THEN c' = (IF m.reason = "join" THEN join ELSE left) /\ UNCHANGED <<events, dropped>>
  ELSE IF m.reason = "join"
  THEN /\ c' = emitPendingJoinForEpoch(join, m.epoch)
       /\ Sends(Events("joined", emitNodeJoined(join, m.epoch)))
  ELSE /\ c' = emitPendingLeftForEpoch(left, m.epoch)
       /\ Sends(Events("left", emitNodeLeft(left, m.epoch)))

processRebalanceComplete(m) ==
  LET seen == [c EXCEPT !.completeSeen = @ \cup {m.epoch}]
      left == emitPendingLeftForEpoch(seen, m.epoch) IN
  IF m.epoch \in c.completeSeen THEN UNCHANGED <<c, events, dropped>>
  ELSE /\ c' = emitPendingJoinForEpoch(left, m.epoch)
       /\ Sends(Events("left", emitNodeLeft(seen, m.epoch)) \o Events("joined", emitNodeJoined(left, m.epoch)))

handleClusterEvent(m) ==
  \/ m.kind = "node" /\ m.reason = "join" /\ trackNodeJoinEvent(m)
  \/ m.kind = "node" /\ m.reason = "left" /\ trackNodeLeftEvent(m)
  \/ m.kind = "start" /\ processRebalanceStart(m)
  \/ m.kind = "complete" /\ processRebalanceComplete(m)

\* One turn of consume.  A member's notifications arrive in the order they
\* were published when only one member publishes; a notification that several
\* members publish can arrive again.
Oldest(m) == \A o \in inbox : o.epoch > m.epoch \/ (o.epoch = m.epoch /\ SelectInSeq(Kinds, LAMBDA k : k = o.kind) >= SelectInSeq(Kinds, LAMBDA k : k = m.kind))
SameNodeFirst(m) == \A o \in inbox : o.kind = "node" /\ m.kind = "node" /\ o.node = m.node => o.epoch >= m.epoch

consume ==
  /\ c.running
  /\ \E m \in inbox :
       /\ conf.ordered => Oldest(m)
       /\ SameNodeFirst(m)
       /\ handleClusterEvent(m)
       /\ \/ inbox' = inbox \ {m}
          \/ conf.dup /\ inbox' = inbox
  /\ UNCHANGED <<conf, sent, told>>

\* clusterEventsLoop reads the channel.
ReadEvent ==
  /\ events \notin {None, <<>>}
  /\ told' = Append(told, Head(events))
  /\ events' = Tail(events)
  /\ UNCHANGED <<conf, sent, inbox, c, dropped>>

\* Stop cancels consume, waits for it and closes the channel; what is still
\* buffered in a closed channel can be read.
Stop ==
  /\ conf.stops /\ c.running
  /\ c' = [c EXCEPT !.running = FALSE]
  /\ events' = IF events = <<>> THEN None ELSE events
  /\ inbox' = {}
  /\ UNCHANGED <<conf, sent, told, dropped>>

ESystem == consume \/ ReadEvent
ENext == ESystem \/ Publish \/ Stop
ESpec == EInit /\ [][ENext]_evars /\ WF_evars(ESystem) /\ WF_evars(Publish)

-----------------------------------------------------------------------------
Emitted == told \o (IF events = None THEN <<>> ELSE events)
Count(k, n) == Cardinality({i \in DOMAIN Emitted : Emitted[i] = [kind |-> k, node |-> n]})
Happened(k, n) == Cardinality({i \in 1..Len(conf.changes) : i <= sent[1] + (IF sent[2] > 0 THEN 1 ELSE 0) /\ Change(i) = <<k, n>>})

(***************************************************************************)
(* However the notifications are repeated and reordered, a node is not     *)
(* announced as joined or as left more often than it joined or left.       *)
(***************************************************************************)
NoPhantomEvent ==
  \A n \in Nodes : Count("joined", n) <= Happened("join", n) /\ Count("left", n) <= Happened("left", n)

(***************************************************************************)
(* trackNodeLeftEvent says it "defers NodeLeft emission until the matching *)
(* rebalance epoch completes": a departure is announced only when the      *)
(* rebalance it caused is complete.                                        *)
(***************************************************************************)
\* Does not hold: a departure can be announced with a rebalance that completed
\* before it.
MatchingEpoch ==
  \A n \in Nodes :
    Count("left", n) > 0 =>
      \E i \in c.completeSeen : Change(i) = <<"left", n>>

(***************************************************************************)
(* Once everything published has been received, every node that left for   *)
(* the first time, and every node that joined and is still there, has been *)
(* announced, unless the channel was full or the engine stopped.           *)
(***************************************************************************)
EventsEnded ==
  /\ sent[1] = Len(conf.changes) /\ events \in {None, <<>>}
  /\ c.running => inbox = {}
  /\ c.running /\ dropped = 0 =>
       \A i \in 1..Len(conf.changes) :
         LET k == Change(i)[1]
             n == Change(i)[2] IN
         /\ k = "left" => Count("left", n) >= 1
         /\ k = "join" /\ (\A j \in (i+1)..Len(conf.changes) : Change(j)[2] # n) => Count("joined", n) >= 1
=============================================================================
