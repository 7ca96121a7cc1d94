------------------------------ MODULE Replicator ------------------------------
(***************************************************************************)
(* The replicator actors of a cluster, or of two data centers, for one key *)
(* that holds a GCounter: updates, reads, deletes with and without         *)
(* coordination, deltas and tombstones on the topic, anti-entropy,         *)
(* snapshots, restarts, and the batches between data centers.              *)
(*                                                                         *)
(* A replicator handles one message at a time; a coordinated read blocks   *)
(* it until its peers have answered or time has run out.                   *)
(***************************************************************************)
EXTENDS Integers, Sequences, FiniteSets, FiniteSetsExt, SequencesExt

CONSTANTS Nodes,      \* numbers, the least live one of a data center leads it
          None,
          Confs       \* [dc, calls, faults, victims, rounds, snapshots, cross]

VARIABLES conf,
          rep,        \* the replicators
          net,        \* messages under way, delivered in any order
          call,       \* the calls of user actors
          rounds,     \* periodic ticks that are still to come
          made        \* increments that were applied at each node

rvars == <<conf, rep, net, call, rounds, made>>

Fault(f) == f \in conf.faults
Zero == [n \in Nodes |-> 0]
Merge(x, y) == [n \in Nodes |-> IF y[n] > x[n] THEN y[n] ELSE x[n]]
Joined(x, y) == IF x = None THEN y ELSE IF y = None THEN x ELSE Merge(x, y)

-----------------------------------------------------------------------------
Up == {n \in Nodes : rep[n].up}
Busy(n) == rep[n].ask # None
Peers(n) == {p \in Nodes \ {n} : conf.dc[p] = conf.dc[n]}
LivePeers(n) == Peers(n) \cap Up
IsLeader(n) == n = Min({p \in Up : conf.dc[p] = conf.dc[n]})
RemoteDCs(n) == {conf.dc[p] : p \in Nodes} \ {conf.dc[n]}

targetCount(peers, level) ==
  CASE level = "majority" -> Min({peers \div 2 + 1, peers})
    [] level = "all" -> peers
    [] OTHER -> 0
selectPeers(n, level) == kSubset(targetCount(Cardinality(LivePeers(n)), level), LivePeers(n))

Msg(kind, from, to, via, data, ver) ==
  [kind |-> kind, from |-> from, to |-> to, via |-> via, data |-> data, ver |-> ver]
encodeDelta(n, to, via, delta) == Msg("delta", n, to, via, delta, 0)
Tombstone(n, to, via) == Msg("tombstone", n, to, via, None, 0)

\* A message published on the topic reaches the replicator of every peer.
PublishDelta(n, delta) == {encodeDelta(n, p, "topic", delta) : p \in Peers(n)}
PublishTombstone(n) == {Tombstone(n, p, "topic") : p \in Peers(n)}

-----------------------------------------------------------------------------
(* What the handlers do to the record r of a replicator.                   *)

trackKey(r) == [r EXCEPT !.typed = TRUE]
notifyChanged(r) == IF r.watched THEN [r EXCEPT !.told = r.data, !.silent = FALSE] ELSE [r EXCEPT !.silent = FALSE]
Stored(r, data) == notifyChanged([trackKey(r) EXCEPT !.data = data, !.ver = @ + 1])
Buried(r) == [r EXCEPT !.data = None, !.ver = 0, !.tomb = TRUE, !.silent = FALSE]

\* As if a delta replaced what is stored.
handleDeltaReplaces(r, n, origin, delta) ==
  IF origin = n \/ r.tomb THEN r ELSE Stored(r, delta)

handleDelta(r, n, origin, delta) ==
  IF origin = n \/ r.tomb THEN r ELSE Stored(r, Joined(r.data, delta))
handleProtoTombstone(r, n, origin) == IF origin = n THEN r ELSE Buried(r)

handleFullState(r, data) == IF r.tomb THEN r ELSE Stored(r, Joined(r.data, data))

\* A key that the digest does not list is older than any version.
buildDigest(n, to) == Msg("digest", n, to, "direct", None, IF rep[n].data = None THEN -1 ELSE rep[n].ver)
handleDigest(n, m) ==
  IF rep[n].data # None /\ rep[n].ver > m.ver
  THEN {Msg("fullState", n, m.from, "direct", rep[n].data, 0)} ELSE {}

buildSnapshotEntries(r) == IF r.data = None THEN None ELSE [data |-> r.data, ver |-> r.ver]
SnapshotFails(r) == r.data # None /\ ~r.typed
\* Save replaces the whole file in one transaction, or leaves it.
Saved(r) == IF ~conf.snapshots \/ SnapshotFails(r) THEN r.snap ELSE buildSnapshotEntries(r)

Fresh(snap) ==
  [up |-> TRUE, data |-> None, ver |-> 0, typed |-> FALSE, tomb |-> FALSE, snap |-> snap,
   deltas |-> <<>>, tombs |-> 0, watched |-> FALSE, told |-> None, silent |-> FALSE, ask |-> None]
restoreFromSnapshot(snap) ==
  IF snap = None THEN Fresh(snap)
  ELSE [Fresh(snap) EXCEPT !.data = snap.data, !.ver = snap.ver, !.typed = TRUE]

handleIncomingBatch(r, n, m) ==
  IF conf.dc[m.from] = conf.dc[n] THEN r
  ELSE LET merged == FoldSeq(LAMBDA d, x : handleDelta(x, n, m.from, d), r, m.data[1])
       IN IF m.ver = 0 THEN merged ELSE handleProtoTombstone(merged, n, m.from)

-----------------------------------------------------------------------------
Calls == DOMAIN conf.calls

RInit ==
  /\ conf \in Confs
  /\ rep = [n \in Nodes |-> Fresh(None)]
  /\ net = {}
  /\ call = [i \in DOMAIN conf.calls |-> [st |-> "new", reply |-> None]]
  /\ rounds = conf.rounds
  /\ made = Zero

Next1(i) == \A j \in 1..(i - 1) : call[j].st # "new"
Answer(i, reply) == call' = [call EXCEPT ![i] = [st |-> "done", reply |-> reply]]
CanServe(i, op) ==
  /\ call[i].st = "new" /\ Next1(i) /\ conf.calls[i].op = op
  /\ rep[conf.calls[i].at].up /\ ~Busy(conf.calls[i].at)

\* What the leader will send to the other data centers.
Pending(r, delta) == IF conf.cross THEN [r EXCEPT !.deltas = Append(@, delta)] ELSE r

handleUpdate(i) ==
  LET n == conf.calls[i].at IN
  /\ CanServe(i, "update")
  /\ \/ /\ rep[n].tomb
        /\ UNCHANGED <<rep, net, made>>
     \/ /\ ~rep[n].tomb
        /\ \E direct \in selectPeers(n, conf.calls[i].level) :
             LET new == [Joined(rep[n].data, Zero) EXCEPT ![n] = @ + 1]
                 delta == [Zero EXCEPT ![n] = new[n]]
             IN /\ rep' = [rep EXCEPT ![n] = Pending(Stored(@, new), delta)]
                /\ net' = net \cup PublishDelta(n, delta) \cup {encodeDelta(n, p, "direct", delta) : p \in direct}
        /\ made' = [made EXCEPT ![n] = @ + 1]
  /\ Answer(i, TRUE)
  /\ UNCHANGED <<conf, rounds>>

handleDelete(i) ==
  LET n == conf.calls[i].at IN
  /\ CanServe(i, "delete")
  /\ \E direct \in selectPeers(n, conf.calls[i].level) :
       net' = IF ~rep[n].typed THEN net
              ELSE net \cup PublishTombstone(n) \cup {Tombstone(n, p, "direct") : p \in direct}
  /\ rep' = [rep EXCEPT ![n] = [Buried(@) EXCEPT !.tombs = IF conf.cross /\ rep[n].typed THEN @ + 1 ELSE @]]
  /\ Answer(i, TRUE)
  /\ UNCHANGED <<conf, rounds, made>>

\* A read without coordination, or without peers, is answered at once.
handleGet(i) ==
  LET n == conf.calls[i].at IN
  /\ CanServe(i, "get")
  /\ IF conf.calls[i].level = "none" \/ LivePeers(n) = {}
     THEN Answer(i, Joined(rep[n].data, Zero)) /\ UNCHANGED rep
     ELSE /\ \E S \in selectPeers(n, conf.calls[i].level) :
               rep' = [rep EXCEPT ![n].ask = [call |-> i, todo |-> S, at |-> None, merged |-> rep[n].data]]
          /\ call' = [call EXCEPT ![i].st = "asking"]
  /\ UNCHANGED <<conf, net, rounds, made>>

Ask(n) == rep[n].ask
\* coordinatedRead: the next peer is looked up and asked.
coordinatedRead(n) ==
  /\ rep[n].up /\ Busy(n) /\ Ask(n).at = None
  /\ \E p \in Ask(n).todo :
       IF rep[p].up
       THEN /\ rep' = [rep EXCEPT ![n].ask = [@ EXCEPT !.todo = @ \ {p}, !.at = p]]
            /\ net' = net \cup {Msg("readRequest", n, p, "direct", None, Ask(n).call)}
       ELSE rep' = [rep EXCEPT ![n].ask.todo = @ \ {p}] /\ UNCHANGED net
  /\ UNCHANGED <<conf, call, rounds, made>>

\* The ask of a peer runs out of time.
ReadTimeout(n) ==
  /\ rep[n].up /\ Busy(n) /\ Ask(n).at # None
  /\ \/ Fault("slow") \/ ~rep[Ask(n).at].up \/ Busy(Ask(n).at)
     \/ \A m \in net : ~(m.kind \in {"readRequest", "readResponse"} /\ m.ver = Ask(n).call)
  /\ rep' = [rep EXCEPT ![n].ask.at = None]
  /\ UNCHANGED <<conf, net, call, rounds, made>>

\* All peers were asked: what was merged is stored, unannounced, and returned.
ReadReturns(n) ==
  /\ rep[n].up /\ Busy(n) /\ Ask(n).at = None /\ Ask(n).todo = {}
  /\ LET merged == Ask(n).merged IN
       /\ rep' = [rep EXCEPT ![n] = [@ EXCEPT !.ask = None, !.data = merged,
                                             !.silent = @ \/ rep[n].data # merged]]
       /\ Answer(Ask(n).call, Joined(merged, Zero))
  /\ UNCHANGED <<conf, net, rounds, made>>

\* A user actor of the node subscribes to the key, and leaves again.
handleSubscribe(i) ==
  /\ CanServe(i, "subscribe")
  /\ rep' = [rep EXCEPT ![conf.calls[i].at] = [@ EXCEPT !.watched = TRUE, !.told = None]]
  /\ Answer(i, TRUE)
  /\ UNCHANGED <<conf, net, rounds, made>>
removeWatcher(n) == rep' = [rep EXCEPT ![n].watched = FALSE]
handleUnsubscribe(i) ==
  /\ CanServe(i, "unsubscribe")
  /\ removeWatcher(conf.calls[i].at)
  /\ Answer(i, TRUE)
  /\ UNCHANGED <<conf, net, rounds, made>>
\* The subscriber stops and the replicator, which watches it, is told.
handleTerminated(i) ==
  /\ CanServe(i, "terminated")
  /\ removeWatcher(conf.calls[i].at)
  /\ Answer(i, TRUE)
  /\ UNCHANGED <<conf, net, rounds, made>>

-----------------------------------------------------------------------------
(* Messages from other replicators.                                        *)

handleReadRequest(n, m) == {Msg("readResponse", n, m.from, "direct", rep[n].data, m.ver)}

Deliver(m) ==
  LET n == m.to
      r == rep[n]
  IN
  /\ rep[n].up
  /\ \/ /\ m.kind = "readResponse"
        /\ rep' = IF Busy(n) /\ Ask(n).at = m.from /\ Ask(n).call = m.ver
                  THEN [rep EXCEPT ![n].ask = [@ EXCEPT !.at = None, !.merged = Joined(@, m.data)]]
                  ELSE rep
        /\ net' = net \ {m}
     \/ /\ m.kind # "readResponse" /\ ~Busy(n)
        /\ rep' = [rep EXCEPT ![n] =
                     CASE m.kind = "delta" -> handleDelta(r, n, m.from, m.data)
                       [] m.kind = "tombstone" -> handleProtoTombstone(r, n, m.from)
                       [] m.kind = "fullState" -> handleFullState(r, m.data)
                       [] m.kind = "batch" -> handleIncomingBatch(r, n, m)
                       [] OTHER -> r]
        /\ net' = (net \ {m}) \cup
                    (CASE m.kind = "digest" -> handleDigest(n, m)
                       [] m.kind = "readRequest" -> handleReadRequest(n, m)
                       [] OTHER -> {})
  /\ UNCHANGED <<conf, call, rounds, made>>

\* The network drops a message, or its destination is gone.
Lose(m) ==
  /\ Fault("lossy") \/ ~rep[m.to].up
  /\ net' = net \ {m}
  /\ UNCHANGED <<conf, rep, call, rounds, made>>

-----------------------------------------------------------------------------
(* Periodic ticks.                                                         *)

Tick(n) == rep[n].up /\ ~Busy(n) /\ rounds > 0 /\ rounds' = rounds - 1 /\ UNCHANGED <<conf, call, made>>

handleAntiEntropy(n) ==
  /\ Tick(n)
  /\ \E p \in LivePeers(n) : net' = net \cup {buildDigest(n, p)}
  /\ UNCHANGED rep

\* Tombstones older than their time to live are forgotten.
handlePrune(n) ==
  /\ Fault("prune") /\ Tick(n) /\ rep[n].tomb
  /\ rep' = [rep EXCEPT ![n].tomb = FALSE]
  /\ UNCHANGED net

handleSnapshot(n) ==
  /\ conf.snapshots /\ Tick(n)
  /\ rep' = [rep EXCEPT ![n].snap = Saved(rep[n])]
  /\ UNCHANGED net

\* One live endpoint of each other data center gets the batch; where there is
\* none, or when the records are stale, the batch is gone.
sendToDataCenter(n, dc, S) ==
  Cardinality({p \in S : conf.dc[p] = dc}) = Min({1, Cardinality({p \in Up : conf.dc[p] = dc})})
sendBatchToRemoteDataCenters(n) ==
  IF Fault("stale") THEN {{}}
  ELSE {S \in SUBSET {p \in Up : conf.dc[p] # conf.dc[n]} : \A dc \in RemoteDCs(n) : sendToDataCenter(n, dc, S)}
handleDataCenterFlush(n) ==
  /\ conf.cross /\ Tick(n) /\ IsLeader(n)
  /\ rep[n].deltas # <<>> \/ rep[n].tombs > 0
  /\ \E S \in sendBatchToRemoteDataCenters(n) :
       net' = net \cup {Msg("batch", n, p, "direct", <<rep[n].deltas>>, rep[n].tombs) : p \in S}
  /\ rep' = [rep EXCEPT ![n].deltas = <<>>, ![n].tombs = 0]

handleDataCenterAntiEntropy(n) ==
  /\ conf.cross /\ Tick(n) /\ IsLeader(n) /\ ~Fault("stale")
  /\ \E p \in {q \in Up : conf.dc[q] # conf.dc[n]} : net' = net \cup {buildDigest(n, p)}
  /\ UNCHANGED rep

-----------------------------------------------------------------------------
\* PostStop saves a last snapshot; a crash does not.
PostStop(n) ==
  /\ Fault("stop") /\ n \in conf.victims /\ rep[n].up /\ ~Busy(n)
  /\ rep' = [rep EXCEPT ![n] = [Fresh(Saved(@)) EXCEPT !.up = FALSE]]
  /\ UNCHANGED <<conf, net, call, rounds, made>>
Crash(n) ==
  /\ Fault("crash") /\ n \in conf.victims /\ rep[n].up
  /\ rep' = [rep EXCEPT ![n] = [Fresh(@.snap) EXCEPT !.up = FALSE]]
  /\ call' = IF Busy(n) THEN [call EXCEPT ![Ask(n).call].st = "lost"] ELSE call
  /\ UNCHANGED <<conf, net, rounds, made>>
PreStart(n) ==
  /\ ~rep[n].up /\ rounds > 0 /\ rounds' = rounds - 1
  /\ rep' = [rep EXCEPT ![n] = restoreFromSnapshot(@.snap)]
  /\ UNCHANGED <<conf, net, call, made>>
\* A call to a node that is down fails.
CallFails(i) ==
  /\ call[i].st = "new" /\ Next1(i) /\ ~rep[conf.calls[i].at].up
  /\ call' = [call EXCEPT ![i].st = "lost"]
  /\ UNCHANGED <<conf, rep, net, rounds, made>>

RSystem ==
  \/ \E i \in Calls : \/ handleUpdate(i) \/ handleDelete(i) \/ handleGet(i) \/ handleSubscribe(i) \/ handleUnsubscribe(i)
                      \/ handleTerminated(i) \/ CallFails(i)
  \/ \E n \in Nodes : coordinatedRead(n) \/ ReadTimeout(n) \/ ReadReturns(n)
  \/ \E m \in net : Deliver(m) \/ Lose(m)
REnv ==
  \E n \in Nodes : \/ handleAntiEntropy(n) \/ handlePrune(n) \/ handleSnapshot(n)
                   \/ handleDataCenterFlush(n) \/ handleDataCenterAntiEntropy(n)
                   \/ PostStop(n) \/ Crash(n) \/ PreStart(n)
RNext == RSystem \/ REnv
RSpec == RInit /\ [][RNext]_rvars /\ WF_rvars(RSystem)

-----------------------------------------------------------------------------
Faultless == conf.faults \subseteq {"slow"}
Quiet == net = {} /\ \A i \in Calls : call[i].st = "done"

(***************************************************************************)
(* When every message has been handled, nothing was lost and nobody        *)
(* deleted the key, every replicator of the data center holds every        *)
(* increment made in it, exactly once, in whatever order deltas, full      *)
(* states and coordinated reads were interleaved.                          *)
(***************************************************************************)
ReplicasConverge ==
  (Faultless /\ Quiet /\ \A n \in Nodes : ~rep[n].tomb) =>
    \A n, m \in Nodes : conf.dc[n] = conf.dc[m] => Joined(rep[n].data, Zero)[m] = made[m]

(***************************************************************************)
(* Between data centers, too, nothing is counted twice: no store, snapshot *)
(* or message knows of more increments than were made.                     *)
(***************************************************************************)
NothingInvented ==
  \A m \in Nodes :
    /\ \A n \in Nodes : /\ Joined(rep[n].data, Zero)[m] <= made[m]
                        /\ rep[n].snap # None => rep[n].snap.data[m] <= made[m]
    /\ \A x \in net : x.kind \in {"delta", "fullState"} => x.data[m] <= made[m]

(***************************************************************************)
(* A deleted key does not come back while its tombstone is kept, by a late *)
(* delta, a full state or a batch; only a coordinated read brings it back. *)
(***************************************************************************)
DeletedStaysOut == \A n \in Nodes : rep[n].tomb => rep[n].data = None \/ rep[n].silent

(***************************************************************************)
(* The last Changed that a subscriber was sent is the value the replicator *)
(* holds, unless a coordinated read has stored one without notice.         *)
(***************************************************************************)
WatchersUpToDate ==
  \A n \in Nodes : (rep[n].watched /\ rep[n].told # None /\ rep[n].data # None) =>
    rep[n].told = rep[n].data \/ rep[n].silent

(***************************************************************************)
(* "On any change - local or remote - it sends a crdt.Changed message      *)
(* directly to each watcher" (CRDTs.md).                                   *)
(***************************************************************************)
\* Does not hold: a coordinated read stores what it merged in silence.
WatchersToldOfReads == \A n \in Nodes : rep[n].watched => ~rep[n].silent

(***************************************************************************)
(* "Replicator persists final snapshot (if configured)" (CRDTs.md): a      *)
(* snapshot never fails for want of a key's type.                          *)
(***************************************************************************)
\* Does not hold: a read stores a merged value without the type of its key, which
\* a snapshot needs.
SnapshotPossible == \A n \in Nodes : ~SnapshotFails(rep[n])

\* Every call is answered, or its node is down, and every message is handled.
ReplicatorEnded == net = {} /\ \A i \in Calls : call[i].st \in {"done", "lost"}
ReplicatorEnds == <>[]ReplicatorEnded
=============================================================================
