------------------------------- MODULE Cluster -------------------------------
(***************************************************************************)
(* Actors of a cluster: the registry of names and of singleton kinds, the  *)
(* spawning of actors and singletons, their removal when they terminate,   *)
(* and their relocation when a node leaves.                                *)
(*                                                                         *)
(* Each node runs its actors, a goroutine that copies new actors into the  *)
(* registry, a death watch that takes terminated ones out, a loop over the *)
(* membership events, and, on the leader (the oldest member), a relocator. *)
(* The registry itself (a distributed map) is external: each of its        *)
(* operations is one step.                                                 *)
(***************************************************************************)
EXTENDS Naturals, Sequences, FiniteSets, SequencesExt

CONSTANTS Nodes, Names, None,
          Confs   \* the scenarios considered, records of [members, held, roles,
                  \* reqs, stops, crashes, restarts, faults]

VARIABLES conf,
          members,   \* the nodes of the cluster, oldest first
          reg,       \* the actors namespace of the registry
          kinds,     \* the singleton kinds registered
          node,      \* the state of each node
          task,      \* the spawns under way, of users and of relocators
          failed,    \* the nodes whose RelocationFailed was published
          moved      \* the actors a completed relocation has moved

cvars == <<conf, members, reg, kinds, node, task, failed, moved>>

-----------------------------------------------------------------------------
\* What the registry and a peer state hold of an actor (internalpb.Actor).
Actor(name, n, single, role) == [name |-> name, at |-> n, single |-> single, role |-> role]

\* The key of a singleton: its kind, joined with its role when it has one.
KindRole(role) == IF role THEN "kind::role" ELSE "kind"

NewNode ==
  [phase |-> "up", tree |-> {}, run |-> {}, term |-> {}, dw |-> None, queue |-> <<>>, put |-> None,
   events |-> <<>>, store |-> [n \in Nodes |-> None], rebalanced |-> {}, rq |-> <<>>,
   relocating |-> FALSE, job |-> None, held |-> {}, state |-> {}]

NewTask(q) ==
  [op |-> q.op, name |-> q.name, at |-> q.at, role |-> q.role, pc |-> "start", res |-> None,
   job |-> None, target |-> q.at, tries |-> 0]

CInit ==
  /\ conf \in Confs
  /\ members = conf.members
  /\ reg = [x \in Names |-> IF \E r \in conf.held : r.name = x THEN CHOOSE r \in conf.held : r.name = x ELSE None]
  /\ kinds = {KindRole(r.role) : r \in {h \in conf.held : h.single}}
  /\ node = [n \in Nodes |->
               [NewNode EXCEPT !.phase = IF Contains(members, n) THEN "up" ELSE "gone",
                               !.run = {r \in conf.held : r.at = n},
                               !.tree = {r.name : r \in {h \in conf.held : h.at = n}}]]
  /\ task = [i \in DOMAIN conf.reqs |-> NewTask(conf.reqs[i])]
  /\ failed = {}
  /\ moved = {}

Leader == Head(members)
IsLeader(n) == members # <<>> /\ Leader = n
Live(n) == node[n].phase # "gone"
Done(i, res) == [task EXCEPT ![i].pc = "done", ![i].res = res]
Fault(f) == f \in conf.faults

\* The operations of the registry and of the membership that the nodes use.
ActorExists(x) == reg[x] # None
GetActor(x) == reg[x]
Actors == {reg[x] : x \in {y \in Names : ActorExists(y)}}
WithActor(r) == [reg EXCEPT ![r.name] = r]
WithoutActors(xs) == [x \in Names |-> IF x \in xs THEN None ELSE reg[x]]
KindExists(k) == k \in kinds
WithKind(k) == kinds \cup {k}
WithoutKind(k) == kinds \ {k}
Peers(n) == SelectSeq(members, LAMBDA m : m # n)

-----------------------------------------------------------------------------
(* Spawn and SpawnSingleton.                                               *)

SpawnStart(i) ==
  /\ task[i].op = "spawn" /\ task[i].pc = "start" /\ Live(task[i].at)
  /\ task' = IF node[task[i].at].phase # "up" THEN Done(i, "failed") ELSE [task EXCEPT ![i].pc = "exists"]
  /\ UNCHANGED <<conf, members, reg, kinds, node, failed, moved>>

\* SpawnSingleton resolves the host, the leader or the oldest member that has
\* the role, and spawns there; the host resolves it again.  A request to
\* another node can be lost, and is retried.
Host(role) ==
  IF ~role THEN (IF members = <<>> THEN None ELSE Leader)
  ELSE LET having == SelectSeq(members, LAMBDA n : n \in conf.roles)
       IN IF having = <<>> THEN None ELSE Head(having)
SingletonStart(i) ==
  LET t == task[i]
      h == Host(t.role) IN
  /\ t.op = "singleton" /\ t.pc = "start" /\ Live(t.at)
  /\ \/ node[t.at].phase # "up" /\ task' = Done(i, "failed")
     \/ node[t.at].phase = "up" /\ h = t.at /\ task' = [task EXCEPT ![i].pc = "claim"]
     \/ node[t.at].phase = "up" /\ h \notin {None, t.at} /\ task' = [task EXCEPT ![i].at = h]
     \/ /\ node[t.at].phase = "up"
        /\ h = None \/ (h # t.at /\ Fault("lossy"))
        /\ task' = IF t.tries = 0 THEN [task EXCEPT ![i].tries = 1] ELSE Done(i, "failed")
  /\ UNCHANGED <<conf, members, reg, kinds, node, failed, moved>>

\* checkSpawnPreconditions: a singleton first claims its kind, and gives it
\* back when the name is taken.
Claim(i) ==
  LET k == KindRole(task[i].role) IN
  /\ task[i].pc = "claim" /\ Live(task[i].at)
  /\ IF KindExists(k) THEN task' = Done(i, "singletonExists") /\ UNCHANGED kinds
     ELSE /\ kinds' = WithKind(k)
          /\ task' = [task EXCEPT ![i].pc = "exists"]
  /\ UNCHANGED <<conf, members, reg, node, failed, moved>>

\* handleSingletonNameConflict: the name is bound to this very singleton, so
\* the call succeeds without a PID; otherwise it fails.
NameConflict(t) ==
  IF t.op = "spawn" THEN "taken"
  ELSE IF GetActor(t.name).single /\ GetActor(t.name).role = t.role THEN "already" ELSE "taken"
Exists(i) ==
  LET t == task[i] IN
  /\ t.pc = "exists" /\ Live(t.at)
  /\ IF ActorExists(t.name)
     THEN /\ task' = Done(i, NameConflict(t))
          /\ kinds' = IF t.op = "singleton" THEN WithoutKind(KindRole(t.role)) ELSE kinds
     ELSE /\ task' = [task EXCEPT ![i].pc = "create"]
          /\ UNCHANGED kinds
  /\ UNCHANGED <<conf, members, reg, node, failed, moved>>

\* configPID and the rest of Spawn or spawnSingletonOnLocal: the actor starts,
\* is added to the tree (which refuses an occupied name, and the refusal is
\* ignored), and is queued for the registry unless the node is stopping.
\* putActorOnCluster
Enqueued(n, rs) == IF node[n].phase = "up" THEN node[n].queue \o rs ELSE node[n].queue
HasRunning(n, x) == x \in node[n].tree /\ \E a \in node[n].run : a.name = x
Create(i) ==
  LET t == task[i]
      n == t.at
      r == Actor(t.name, n, t.op = "singleton", t.role) IN
  /\ t.pc = "create" /\ Live(n)
  /\ \/ /\ t.op = "spawn" /\ t.name \in node[n].tree /\ \E a \in node[n].run : a.name = t.name
        /\ task' = Done(i, "ok") /\ UNCHANGED <<node, kinds>>
     \/ /\ Fault("init")
        /\ task' = Done(i, "failed") /\ UNCHANGED node
        /\ kinds' = IF r.single THEN WithoutKind(KindRole(t.role)) ELSE kinds
     \/ /\ ~(t.op = "spawn" /\ HasRunning(n, t.name))
        /\ task' = Done(i, "ok")
        /\ node' = [node EXCEPT ![n].tree = @ \cup {t.name}, ![n].run = @ \cup {r},
                                ![n].queue = Enqueued(n, <<r>>)]
        /\ UNCHANGED kinds
  /\ UNCHANGED <<conf, members, reg, failed, moved>>

\* A task whose node is gone ends: its caller sees an error, or is gone too.
TaskLost(i) ==
  /\ task[i].pc # "done" /\ ~Live(task[i].at)
  /\ task' = Done(i, "failed")
  /\ UNCHANGED <<conf, members, reg, kinds, node, failed, moved>>

-----------------------------------------------------------------------------
(* replicateActors: an actor still in the tree is written to the registry. *)

Replicate(n) ==
  /\ Live(n) /\ node[n].put = None /\ node[n].queue # <<>>
  /\ LET r == Head(node[n].queue) IN
     node' = [node EXCEPT ![n].queue = Tail(@),
                          ![n].put = IF node[n].phase # "up" \/ r.name \notin node[n].tree THEN None ELSE r]
  /\ UNCHANGED <<conf, members, reg, kinds, task, failed, moved>>

PutActor(n) ==
  /\ Live(n) /\ node[n].put # None
  /\ reg' = WithActor(node[n].put)
  /\ kinds' = IF node[n].put.single THEN WithKind(KindRole(node[n].put.role)) ELSE kinds
  /\ node' = [node EXCEPT ![n].put = None]
  /\ UNCHANGED <<conf, members, task, failed, moved>>

-----------------------------------------------------------------------------
(* Kill, and the death watch's handleTerminated.                           *)

Kill(i) ==
  LET n == task[i].at IN
  /\ task[i].op = "kill" /\ task[i].pc = "start" /\ Live(n)
  /\ \E r \in node[n].run :
       /\ r.name = task[i].name
       /\ node' = [node EXCEPT ![n].run = @ \ {r}, ![n].term = @ \cup {r}]
  /\ task' = Done(i, "ok")
  /\ UNCHANGED <<conf, members, reg, kinds, failed, moved>>

Terminated(n) ==
  /\ Live(n) /\ node[n].dw = None
  /\ \E r \in node[n].term :
       node' = [node EXCEPT ![n].term = @ \ {r}, ![n].tree = @ \ {r.name},
                            ![n].dw = IF r.name \in node[n].tree /\ node[n].phase = "up"
                                      THEN [actor |-> r, pc |-> "actor"] ELSE None]
  /\ UNCHANGED <<conf, members, reg, kinds, task, failed, moved>>

\* The stop of the actor clears its singleton flag while the death watch
\* reads it, so the flag may or may not be seen.
RemoveActor(n) ==
  /\ Live(n) /\ node[n].dw # None /\ node[n].dw.pc = "actor"
  /\ reg' = WithoutActors({node[n].dw.actor.name})
  /\ \E seen \in BOOLEAN :
       node' = [node EXCEPT ![n].dw = IF node[n].dw.actor.single /\ seen THEN [@ EXCEPT !.pc = "kind"] ELSE None]
  /\ UNCHANGED <<conf, members, kinds, task, failed, moved>>
RemoveKind(n) ==
  /\ Live(n) /\ node[n].dw # None /\ node[n].dw.pc = "kind"
  /\ kinds' = WithoutKind(KindRole(node[n].dw.actor.role))
  /\ node' = [node EXCEPT ![n].dw = None]
  /\ UNCHANGED <<conf, members, reg, task, failed, moved>>

-----------------------------------------------------------------------------
(* A node stops: its peer state is taken, its actors are stopped, the      *)
(* state is sent to the oldest peers, the registry is cleaned up, and the  *)
(* node leaves.                                                            *)

preShutdown(n) ==
  /\ n \in conf.stops /\ node[n].phase = "up"
  /\ node' = [node EXCEPT ![n].phase = "stopping", ![n].state = node[n].run, ![n].held = node[n].run,
                          ![n].run = {}, ![n].dw = None, ![n].job = None]
  /\ UNCHANGED <<conf, members, reg, kinds, task, failed, moved>>

\* At most three of the oldest peers are asked, and the calls still under way
\* are cancelled once two have acknowledged; the peers that got the state are
\* then any of the three that include the two.
selectOldestPeers(n, k) ==
  ToSet(SubSeq(Peers(n), 1, IF Len(Peers(n)) < k THEN Len(Peers(n)) ELSE k))
PersistedAt(n) ==
  LET peers == {m \in selectOldestPeers(n, 3) : Live(m)} IN
  {got \in SUBSET peers : Cardinality(got) >= 2 \/ got = peers \/ Fault("rpc")}

persistPeerStateToPeers(n) ==
  /\ node[n].phase = "stopping"
  /\ \E got \in PersistedAt(n) :
       node' = [m \in Nodes |->
                  IF m = n THEN [node[n] EXCEPT !.phase = "leaving"]
                  ELSE IF m \in got THEN [node[m] EXCEPT !.store[n] = node[n].state]
                  ELSE node[m]]
  /\ UNCHANGED <<conf, members, reg, kinds, task, failed, moved>>

\* Only the leader removes the kinds of its singletons, and removes them by
\* the kind alone.
CleanupKinds(n) ==
  IF IsLeader(n) /\ \E r \in node[n].held : r.single THEN WithoutKind(KindRole(FALSE)) ELSE kinds
cleanupCluster(n) ==
  /\ node[n].phase = "leaving"
  /\ kinds' = CleanupKinds(n)
  /\ reg' = WithoutActors({r.name : r \in node[n].held})
  /\ node' = [node EXCEPT ![n].phase = "cleaned"]
  /\ UNCHANGED <<conf, members, task, failed, moved>>

\* The membership engine stops, and every other node is told of it.
Gone(n, ev) ==
  /\ members' = Peers(n)
  /\ node' = [m \in Nodes |->
                IF m = n THEN [NewNode EXCEPT !.phase = "gone"]
                ELSE IF node[m].phase = "up" THEN [node[m] EXCEPT !.events = Append(@, [kind |-> ev, node |-> n])]
                ELSE node[m]]
Leave(n) ==
  /\ node[n].phase = "cleaned"
  /\ Gone(n, "left")
  /\ UNCHANGED <<conf, reg, kinds, task, failed, moved>>

Crash(n) ==
  /\ n \in conf.crashes /\ node[n].phase = "up"
  /\ Gone(n, "left")
  /\ UNCHANGED <<conf, reg, kinds, task, failed, moved>>

\* The node starts again at the same address: it joins as the youngest member
\* and cleanupStaleLocalActors removes what the registry still has of it.
Restart(n) ==
  /\ n \in conf.restarts /\ node[n].phase = "gone" /\ ~Contains(members, n)
  /\ members' = Append(members, n)
  /\ reg' = WithoutActors({r.name : r \in {a \in Actors : a.at = n}})
  /\ node' = [m \in Nodes |->
                IF m = n THEN NewNode
                ELSE IF node[m].phase = "up" THEN [node[m] EXCEPT !.events = Append(@, [kind |-> "joined", node |-> n])]
                ELSE node[m]]
  /\ conf' = [conf EXCEPT !.restarts = @ \ {n}, !.crashes = @ \ {n}]
  /\ UNCHANGED <<kinds, task, failed, moved>>

-----------------------------------------------------------------------------
(* clusterEventsLoop.                                                      *)

\* Every event makes a node write all its actors to the registry again.
resyncActors(n) == Enqueued(n, SetToSeq(node[n].run))
handleNodeJoinedEvent(n) ==
  /\ node[n].phase = "up" /\ node[n].events # <<>> /\ Head(node[n].events).kind = "joined"
  /\ node' = [node EXCEPT ![n].events = Tail(@), ![n].queue = resyncActors(n)]
  /\ UNCHANGED <<conf, members, reg, kinds, task, failed, moved>>

\* The leader takes the state of the node that left to the rebalancing loop,
\* once per address; the others forget it.
handleNodeLeftEvent(n) ==
  LET gone == Head(node[n].events).node
      first == gone \notin node[n].rebalanced
      seen == [node EXCEPT ![n].events = Tail(@), ![n].queue = resyncActors(n)] IN
  /\ node[n].phase = "up" /\ node[n].events # <<>> /\ Head(node[n].events).kind = "left"
  /\ node' = IF ~IsLeader(n) THEN [seen EXCEPT ![n].store[gone] = None]
             ELSE [seen EXCEPT ![n].rebalanced = @ \cup {gone},
                               ![n].rq = IF first /\ node[n].store[gone] # None
                                         THEN Append(@, [from |-> gone, actors |-> node[n].store[gone]]) ELSE @]
  /\ UNCHANGED <<conf, members, reg, kinds, task, failed, moved>>

\* One rebalance at a time; an empty state is not relocated.
rebalancingLoop(n) ==
  /\ node[n].phase = "up" /\ node[n].rq # <<>>
  /\ LET s == Head(node[n].rq) IN
     \/ /\ s.actors = {}
        /\ node' = [node EXCEPT ![n].rq = Tail(@)]
     \/ /\ s.actors # {} /\ ~node[n].relocating
        /\ node' = [node EXCEPT ![n].rq = Tail(@), ![n].relocating = TRUE,
                                ![n].job = [from |-> s.from, actors |-> s.actors, pc |-> "start"]]
  /\ UNCHANGED <<conf, members, reg, kinds, task, failed, moved>>

-----------------------------------------------------------------------------
(* The relocator.                                                          *)

\* allocateActors: the leader takes the singletons, the remainder of the
\* division and the first chunk; the i-th peer takes chunk i.  The result
\* gives each actor of the sequence its share, 0 for the leader.
Share(s, total, j) ==
  LET plain == SelectSeq(s, LAMBDA r : ~r.single)
      quotient == Len(plain) \div total
      remainder == Len(plain) % total
      p == CHOOSE k \in DOMAIN plain : plain[k] = s[j] IN
  IF s[j].single \/ p <= remainder THEN 0 ELSE (p - remainder - 1) \div quotient

Relocate(n) ==
  /\ node[n].phase = "up" /\ node[n].job # None /\ node[n].job.pc = "start"
  /\ LET job == node[n].job
         peers == Peers(n) IN
     \E s \in SetToSeqs(job.actors) :
       task' = task \o [j \in DOMAIN s |->
                          LET share == Share(s, Len(peers) + 1, j) IN
                          [op |-> IF s[j].single THEN "singleton" ELSE "spawn", name |-> s[j].name, at |-> n,
                           role |-> s[j].role, pc |-> "remove", res |-> None, job |-> job.from,
                           target |-> IF share = 0 THEN n ELSE IF share <= Len(peers) THEN peers[share] ELSE None,
                           tries |-> 0]]
  /\ node' = [node EXCEPT ![n].job.pc = "spawning"]
  /\ UNCHANGED <<conf, members, reg, kinds, failed, moved>>

\* recreateLocally and spawnRemoteActor: the stale entry is removed, then the
\* actor is spawned here, or on the peer, which may not be reachable.
RemoveStale(i) ==
  LET t == task[i] IN
  /\ t.pc = "remove" /\ Live(t.at)
  /\ reg' = WithoutActors({t.name})
  /\ task' = IF t.target = None \/ ~Live(t.target) THEN Done(i, "failed")
             ELSE [task EXCEPT ![i].pc = "start", ![i].at = t.target]
  /\ UNCHANGED <<conf, members, kinds, node, failed, moved>>

\* A spawn of the job that fails cancels the context of the others.
Siblings(i) == {j \in DOMAIN task : j # i /\ task[j].job = task[i].job /\ task[j].job # None}
Bad(i) == task[i].pc = "done" /\ task[i].res \notin {"ok", "already"}
Cancelled(i) ==
  /\ task[i].pc \in {"remove", "start"}
  /\ \E j \in Siblings(i) : Bad(j)
  /\ task' = Done(i, "failed")
  /\ UNCHANGED <<conf, members, reg, kinds, node, failed, moved>>

\* RebalanceComplete, or abortRelocation: either way the flag is released and
\* the peer state is deleted.
JobTasks(n) == {i \in DOMAIN task : task[i].job = node[n].job.from}

RelocationEnds(n) ==
  /\ node[n].phase = "up" /\ node[n].job # None /\ node[n].job.pc = "spawning"
  /\ \A i \in JobTasks(n) : task[i].pc = "done"
  /\ IF \E i \in JobTasks(n) : Bad(i)
     THEN failed' = failed \cup {node[n].job.from} /\ UNCHANGED moved
     ELSE moved' = moved \cup {r.name : r \in node[n].job.actors} /\ UNCHANGED failed
  /\ node' = [node EXCEPT ![n].relocating = FALSE, ![n].job = None, ![n].store[node[n].job.from] = None]
  /\ UNCHANGED <<conf, members, reg, kinds, task>>

-----------------------------------------------------------------------------
SpawnStep(i) == SpawnStart(i) \/ SingletonStart(i) \/ Claim(i) \/ Exists(i) \/ Create(i) \/ TaskLost(i)
                \/ RemoveStale(i) \/ Cancelled(i)
NodeStep(n) == Replicate(n) \/ PutActor(n) \/ Terminated(n) \/ RemoveActor(n) \/ RemoveKind(n)
               \/ persistPeerStateToPeers(n) \/ cleanupCluster(n) \/ Leave(n)
               \/ handleNodeJoinedEvent(n) \/ handleNodeLeftEvent(n) \/ rebalancingLoop(n)
               \/ Relocate(n) \/ RelocationEnds(n)
CSystem == (\E i \in DOMAIN task : SpawnStep(i)) \/ (\E n \in Nodes : NodeStep(n))
CUser == (\E i \in DOMAIN task : Kill(i)) \/ (\E n \in Nodes : preShutdown(n) \/ Crash(n) \/ Restart(n))
CNext == CSystem \/ CUser
CSpec == CInit /\ [][CNext]_cvars /\ WF_cvars(CSystem)

-----------------------------------------------------------------------------
Running(x) == {n \in Nodes : Live(n) /\ \E r \in node[n].run : r.name = x}
ClusterIdle ==
  /\ \A i \in DOMAIN task : task[i].pc = "done" \/ task[i].op = "kill"
  /\ \A n \in Nodes : /\ node[n].phase \in {"up", "gone"}
                      /\ node[n].phase = "up" =>
                           /\ node[n].queue = <<>> /\ node[n].put = None /\ node[n].term = {} /\ node[n].dw = None
                           /\ node[n].events = <<>> /\ node[n].rq = <<>> /\ node[n].job = None

(***************************************************************************)
(* SpawnSingleton: "A singleton actor exists at most once in the cluster   *)
(* for a given actor kind and optional role", whoever asks for it, however *)
(* often it is stopped, and while nodes leave, crash and are relocated.    *)
(***************************************************************************)
SingletonUnique ==
  \A role \in BOOLEAN :
    Cardinality({<<n, x>> \in Nodes \X Names : Live(n) /\ Actor(x, n, TRUE, role) \in node[n].run}) <= 1

(***************************************************************************)
(* When a relocation reports that it is complete, every actor of the       *)
(* departed node runs on exactly one of the remaining nodes, as long as    *)
(* nobody stops it and no other node leaves.                               *)
(***************************************************************************)
RelocatedOnce ==
  ClusterIdle =>
    \A x \in moved :
      \/ Cardinality(Running(x)) = 1
      \/ \E i \in DOMAIN conf.reqs : conf.reqs[i].name = x
      \/ Cardinality({n \in ToSet(conf.members) : node[n].phase = "gone"}) > 1

(***************************************************************************)
(* A relocation never blocks the next one: whatever fails, the relocating  *)
(* flag is released, and all the queues of every node drain.               *)
(***************************************************************************)
ClusterEnded == ClusterIdle /\ \A n \in Nodes : ~node[n].relocating

(***************************************************************************)
(* selectOldestPeers: "Replicating to the oldest peers ensures the state   *)
(* is available to whichever node becomes leader after topology changes",  *)
(* so the actors of a node that stops gracefully run elsewhere afterwards. *)
(***************************************************************************)
\* Does not hold: the copy of the peer state to the oldest peers stops at the first
\* failure, and a failed relocation deletes it.
DepartedRelocated ==
  ClusterIdle =>
    \A r \in conf.held :
      node[r.at].phase = "gone" /\ members # <<>> => Running(r.name) # {} \/ r.at \in failed

(***************************************************************************)
(* ARCHITECTURE.md: the singleton of a node that departs is moved to the   *)
(* leader.                                                                 *)
(***************************************************************************)
\* Does not hold: a node that crashes leaves no peer state.
SingletonFollows ==
  ClusterIdle =>
    \A r \in conf.held :
      r.single /\ node[r.at].phase = "gone" /\ members # <<>> => Running(r.name) # {}
=============================================================================
