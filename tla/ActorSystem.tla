----------------------------- MODULE ActorSystem -----------------------------
(***************************************************************************)
(* The start and the stop of an actor system (actor/actor_system.go).      *)
(*                                                                         *)
(* Start and shutdown are long chains of steps, some of which stop at the  *)
(* first error and some of which run all their steps.  Each caller walks   *)
(* through its chain while the goroutines the system started (the two      *)
(* replication drainers, the rebalancing loop and the eviction loop) run   *)
(* and end on the signals the chain gives.                                 *)
(***************************************************************************)
EXTENDS Naturals, Sequences, FiniteSets, SequencesExt, FiniteSetsExt

CONSTANTS Users,    \* the user actors that are spawned
          None,
          Confs     \* the scenarios considered, records of
                    \* [callers, clustered, eviction, hooks, faults]

VARIABLES conf,
          sys,       \* the flags, channels and services of the actorSystem
          caller,    \* the goroutines that call Start and Stop
          drainer,   \* replicateActors and replicateGrains
          users,     \* the user actors that are running
          hookLog    \* what the shutdown hooks did, in order

svars == <<conf, sys, caller, drainer, users, hookLog>>

-----------------------------------------------------------------------------
\* The actors that Start spawns, in the order in which it spawns them.
SystemActors == <<"root", "system", "noSender", "userGuardian", "deathWatch", "deadletter",
                  "singletonManager", "relocator", "topic">>

NewActorSystem ==
  [started |-> FALSE, starting |-> FALSE, shuttingDown |-> FALSE, signal |-> "open", evictionSig |-> "open",
   clusterEnabled |-> conf.clustered, remotingEnabled |-> TRUE,
   client |-> FALSE, server |-> FALSE, engine |-> FALSE, store |-> FALSE, rebalancing |-> "none",
   actors |-> {}, stream |-> TRUE, scheduler |-> FALSE, passivator |-> FALSE, evictor |-> FALSE,
   dispatcher |-> FALSE, snapshot |-> None, spawned |-> {}, panicked |-> FALSE]

SInit ==
  /\ conf \in Confs
  /\ sys = NewActorSystem
  /\ caller = [c \in DOMAIN conf.callers |-> [todo |-> conf.callers[c], chain |-> <<>>, err |-> FALSE, refs |-> {}, hook |-> 0, res |-> <<>>]]
  /\ drainer = [d \in {"actors", "grains"} |-> [at |-> "off", queue |-> 0]]
  /\ users = {}
  /\ hookLog = <<>>

Callers == DOMAIN conf.callers

\* The bounds of the eviction strategy.
EvictionLimit == 0
EvictionPercentage == 50
Fails(step) == step \in conf.faults

\* What Start runs, one step after the other (chain.WithFailFast).
StartChain ==
  <<"setupRemoting", "setupCluster", "spawnSystemActors", "startRemoteServer", "startCluster", "startDataCenter",
    "startScheduler", "spawnReplicator", "started", "registerMetrics">>
StartFailFast == {"setupRemoting", "setupCluster", "spawnSystemActors", "startRemoteServer", "startCluster", "startDataCenter", "spawnReplicator"}
CleanupChain == <<"shutdownSignal", "shutdownCluster", "clusterFlags", "shutdownRemoting", "stopServer", "closeStream", "drained">>

\* What shutdown runs.  The two groups of system actors stop at their first
\* error; after it the cluster and the remoting are still shut down.
GuardiansFirst == <<"userGuardian", "singletonManager", "relocator", "deadletter", "deathWatch">>
GuardiansLast == <<"topic", "noSender", "system", "root">>
ClusterAndRemoting == <<"persist", "cleanup", "clusterStop", "storeClose", "clusterFlags", "shutdownRemoting", "stopServer">>
\* As if the death watch were stopped before the user actors.
ShutdownChainWatchFirst ==
  <<"shutdownSignal", "stopEviction", "stopPassivator", "stopScheduler", "localActors", "hooks", "preShutdown", "deathWatch">>
  \o SubSeq(GuardiansFirst, 1, 4) \o <<"poisonGrains">> \o GuardiansLast \o <<"closeStream">>
  \o ClusterAndRemoting \o <<"drained">>
ShutdownChain ==
  <<"shutdownSignal", "stopEviction", "stopPassivator", "stopScheduler", "localActors", "hooks", "preShutdown">>
  \o GuardiansFirst \o <<"poisonGrains">> \o GuardiansLast \o <<"closeStream">>
  \o ClusterAndRemoting \o <<"drained">>

From(s, chain) == SubSeq(chain, CHOOSE i \in DOMAIN chain : chain[i] = s, Len(chain))
AfterFailure(step) ==
  CASE step \in StartFailFast \ {"spawnReplicator"} -> CleanupChain
    [] step = "spawnReplicator" -> <<"stopScheduler">> \o CleanupChain
    [] step = "registerMetrics" -> ShutdownChain
    [] OTHER -> From("persist", ShutdownChain)

-----------------------------------------------------------------------------
Frame(c, s, chain, err) ==
  /\ sys' = s
  /\ caller' = [caller EXCEPT ![c].chain = chain, ![c].err = err]

\* The first thing Start does is a check that two callers can both pass.
Start(c) ==
  /\ caller[c].chain = <<>> /\ caller[c].todo # <<>> /\ Head(caller[c].todo) = "start"
  /\ IF sys.started
     THEN /\ caller' = [caller EXCEPT ![c].todo = Tail(@), ![c].res = Append(@, "error")]
          /\ UNCHANGED sys
     ELSE /\ sys' = [sys EXCEPT !.starting = TRUE, !.signal = "open", !.dispatcher = TRUE]
          /\ caller' = [caller EXCEPT ![c].todo = Tail(@), ![c].chain = StartChain, ![c].err = FALSE]
  /\ UNCHANGED <<conf, drainer, users, hookLog>>

Stop(c) ==
  /\ caller[c].chain = <<>> /\ caller[c].todo # <<>> /\ Head(caller[c].todo) = "stop"
  /\ IF sys.starting \/ ~sys.started
     THEN caller' = [caller EXCEPT ![c].todo = Tail(@), ![c].res = Append(@, "error")]
     ELSE caller' = [caller EXCEPT ![c].todo = Tail(@), ![c].chain = ShutdownChain, ![c].err = FALSE]
  /\ UNCHANGED <<conf, sys, drainer, users, hookLog>>

\* The effect of each step on the system when it succeeds.
Closed(s, f) == IF s[f] = "closed" THEN [s EXCEPT !.panicked = TRUE] ELSE [s EXCEPT ![f] = "closed"]
Effect(step, s) ==
  CASE step = "setupRemoting" -> [s EXCEPT !.client = TRUE]
    [] step = "setupCluster" -> [s EXCEPT !.store = s.clusterEnabled]
    [] step = "spawnSystemActors" ->
         [s EXCEPT !.actors = ToSet(SystemActors) \ (IF s.clusterEnabled THEN {} ELSE {"singletonManager", "relocator"})]
    [] step = "startRemoteServer" -> [s EXCEPT !.server = s.remotingEnabled]
    [] step = "startCluster" -> [s EXCEPT !.engine = s.clusterEnabled, !.rebalancing = IF s.clusterEnabled THEN "open" ELSE @]
    [] step = "startScheduler" -> [s EXCEPT !.scheduler = TRUE]
    [] step = "started" ->
         [s EXCEPT !.passivator = TRUE, !.evictor = conf.eviction, !.started = TRUE, !.starting = FALSE]
    [] step = "shutdownSignal" -> IF s.shuttingDown THEN s ELSE Closed([s EXCEPT !.shuttingDown = TRUE], "signal")
    [] step = "stopEviction" -> IF conf.eviction THEN Closed([s EXCEPT !.evictor = FALSE], "evictionSig") ELSE s
    [] step = "stopPassivator" -> [s EXCEPT !.passivator = FALSE]
    [] step = "stopScheduler" -> [s EXCEPT !.scheduler = FALSE]
    [] step = "preShutdown" -> [s EXCEPT !.snapshot = IF s.clusterEnabled THEN users ELSE None]
    [] step \in ToSet(SystemActors) -> [s EXCEPT !.actors = @ \ {step}]
    [] step = "closeStream" -> [s EXCEPT !.stream = FALSE]
    [] step \in {"clusterStop", "shutdownCluster"} -> [s EXCEPT !.engine = FALSE]
    [] step = "storeClose" -> [s EXCEPT !.store = FALSE]
    [] step = "clusterFlags" ->
         IF ~s.clusterEnabled THEN s
         ELSE IF s.rebalancing = "none" THEN [s EXCEPT !.clusterEnabled = FALSE]
         ELSE Closed([s EXCEPT !.clusterEnabled = FALSE], "rebalancing")
    [] step = "shutdownRemoting" -> IF s.remotingEnabled THEN [s EXCEPT !.client = FALSE] ELSE s
    [] step = "stopServer" -> IF s.server THEN [s EXCEPT !.server = FALSE, !.remotingEnabled = FALSE] ELSE s
    [] OTHER -> s

\* The steps whose error ends their chain early, and the steps whose error is
\* only remembered.  shutdownCluster returns its error before it resets the
\* flags and closes the rebalancing queue.
FailFast == StartFailFast \cup {"registerMetrics"} \cup ToSet(GuardiansFirst) \cup ToSet(GuardiansLast)
RunAll == {"preShutdown", "poisonGrains", "persist", "cleanup", "clusterStop", "storeClose", "stopServer"}

Step(c, step) ==
  /\ caller[c].chain # <<>> /\ Head(caller[c].chain) = step
  /\ step \notin {"hooks", "localActors", "drained", "userGuardian", "startCluster", "clusterFlags"}
  /\ \/ /\ Frame(c, Effect(step, sys), Tail(caller[c].chain), caller[c].err)
     \/ /\ step \in FailFast /\ Fails(step)
        /\ Frame(c, sys, AfterFailure(step), TRUE)
     \/ /\ step \in RunAll /\ Fails(step)
        /\ Frame(c, sys, Tail(caller[c].chain), TRUE)
  /\ UNCHANGED <<conf, drainer, users, hookLog>>

\* startCluster starts the goroutines once the engine runs.
startCluster(c) ==
  /\ caller[c].chain # <<>> /\ Head(caller[c].chain) = "startCluster"
  /\ \/ /\ Frame(c, Effect("startCluster", sys), Tail(caller[c].chain), caller[c].err)
        /\ drainer' = IF sys.clusterEnabled THEN [d \in DOMAIN drainer |-> [at |-> "idle", queue |-> 0]] ELSE drainer
     \/ /\ Fails("startCluster") /\ sys.clusterEnabled
        /\ Frame(c, sys, AfterFailure("startCluster"), TRUE)
        /\ UNCHANGED drainer
  /\ UNCHANGED <<conf, users, hookLog>>

\* After an error of the cluster's own shutdown steps the flags stay.
ClusterFailed(c) == caller[c].err /\ \E s \in {"persist", "cleanup", "clusterStop", "storeClose"} : Fails(s)
ClusterFlags(c) ==
  /\ caller[c].chain # <<>> /\ Head(caller[c].chain) = "clusterFlags"
  /\ \/ Frame(c, Effect("clusterFlags", sys), Tail(caller[c].chain), caller[c].err)
     \/ ClusterFailed(c) /\ Frame(c, sys, Tail(caller[c].chain), caller[c].err)
  /\ UNCHANGED <<conf, drainer, users, hookLog>>

localActors(c) ==
  /\ caller[c].chain # <<>> /\ Head(caller[c].chain) = "localActors"
  /\ caller' = [caller EXCEPT ![c].chain = Tail(@), ![c].refs = users, ![c].hook = 1]
  /\ UNCHANGED <<conf, sys, drainer, users, hookLog>>

\* The guardian stops the user actors one by one; when one of them fails to
\* stop, the others are stopped and the error is returned.  Those spawned
\* meanwhile may be missed.
StopUser(c) ==
  /\ caller[c].chain # <<>> /\ Head(caller[c].chain) = "userGuardian"
  /\ \E u \in users \cap caller[c].refs : users' = users \ {u}
  /\ UNCHANGED <<conf, sys, caller, drainer, hookLog>>
StopUserGuardian(c) ==
  /\ caller[c].chain # <<>> /\ Head(caller[c].chain) = "userGuardian"
  /\ users \cap caller[c].refs = {}
  /\ \/ Frame(c, Effect("userGuardian", sys), Tail(caller[c].chain), caller[c].err)
     \/ Fails("userGuardian") /\ Frame(c, sys, AfterFailure("userGuardian"), TRUE)
  /\ \E missed \in SUBSET users : users' = missed
  /\ UNCHANGED <<conf, drainer, hookLog>>

\* One shutdown hook.  Its strategy says whether a failure is retried, and
\* whether it ends the hooks or is skipped.
HookOutcomes(strategy) ==
  CASE strategy \in {"retryAndFail", "retryAndSkip"} -> {"ok", "retried", "failed"}
    [] OTHER -> {"ok", "failed"}
EndsHooks(strategy, outcome) == outcome = "failed" /\ strategy \in {"fail", "retryAndFail"}

runShutdownHook(c) ==
  LET h == caller[c].hook IN
  /\ caller[c].chain # <<>> /\ Head(caller[c].chain) = "hooks"
  /\ IF h > Len(conf.hooks)
     THEN caller' = [caller EXCEPT ![c].chain = Tail(@)] /\ UNCHANGED hookLog
     ELSE \E o \in HookOutcomes(conf.hooks[h]) :
            /\ hookLog' = Append(hookLog, <<h, o>>)
            /\ caller' = [caller EXCEPT ![c].hook = IF EndsHooks(conf.hooks[h], o) THEN Len(conf.hooks) + 1 ELSE h + 1,
                                        ![c].err = @ \/ o = "failed"]
  /\ UNCHANGED <<conf, sys, drainer, users>>

\* The deferred end of shutdown, and the end of startupCleanup: the drainers
\* are waited for, then the state is reset and the dispatcher stopped.
Reset(s) == [s EXCEPT !.started = FALSE, !.starting = FALSE, !.shuttingDown = FALSE, !.store = FALSE,
                      !.actors = {}, !.spawned = {}, !.dispatcher = FALSE]
Joined == \A d \in DOMAIN drainer : drainer[d].at = "off"

Drained(c) ==
  /\ caller[c].chain = <<"drained">>
  /\ Joined
  /\ sys' = Reset(sys)
  /\ caller' = [caller EXCEPT ![c].chain = <<>>, ![c].refs = {}, ![c].res = Append(@, IF caller[c].err THEN "error" ELSE "ok")]
  /\ users' = {}
  /\ UNCHANGED <<conf, drainer, hookLog>>

-----------------------------------------------------------------------------
\* A replication drainer takes an entry of its queue and writes it, or, once
\* the signal is closed and the queue is drained, ends.
DrainerTakes(d) ==
  /\ drainer[d].at = "idle" /\ drainer[d].queue > 0
  /\ drainer' = [drainer EXCEPT ![d] = [at |-> "writing", queue |-> @.queue - 1]]
  /\ UNCHANGED <<conf, sys, caller, users, hookLog>>
DrainerWrites(d) ==
  /\ drainer[d].at = "writing"
  /\ drainer' = [drainer EXCEPT ![d].at = "idle"]
  /\ UNCHANGED <<conf, sys, caller, users, hookLog>>
DrainerEnds(d) ==
  /\ drainer[d].at = "idle" /\ drainer[d].queue = 0 /\ sys.signal = "closed"
  /\ drainer' = [drainer EXCEPT ![d].at = "off"]
  /\ UNCHANGED <<conf, sys, caller, users, hookLog>>

\* A user actor is spawned, or a grain activated: both only check that the
\* system is Running, which it is until the very end of a shutdown.  It is
\* announced (putActorOnCluster, putGrainOnCluster) unless the shutdown has
\* begun.  Each name is spawned once between a start and a stop (a bound).
Running == sys.started
SpawnUser ==
  /\ Running
  /\ \E u \in Users \ sys.spawned, d \in DOMAIN drainer :
       /\ users' = users \cup {u} /\ sys' = [sys EXCEPT !.spawned = @ \cup {u}]
       /\ drainer' = IF sys.clusterEnabled /\ sys.signal = "open" THEN [drainer EXCEPT ![d].queue = @ + 1] ELSE drainer
  /\ UNCHANGED <<conf, caller, hookLog>>

\* A tick of the eviction loop.  The policies (least recently, least often or
\* most recently used) differ in which actors come first.
computeEvictionCount(total, threshold, candidates, percentage) ==
  LET required == total - threshold
      share == (candidates * percentage) \div 100
      wanted == IF required > share THEN required ELSE share
      count == IF wanted = 0 /\ required > 0 /\ percentage > 0 THEN 1 ELSE wanted
  IN IF count > candidates THEN candidates ELSE count
getLRUActors ==
  LET total == Cardinality(users) IN
  IF total <= EvictionLimit THEN {{}}
  ELSE kSubset(computeEvictionCount(total, EvictionLimit, total, EvictionPercentage), users)
runEviction ==
  /\ sys.evictor
  /\ \E evicted \in getLRUActors : evicted # {} /\ users' = users \ evicted
  /\ UNCHANGED <<conf, sys, caller, drainer, hookLog>>

CallerStep(c) ==
  \/ \E s \in ToSet(StartChain) \cup ToSet(CleanupChain) \cup ToSet(ShutdownChain) : Step(c, s)
  \/ startCluster(c) \/ ClusterFlags(c) \/ localActors(c) \/ StopUser(c) \/ StopUserGuardian(c)
  \/ runShutdownHook(c) \/ Drained(c)
SSystem == (\E c \in Callers : CallerStep(c)) \/ (\E d \in DOMAIN drainer : DrainerTakes(d) \/ DrainerWrites(d) \/ DrainerEnds(d))
SUser == (\E c \in Callers : Start(c) \/ Stop(c)) \/ SpawnUser \/ runEviction
SNext == SSystem \/ SUser
SSpec == SInit /\ [][SNext]_svars /\ WF_svars(SSystem)

-----------------------------------------------------------------------------
Walking(c, chain) == caller[c].chain # <<>> /\ Head(caller[c].chain) \in chain

(***************************************************************************)
(* While user actors that were there when the stop began are stopping, all *)
(* that their PostStop and their last messages rely on is up: the death    *)
(* watch, the dead letters, the event stream, the cluster engine and the   *)
(* remoting.  (In the first life of the system: a second Start finds the   *)
(* event stream closed.)                                                   *)
(***************************************************************************)
FirstLife == Cardinality(Callers) = 1 /\ Len(conf.callers[1]) - Len(caller[1].todo) <= 2
ServicesOutliveActors ==
  (\E c \in Callers : Walking(c, {"userGuardian"}) /\ users \cap caller[c].refs # {}) /\ FirstLife =>
    /\ {"deathWatch", "deadletter", "system", "root"} \subseteq sys.actors
    /\ sys.stream /\ sys.client
    /\ sys.clusterEnabled => sys.engine /\ sys.store

(***************************************************************************)
(* The snapshot a stopping node hands to its peers holds every user actor  *)
(* it had when the stop began, whatever the shutdown hooks do.             *)
(***************************************************************************)
SnapshotComplete ==
  \A c \in Callers :
    Walking(c, {"persist", "cleanup"}) /\ sys.clusterEnabled /\ "preShutdown" \notin conf.faults =>
      sys.snapshot # None /\ caller[c].refs \subseteq sys.snapshot

(***************************************************************************)
(* However a start or a stop ends, when no caller is inside either, a      *)
(* system that is not started has no goroutine, service or connection      *)
(* left: a failure of one step never keeps the later ones from running.    *)
(***************************************************************************)
NothingLeftBehind ==
  (\A c \in Callers : caller[c].chain = <<>>) /\ ~sys.started =>
    /\ Joined /\ ~sys.scheduler /\ ~sys.passivator /\ ~sys.evictor /\ ~sys.dispatcher
    /\ ~sys.store /\ users = {}
    /\ "clusterStop" \notin conf.faults => ~sys.engine
    /\ "stopServer" \notin conf.faults => ~sys.server

(***************************************************************************)
(* No replication drainer is still writing when the state it reads is      *)
(* reset.                                                                  *)
(***************************************************************************)
DrainersJoined == \A d \in DOMAIN drainer : drainer[d].at = "writing" => sys.started \/ sys.starting

(***************************************************************************)
(* A hook whose failure is to be skipped never keeps a later hook from     *)
(* running, and one whose failure is fatal always does (RecoveryStrategy). *)
(***************************************************************************)
HooksFollowStrategy ==
  \A c \in Callers :
    Walking(c, {"preShutdown"}) /\ Cardinality(Callers) = 1 /\ hookLog # <<>> =>
      LET last == hookLog[Len(hookLog)] IN
      last[1] = Len(conf.hooks) \/ (last[2] = "failed" /\ conf.hooks[last[1]] \in {"fail", "retryAndFail"})

(***************************************************************************)
(* Every call of Start and Stop returns.                                   *)
(***************************************************************************)
CallersReturn == \A c \in Callers : caller[c].chain = <<>>

(***************************************************************************)
(* shutdown says of racing calls that they "observe shuttingDown=true and  *)
(* skip the close": no channel is closed twice.                            *)
(***************************************************************************)
\* Does not hold: two concurrent Stop calls both pass the check and close
\* evictionStopSig and rebalancingQueue.
NoDoubleClose == ~sys.panicked
=============================================================================
