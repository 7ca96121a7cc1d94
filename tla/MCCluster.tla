------------------------------ MODULE MCCluster ------------------------------
(***************************************************************************)
(* What happens between nodes, on small instances: watching actors of other *)
(* nodes, grains, membership events, singletons and relocation, the         *)
(* replicated data types and their replicator, datacenters, remote calls,   *)
(* the connections under them and the cluster client.  `what' selects the   *)
(* component; its variables are the slots v1, v2, ...                       *)
(***************************************************************************)
EXTENDS Integers, Sequences, TLC

CONSTANTS Whats,     \* the components considered
          Elements,  \* of the replicated sets and maps
          None

VARIABLES what, v1, v2, v3, v4, v5, v6, v7, v8, v9, v10, v11, v12, v13
vars == <<what, v1, v2, v3, v4, v5, v6, v7, v8, v9, v10, v11, v12, v13>>

---------------------------------------------------------------------------
WatchConf(may, stops, crashes, faults) == [may |-> may, stops |-> stops, crashes |-> crashes, faults |-> faults]
Watch(x, y) == <<"watch", x, y>>
UnWatch(x, y) == <<"unwatch", x, y>>
WatchConfs ==
    { WatchConf({Watch("w", "e"), Watch("v", "e")}, {"e"}, {}, {"postStop"}),
      WatchConf({Watch("w", "e"), Watch("v", "e"), UnWatch("w", "e"), UnWatch("v", "e")}, {"e", "w", "v"}, {}, {}),
      WatchConf({Watch("w", "e"), Watch("w", "v"), UnWatch("w", "e")}, {"w", "e"}, {}, {"lossy"}),
      WatchConf({Watch("w", "e"), Watch("w", "v"), Watch("v", "w"), UnWatch("w", "e")}, {"w"}, {"n2"}, {"crash"}) }

Rq(kind, n) == [kind |-> kind, at |-> n]
GrainConf(reqs, faults) == [reqs |-> reqs, faults |-> faults]
GrainConfs ==
    { GrainConf(<<Rq("tell", "a"), Rq("tell", "b")>>, {}),
      GrainConf(<<Rq("tell", "a"), Rq("activate", "b")>>, {}),
      GrainConf(<<Rq("activate", "a"), Rq("activate", "b"), Rq("tell", "a")>>, {}),
      GrainConf(<<Rq("tell", "a"), Rq("activate", "b")>>, {"barrier"}),
      GrainConf(<<Rq("tell", "a"), Rq("tell", "b")>>, {"activation", "panic"}),
      GrainConf(<<Rq("activate", "a"), Rq("activate", "b")>>, {"activation"}),
      GrainConf(<<Rq("tell", "a"), Rq("poison", "b")>>, {"deactivation"}),
      GrainConf(<<Rq("tell", "a"), Rq("tell", "b")>>, {"passivation"}),
      GrainConf(<<Rq("tell", "a"), Rq("activate", "b")>>, {"crash"}),
      GrainConf(<<Rq("tell", "a"), Rq("relocate", "b")>>, {"crash"}),
      GrainConf(<<Rq("tell", "a"), Rq("shutdown", "a")>>, {}),
      GrainConf(<<Rq("tell", "a"), Rq("activate", "b")>>, {"lossy"}) }

Joins(x) == <<"join", x>>
Left(x) == <<"left", x>>
EventConf(changes, ordered, dup, stops) == [changes |-> changes, ordered |-> ordered, dup |-> dup, stops |-> stops]
EventConfs ==
    { EventConf(<<Joins("x"), Left("y")>>, FALSE, TRUE, FALSE),
      EventConf(<<Left("x"), Left("y")>>, FALSE, TRUE, FALSE),
      EventConf(<<Joins("x"), Joins("y"), Left("x")>>, FALSE, FALSE, TRUE),
      EventConf(<<Joins("x"), Left("x"), Joins("x")>>, TRUE, TRUE, FALSE),
      EventConf(<<Left("x"), Joins("x"), Left("x")>>, TRUE, TRUE, FALSE),
      EventConf(<<Joins("x"), Left("x")>>, FALSE, TRUE, FALSE) }

Held(x, n, single, role) == [name |-> x, at |-> n, single |-> single, role |-> role]
Plain(x, n) == Held(x, n, FALSE, FALSE)
Single(x, n) == Held(x, n, TRUE, FALSE)
Asks(op, x, n, role) == [op |-> op, name |-> x, at |-> n, role |-> role]
SpawnAt(x, n) == Asks("spawn", x, n, FALSE)
SingletonAt(x, n) == Asks("singleton", x, n, FALSE)
KillAt(x, n) == Asks("kill", x, n, FALSE)
NodesConf(members, held, reqs, stops, crashes, restarts, faults) ==
    [members |-> members, held |-> held, roles |-> {"b", "c"}, reqs |-> reqs, stops |-> stops, crashes |-> crashes,
     restarts |-> restarts, faults |-> faults]
Three == <<"a", "b", "c">>
NodesConfs ==
    { NodesConf(Three, {}, <<SingletonAt("x", "b"), SingletonAt("y", "c"), KillAt("x", "a")>>, {}, {}, {}, {"lossy"}),
      NodesConf(Three, {}, <<Asks("singleton", "x", "a", TRUE), Asks("singleton", "x", "c", TRUE), SpawnAt("x", "a")>>,
                {}, {}, {}, {"init"}),
      NodesConf(Three, {Single("x", "a")}, <<SingletonAt("x", "b"), KillAt("x", "a"), SingletonAt("y", "c")>>, {}, {}, {}, {}),
      NodesConf(Three, {Plain("x", "a"), Plain("y", "a"), Single("z", "a")}, <<>>, {"a"}, {}, {}, {}),
      NodesConf(Three, {Plain("x", "c"), Plain("y", "c"), Plain("z", "c")}, <<>>, {"c"}, {"b"}, {}, {}),
      NodesConf(Three, {Plain("x", "c"), Single("y", "a")}, <<SpawnAt("x", "b")>>, {}, {"c"}, {"c"}, {}),
      NodesConf(Three, {Single("x", "a")}, <<SingletonAt("y", "b")>>, {"a"}, {}, {}, {"rpc"}),
      NodesConf(<<"a", "c">>, {Plain("x", "c")}, <<SpawnAt("x", "a"), KillAt("x", "c")>>, {"c"}, {}, {"c"}, {}),
      NodesConf(Three, {Single("x", "a")},
                <<SingletonAt("y", "b"), KillAt("x", "a"), SingletonAt("z", "c"), KillAt("y", "a")>>, {}, {"a"}, {}, {}),
      NodesConf(Three, {}, <<SpawnAt("x", "a"), SpawnAt("x", "a"), SingletonAt("x", "b"), KillAt("x", "a")>>, {}, {}, {}, {}),
      NodesConf(Three, {Held("x", "b", TRUE, TRUE), Single("y", "a")}, <<Asks("singleton", "z", "a", TRUE)>>, {"b", "a"}, {}, {}, {}) }

DataConf(kind, mode, writers, ops) == [kind |-> kind, mode |-> mode, writers |-> writers, ops |-> ops]
DataConfs ==
    { DataConf("orset", "state", {1, 2}, 3), DataConf("ormap", "state", {1, 2, 3}, 2), DataConf("mv", "state", {1, 2}, 3),
      DataConf("mv", "delta", {1, 2}, 3), DataConf("lww", "delta", {1, 2, 3}, 2), DataConf("flag", "delta", {1, 2, 3}, 3),
      DataConf("gcounter", "delta", {1, 2, 3}, 3), DataConf("pncounter", "delta", {1, 2}, 3),
      DataConf("ormap", "delta", {1, 2, 3}, 2) }

OneDC == <<"a", "a", "a">>
Pair == <<"a", "a", "z">>
TwoDCs == <<"a", "a", "b">>
Ask(n, op, level) == [at |-> n, op |-> op, level |-> level]
Upd(n) == Ask(n, "update", "none")
CopyConf(dc, calls, faults, rounds, snapshots) ==
    [dc |-> dc, calls |-> calls, faults |-> faults, victims |-> {1}, rounds |-> rounds, snapshots |-> snapshots,
     cross |-> dc = TwoDCs]
CopyConfs ==
    { CopyConf(OneDC, <<Upd(1), Ask(2, "update", "all"), Ask(2, "get", "majority")>>, {"slow"}, 0, FALSE),
      CopyConf(OneDC, <<Ask(1, "subscribe", "none"), Upd(2), Upd(1), Ask(1, "unsubscribe", "none"),
                        Ask(1, "terminated", "none")>>, {}, 1, FALSE),
      CopyConf(OneDC, <<Upd(2), Ask(1, "get", "all"), Ask(3, "get", "all")>>, {"slow"}, 0, FALSE),
      CopyConf(OneDC, <<Upd(1), Ask(2, "delete", "all"), Ask(1, "delete", "majority")>>, {"lossy"}, 1, FALSE),
      CopyConf(OneDC, <<Upd(1), Ask(1, "delete", "none"), Ask(2, "get", "all")>>, {"prune"}, 1, FALSE),
      CopyConf(Pair, <<Upd(1), Upd(1)>>, {"stop"}, 2, TRUE),
      CopyConf(Pair, <<Upd(2), Ask(1, "get", "all")>>, {"crash"}, 2, TRUE),
      CopyConf(TwoDCs, <<Upd(1), Upd(3), Ask(1, "delete", "none")>>, {}, 2, FALSE),
      CopyConf(TwoDCs, <<Upd(1), Upd(2)>>, {"stale"}, 2, FALSE) }

Often(start, beat, refresh, elect, members, other) ==
    other @@ [start |-> start, beat |-> beat, refresh |-> refresh, elect |-> elect, update |-> 1, members |-> members,
              close |-> 0, crash |-> 0, expire |-> 0]
Apart == [n |-> "a", m |-> "b"]
Together == [n |-> "a", m |-> "a"]
PlaneConf(plane, dc, watch, left, faults) ==
    [plane |-> plane, dc |-> dc, watch |-> watch, left |-> left, faults |-> faults, up |-> [n \in {"n", "m"} |-> TRUE],
     moving |-> {"a"}, mayCrash |-> {"n"}, lead |-> [a |-> "n", b |-> "m"]]
PlaneConfs ==
    { PlaneConf("etcd", Apart, FALSE, Often(2, 1, 1, 0, 0, [crash |-> 1]), {"net"}),
      PlaneConf("nats", Apart, FALSE, Often(2, 0, 1, 0, 0, [expire |-> 1]), {}),
      PlaneConf("etcd", Together, FALSE, Often(2, 1, 0, 2, 0, <<>>), {}),
      PlaneConf("etcd", Together, FALSE, Often(2, 1, 0, 1, 0, <<>>), {"net"}),
      PlaneConf("nats", Together, FALSE, Often(2, 2, 0, 1, 0, <<>>), {}),
      PlaneConf("etcd", Together, FALSE, Often(2, 0, 1, 1, 1, <<>>), {}),
      PlaneConf("nats", Together, FALSE, Often(2, 0, 1, 1, 1, <<>>), {}),
      PlaneConf("etcd", Apart, FALSE, Often(1, 0, 1, 0, 0, <<>>), {"bounded"}),
      PlaneConf("etcd", Apart, TRUE, Often(2, 0, 1, 0, 0, [close |-> 1]), {}),
      PlaneConf("etcd", Apart, TRUE, Often(2, 1, 1, 0, 0, <<>>), {}),
      PlaneConf("nats", Apart, TRUE, Often(2, 0, 1, 0, 0, [crash |-> 1]), {}) }

Sends == {"sendAsync", "sendSync", "tellGrain", "askGrain"}
Records == { [id |-> "a", state |-> "active", eps |-> {"a1", "a2"}], [id |-> "b", state |-> "active", eps |-> {"b1"}],
             [id |-> "c", state |-> "draining", eps |-> {"c1"}] }
ReachConf(op, has, registry, faults) ==
    [op |-> op, running |-> TRUE, has |-> has, stopping |-> FALSE, registry |-> registry, remoting |-> TRUE,
     controller |-> registry # "off", records |-> Records, stale |-> FALSE, failOnStale |-> FALSE, dc |-> "none",
     placement |-> "random", faults |-> faults]
ReachConfs ==
    { ReachConf(o, h, "on", fs) : o \in Sends, h \in {{}, {"a1"}, {"a1", "b1", "c1"}, {"here"}, {"peer"}},
                                  fs \in {{}, {"lossy"}, {"timeout", "activation"}, {"moves"}} }
    \cup { [ReachConf(o, h, rg, {}) EXCEPT !.stopping = s, !.stale = TRUE, !.failOnStale = s, !.controller = k /\ @,
                !.remoting = s \/ rg # "off", !.running = r] :
             o \in Sends, h \in {{}, {"here", "a1"}}, rg \in {"off", "on", "error"}, s, k, r \in BOOLEAN }
    \cup { [ReachConf("spawnOn", h, rg, {"lossy"}) EXCEPT !.dc = d, !.placement = p, !.controller = k /\ @, !.stale = k,
                !.failOnStale = s] :
             h \in {{}, {"here"}, {"a1"}}, rg \in {"off", "on", "error"}, d \in {"a", "c", "none"},
             p \in {"local", "random"}, k, s \in BOOLEAN }

Call(op) == [op |-> op, name |-> "p", sys |-> FALSE, host |-> "here", meta |-> "good", kind |-> "kind", msgs |-> <<"p", "q">>]
Reads == {"children", "parent", "kind", "dependencies", "metric", "role", "stashSize", "passivation", "peerState",
          "nodeMetric", "kinds", "state"}
Ops == {"stop", "respawn", "reinstate", "spawn", "spawnChild", "lookup", "ask", "tell"} \cup Reads
RemoteConf(calls, life, clustered, faults, moves) ==
    [calls |-> calls, life |-> [p |-> life, q |-> "running"], clustered |-> clustered, enabled |-> TRUE,
     faults |-> faults, moves |-> moves]
Refused(op) == <<[Call(op) EXCEPT !.sys = TRUE], [Call(op) EXCEPT !.host = "other"], [Call(op) EXCEPT !.meta = "bad"]>>
RemoteConfs ==
    { RemoteConf(<<Call(o)>>, "running", c, {"lossy"}, TRUE) : o \in Ops, c \in BOOLEAN }
    \cup { RemoteConf(<<Call(o), Call(p)>>, "absent", c, {"lossy"}, FALSE) :
             o \in {"spawn", "lookup"}, p \in {"spawn", "stop"}, c \in BOOLEAN }
    \cup { RemoteConf(<<Call(o), Call(p)>>, "suspended", FALSE, {"slow"}, TRUE) :
             o \in {"reinstate", "respawn", "stop"}, p \in {"spawnChild", "state", "stop", "ask"} }
    \cup { [RemoteConf(Refused(o), "running", FALSE, {}, FALSE) EXCEPT !.enabled = e] : o \in Ops \ {"peerState"}, e \in BOOLEAN }

WireConf(senders, faults, shutdown, closes) == [senders |-> senders, faults |-> faults, shutdown |-> shutdown, closes |-> closes]
WireConfs ==
    { WireConf(<<"call", "batch">>, {"deadline"}, "never", FALSE), WireConf(<<"call", "noReply">>, {"idle"}, "never", FALSE),
      WireConf(<<"call", "call">>, {"panic", "expires"}, "forever", TRUE), WireConf(<<"call", "batch">>, {"idle"}, "timer", FALSE),
      WireConf(<<"noReply", "call">>, {}, "none", TRUE) }

TellConf(sends, faults) == [sends |-> sends, faults |-> faults]
TellConfs == { TellConf(<<11>>, {"deadline"}), TellConf(<<2, 2>>, {"net"}), TellConf(<<3, 1>>, {"net", "shutdown"}),
               TellConf(<<3, 3>>, {"shutdown"}) }

Calls(ops) == [i \in DOMAIN ops |-> [op |-> ops[i], strategy |-> "none"]]
Balanced(strategy) == <<[op |-> "spawnBalanced", strategy |-> strategy]>>
ClientConf(strategy, calls, faults) ==
    [nodes |-> <<"n", "m">>, valid |-> TRUE, load |-> [n |-> 1, m |-> 0], ping |-> [n |-> "up", m |-> "up"], strategy |-> strategy,
     refresh |-> FALSE, next |-> 0, host |-> "m", calls |-> calls, faults |-> faults]
ClientConfs ==
    { ClientConf("roundRobin", <<Calls(<<"spawn", o>>), Calls(<<"kinds", "exists">>)>>, {"moves", "net"}) :
        o \in {"reSpawn", "reinstate", "tell", "ask"} }
    \cup
    { ClientConf("roundRobin", <<Calls(<<"tell", "askGrain">>), Balanced("leastLoad"), Calls(<<"stop">>)>>, {"moves"}),
      [ClientConf("roundRobin", <<Calls(<<"tell", "close">>), Calls(<<"kinds", "tellGrain">>)>>, {"net"}) EXCEPT !.refresh = TRUE, !.next = 5],
      [ClientConf("roundRobin", <<Calls(<<"close">>), Calls(<<"close">>), Balanced("random")>>, {}) EXCEPT !.refresh = TRUE],
      [ClientConf("roundRobin", <<Calls(<<"kinds", "kinds", "tell">>), Balanced("roundRobin")>>, {}) EXCEPT !.next = 6],
      [ClientConf("leastLoad", <<Calls(<<"spawn", "spawn">>), Calls(<<"exists", "close">>)>>, {"moves"}) EXCEPT !.ping = [n |-> "up", m |-> "down"]],
      ClientConf("roundRobin", <<Balanced("roundRobin"), Balanced("roundRobin")>>, {}),
      ClientConf("random", <<Calls(<<"tell", "stop">>), Calls(<<"ask", "exists">>)>>, {}),
      [ClientConf("random", <<>>, {}) EXCEPT !.ping = [n |-> "error", m |-> "up"]],
      [ClientConf("random", <<>>, {}) EXCEPT !.valid = FALSE] }

---------------------------------------------------------------------------
W == INSTANCE DeathWatch WITH Actors <- {"w", "e", "v"}, Home <- [w |-> "n1", e |-> "n2", v |-> "n2"], Confs <- WatchConfs,
        conf <- v1, life <- v2, tree <- v3, reg <- v4, call <- v5, late <- v6, todo <- v7, tells <- v8, got <- v9,
        may <- v10, owed <- v11, told <- v12, down <- v13
G == INSTANCE Grains WITH Nodes <- {"a", "b"}, Confs <- GrainConfs,
        conf <- v1, reg <- v2, table <- v3, pids <- v4, flight <- v5, queue <- v6, up <- v7, open <- v8, req <- v9, handled <- v10
E == INSTANCE ClusterEvents WITH Nodes <- {"x", "y"}, Confs <- EventConfs, BufSize <- 1,
        conf <- v1, sent <- v2, inbox <- v3, c <- v4, events <- v5, told <- v6, dropped <- v7
N == INSTANCE Cluster WITH Nodes <- {"a", "b", "c"}, Names <- {"x", "y", "z"}, Confs <- NodesConfs,
        conf <- v1, members <- v2, reg <- v3, kinds <- v4, node <- v5, task <- v6, failed <- v7, moved <- v8
D == INSTANCE CRDT WITH Nodes <- {1, 2, 3}, Confs <- DataConfs,
        conf <- v1, hist <- v2, rep <- v3, seen <- v4, net <- v5
R == INSTANCE Replicator WITH Nodes <- {1, 2, 3}, Confs <- CopyConfs,
        conf <- v1, rep <- v2, net <- v3, call <- v4, rounds <- v5, made <- v6
P == INSTANCE DataCenter WITH DCs <- {"a", "b"}, Confs <- PlaneConfs,
        conf <- v1, store <- v2, lead <- v3, eps <- v4, ctl <- v5, proc <- v6, q <- v7, left <- v8
X == INSTANCE CrossDC WITH Endpoints <- {"a1", "a2", "b1", "c1"}, Here <- "here", Peer <- "peer", None <- "none", Confs <- ReachConfs,
        conf <- v1, caller <- v2, query <- v3, results <- v4, ctx <- v5, has <- v6, kept <- v7, got <- v8
M == INSTANCE Remoting WITH Names <- {"p", "q"}, Retries <- 1, Confs <- RemoteConfs,
        conf <- v1, srv <- v2, call <- v3, saw <- v4
T == INSTANCE Transport WITH MaxConns <- 3, MaxIdle <- 1, Confs <- WireConfs,
        conf <- v1, client <- v2, sender <- v3, conn <- v4, server <- v5, runs <- v6
C == INSTANCE Coalescer WITH MaxBatch <- 2, FailureQueueSize <- 1, Confs <- TellConfs,
        conf <- v1, tell <- v2, in <- v3, done <- v4, writer <- v5, failures <- v6, system <- v7, dest <- v8, dead <- v9, dropped <- v10

B == INSTANCE ClusterClient WITH Modulus <- 8, Confs <- ClientConfs,
        conf <- v1, nodes <- v2, node <- v3, cl <- v4, refresh <- v5, host <- v6, caller <- v7, picks <- v8

\* The slots from the n-th on are not in use.
Free11 == v11 = 0 /\ v12 = 0 /\ v13 = 0
Free9 == v9 = 0 /\ v10 = 0 /\ Free11
Free8 == v8 = 0 /\ Free9
Free7 == v7 = 0 /\ Free8
Free6 == v6 = 0 /\ Free7
Free5 == v5 = 0 /\ Free6

Init ==
    /\ what \in Whats
    /\ \/ what = "watch" /\ W!DInit
       \/ what = "grains" /\ G!GInit /\ Free11
       \/ what = "events" /\ E!EInit /\ Free8
       \/ what = "nodes" /\ N!CInit /\ Free9
       \/ what = "data" /\ D!KInit /\ Free6
       \/ what = "copies" /\ R!RInit /\ Free7
       \/ what = "planes" /\ P!DInit /\ Free9
       \/ what = "reach" /\ X!XInit /\ Free9
       \/ what = "remote" /\ M!RInit /\ Free5
       \/ what = "wire" /\ T!TInit /\ Free7
       \/ what = "tells" /\ C!CInit /\ Free11
       \/ what = "client" /\ B!CCInit /\ Free9

Keep11 == UNCHANGED <<what, v11, v12, v13>>
Keep9 == UNCHANGED <<v9, v10>> /\ Keep11
Keep8 == UNCHANGED v8 /\ Keep9
Keep7 == UNCHANGED v7 /\ Keep8
Keep6 == UNCHANGED v6 /\ Keep7

Watching(A) == what = "watch" /\ A /\ UNCHANGED what
Grain(A) == what = "grains" /\ A /\ Keep11
Membership(A) == what = "events" /\ A /\ Keep8
Nodes(A) == what = "nodes" /\ A /\ Keep9
Data(A) == what = "data" /\ A /\ Keep6
Copies(A) == what = "copies" /\ A /\ Keep7
Planes(A) == what = "planes" /\ A /\ Keep9
Reach(A) == what = "reach" /\ A /\ Keep9
Remote(A) == what = "remote" /\ A /\ UNCHANGED v5 /\ Keep6
Wire(A) == what = "wire" /\ A /\ Keep7
Tells(A) == what = "tells" /\ A /\ Keep11
Client(A) == what = "client" /\ A /\ Keep9

Next ==
    \/ Watching(W!DNext) \/ Grain(G!GNext) \/ Membership(E!ENext) \/ Nodes(N!CNext) \/ Data(D!KNext) \/ Copies(R!RNext)
    \/ Planes(P!DNext) \/ Reach(X!XNext) \/ Remote(M!RNext) \/ Wire(T!TNext) \/ Tells(C!CNext)
    \/ Client(B!CCNext)

\* Goroutines and handlers with something to do are scheduled, and what the
\* cluster engine publishes arrives; users, clocks and faults need not act.
Spec ==
    /\ Init /\ [][Next]_vars
    /\ WF_vars(\/ Watching(W!DSystem) \/ Grain(G!GSystem) \/ Membership(E!ESystem \/ E!Publish) \/ Nodes(N!CSystem)
               \/ Copies(R!RSystem) \/ Planes(P!DSystem) \/ Reach(X!XSystem) \/ Remote(M!RSystem) \/ Wire(T!TSystem)
               \/ Tells(C!CSystem) \/ Client(B!CCSystem))

---------------------------------------------------------------------------
\* CRDT: merging is commutative, associative where the values are told apart,
\* and idempotent, on all states that replicas reach.
MergeLaws == what = "data" => D!MergeLaws

\* CRDT, Replicator: a replica means what the updates it has seen say, compaction
\* shows nowhere, and replicas that exchanged everything agree.
ReplicasAgree ==
    /\ what = "data" => D!ReplicaMeaning /\ D!CompactionInvisible
    /\ what = "copies" => R!ReplicasConverge /\ R!NothingInvented /\ R!DeletedStaysOut /\ R!WatchersUpToDate

\* Grains, Cluster, CrossDC: a grain, a singleton or a name exists once where the
\* registry says so, relocation moves an actor once, and answers are true.
OnePlace ==
    /\ what = "grains" => G!AnswerIsTrue /\ G!SingleActivation /\ G!OneProcessPerNode
    /\ what = "nodes" => N!SingletonUnique /\ N!RelocatedOnce
    /\ what = "reach" => X!FoundIsTrue /\ X!NameUnique

\* DeathWatch, ClusterEvents, DataCenter: what a node believes of other nodes'
\* actors, of the members and of the datacenters was so.
BeliefsTrue ==
    /\ what = "watch" => W!IndexesAgree /\ W!NoFalseTerminated /\ W!LocalWatcherNotified
    /\ what = "events" => E!NoPhantomEvent
    /\ what = "planes" => P!PollingExact /\ P!WatchMissesNothing /\ P!OwnsItsVersion

\* Remoting, Transport, Coalescer, ClusterClient: a remote call gets its own, true
\* answer; no connection has two users; messages arrive in order or are accounted
\* for; goroutines that share a client do not disturb its balancing or each other.
WireExact ==
    /\ what = "remote" => M!RemoteAnswerTrue /\ M!BatchInOrder
    /\ what = "wire" => /\ T!OwnReplies /\ T!ConnectionsExclusive /\ T!HandledAtMostOnce
                        /\ T!ServeWaits /\ T!ActiveExact
    /\ what = "tells" => C!SubmissionOrder /\ C!NoSilentLoss /\ C!FailureQueueOpen
    /\ what = "client" => B!PanicsKnown /\ B!PicksBalanced /\ B!ClientToldTrue /\ B!LockHeld

\* All: calls return, what is under way arrives or is given up, nobody waits for
\* ever for a node that is gone.
ClusterRests ==
    <>[](/\ what = "watch" => W!WatchEnded
         /\ what = "grains" => G!GrainsEnded
         /\ what = "events" => E!EventsEnded
         /\ what = "nodes" => N!ClusterEnded
         /\ what = "copies" => R!ReplicatorEnded
         /\ what = "planes" => P!Rested
         /\ what = "reach" => X!QueriesEnded
         /\ what = "remote" => M!RemotingEnded
         /\ what = "wire" => T!TransportEnded
         /\ what = "tells" => C!CoalescerEnded
         /\ what = "client" => B!ClientEnded)
=============================================================================
