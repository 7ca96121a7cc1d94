------------------------------- MODULE MCNode -------------------------------
(***************************************************************************)
(* What runs inside one node, on small instances: the actor system's start  *)
(* and stop, asks, requests and stashes, routers, the event stream, the     *)
(* topic actors and their map of seen messages, the circuit breaker,        *)
(* passivation, and the pool of workers that serves connections.  `what'    *)
(* selects the component; its variables are the slots v1, v2, ...           *)
(***************************************************************************)
EXTENDS Integers, Sequences, TLC

CONSTANTS Whats,  \* the components considered
          None

VARIABLES what, v1, v2, v3, v4, v5, v6, v7, v8, v9
vars == <<what, v1, v2, v3, v4, v5, v6, v7, v8, v9>>

---------------------------------------------------------------------------
StartStop == <<"start", "stop">>
SystemConf(calls, clustered, eviction, hooks, faults) ==
    [callers |-> calls, clustered |-> clustered, eviction |-> eviction, hooks |-> hooks, faults |-> faults]
SystemConfs ==
    { SystemConf(<<StartStop>>, TRUE, TRUE, <<"skip", "retryAndFail", "retryAndSkip", "fail">>, {}),
      SystemConf(<<StartStop>>, TRUE, FALSE, <<"fail">>,
        {"startCluster", "deathWatch", "userGuardian", "poisonGrains", "persist", "clusterStop", "stopServer",
         "preShutdown", "singletonManager"}),
      SystemConf(<<<<"start", "stop", "start", "start", "stop">>>>, TRUE, FALSE, <<>>,
        {"startCluster", "spawnReplicator", "poisonGrains", "root"}),
      SystemConf(<<StartStop, <<"stop">>>>, FALSE, FALSE, <<"skip">>, {"registerMetrics"}) }

AskConf(asks, handler, faults) == [asks |-> asks, handler |-> handler, faults |-> faults]
AskConfs ==
    { AskConf(<<2, 2>>, "answer", {}), AskConf(<<2, 1>>, "answer", {"slow"}), AskConf(<<1, 1, 1>>, "answer", {}),
      AskConf(<<1, 1>>, "stash", {}), AskConf(<<1, 1>>, "stash", {"slow"}),
      AskConf(<<1, 1>>, "stash", {"silent", "stopping"}) }

Req(mode, timeout, then) == [op |-> "request", mode |-> mode, timeout |-> timeout, then |-> then]
Do(op) == [op |-> op, mode |-> None, timeout |-> FALSE, then |-> FALSE]
RequestConf(script, max, peer, faults) ==
    [script |-> script, max |-> max, peer |-> peer, faults |-> faults,
     stashing |-> \E i \in DOMAIN script : script[i].op = "stash"]
RequestConfs ==
    { RequestConf(<<Req("stash", TRUE, TRUE), Do("plain"), Req("stash", TRUE, FALSE)>>, 0, "reply", {"slow", "cancel"}),
      RequestConf(<<Req("stash", FALSE, TRUE), Req("all", FALSE, FALSE), Do("plain"), Do("forward")>>, 1, "twice", {"cancel"}),
      RequestConf(<<Req("all", TRUE, TRUE), Req("stash", TRUE, TRUE), Do("plain")>>, 0, "silent", {"cancel"}),
      RequestConf(<<Req("all", TRUE, TRUE), Req("stash", TRUE, FALSE)>>, 2, "reply", {"slow", "stop"}),
      RequestConf(<<Req("stash", FALSE, TRUE), Do("plain")>>, 0, "reply", {"stop", "restart"}),
      RequestConf(<<Req("stash", TRUE, TRUE), Do("forward"), Do("pipe"), Do("pipeToName")>>, 0, "stopped", {"stop"}),
      RequestConf(<<Do("stash"), Do("plain"), Do("stash"), Do("become"), Do("unstash"), Do("unstashAll"), Do("unbecome"),
                    Do("unbecomeStacked")>>, 0, "reply", {}),
      RequestConf(<<Do("becomeStacked"), Do("unbecomeStacked"), Do("unbecomeStacked"), Do("unbecomeStacked"), Do("pipe")>>,
                  0, "reply", {}),
      RequestConf(<<Do("pipeToName"), [Req("stash", TRUE, TRUE) EXCEPT !.op = "requestName"], Do("pipe"), Do("plain")>>,
                  0, "reply", {"slow"}) }

Say == <<"broadcast", 0>>
Key(k) == <<"broadcast", k>>
Adjust(n) == <<"adjust", n>>
RouterConf(options, pool, script, faults) == [options |-> options, pool |-> pool, script |-> script, faults |-> faults]
RouterConfs ==
    { RouterConf(<<"roundRobin", "restart">>, 2, <<Say, Say, <<"get", 0>>>>, {"panic", "restart"}),
      RouterConf(<<"random">>, 2, <<Say, Say, Say>>, {"panic"}),
      RouterConf(<<>>, 2, <<Say, Say>>, {"panic"}),
      RouterConf(<<"hash">>, 3, <<Key(1), Adjust(-1), Key(1), Adjust(2), Key(1), Key(2)>>, {}),
      RouterConf(<<"hash">>, 3, <<Key(1), Key(2), Key(1)>>, {"panic"}),
      RouterConf(<<>>, 1, <<Adjust(-2), Adjust(0), Adjust(1), Adjust(-1), Say>>, {}),
      RouterConf(<<"random", "resume">>, 2, <<Say>>, {"panic"}),
      RouterConf(<<"scatterGather">>, 1, <<Say, Say>>, {"panic"}),
      RouterConf(<<"scatterGather", "restart">>, 2, <<Say, Say>>, {"silent"}),
      RouterConf(<<"scatterGather", "restart">>, 2, <<Say>>, {"silent", "panic"}),
      RouterConf(<<"tailChopping">>, 2, <<Say>>, {"silent", "panic"}),
      RouterConf(<<"tailChopping">>, 2, <<Say, Say>>, {"silent"}),
      RouterConf(<<"tailChoppingOnce">>, 2, <<Say, Say>>, {"silent"}) }

Sub(t) == <<"subscribe", t>>
Iterate == <<"iterate", "t">>
Unsub == <<"remove", "t">>
EventConf(pubs, calls, close) == [pubs |-> pubs, calls |-> calls, close |-> close]
EventConfs ==
    { EventConf(<<<<"t", "t", "u">>>>, <<<<Sub("t"), Iterate, Iterate, Sub("u"), Iterate>>, <<Sub("t"), Unsub>>>>, FALSE),
      EventConf(<<<<"t", "t", "t", "t">>>>, <<<<Sub("t"), Iterate, Iterate, Iterate>>>>, FALSE),
      EventConf(<<<<"t", "u">>>>, <<<<Sub("t"), Sub("u"), Iterate, Unsub>>, <<Sub("t"), Iterate>>>>, TRUE),
      EventConf(<<<<"t", "t">>, <<"t", "t">>>>, <<<<Sub("t")>>>>, FALSE) }

Join == <<"subscribe", 0>>
Leave == <<"unsubscribe", 0>>
Say1(i) == <<"publish", i>>
Die == <<"stop", 0>>
TopicConf(actors, time, faults) ==
    [home |-> [x \in DOMAIN actors |-> actors[x][1]], script |-> [x \in DOMAIN actors |-> actors[x][2]],
     time |-> time, faults |-> faults]
A(script) == <<"a", script>>
B(script) == <<"b", script>>
TopicConfs ==
    { TopicConf([x |-> A(<<Say1(1), Say1(1), Say1(2)>>), y |-> A(<<Join>>), z |-> B(<<Join>>)], 0, {}),
      TopicConf([x |-> A(<<Say1(1), Say1(2)>>), z |-> B(<<Join, Leave>>)], 0, {}),
      TopicConf([x |-> A(<<Say1(1)>>), y |-> A(<<Join, Leave, Join>>), z |-> B(<<Join>>)], 0, {}),
      TopicConf([x |-> A(<<Join, Say1(1), Say1(1)>>)], 3, {}),
      TopicConf([x |-> A(<<Say1(1)>>), z |-> B(<<Join, Say1(1)>>)], 0, {}),
      TopicConf([x |-> A(<<Say1(1), Say1(1)>>), z |-> B(<<Join>>)], 2, {}),
      TopicConf([x |-> A(<<Say1(1), Say1(2)>>), y |-> A(<<Join, Die>>)], 0, {}),
      TopicConf([x |-> A(<<Say1(1)>>), y |-> A(<<Join>>), z |-> B(<<Join, Die>>)], 0, {}),
      TopicConf([x |-> A(<<Say1(1), Say1(1)>>), y |-> A(<<Join>>), z |-> B(<<Leave, Join>>)], 1, {"net", "peers"}) }

BreakerOptions(window, buckets, minRequests, openTimeout, halfOpen) ==
    [failureRate |-> 5, minRequests |-> minRequests, openTimeout |-> openTimeout, window |-> window,
     buckets |-> buckets, halfOpenMaxCalls |-> halfOpen]
BreakerConf(options, calls, time, outcomes) == [options |-> options, calls |-> calls, time |-> time, outcomes |-> outcomes]
BreakerConfs ==
    { BreakerConf(BreakerOptions(4, 2, 1, 1, 1), <<2, 2>>, 1, BOOLEAN),
      BreakerConf(BreakerOptions(4, 2, 1, 0, 0), <<2, 1>>, 1, BOOLEAN),
      BreakerConf(BreakerOptions(4, 2, 1, 1, 1), <<2, 1, 1>>, 1, {FALSE}),
      BreakerConf(BreakerOptions(2, 2, 2, 1, 2), <<2, 2>>, 2, BOOLEAN),
      BreakerConf(BreakerOptions(6, 3, 5, 1, 1), <<3>>, 9, {TRUE}) }

IdleConf(kind, x, y, timeout, max, time) ==
    [kind |-> [x |-> kind, y |-> kind], script |-> [x |-> x, y |-> y], timeout |-> timeout, max |-> max, time |-> time,
     stops |-> FALSE, restarts |-> FALSE, faults |-> {}]
Stopping(c) == [c EXCEPT !.stops = TRUE]
IdleConfs ==
    { IdleConf("time", <<"spawn", "msg", "msg">>, <<"spawn">>, 2, 0, 4),
      IdleConf("time", <<"spawn", "pause", "resume", "msg">>, <<"spawn">>, 2, 0, 4),
      IdleConf("time", <<"spawn", "msg", "suspend", "reinstate">>, <<>>, 2, 0, 5),
      IdleConf("time", <<"spawn", "msg", "shutdown", "spawn">>, <<"spawn">>, 1, 0, 2),
      IdleConf("count", <<"spawn", "msg", "msg", "pause", "msg", "resume">>, <<"spawn", "msg", "msg">>, 1, 1, 1),
      IdleConf("count", <<"spawn", "msg", "msg", "suspend", "reinstate">>, <<"spawn", "msg">>, 1, 0, 1),
      [IdleConf("count", <<"spawn", "msg", "msg", "shutdown", "spawn", "msg">>, <<>>, 1, 0, 1) EXCEPT !.faults = {"postStop"}],
      Stopping(IdleConf("count", <<"spawn", "msg", "msg">>, <<"spawn", "msg">>, 1, 4, 1)),
      Stopping(IdleConf("time", <<"spawn", "msg", "msg">>, <<"spawn">>, 4, 0, 3)),
      [Stopping(IdleConf("time", <<"spawn", "msg">>, <<>>, 4, 0, 2)) EXCEPT !.restarts = TRUE] }

WorkersConf(tasks, parked, busy) == [tasks |-> tasks, parked |-> parked, busy |-> busy]
WorkersConfs == { WorkersConf(2, 0, FALSE), WorkersConf(1, 3, FALSE), WorkersConf(1, 3, TRUE), WorkersConf(2, 2, FALSE) }

---------------------------------------------------------------------------
S == INSTANCE ActorSystem WITH Users <- {"u"}, Confs <- SystemConfs,
        conf <- v1, sys <- v2, caller <- v3, drainer <- v4, users <- v5, hookLog <- v6
K == INSTANCE AskReply WITH Confs <- AskConfs, PoolSize <- 2,
        conf <- v1, ctx <- v2, pool <- v3, chan <- v4, chanPool <- v5, asker <- v6, actor <- v7, dead <- v8
Q == INSTANCE Requests WITH Confs <- RequestConfs,
        conf <- v1, told <- v2, a <- v3, req <- v4, peer <- v5, pipe <- v6, log <- v7, dead <- v8
R == INSTANCE Router WITH Confs <- RouterConfs,
        VNodes <- 0 :> {1, 5} @@ 1 :> {3, 8} @@ 2 :> {2, 7} @@ 3 :> {4, 9} @@ 4 :> {6},
        KeyHash <- 0 :> 0 @@ 1 :> 2 @@ 2 :> 9 @@ 3 :> 6,
        conf <- v1, r <- v2, pids <- v3, tree <- v4, flight <- v5, asks <- v6, sup <- v7, out <- v8, routed <- v9
E == INSTANCE EventStream WITH Confs <- EventConfs, Topics <- {"t", "u"},
        conf <- v1, stream <- v2, sub <- v3, q <- v4, pub <- v5, closer <- v6, got <- v7, owed <- v8
T == INSTANCE TTLMap WITH Keys <- {"k", "l", "m"}, TTL <- 2, MaxTime <- 4, MaxOps <- 6,
        tm <- v1, now <- v2, last <- v3, ops <- v4
P == INSTANCE PubSub WITH Nodes <- {"a", "b"}, Confs <- TopicConfs, TTL <- 2,
        conf <- v1, actor <- v2, ta <- v3, jobs <- v4, now <- v5, got <- v6, acked <- v7, seen <- v8
C == INSTANCE Breaker WITH Confs <- BreakerConfs,
        conf <- v1, now <- v2, state <- v3, openUntil <- v4, sem <- v5, win <- v6, caller <- v7, log <- v8
I == INSTANCE Passivation WITH Actors <- {"x", "y"}, Confs <- IdleConfs, TouchInterval <- 1, TriggerSize <- 1,
        conf <- v1, now <- v2, pm <- v3, ent <- v4, m <- v5, actor <- v6, sys <- v7, raced <- v8
W == INSTANCE WorkerPool WITH Confs <- WorkersConfs, MaxWorkers <- 5,
        conf <- v1, slot <- v2, list <- v3, pool <- v4, adder <- v5, worker <- v6, ran <- v7

\* The slots from the n-th on are not in use.
Free9 == v9 = 0
Free8 == v8 = 0 /\ Free9
Free7 == v7 = 0 /\ Free8
Free5 == v5 = 0 /\ v6 = 0 /\ Free7

Init ==
    /\ what \in Whats
    /\ \/ what = "system" /\ S!SInit /\ Free7
       \/ what = "ask" /\ K!AInit /\ Free9
       \/ what = "requests" /\ Q!QInit /\ Free9
       \/ what = "router" /\ R!RtInit
       \/ what = "events" /\ E!EvInit /\ Free9
       \/ what = "ttl" /\ T!TTInit /\ Free5
       \/ what = "topics" /\ P!PInit /\ Free9
       \/ what = "breaker" /\ C!BInit /\ Free9
       \/ what = "idle" /\ I!PvInit /\ Free9
       \/ what = "workers" /\ W!WInit /\ Free8

System(A1) == what = "system" /\ A1 /\ UNCHANGED <<what, v7, v8, v9>>
Ask(A1) == what = "ask" /\ A1 /\ UNCHANGED <<what, v9>>
Requesting(A1) == what = "requests" /\ A1 /\ UNCHANGED <<what, v9>>
Routing(A1) == what = "router" /\ A1 /\ UNCHANGED what
Events(A1) == what = "events" /\ A1 /\ UNCHANGED <<what, v9>>
TTL(A1) == what = "ttl" /\ A1 /\ UNCHANGED <<what, v5, v6, v7, v8, v9>>
Topics(A1) == what = "topics" /\ A1 /\ UNCHANGED <<what, v9>>
Breaking(A1) == what = "breaker" /\ A1 /\ UNCHANGED <<what, v9>>
Passivating(A1) == what = "idle" /\ A1 /\ UNCHANGED <<what, v9>>
Working(A1) == what = "workers" /\ A1 /\ UNCHANGED <<what, v8, v9>>

Next ==
    \/ System(S!SNext) \/ Ask(K!ANext) \/ Requesting(Q!QNext) \/ Routing(R!RtNext) \/ Events(E!EvNext)
    \/ TTL(T!TTNext) \/ Topics(P!PNext) \/ Breaking(C!BNext) \/ Passivating(I!PvNext) \/ Working(W!WNext)

\* Goroutines and actors with something to do are scheduled; users, clocks and
\* faults need not act.  The manager of passivation may spin, so the actors
\* beside it have a fairness of their own.
Spec ==
    /\ Init /\ [][Next]_vars
    /\ WF_vars(\/ System(S!SSystem) \/ Ask(K!ASystem) \/ Requesting(Q!QSystem) \/ Routing(R!RtSystem)
               \/ Events(E!EvSystem) \/ Topics(P!PSystem) \/ Breaking(C!BSystem) \/ Working(W!WSystem)
               \/ Passivating(I!Manager))
    /\ WF_vars(Passivating(I!Others))

---------------------------------------------------------------------------
\* AskReply, Requests, Router: a reply reaches the call it answers and no other,
\* a request completes once, and a call to a router has one outcome.
AnsweredOnce ==
    /\ what = "ask" => K!AskGetsOwnReply /\ K!TimeoutsAreDeadLetters
    /\ what = "requests" => Q!CompletedOnce
    /\ what = "router" => R!CallsAnsweredOnce

\* AskReply, WorkerPool, Breaker: a pooled context, channel or worker has one
\* owner, and a half-open permit backs a call.
OneOwner ==
    /\ what = "ask" => K!OneOwner
    /\ what = "workers" => W!WorkersOwned
    /\ what = "breaker" => C!PermitsBacked /\ C!HalfOpenLimited

\* Requests: the counters of open requests are exact, an actor that stashes until
\* a response handles nothing meanwhile, and no message gets lost.
RequestsAccounted ==
    what = "requests" => Q!CountersExact /\ Q!StashModeHolds /\ Q!MessagesKept /\ Q!DeadLettersAddUp

\* EventStream, PubSub, Router: subscribers get what was published while they
\* were subscribed, once and in order; routing picks routees that run.
DeliveredExactly ==
    /\ what = "events" => E!EventsInOrder /\ E!NoEventLost
    /\ what = "topics" => P!DeliveredOnce /\ P!OnlySubscribers /\ P!SubscribersReached
    /\ what = "router" => R!RoutedWhileRunning /\ R!SameKeySameRoutee

\* TTLMap, Breaker, Passivation: the map, the window and the heap that are kept
\* up to date step by step hold what their definition over the history says.
IndexExact ==
    /\ what = "ttl" => T!TTLMapExact /\ T!IndexSound
    /\ what = "breaker" => C!WindowCounts
    /\ what = "idle" => I!HeapExact /\ I!PassivationDue

\* ActorSystem: services outlive the actors that use them, and a system that
\* stopped has drained, saved and released everything.
StopInOrder ==
    what = "system" =>
        /\ S!ServicesOutliveActors /\ S!SnapshotComplete /\ S!NothingLeftBehind
        /\ S!DrainersJoined /\ S!HooksFollowStrategy

\* All: calls return, deliveries are made, the pools and managers come to rest.
NodeRests ==
    <>[](/\ what = "system" => S!CallersReturn
         /\ what = "ask" => K!AsksEnded
         /\ what = "requests" => Q!RequestsEnded
         /\ what = "router" => R!RouterEnded
         /\ what = "events" => E!StreamEnded
         /\ what = "topics" => P!Quiet
         /\ what = "breaker" => C!BreakerEnded
         /\ what = "idle" => I!PassivationRested
         /\ what = "workers" => W!PoolEnded)
=============================================================================
