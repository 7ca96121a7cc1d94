--------------------------- MODULE ClusterClient ---------------------------
(***************************************************************************)
(* The client of a cluster (client/): goroutines share a Client, which     *)
(* picks a node with its balancer under a lock and then calls that node    *)
(* without it, looking up the actor first where the call is about one.     *)
(*                                                                         *)
(* The slice New is given is the array behind x.nodes and the nodes of the *)
(* balancer until Close, so a balancer that sorts it sorts it for all.     *)
(* The ticker of refreshNodesLoop is never started: no tick arrives and    *)
(* updateNodes does not run.  A panic leaves a lock that is not released   *)
(* by a defer with its goroutine.  A remote call is one step, in which the *)
(* request or the reply may get lost.                                      *)
(***************************************************************************)
EXTENDS Integers, Sequences, FiniteSets, SequencesExt

CONSTANTS Confs,    \* the scenarios
          Modulus   \* the number of values of RoundRobin.next

VARIABLES conf,
          nodes,    \* the array of nodes
          node,     \* weight, whether its remoting has connections, its load
          cl,       \* phase of the Client, holder of its lock, RoundRobin.next, whether x.nodes is the array
          refresh,  \* refreshNodesLoop
          host,     \* the node where the actor is registered, or "none"
          caller,   \* the goroutines: place in their scripts and in the call
          picks     \* history: the picks of the client's balancer
ccvars == <<conf, nodes, node, cl, refresh, host, caller, picks>>

Callers == DOMAIN caller
Nodes == DOMAIN conf.load
Fault(f) == f \in conf.faults
NoCall == [pc |-> "idle", n |-> 1, node |-> "none", at |-> "none", handled |-> 0, saw |-> {}, log |-> <<>>]
Op(c) == conf.calls[c][caller[c].n]

CCInit ==
    /\ conf \in Confs
    /\ nodes = conf.nodes
    /\ node = [n \in Nodes |-> [weight |-> 0, conns |-> FALSE, load |-> conf.load[n]]]
    /\ cl = [phase |-> "new", pinged |-> 0, lock |-> 0, next |-> conf.next, shared |-> TRUE, closed |-> FALSE]
    /\ refresh = "off" /\ host = conf.host /\ picks = <<>>
    /\ caller = [c \in DOMAIN conf.calls |-> NoCall]

---------------------------------------------------------------------------
\* New: the nodes are validated, then pinged one after the other.
validateNodes == conf.nodes # <<>> /\ conf.valid

\* A ping is answered with the load; without an answer, or when it is CODE_UNAVAILABLE or
\* CODE_DEADLINE_EXCEEDED, the node counts as down; any other code is an error.
getNodeMetric(n) == conf.ping[n]

setNodesMetric ==
    LET n == nodes[cl.pinged + 1] IN
    CASE getNodeMetric(n) = "up"    -> /\ node' = [node EXCEPT ![n].weight = node[n].load, ![n].conns = TRUE]
                                       /\ cl' = [cl EXCEPT !.pinged = @ + 1]
      [] getNodeMetric(n) = "down"  -> cl' = [cl EXCEPT !.pinged = @ + 1] /\ UNCHANGED node
      [] getNodeMetric(n) = "error" -> cl' = [cl EXCEPT !.phase = "failed"] /\ node' = [node EXCEPT ![n].conns = TRUE]

New ==
    /\ cl.phase = "new"
    /\ \/ ~validateNodes /\ cl' = [cl EXCEPT !.phase = "failed"] /\ UNCHANGED <<node, refresh>>
       \/ validateNodes /\ cl.pinged < Len(nodes) /\ setNodesMetric /\ UNCHANGED refresh
       \/ /\ validateNodes /\ cl.pinged = Len(nodes)
          /\ cl' = [cl EXCEPT !.phase = "open"]
          /\ refresh' = IF conf.refresh THEN "waiting" ELSE "off"
          /\ UNCHANGED node
    /\ UNCHANGED <<conf, nodes, host, caller, picks>>

---------------------------------------------------------------------------
\* What a balancer's Next can return over the nodes s: the node, the counter and the
\* order of the nodes afterwards.  No outcome: Next panics.
Picked(n, count, order) == [node |-> n, next |-> count, nodes |-> order]

\* The counter wraps; the index before the first is out of range.
RoundRobinNext(s, next) ==
    LET n == (next + 1) % Modulus IN
    IF s = <<>> \/ (n = 0 /\ Len(s) > 1) THEN {}
    ELSE {Picked(s[IF n = 0 THEN 1 ELSE 1 + ((n - 1) % Len(s))], n, s)}

RandomNext(s, next) == {Picked(s[i], next, s) : i \in DOMAIN s}

\* The nodes are sorted in place, stably.
LeastLoadNext(s, next) ==
    LET ByWeight(i, j) == \/ node[s[i]].weight < node[s[j]].weight
                          \/ node[s[i]].weight = node[s[j]].weight /\ i < j
        order == SetToSortSeq(DOMAIN s, ByWeight)
        sorted == [i \in DOMAIN s |-> s[order[i]]]
    IN  IF s = <<>> THEN {} ELSE {Picked(sorted[1], next, sorted)}

getBalancer(strategy) == IF strategy \in {"random", "leastLoad"} THEN strategy ELSE "roundRobin"

NextNode(strategy, s, next) ==
    CASE getBalancer(strategy) = "roundRobin" -> RoundRobinNext(s, next)
      [] getBalancer(strategy) = "random"     -> RandomNext(s, next)
      [] getBalancer(strategy) = "leastLoad"  -> LeastLoadNext(s, next)

---------------------------------------------------------------------------
\* A call is over, with a result.
Returned(k, res) == [k EXCEPT !.pc = "idle", !.n = @ + 1, !.log = Append(@, [res |-> res, handled |-> k.handled, saw |-> k.saw]),
                              !.handled = 0, !.saw = {}, !.node = "none", !.at = "none"]
Ready(c) == cl.phase = "open" /\ caller[c].pc = "idle" /\ caller[c].n <= Len(conf.calls[c]) /\ cl.lock = 0

\* Whether the actor exists is noted for the calls under way.
Seeing(k, h) == [c \in DOMAIN k |-> IF k[c].pc = "idle" THEN k[c] ELSE [k[c] EXCEPT !.saw = @ \cup {h}]]

LookupOps == {"reSpawn", "tell", "ask", "stop", "exists", "reinstate"}
GrainOps == {"askGrain", "tellGrain"}

\* The critical section of a call; Kinds keeps the lock during its remote call and
\* releases it also when it panics.
Pick(c) ==
    /\ Ready(c) /\ Op(c).op \notin {"close", "spawnBalanced"}
    /\ LET outcomes == NextNode(conf.strategy, nodes, cl.next)
           kinds == Op(c).op = "kinds"
       IN  \/ /\ outcomes = {}
              /\ caller' = [caller EXCEPT ![c] = IF kinds THEN Returned(@, "panic") ELSE [@ EXCEPT !.pc = "panicked"]]
              /\ cl' = [cl EXCEPT !.next = (@ + 1) % Modulus, !.lock = IF kinds THEN 0 ELSE c]
              /\ UNCHANGED <<nodes, picks>>
           \/ \E o \in outcomes :
              /\ nodes' = o.nodes
              /\ cl' = [cl EXCEPT !.next = o.next, !.lock = IF kinds THEN c ELSE 0]
              /\ picks' = Append(picks, o)
              /\ caller' = [caller EXCEPT ![c].node = o.node, ![c].saw = {host},
                                          ![c].pc = IF Op(c).op \in LookupOps THEN "lookup" ELSE "call"]
    /\ UNCHANGED <<conf, node, refresh, host>>

\* SpawnBalanced: with a balancer of its own over x.nodes.
SpawnBalanced(c) ==
    /\ Ready(c) /\ Op(c).op = "spawnBalanced"
    /\ LET outcomes == NextNode(Op(c).strategy, IF cl.shared THEN nodes ELSE <<>>, 0)
       IN  \/ /\ outcomes = {}
              /\ caller' = [caller EXCEPT ![c].pc = "panicked"] /\ cl' = [cl EXCEPT !.lock = c]
              /\ UNCHANGED nodes
           \/ \E o \in outcomes :
              /\ nodes' = o.nodes /\ UNCHANGED cl
              /\ caller' = [caller EXCEPT ![c].node = o.node, ![c].pc = "call", ![c].saw = {host}]
    /\ UNCHANGED <<conf, node, refresh, host, picks>>

\* Close: the balancer keeps its nodes; a second close of the signal panics.
Close(c) ==
    /\ Ready(c) /\ Op(c).op = "close"
    /\ node' = IF cl.shared THEN [n \in Nodes |-> [node[n] EXCEPT !.conns = @ /\ n \notin Range(nodes)]] ELSE node
    /\ IF conf.refresh /\ cl.closed
       THEN caller' = [caller EXCEPT ![c].pc = "panicked"] /\ cl' = [cl EXCEPT !.lock = c]
       ELSE caller' = [caller EXCEPT ![c] = Returned(@, "ok")] /\ cl' = [cl EXCEPT !.closed = TRUE, !.shared = FALSE]
    /\ UNCHANGED <<conf, nodes, refresh, host, picks>>

\* The remoting of the node makes a connection where it has none, also after Close.
Connected(n) == [node EXCEPT ![n].conns = TRUE]

\* RemoteLookup on the node picked: the cluster knows where the actor is.
Lookup(c) ==
    /\ caller[c].pc = "lookup"
    /\ \/ /\ Fault("net")
          /\ caller' = [caller EXCEPT ![c] = Returned(@, "error")]
       \/ /\ host = "none"
          /\ caller' = [caller EXCEPT ![c] = Returned(@, CASE Op(c).op \in {"tell", "ask"} -> "notFound"
                                                           [] Op(c).op = "exists" -> "false"
                                                           [] OTHER -> "ok")]
       \/ /\ host # "none"
          /\ caller' = [caller EXCEPT ![c] = IF Op(c).op = "exists" THEN Returned(@, "true")
                                             ELSE [@ EXCEPT !.pc = "act", !.at = host]]
    /\ node' = Connected(caller[c].node)
    /\ UNCHANGED <<conf, nodes, cl, refresh, host, picks>>

\* The call at the address found: an actor that is gone from there is an error for a
\* message and none for the rest.
Act(c) ==
    LET op == Op(c).op
        there == host = caller[c].at
        served == there /\ op \in {"tell", "ask"}
        after == IF there /\ op = "stop" THEN "none" ELSE host
        seen == IF after = host THEN caller ELSE Seeing(caller, after)
        k == [seen[c] EXCEPT !.handled = IF served THEN 1 ELSE 0]
    IN
    /\ caller[c].pc = "act"
    /\ \/ /\ host' = after
          /\ \E res \in {IF there \/ op \notin {"tell", "ask"} THEN "ok" ELSE "error"} \cup (IF Fault("net") THEN {"error"} ELSE {}) :
                caller' = [seen EXCEPT ![c] = Returned(k, res)]
       \/ Fault("net") /\ UNCHANGED host /\ caller' = [caller EXCEPT ![c] = Returned(@, "error")]
    /\ node' = Connected(caller[c].node)
    /\ UNCHANGED <<conf, nodes, cl, refresh, picks>>

\* Calls without a lookup: Kinds, Spawn, SpawnBalanced and the calls of grains.
Called(c) ==
    LET op == Op(c).op
        done == [node EXCEPT ![caller[c].node].conns = TRUE,
                             ![caller[c].node].load = IF op \in {"spawn", "spawnBalanced"} THEN @ + 1 ELSE @]
        k == [caller[c] EXCEPT !.handled = IF op \in GrainOps THEN 1 ELSE 0]
    IN
    /\ caller[c].pc = "call"
    /\ \/ node' = done /\ \E res \in {"ok"} \cup (IF Fault("net") THEN {"error"} ELSE {}) :
             caller' = [caller EXCEPT ![c] = Returned(k, res)]
       \/ Fault("net") /\ node' = Connected(caller[c].node) /\ caller' = [caller EXCEPT ![c] = Returned(@, "error")]
    /\ cl' = IF cl.lock = c THEN [cl EXCEPT !.lock = 0] ELSE cl
    /\ UNCHANGED <<conf, nodes, refresh, host, picks>>

\* refreshNodesLoop: the goroutine that waits for ticks sees the signal and tells the other.
refreshNodesLoop ==
    /\ \/ refresh = "waiting" /\ cl.closed /\ refresh' = "stopSig"
       \/ refresh = "stopSig" /\ refresh' = "ended"
    /\ UNCHANGED <<conf, nodes, node, cl, host, caller, picks>>

\* The actor is relocated.
Moves ==
    /\ Fault("moves") /\ host = conf.host
    /\ \E h \in (Nodes \cup {"none"}) \ {host} : host' = h /\ caller' = Seeing(caller, h)
    /\ UNCHANGED <<conf, nodes, node, cl, refresh, picks>>

CCSystem ==
    \/ New \/ refreshNodesLoop
    \/ \E c \in Callers : Pick(c) \/ SpawnBalanced(c) \/ Close(c) \/ Lookup(c) \/ Act(c) \/ Called(c)
CCNext == CCSystem \/ Moves
CCSpec == CCInit /\ [][CCNext]_ccvars /\ WF_ccvars(CCSystem)

---------------------------------------------------------------------------
Results(ops) == UNION {{caller[c].log[i] : i \in {j \in DOMAIN caller[c].log : conf.calls[c][j].op \in ops}} : c \in Callers}

\* "Client is safe for concurrent use by multiple goroutines" (client.go): no
\* interleaving of calls and Close panics, apart from a counter that wraps, a
\* SpawnBalanced after Close and a second Close of a client that refreshes.
PanicsKnown ==
    \A c \in Callers : caller[c].pc = "panicked" =>
       \/ cl.next = 0 /\ Op(c).op \notin {"close", "spawnBalanced"}
       \/ cl.closed /\ Op(c).op = "spawnBalanced"
       \/ cl.closed /\ Op(c).op = "close" /\ conf.refresh

\* "distributes actors evenly across nodes by cycling through the available nodes"
\* (balancer.go): while nobody reorders the nodes, the picks of a cycle are different
\* nodes, whichever goroutines make them; the least loaded is picked by weight.
PicksBalanced ==
    /\ conf.strategy = "roundRobin" =>
         \A i, j \in DOMAIN picks :
            i < j /\ j - i < Len(nodes) /\ (\A k \in i..j : picks[k].nodes = picks[i].nodes /\ picks[k].next >= picks[i].next)
            => picks[i].node # picks[j].node
    /\ conf.strategy = "leastLoad" =>
         \A i \in DOMAIN picks : \A n \in Nodes : node[picks[i].node].weight <= node[n].weight

\* A message whose Tell or Ask returned without error was handled, once; an actor said
\* to exist did, and one not found was absent, at some time during the call.
ClientToldTrue ==
    /\ \A r \in Results({"tell", "ask"} \cup GrainOps) : r.res = "ok" => r.handled = 1
    /\ \A r \in Results({"tell", "ask"}) : r.res = "notFound" => "none" \in r.saw
    /\ \A r \in Results({"exists"}) : /\ r.res = "true" => r.saw # {"none"}
                                      /\ r.res = "false" => "none" \in r.saw

\* Between steps the lock is only held by a Kinds that waits for its answer or by a
\* goroutine that panicked: no other call keeps others from calling.
LockHeld == cl.lock # 0 => /\ caller[cl.lock].pc \in {"call", "panicked"}
                           /\ caller[cl.lock].pc = "call" => Op(cl.lock).op = "kinds"

\* Every call returns, and the refreshing goroutines end after Close, unless a panic
\* has taken the lock with it.
ClientEnded ==
    \/ cl.phase = "failed"
    \/ \E c \in Callers : caller[c].pc = "panicked"
    \/ /\ \A c \in Callers : caller[c].n > Len(conf.calls[c])
       /\ refresh \in {"off", "ended"} \/ (refresh = "waiting" /\ ~cl.closed)

\* "WithRefresh ... help check the nodes state time to time" (option.go): the weights
\* follow the loads.
\* Does not hold: the ticker of refreshNodesLoop is never started.
WeightsRefreshed == conf.refresh => <>[](cl.phase = "open" => \A n \in Range(nodes) : node[n].weight = node[n].load)

\* "SpawnBalanced creates and starts an actor with the specified balancing strategy"
\* (client.go): with the round robin, two spawns go to two nodes.
\* Does not hold: every call makes a balancer that starts at the first node.
SpawnsSpread ==
    (Len(nodes) > 1 /\ \A c \in Callers : \A i \in DOMAIN conf.calls[c] : conf.calls[c][i] = [op |-> "spawnBalanced", strategy |-> "roundRobin"])
    => \A n \in Nodes : node[n].load <= conf.load[n] + 1

\* "Close closes the Client connection" (client.go): a client that is closed has none.
\* Does not hold: calls after Close make new ones, which nobody closes.
ClosedHasNone == cl.closed => \A n \in Nodes : ~node[n].conns
=============================================================================
