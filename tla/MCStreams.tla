------------------------------ MODULE MCStreams ------------------------------
(***************************************************************************)
(* Streams on small instances: the pipeline of a source, a flow and a sink  *)
(* in its many shapes, the stages that work in parallel, the compilation of *)
(* graphs into pipelines, and streams that branch, join, split or cross     *)
(* nodes.  `what' selects the one that runs; its variables are the slots    *)
(* v1, v2, ...                                                              *)
(***************************************************************************)
EXTENDS Integers, Sequences

CONSTANT Whats  \* the kinds of stream considered

VARIABLES what, v1, v2, v3, v4, v5, v6, v7, v8, v9
vars == <<what, v1, v2, v3, v4, v5, v6, v7, v8, v9>>

Shape(source, flw, snk, strategy, where, fault, faulty, stops, aborts) ==
    [source |-> source, flow |-> flw, sink |-> snk, strategy |-> strategy, where |-> where,
     fault |-> fault, faulty |-> faulty, stops |-> stops, aborts |-> aborts]

MCShapes ==
    { Shape(s, "map", "collect", "FailFast", "none", "none", 0, TRUE, TRUE) :
        s \in {"pull", "chan", "actor", "tick", "conn"} }
    \union { Shape("pull", f, "collect", "FailFast", "none", "none", 0, FALSE, FALSE) :
        f \in {"filter", "flatMap", "dedup", "scan", "fused", "batch", "throttle"} }
    \union { Shape("pull", f, "first", "FailFast", "none", "none", 0, FALSE, FALSE) : f \in {"scan", "fused"} }
    \union { Shape("pull", f, "collect", st, "flow", fault, 2, FALSE, FALSE) :
        f \in {"map", "flatMap"}, st \in {"FailFast", "Resume", "Retry"}, fault \in {"bad", "flaky", "panic"} }
    \union { Shape("pull", "throttle", "collect", st, "sink", fault, 2, FALSE, FALSE) :
        st \in {"FailFast", "Resume", "Retry"}, fault \in {"bad", "flaky", "panic"} }
    \union { Shape("pull", "fused", k, "FailFast", "flow", "bad", 1, FALSE, FALSE) : k \in {"collect", "first"} }
    \union { Shape("actor", "map", "collect", "FailFast", "source", fault, 0, FALSE, FALSE) : fault \in {"ask", "terminated"} }
    \union { Shape("conn", "map", "first", "FailFast", "source", "read", 0, FALSE, FALSE) }

WConf(kind, bad, sinkBad, upFails) == [kind |-> kind, bad |-> bad, sinkBad |-> sinkBad, upFails |-> upFails]
MCWorkers == { WConf(k, 0, 0, FALSE) : k \in {"ordered", "unordered", "flatMap"} }
    \union { WConf(k, 2, 0, FALSE) : k \in {"ordered", "flatMap"} }
    \union { WConf(k, 0, 1, TRUE) : k \in {"ordered", "flatMap"} }

Call(n, k, f) == [name |-> n, kind |-> k, from |-> f]
MCMenu == { Call("s", "source", <<>>), Call("f", "flow", <<"s">>), Call("f", "flow", <<"g">>),
            Call("g", "flow", <<"f">>), Call("m", "merge", <<"f", "g">>), Call("m", "concat", <<"s", "s">>),
            Call("k", "sink", <<"f">>), Call("l", "sink", <<"g">>), Call("l", "sink", <<"m">>) }
Flow(fuse, m) == [kind |-> "flow", fuse |-> fuse, step |-> [v \in 0 .. 3 |-> m[v + 1]], parts |-> 1]
MCFlows == { Flow(TRUE, <<1, 2, 3, 0>>), Flow(TRUE, <<-1, 1, 2, 3>>), Flow(FALSE, <<0, 1, -2, 3>>),
             Flow(TRUE, <<0, 0, -2, 3>>) }

OKinds == {"broadcast", "balance", "partition"}
IKinds == {"merge", "concat", "zip", "combine", "latest", "preferred", "prioritized", "sequence"}

SConf(mode, overflow, onError, bad, maxSubs, fails, stops) ==
    [mode |-> mode, overflow |-> overflow, onError |-> onError, bad |-> bad, maxSubs |-> maxSubs,
     fails |-> fails, stops |-> stops]
SConfs == { SConf("GroupBy", "DropTail", "FailAll", 0, 1, FALSE, TRUE),
            SConf("When", "DropTail", "FailAll", 0, 0, TRUE, FALSE),
            SConf("After", "DropTail", "FailAll", 0, 0, FALSE, FALSE),
            SConf("GroupBy", "FailSource", "FailAll", 2, 0, FALSE, FALSE),
            SConf("GroupBy", "DropTail", "Drop", 1, 0, FALSE, FALSE),
            SConf("GroupBy", "DropTail", "Restart", 1, 0, FALSE, FALSE) }

RConf(kind, crash, stops) == [kind |-> kind, crash |-> crash, stops |-> stops]
RConfs == { RConf("source", TRUE, {}), RConf("source", FALSE, {1}), RConf("sink", TRUE, {}) }

---------------------------------------------------------------------------
P == INSTANCE StreamPipeline WITH N <- 4, InitialDemand <- 2, RefillThreshold <- 1, MaxBatch <- 2,
        MaxTicks <- 2, Shapes <- MCShapes,
        shape <- v1, wired <- v2, mbox <- v3, alive <- v4, src <- v5, flow <- v6, sink <- v7, handle <- v8, user <- v9
W == INSTANCE StreamWorkers WITH N <- 3, Confs <- MCWorkers, Workers <- 2, InitialDemand <- 2, RefillThreshold <- 1,
        conf <- v1, up <- v2, st <- v3, work <- v4, sink <- v5, box <- v6
G == INSTANCE StreamGraph WITH Menu <- MCMenu, MaxCalls <- 5, Flows <- MCFlows,
        nodes <- v1, order <- v2, pipeline <- v3
O == INSTANCE StreamFanOut WITH N <- 3, Slots <- {0, 1}, Stoppable <- {0}, InitialDemand <- 2, RefillThreshold <- 0, Kinds <- OKinds,
        kind <- v1, registered <- v2, up <- v3, hub <- v4, slot <- v5, branch <- v6, box <- v7
I == INSTANCE StreamFanIn WITH Inputs <- <<<<0, 2>>, <<1>>>>, Kinds <- IKinds, Preferred <- 2,
        InitialDemand <- 2, RefillThreshold <- 1, kind <- v1, input <- v2, stage <- v3, box <- v4, sink <- v5
S == INSTANCE StreamSubflow WITH N <- 3, Confs <- SConfs, PerKeyBuffer <- 1, InitialDemand <- 1, RefillThreshold <- 0,
        conf <- v1, up <- v2, sp <- v3, sub <- v4, sink <- v5, box <- v6
R == INSTANCE StreamRefs WITH N <- 2, Confs <- RConfs, BufferLimit <- 1, SinkCredit <- 2, AckThreshold <- 1,
        InitialDemand <- 1, RefillThreshold <- 0,
        conf <- v1, ep <- v2, src <- v3, bridge <- v4, sink <- v5, box <- v6

\* The slots from the n-th on are not in use.
Free8 == v8 = 0 /\ v9 = 0
Free7 == v7 = 0 /\ Free8
Free6 == v6 = 0 /\ Free7
Free4 == v4 = 0 /\ v5 = 0 /\ Free6

Init ==
    /\ what \in Whats
    /\ \/ what = "pipeline" /\ P!Init
       \/ what = "workers" /\ W!Init /\ Free7
       \/ what = "graph" /\ G!Init /\ Free4
       \/ what = "fanOut" /\ O!Init /\ Free8
       \/ what = "fanIn" /\ I!Init /\ Free6
       \/ what = "subflow" /\ S!Init /\ Free7
       \/ what = "refs" /\ R!Init /\ Free7

Keep8 == UNCHANGED <<what, v8, v9>>
Keep7 == UNCHANGED v7 /\ Keep8
Keep6 == UNCHANGED v6 /\ Keep7

Pipeline(A) == what = "pipeline" /\ A /\ UNCHANGED what
Workers(A) == what = "workers" /\ A /\ Keep7
Graph == what = "graph" /\ G!Next /\ UNCHANGED <<v4, v5>> /\ Keep6
FanOut(A) == what = "fanOut" /\ A /\ Keep8
FanIn(A) == what = "fanIn" /\ A /\ Keep6
Subflow(A) == what = "subflow" /\ A /\ Keep7
Refs(A) == what = "refs" /\ A /\ Keep7

Next ==
    \/ Pipeline(P!Next) \/ Workers(W!Next) \/ Graph
    \/ FanOut(O!Next) \/ FanIn(I!Next) \/ Subflow(S!Next) \/ Refs(R!Next)

\* Every stage actor with a message is given its turn (StreamPipeline!Fairness).
Spec == /\ Init /\ [][Next]_vars
        /\ WF_vars(Pipeline(P!WireStage)) /\ WF_vars(Pipeline(P!SourceNext)) /\ WF_vars(Pipeline(P!FlowNext))
        /\ WF_vars(Pipeline(P!SinkNext)) /\ WF_vars(Pipeline(\E s \in P!Stages : P!AbortStage(s)))
        /\ WF_vars(\/ Workers(W!Next) \/ FanOut(O!System) \/ FanIn(I!System)
                   \/ Subflow(S!System) \/ Refs(R!System))

---------------------------------------------------------------------------
\* StreamPipeline, StreamWorkers: demand is conserved between neighbours, and the
\* parallel stages never have more work than workers.
DemandConserved ==
    /\ what = "pipeline" => P!TypeOK /\ P!DemandConserved
    /\ what = "workers" => W!WorkBounded

\* StreamPipeline, StreamWorkers: elements arrive in order, once, transformed as
\* the flow says; a clean end means a complete result.
StreamExact ==
    /\ what = "pipeline" => P!DeliveredInOrder /\ P!CleanEndIsComplete
    /\ what = "workers" => W!WorkersExact

\* StreamGraph: cycles are refused, fan-outs get the slots they wait for,
\* pipelines follow the graph, fusion changes no result.
GraphCompiles ==
    what = "graph" => G!CyclesRefused /\ G!SlotsMatchConsumers /\ G!PipelinesArePaths /\ G!FusionKeepsMeaning

\* StreamFanOut, StreamSubflow, StreamRefs: no branch, substream or remote side
\* ever has more elements under way than it asked for.
JunctionsBounded ==
    /\ what = "fanOut" => O!NoBranchOverrun
    /\ what = "subflow" => S!SubstreamBounded
    /\ what = "refs" => R!WireBounded

\* StreamFanOut, StreamFanIn: elements are routed or joined in the order the
\* operator says, and a branch or a join that completes is complete.
BranchesExact ==
    /\ what = "fanOut" => O!RoutedCorrectly /\ O!CompleteBranchIsComplete
    /\ what = "fanIn" => I!FanInOrder /\ I!FanInComplete /\ I!GapIsReported

\* StreamSubflow: segments are exact, groups ordered and complete, and the count
\* that decides on completion is right.
SubflowExact == what = "subflow" => S!SegmentsExact /\ S!GroupsInOrder /\ S!ActiveExact

\* StreamRefs: one remote stream gets everything, in order.
RefsExact == what = "refs" => R!RefExact

\* All: streams terminate, with the work and the substreams they started.
StreamsTerminate ==
    <>[](/\ what = "pipeline" => P!StreamTerminated
         /\ what = "workers" => W!WorkersEnded
         /\ what = "fanOut" => O!BranchesEnded
         /\ what = "fanIn" => I!FanInEnded
         /\ what = "subflow" => S!SubflowEnded
         /\ what = "refs" => R!ConsumersEnded)
===========================================================================
