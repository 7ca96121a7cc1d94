-------------------------- MODULE StreamPipeline --------------------------
(***************************************************************************)
(* A linear reactive stream (package stream): a source, a flow and a sink   *)
(* stage, each an actor with a mailbox, the coordinator that parents them   *)
(* and the StreamHandle the caller holds.  Demand travels upstream as       *)
(* streamRequest, elements travel downstream as streamElement.              *)
(*                                                                         *)
(* A stage handles one message per step: the stage actors are               *)
(* single-threaded and a Tell only appends to a mailbox, so the steps of    *)
(* two stages interleave at message granularity.  A Tell to a stopped stage *)
(* returns ErrDead, which PID.notifyParent ignores: the message is gone.    *)
(* `shape' selects the stages, the error strategy and the faults of the     *)
(* user functions; it is chosen in Init.                                    *)
(***************************************************************************)
EXTENDS Integers, Sequences, SequencesExt, FiniteSets

CONSTANTS
    N,                 \* the source holds the elements 1 .. N
    InitialDemand,     \* StageConfig.InitialDemand
    RefillThreshold,   \* StageConfig.RefillThreshold
    MaxBatch,          \* maxSize of the batch flow
    MaxTicks,          \* bound: ticks of the tick source
    Shapes             \* the pipelines examined

VARIABLES shape, wired, mbox, alive, src, flow, sink, handle, user

vars == <<shape, wired, mbox, alive, src, flow, sink, handle, user>>

Stages == {"source", "flow", "sink"}
Order == <<"source", "flow", "sink">>
Place == [source |-> 1, flow |-> 2, sink |-> 3]
NoStage == "none"
Up == [source |-> NoStage, flow |-> "source", sink |-> "flow"]
Down == [source |-> "flow", flow |-> "sink", sink |-> NoStage]

Msg(t) == [t |-> t]
Request(n) == [t |-> "request", n |-> n]
Element(v) == [t |-> "element", v |-> v]
Elements(vs) == [i \in DOMAIN vs |-> Element(vs[i])]
Requests(n) == IF n > 0 THEN <<Request(n)>> ELSE <<>>
Completes(b) == IF b THEN <<Msg("complete")>> ELSE <<>>

Least(a, b) == IF a <= b THEN a ELSE b
Most(a, b) == IF a >= b THEN a ELSE b
Take(s, n) == SubSeq(s, 1, Least(n, Len(s)))
Drop(s, n) == SubSeq(s, n + 1, Len(s))

---------------------------------------------------------------------------
(* The user functions of the flows. *)

\* What the functions of Map, Filter, FlatMap, Deduplicate and Scan emit for v; the
\* last two close over what they have seen.
mapFn(v) == <<v + 10>>
filterFn(v) == IF v % 2 = 1 THEN <<v>> ELSE <<>>
flatMapFn(v) == <<v, v + 10>>
dedupFn(last, v) == IF last = v \div 2 THEN <<>> ELSE <<v \div 2>>
scanFn(acc, v) == <<acc + v>>

transformFn(fn, acc, v) ==
    CASE fn = "map"     -> mapFn(v)
      [] fn = "filter"  -> filterFn(v)
      [] fn = "flatMap" -> flatMapFn(v)
      [] fn = "dedup"   -> dedupFn(acc, v)
      [] fn = "scan"    -> scanFn(acc, v)

transformAcc(fn, acc, v) ==
    CASE fn = "dedup" -> v \div 2
      [] fn = "scan"  -> acc + v
      [] OTHER        -> acc

\* The composed function of a fused Map and Filter.
fusedFn(v) == IF v % 2 = 1 THEN <<v + 10>> ELSE <<>>

\* What happens when the user function meets v: "ok", "flaky" (fails once),
\* "bad" (fails always) or "panic".
FaultAt(s, v) == IF shape.where = s /\ v = shape.faulty THEN shape.fault ELSE "ok"
Succeeds(s, v) == \/ FaultAt(s, v) = "ok"
                  \/ FaultAt(s, v) = "flaky" /\ shape.strategy = "Retry"
Panics(s, v) == FaultAt(s, v) = "panic"

---------------------------------------------------------------------------
(* One turn of a stage actor. *)

Turn(s, t) == alive[s] /\ mbox[s] # <<>> /\ Head(mbox[s]).t = t

\* The stage s consumes its message, tells up and down, and shuts down if dies.
Consume(s, up, down, dies) ==
    /\ alive' = [alive EXCEPT ![s] = ~dies]
    /\ mbox' = [x \in Stages |->
         CASE x = s -> IF dies THEN <<>> ELSE Tail(mbox[s])
           [] x # s /\ x = Up[s] /\ alive[x] -> mbox[x] \o up
           [] x # s /\ x = Down[s] /\ alive[x] -> mbox[x] \o down
           [] OTHER -> mbox[x]]

\* A message told to stage s from outside the pipeline.
TellStage(s, m) ==
    mbox' = IF alive[s] THEN [mbox EXCEPT ![s] = Append(@, m)] ELSE mbox

\* The stage has handled its stageWire.
Started(s) == alive[s] /\ wired >= Place[s]
                /\ \A i \in DOMAIN mbox[s] : mbox[s][i].t # "wire"

SignalDone(err) == IF handle.done THEN handle ELSE [done |-> TRUE, err |-> err]

---------------------------------------------------------------------------
(* Init and the materializer. *)

Init ==
    /\ shape \in Shapes
    /\ wired = 0
    /\ mbox = [s \in Stages |-> <<>>]
    /\ alive = [s \in Stages |-> TRUE]
    /\ src = [items |-> [i \in 1 .. N |-> i], buf |-> <<>>, demand |-> 0,
              done |-> FALSE, asked |-> 0, ticks |-> 0]
    /\ flow = [credit |-> 0, demand |-> 0, buf |-> <<>>, acc |-> 0,
               completing |-> FALSE, timer |-> FALSE]
    /\ sink = [credit |-> 0, got |-> <<>>, onComplete |-> 0]
    /\ handle = [done |-> FALSE, err |-> "none"]
    /\ user = [stopped |-> FALSE, aborted |-> FALSE, panicked |-> FALSE]

\* The wiring loop of materializeWithHead: stage by stage, source first.
WireStage ==
    /\ wired < 3
    /\ wired' = wired + 1
    /\ TellStage(Order[wired + 1], Msg("wire"))
    /\ UNCHANGED <<shape, alive, src, flow, sink, handle, user>>

---------------------------------------------------------------------------
(* Sources. *)

SourceFrame == UNCHANGED <<shape, wired, flow, sink, handle, user>>

\* As if a cancelled source stopped without completing its downstream.
SourceCancelSilent ==
    /\ Turn("source", "cancel")
    /\ Consume("source", <<>>, <<>>, TRUE)
    /\ UNCHANGED src
    /\ SourceFrame
\* On streamCancel every source completes its downstream and stops.
SourceCancel ==
    /\ Turn("source", "cancel")
    /\ Consume("source", <<>>, <<Msg("complete")>>, TRUE)
    /\ UNCHANGED src
    /\ SourceFrame

SourceWire ==
    /\ Turn("source", "wire")
    /\ Consume("source", <<>>, <<>>, FALSE)
    /\ UNCHANGED src
    /\ SourceFrame

\* The pull function of Of: the next n values, and whether more remain.
ofPull(items, n) ==
    [batch |-> Take(items, n), rest |-> Drop(items, Least(n, Len(items))),
     more |-> Len(items) > n]

\* pullSourceActor: produce as much as was asked for.
PullRequest ==
    /\ shape.source = "pull"
    /\ Turn("source", "request")
    /\ LET p == ofPull(src.items, Head(mbox["source"]).n)
       IN  /\ src' = [src EXCEPT !.items = p.rest]
           /\ Consume("source", <<>>, Elements(p.batch) \o Completes(~p.more), ~p.more)
    /\ SourceFrame

\* As if a closed channel completed the stream before the buffer is drained.
chanTryFlushEarly(st) ==
    LET k == Least(st.demand, Len(st.buf))
    IN  /\ src' = [st EXCEPT !.buf = Drop(@, k), !.demand = @ - k]
        /\ Consume("source", <<>>, Elements(Take(st.buf, k)) \o Completes(st.done), st.done)
\* chanSourceActor.tryFlush: emit while there is demand; complete when drained.
chanTryFlush(st) ==
    LET k == Least(st.demand, Len(st.buf))
        left == Drop(st.buf, k)
        fin == st.done /\ left = <<>>
    IN  /\ src' = [st EXCEPT !.buf = left, !.demand = @ - k]
        /\ Consume("source", <<>>, Elements(Take(st.buf, k)) \o Completes(fin), fin)

ChanRequest ==
    /\ shape.source = "chan"
    /\ Turn("source", "request")
    /\ chanTryFlush([src EXCEPT !.demand = @ + Head(mbox["source"]).n])
    /\ SourceFrame

ChanBatch ==
    /\ Turn("source", "chanBatch")
    /\ chanTryFlush([src EXCEPT !.buf = @ \o Head(mbox["source"]).vs])
    /\ SourceFrame

ChanDone ==
    /\ Turn("source", "chanDone")
    /\ chanTryFlush([src EXCEPT !.done = TRUE])
    /\ SourceFrame

\* The bridge goroutine: batches whatever the channel holds, then reports the close.
ChanBridge ==
    /\ shape.source = "chan" /\ src.asked = 0 /\ (Started("source") \/ ~alive["source"])
    /\ \/ \E k \in 1 .. Len(src.items) :
            /\ TellStage("source", [t |-> "chanBatch", vs |-> Take(src.items, k)])
            \* a batch that cannot be delivered ends the goroutine
            /\ src' = [src EXCEPT !.items = Drop(@, k), !.asked = IF alive["source"] THEN 0 ELSE 1]
       \/ /\ src.items = <<>>
          /\ TellStage("source", Msg("chanDone"))
          /\ src' = [src EXCEPT !.asked = 1]
    /\ UNCHANGED alive
    /\ SourceFrame

\* As if the demand beyond the first element of a fetch were forgotten.
startFetchOne(st) == [st EXCEPT !.demand = 0, !.asked = 1]
\* actorSourceActor: one outstanding Ask at a time; `asked' is its size.
startFetch(st) == [st EXCEPT !.demand = 0, !.asked = st.demand]

ActorRequest ==
    /\ shape.source = "actor"
    /\ Turn("source", "request")
    /\ LET st == [src EXCEPT !.demand = @ + Head(mbox["source"]).n]
       IN  src' = IF src.asked = 0 THEN startFetch(st) ELSE st
    /\ Consume("source", <<>>, <<>>, FALSE)
    /\ SourceFrame

\* The asked actor answers with 1 .. n elements, with none when it has no more,
\* or the Ask fails; the reply is piped to the stage.
ActorReply ==
    /\ shape.source = "actor" /\ src.asked > 0 /\ ~src.done
    /\ ~\E i \in DOMAIN mbox["source"] : mbox["source"][i].t = "fetched"
    /\ \/ \E k \in 1 .. Least(src.asked, Len(src.items)) :
            /\ TellStage("source", [t |-> "fetched", vs |-> Take(src.items, k), err |-> FALSE])
            /\ src' = [src EXCEPT !.items = Drop(@, k)]
       \/ /\ src.items = <<>>
          /\ TellStage("source", [t |-> "fetched", vs |-> <<>>, err |-> FALSE])
          /\ UNCHANGED src
       \/ /\ shape.fault = "ask"
          /\ TellStage("source", [t |-> "fetched", vs |-> <<>>, err |-> TRUE])
          /\ src' = [src EXCEPT !.done = TRUE]
    /\ UNCHANGED alive
    /\ SourceFrame

ActorFetched ==
    /\ Turn("source", "fetched")
    /\ LET m == Head(mbox["source"])
           st == [src EXCEPT !.asked = 0, !.demand = @ + src.asked - Len(m.vs)]
       IN  IF m.err
           THEN src' = [src EXCEPT !.asked = 0] /\ Consume("source", <<>>, <<Msg("error")>>, TRUE)
           ELSE IF m.vs = <<>>
           THEN src' = [src EXCEPT !.asked = 0] /\ Consume("source", <<>>, <<Msg("complete")>>, TRUE)
           ELSE /\ src' = IF st.demand > 0 THEN startFetch(st) ELSE st
                /\ Consume("source", <<>>, Elements(m.vs), FALSE)
    /\ SourceFrame

\* The watched actor stops: Terminated reaches the stage (death watch).
ActorTerminates ==
    /\ shape.source = "actor" /\ shape.fault = "terminated" /\ Started("source") /\ ~src.done
    /\ src' = [src EXCEPT !.done = TRUE]
    /\ TellStage("source", Msg("terminated"))
    /\ UNCHANGED alive
    /\ SourceFrame

ActorTerminated ==
    /\ Turn("source", "terminated")
    /\ Consume("source", <<>>, <<Msg("error")>>, TRUE)
    /\ UNCHANGED src
    /\ SourceFrame

\* tickSourceActor: the schedule posts ticks; a tick without demand is dropped.
TickRequest ==
    /\ shape.source = "tick"
    /\ Turn("source", "request")
    /\ src' = [src EXCEPT !.demand = @ + Head(mbox["source"]).n]
    /\ Consume("source", <<>>, <<>>, FALSE)
    /\ SourceFrame

ScheduledTick ==
    /\ shape.source = "tick" /\ Started("source") /\ src.ticks < MaxTicks
    /\ src' = [src EXCEPT !.ticks = @ + 1]
    /\ TellStage("source", Msg("tick"))
    /\ UNCHANGED alive
    /\ SourceFrame

Tick ==
    /\ shape.source = "tick" /\ Turn("source", "tick")
    /\ IF src.demand > 0
       THEN /\ src' = [src EXCEPT !.demand = @ - 1, !.items = Tail(@)]
            /\ Consume("source", <<>>, <<Element(Head(src.items))>>, FALSE)
       ELSE /\ UNCHANGED src
            /\ Consume("source", <<>>, <<>>, FALSE)
    /\ SourceFrame

\* connSourceActor: n blocking reads, ended by io.EOF or by a read error.
ConnRequest ==
    /\ shape.source = "conn"
    /\ Turn("source", "request")
    /\ LET n == Head(mbox["source"]).n
           k == Least(n, Len(src.items))
           ends == n > Len(src.items)
           last == IF shape.fault = "read" THEN Msg("error") ELSE Msg("complete")
       IN  /\ src' = [src EXCEPT !.items = Drop(@, k)]
           /\ Consume("source", <<>>,
                Elements(Take(src.items, k)) \o (IF ends THEN <<last>> ELSE <<>>), ends)
    /\ SourceFrame

SourceNext ==
    \/ SourceWire \/ SourceCancel \/ PullRequest
    \/ ChanRequest \/ ChanBatch \/ ChanDone \/ ChanBridge
    \/ ActorRequest \/ ActorReply \/ ActorFetched \/ ActorTerminates \/ ActorTerminated
    \/ TickRequest \/ ScheduledTick \/ Tick \/ ConnRequest

---------------------------------------------------------------------------
(* Flows. *)

FlowFrame == UNCHANGED <<shape, wired, src, sink, handle, user>>

FlowIs(kinds, t) == shape.flow \in kinds /\ Turn("flow", t)
PlainFlows == {"map", "filter", "flatMap", "dedup", "scan"}

\* maybeRequestUpstream: what the stage may ask for without overrunning its buffer.
available(st) ==
    IF st.completing \/ st.credit > RefillThreshold THEN 0
    ELSE Most(0, InitialDemand - st.credit - Len(st.buf))

\* tryFlushOutput then maybeRequestUpstream of flowActor.
flushAndRequest(st) ==
    LET k == Least(st.demand, Len(st.buf))
        f == [st EXCEPT !.demand = @ - k, !.buf = Drop(@, k)]
        fin == f.completing /\ f.buf = <<>>
        n == available(f)
    IN  /\ flow' = [f EXCEPT !.credit = @ + n]
        /\ Consume("flow", Requests(n), Elements(Take(st.buf, k)) \o Completes(fin), fin)

\* Give the error up and down and stop.
FlowFails == Consume("flow", <<Msg("cancel")>>, <<Msg("error")>>, TRUE) /\ UNCHANGED flow

FlowWire ==
    /\ FlowIs(PlainFlows \union {"batch", "throttle"}, "wire")
    /\ Consume("flow", <<>>, <<>>, FALSE)
    /\ UNCHANGED flow
    /\ FlowFrame

FlowRequest ==
    /\ FlowIs(PlainFlows, "request")
    /\ flushAndRequest([flow EXCEPT !.demand = @ + Head(mbox["flow"]).n])
    /\ FlowFrame

\* An element whose transform succeeds, at once or at a retry.
FlowElement ==
    /\ FlowIs(PlainFlows, "element")
    /\ LET v == Head(mbox["flow"]).v
       IN  /\ Succeeds("flow", v)
           /\ flushAndRequest([flow EXCEPT !.credit = @ - 1,
                !.buf = @ \o transformFn(shape.flow, flow.acc, v),
                !.acc = transformAcc(shape.flow, @, v)])
    /\ FlowFrame

\* An element whose transform fails: Resume drops it, the others fail the stream.
FlowElementFails ==
    /\ FlowIs(PlainFlows, "element")
    /\ LET v == Head(mbox["flow"]).v IN ~Succeeds("flow", v) /\ ~Panics("flow", v)
    /\ IF shape.strategy = "Resume"
       THEN LET f == [flow EXCEPT !.credit = @ - 1]
                n == available(f)
            IN  flow' = [f EXCEPT !.credit = @ + n] /\ Consume("flow", Requests(n), <<>>, FALSE)
       ELSE FlowFails
    /\ FlowFrame

FlowComplete ==
    /\ FlowIs(PlainFlows, "complete")
    /\ flushAndRequest([flow EXCEPT !.completing = TRUE])
    /\ FlowFrame

FlowCancel ==
    /\ FlowIs(PlainFlows \union {"batch", "throttle"}, "cancel")
    /\ Consume("flow", <<Msg("cancel")>>, <<>>, TRUE)
    /\ UNCHANGED flow
    /\ FlowFrame

\* Every flow forwards streamError downstream and stops.
FlowError ==
    /\ Turn("flow", "error")
    /\ Consume("flow", <<>>, <<Msg("error")>>, TRUE)
    /\ UNCHANGED flow
    /\ FlowFrame

\* fusedFlowActor: asks for credit of its own and emits without downstream demand.
FusedWire ==
    /\ FlowIs({"fused"}, "wire")
    /\ flow' = [flow EXCEPT !.credit = InitialDemand]
    /\ Consume("flow", Requests(InitialDemand), <<>>, FALSE)
    /\ FlowFrame

FusedRequest ==
    /\ FlowIs({"fused"}, "request")
    /\ Consume("flow", <<>>, <<>>, FALSE)
    /\ UNCHANGED flow
    /\ FlowFrame

refill(credit) == IF credit <= RefillThreshold THEN InitialDemand - credit ELSE 0

FusedElement ==
    /\ FlowIs({"fused"}, "element")
    /\ LET v == Head(mbox["flow"]).v
           n == refill(flow.credit - 1)
       IN  /\ ~Panics("flow", v)
           /\ IF FaultAt("flow", v) # "ok"
              THEN UNCHANGED flow /\ Consume("flow", <<>>, <<Msg("error")>>, TRUE)
              ELSE /\ flow' = [flow EXCEPT !.credit = @ - 1 + n]
                   /\ Consume("flow", Requests(n), Elements(fusedFn(v)), FALSE)
    /\ FlowFrame

FusedComplete ==
    /\ FlowIs({"fused"}, "complete")
    /\ Consume("flow", <<>>, <<Msg("complete")>>, TRUE)
    /\ UNCHANGED flow
    /\ FlowFrame

FusedCancel ==
    /\ FlowIs({"fused"}, "cancel")
    /\ Consume("flow", <<Msg("cancel")>>, <<Msg("complete")>>, TRUE)
    /\ UNCHANGED flow
    /\ FlowFrame

\* batchFlowActor: buf is the window, emitted as one element.
flushed(st, b) == b /\ st.buf # <<>> /\ st.demand > 0
afterFlush(st, b) == IF flushed(st, b) THEN [st EXCEPT !.buf = <<>>, !.demand = @ - 1] ELSE st
batchOf(st, b) == IF flushed(st, b) THEN <<Element(st.buf)>> ELSE <<>>

\* Its maybeRequestUpstream does not look at completion.
batchAvailable(st) ==
    IF st.credit > RefillThreshold THEN 0 ELSE Most(0, InitialDemand - st.credit - Len(st.buf))

BatchRequest ==
    /\ FlowIs({"batch"}, "request")
    /\ LET st == [flow EXCEPT !.demand = @ + Head(mbox["flow"]).n]
           n == batchAvailable(st)
       IN  flow' = [st EXCEPT !.credit = @ + n] /\ Consume("flow", Requests(n), <<>>, FALSE)
    /\ FlowFrame

BatchElement ==
    /\ FlowIs({"batch"}, "element")
    /\ LET w == Append(flow.buf, Head(mbox["flow"]).v)
           st == [flow EXCEPT !.credit = @ - 1, !.buf = w,
                              !.timer = @ \/ Len(w) = 1]
           full == Len(w) >= MaxBatch
           f == afterFlush(st, full)
           n == batchAvailable(f)
       IN  /\ flow' = [f EXCEPT !.credit = @ + n]
           /\ Consume("flow", Requests(n), batchOf(st, full), FALSE)
    /\ FlowFrame

\* The scheduler delivers batchFlush once maxWait has passed.
BatchTimer ==
    /\ shape.flow = "batch" /\ flow.timer /\ alive["flow"]
    /\ ~\E i \in DOMAIN mbox["flow"] : mbox["flow"][i].t = "batchFlush"
    /\ TellStage("flow", Msg("batchFlush"))
    /\ UNCHANGED <<alive, flow>>
    /\ FlowFrame

BatchFlush ==
    /\ FlowIs({"batch"}, "batchFlush")
    /\ LET st == [flow EXCEPT !.timer = FALSE]
       IN  flow' = afterFlush(st, TRUE) /\ Consume("flow", <<>>, batchOf(st, TRUE), FALSE)
    /\ FlowFrame

BatchComplete ==
    /\ FlowIs({"batch"}, "complete")
    /\ flow' = afterFlush(flow, TRUE)
    /\ Consume("flow", <<>>, batchOf(flow, TRUE) \o <<Msg("complete")>>, TRUE)
    /\ FlowFrame

\* throttleActor: one element per tick of its schedule.
ThrottleRequest ==
    /\ FlowIs({"throttle"}, "request")
    /\ LET st == [flow EXCEPT !.demand = @ + Head(mbox["flow"]).n]
           n == batchAvailable(st)
       IN  flow' = [st EXCEPT !.credit = @ + n] /\ Consume("flow", Requests(n), <<>>, FALSE)
    /\ FlowFrame

ThrottleElement ==
    /\ FlowIs({"throttle"}, "element")
    /\ flow' = [flow EXCEPT !.credit = @ - 1, !.buf = Append(@, Head(mbox["flow"]).v)]
    /\ Consume("flow", <<>>, <<>>, FALSE)
    /\ FlowFrame

\* Bound: at most one throttleTick waits in the mailbox.
ThrottleSchedule ==
    /\ shape.flow = "throttle" /\ Started("flow")
    /\ ~\E i \in DOMAIN mbox["flow"] : mbox["flow"][i].t = "throttleTick"
    /\ TellStage("flow", Msg("throttleTick"))
    /\ UNCHANGED <<alive, flow>>
    /\ FlowFrame

ThrottleTick ==
    /\ FlowIs({"throttle"}, "throttleTick")
    /\ LET emits == flow.demand > 0 /\ flow.buf # <<>>
           st == IF emits THEN [flow EXCEPT !.demand = @ - 1, !.buf = Tail(@)] ELSE flow
           n == IF emits THEN batchAvailable(st) ELSE 0
           fin == st.completing /\ st.buf = <<>>
       IN  /\ flow' = [st EXCEPT !.credit = @ + n]
           /\ Consume("flow", Requests(n),
                (IF emits THEN <<Element(Head(flow.buf))>> ELSE <<>>) \o Completes(fin), fin)
    /\ FlowFrame

ThrottleComplete ==
    /\ FlowIs({"throttle"}, "complete")
    /\ flow' = [flow EXCEPT !.completing = TRUE]
    /\ Consume("flow", <<>>, Completes(flow.buf = <<>>), flow.buf = <<>>)
    /\ FlowFrame

\* A panic of the user function: the coordinator stops the stage (StopDirective)
\* and no message goes to its neighbours.
FlowPanics ==
    /\ FlowIs(PlainFlows \union {"fused"}, "element")
    /\ Panics("flow", Head(mbox["flow"]).v)
    /\ Consume("flow", <<>>, <<>>, TRUE)
    /\ user' = [user EXCEPT !.panicked = TRUE]
    /\ UNCHANGED <<shape, wired, src, flow, sink, handle>>

FlowNext ==
    \/ FlowWire \/ FlowRequest \/ FlowElement \/ FlowElementFails \/ FlowComplete
    \/ FlowCancel \/ FlowError \/ FlowPanics
    \/ FusedWire \/ FusedRequest \/ FusedElement \/ FusedComplete \/ FusedCancel
    \/ BatchRequest \/ BatchElement \/ BatchTimer \/ BatchFlush \/ BatchComplete
    \/ ThrottleRequest \/ ThrottleElement \/ ThrottleSchedule \/ ThrottleTick \/ ThrottleComplete

---------------------------------------------------------------------------
(* Sinks, the completion wrapper and the handle. *)

SinkFrame == UNCHANGED <<shape, wired, src, flow, user>>
SinkIs(kind, t) == shape.sink = kind /\ Turn("sink", t)

\* PostStop: onComplete runs if it has not, and the wrapper reports termErr.
SinkStops(up, got, err) ==
    /\ sink' = [sink EXCEPT !.got = got, !.onComplete = IF @ = 0 THEN 1 ELSE @]
    /\ handle' = SignalDone(err)
    /\ Consume("sink", up, <<>>, TRUE)

SinkWire ==
    /\ Turn("sink", "wire")
    /\ LET n == IF shape.sink = "first" THEN 1 ELSE InitialDemand
       IN  sink' = [sink EXCEPT !.credit = n] /\ Consume("sink", Requests(n), <<>>, FALSE)
    /\ UNCHANGED handle
    /\ SinkFrame

SinkElement ==
    /\ SinkIs("collect", "element")
    /\ LET v == Head(mbox["sink"]).v
           ok == Succeeds("sink", v)
           n == refill(sink.credit - 1)
       IN  /\ ~Panics("sink", v)
           /\ IF ok \/ shape.strategy = "Resume"
              THEN /\ sink' = [sink EXCEPT !.credit = @ - 1 + n,
                                           !.got = IF ok THEN Append(@, v) ELSE @]
                   /\ Consume("sink", Requests(n), <<>>, FALSE)
                   /\ UNCHANGED handle
              ELSE SinkStops(<<Msg("cancel")>>, sink.got, "failed")
    /\ SinkFrame

SinkComplete ==
    /\ Turn("sink", "complete")
    /\ SinkStops(<<>>, sink.got, "none")
    /\ SinkFrame

SinkError ==
    /\ SinkIs("collect", "error")
    /\ SinkStops(<<Msg("cancel")>>, sink.got, "failed")
    /\ SinkFrame

\* firstSinkActor keeps one element and cancels; it has no TermErr.
FirstElement ==
    /\ SinkIs("first", "element")
    /\ SinkStops(<<Msg("cancel")>>, <<Head(mbox["sink"]).v>>, "none")
    /\ SinkFrame

FirstError ==
    /\ SinkIs("first", "error")
    /\ SinkStops(<<>>, sink.got, "none")
    /\ SinkFrame

\* A panic in the sink: stopped by the coordinator, PostStop runs with termErr nil.
SinkPanics ==
    /\ SinkIs("collect", "element")
    /\ Panics("sink", Head(mbox["sink"]).v)
    /\ SinkStops(<<>>, sink.got, "none")
    /\ user' = [user EXCEPT !.panicked = TRUE]
    /\ UNCHANGED <<shape, wired, src, flow>>

SinkNext == SinkWire \/ SinkElement \/ SinkComplete \/ SinkError
              \/ FirstElement \/ FirstError \/ SinkPanics

\* StreamHandle.Stop tells the source to cancel; the wait for done is the caller's.
Stop ==
    /\ wired = 3 /\ shape.stops /\ ~user.stopped
    /\ user' = [user EXCEPT !.stopped = TRUE]
    /\ TellStage("source", Msg("cancel"))
    /\ UNCHANGED <<shape, wired, alive, src, flow, sink, handle>>

\* StreamHandle.Abort signals first, then shuts the coordinator down ...
Abort ==
    /\ wired = 3 /\ shape.aborts /\ ~user.aborted
    /\ user' = [user EXCEPT !.aborted = TRUE]
    /\ handle' = SignalDone("canceled")
    /\ UNCHANGED <<shape, wired, mbox, alive, src, flow, sink>>

\* ... whose children stop one by one.
AbortStage(s) ==
    /\ user.aborted /\ alive[s]
    /\ alive' = [alive EXCEPT ![s] = FALSE]
    /\ mbox' = [mbox EXCEPT ![s] = <<>>]
    /\ sink' = IF s = "sink" /\ sink.onComplete = 0 THEN [sink EXCEPT !.onComplete = 1] ELSE sink
    /\ UNCHANGED <<shape, wired, src, flow, handle, user>>

Next == WireStage \/ SourceNext \/ FlowNext \/ SinkNext \/ Stop \/ Abort
          \/ \E s \in Stages : AbortStage(s)

\* The dispatcher gives every stage with a message its turn, and timers fire.
Fairness == WF_vars(WireStage) /\ WF_vars(SourceNext) /\ WF_vars(FlowNext) /\ WF_vars(SinkNext)
              /\ WF_vars(\E s \in Stages : AbortStage(s))

Spec == Init /\ [][Next]_vars /\ Fairness

---------------------------------------------------------------------------
(* Properties. *)

TypeOK ==
    /\ shape \in Shapes /\ wired \in 0 .. 3
    /\ \A s \in Stages : alive[s] \in BOOLEAN /\ (~alive[s] => mbox[s] = <<>>)
    /\ src.demand \in Nat /\ flow.demand \in Nat /\ sink.credit \in Nat
    /\ handle.err \in {"none", "failed", "canceled"}

SumOf(s, t, f(_)) ==
    FoldSeq(LAMBDA m, a : a + (IF m.t = t THEN f(m) ELSE 0), 0, mbox[s])
InFlight(s) == SumOf(s, "element", LAMBDA m : 1)
Asked(s) == SumOf(s, "request", LAMBDA m : m.n)

\* Demand is conserved: while both neighbours live, the credit a stage holds is
\* what it was sent and has not handled, plus what its upstream has yet to serve
\* (flowActor.upstreamCredit, sinkActor.credit).  No stage is ever sent an
\* element it did not ask for, and no request is forgotten.  The fused flow
\* emits without demand, so its sink is excluded.
DemandConserved ==
    /\ (alive["source"] /\ alive["flow"] /\ ~src.done) =>
         flow.credit = InFlight("flow") + Asked("source") + src.demand
            + (IF shape.source = "actor" THEN src.asked ELSE 0)
    /\ (alive["flow"] /\ alive["sink"] /\ shape.flow # "fused") =>
         sink.credit = InFlight("sink") + Asked("flow") + flow.demand

\* What the sink is to receive, in order: the transform of every element, less
\* the ones Resume drops.  Independent of demand, batching and scheduling.
Reference ==
    LET step(st, v) ==
          IF shape.flow \in {"throttle", "batch"} THEN [st EXCEPT !.out = Append(@, v)]
          ELSE IF FaultAt("flow", v) # "ok" /\ ~Succeeds("flow", v) THEN st
          ELSE IF shape.flow = "fused" THEN [st EXCEPT !.out = @ \o fusedFn(v)]
          ELSE [out |-> st.out \o transformFn(shape.flow, st.acc, v),
                acc |-> transformAcc(shape.flow, st.acc, v)]
        all == FoldLeft(step, [out |-> <<>>, acc |-> 0], [i \in 1 .. N |-> i]).out
    IN  SelectSeq(all, LAMBDA v : Succeeds("sink", v))
Received == IF shape.flow = "batch" THEN FlattenSeq(sink.got) ELSE sink.got

\* The sink receives a prefix of the reference output: nothing lost, repeated or
\* reordered on the way, whatever the interleaving of requests, retries, ticks
\* and cancellation.
DeliveredInOrder == IsPrefix(Received, Reference)

\* A stream that ends without error, stop, abort or panic delivered everything:
\* Done with a nil Err means complete (StreamHandle.Err).  A batch flow may
\* discard its last window and First stops early, so both are excluded.
CleanEndIsComplete ==
    (handle.done /\ handle.err = "none" /\ shape.sink = "collect" /\ shape.flow # "batch"
       /\ ~user.stopped /\ ~user.panicked) => Received = Reference

\* The stream terminates: Done is closed, unless a flow panicked (its neighbours
\* are never told) or the source ticks for ever.
StreamTerminated ==
    (shape.source # "tick" /\ ~(shape.fault = "panic" /\ shape.where = "flow")) => handle.done
StreamTerminates == <>StreamTerminated
===========================================================================
