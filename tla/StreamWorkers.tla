--------------------------- MODULE StreamWorkers ---------------------------
(***************************************************************************)
(* The flow stages that work on several elements at once: ParallelMap and   *)
(* OrderedParallelMap, which deal elements to worker actors, and FlatMap of *)
(* sources, which runs an inner pipeline per element.  Their upstream is a  *)
(* pull source of 1 .. N, their downstream a sink, which may fail on the    *)
(* element conf.sinkBad; conf.bad is the element whose function panics or   *)
(* whose inner source fails.                                                *)
(***************************************************************************)
EXTENDS Integers, Sequences, SequencesExt, FiniteSets, FiniteSetsExt, ActorMail

CONSTANTS
    N,
    Confs,           \* [kind, bad, sinkBad, upFails]
    Workers,         \* workersCount of ParallelMap, breadth of FlatMap
    InitialDemand, RefillThreshold

VARIABLES conf, up, st, work, sink, box

vars == <<conf, up, st, work, sink, box>>

UP == "up"
STAGE == "stage"
SINK == "sink"
Parties == {UP, STAGE, SINK}
IsFlatMap == conf.kind = "flatMap"

Init ==
    /\ conf \in Confs
    /\ up = [items |-> [i \in 1 .. N |-> i], alive |-> TRUE]
    /\ st = [alive |-> TRUE, inFlight |-> 0, seqNo |-> 0, nextEmit |-> 0, pending |-> {}, upDone |-> FALSE,
             next |-> 0, outBuf |-> <<>>, demand |-> 0, credit |-> 0]
    \* the tasks of every worker; the outputs every inner pipeline has left
    /\ work = [tasks |-> [w \in 0 .. Workers - 1 |-> <<>>], inner |-> [i \in {} |-> 0]]
    /\ sink = [credit |-> InitialDemand, got |-> <<>>, end |-> "none"]
    /\ box = [p \in Parties |-> IF p = STAGE THEN <<Msg("wire"), [t |-> "request", n |-> InitialDemand]>> ELSE <<>>]

Live == {p \in Parties : CASE p = UP -> up.alive [] p = STAGE -> st.alive [] p = SINK -> sink.end = "none"}
Turn(p, t) == p \in Live /\ box[p] # <<>> /\ Head(box[p]).t = t
Done(p, stops, tells) == box' = AfterTurn(box, Live, p, stops, tells)
Request(n) == [t |-> "request", n |-> n]
Element(v) == <<SINK, [t |-> "element", v |-> v]>>

---------------------------------------------------------------------------
(* The pull source. *)

UpRequest ==
    /\ Turn(UP, "request")
    /\ LET k == Min({Head(box[UP]).n, Len(up.items)})
           ends == k = Len(up.items)
       IN  /\ up' = [items |-> SubSeq(up.items, k + 1, Len(up.items)), alive |-> ~ends]
           /\ Done(UP, ends, [j \in 1 .. k |-> <<STAGE, [t |-> "element", v |-> up.items[j]]>>]
                             \o (IF ends THEN <<<<STAGE, Msg(IF conf.upFails THEN "error" ELSE "complete")>>>> ELSE <<>>))
    /\ UNCHANGED <<conf, st, work, sink>>

UpCancel ==
    /\ Turn(UP, "cancel")
    /\ up' = [up EXCEPT !.alive = FALSE]
    /\ Done(UP, TRUE, <<<<STAGE, Msg("complete")>>>>)
    /\ UNCHANGED <<conf, st, work, sink>>

---------------------------------------------------------------------------
(* Both stages. *)

Wire ==
    /\ Turn(STAGE, "wire")
    /\ st' = [st EXCEPT !.credit = Workers]
    /\ Done(STAGE, FALSE, <<<<UP, Request(Workers)>>>>)
    /\ UNCHANGED <<conf, up, work, sink>>

\* The stage stops with these messages; FlatMap aborts its inner pipelines and
\* PostStop of ParallelMap stops its workers.
StageStops(tells) ==
    /\ st' = [st EXCEPT !.alive = FALSE]
    /\ work' = [tasks |-> [w \in 0 .. Workers - 1 |-> <<>>], inner |-> [i \in {} |-> 0]]
    /\ Done(STAGE, TRUE, tells)

StageError ==
    /\ Turn(STAGE, "error")
    /\ StageStops((IF IsFlatMap THEN <<<<UP, Msg("cancel")>>>> ELSE <<>>) \o <<<<SINK, Msg("error")>>>>)
    /\ UNCHANGED <<conf, up, sink>>

\* Told by the sink when it fails.
StageCancel ==
    /\ Turn(STAGE, "cancel")
    /\ StageStops(<<<<UP, Msg("cancel")>>>> \o (IF IsFlatMap THEN <<>> ELSE <<<<SINK, Msg("complete")>>>>))
    /\ UNCHANGED <<conf, up, sink>>

---------------------------------------------------------------------------
(* ParallelMap: downstream demand is not looked at. *)

\* streamRequest is not a message this stage handles.
ParallelRequest ==
    /\ ~IsFlatMap /\ Turn(STAGE, "request")
    /\ Done(STAGE, FALSE, <<>>)
    /\ UNCHANGED <<conf, up, st, work, sink>>

ParallelElement ==
    /\ ~IsFlatMap /\ Turn(STAGE, "element")
    /\ st' = [st EXCEPT !.inFlight = @ + 1, !.seqNo = @ + 1, !.next = (@ + 1) % Workers]
    /\ work' = [work EXCEPT !.tasks[st.next] = Append(@, [seqNo |-> st.seqNo + 1, v |-> Head(box[STAGE]).v])]
    /\ Done(STAGE, FALSE, <<>>)
    /\ UNCHANGED <<conf, up, sink>>

\* A worker runs the function; a panic is recovered into the result's error.
WorkerRuns(w) ==
    /\ work.tasks[w] # <<>>
    /\ LET task == Head(work.tasks[w])
       IN  box' = Told(box, Live, <<<<STAGE, [t |-> "result", seqNo |-> task.seqNo, v |-> task.v,
                                             err |-> task.v = conf.bad]>>>>)
    /\ work' = [work EXCEPT !.tasks[w] = Tail(@)]
    /\ UNCHANGED <<conf, up, st, sink>>

\* flushOrdered: the results from the next sequence number on, without a gap.
Flushable(pending, nextEmit) ==
    {r \in pending : \A s \in nextEmit + 1 .. r.seqNo : \E q \in pending : q.seqNo = s}
InSeqOrder(rs) == SetToSortSeq(rs, LAMBDA a, b : a.seqNo < b.seqNo)

ParallelResult ==
    /\ ~IsFlatMap /\ Turn(STAGE, "result")
    /\ LET m == Head(box[STAGE])
           pending == st.pending \union {m}
           out == IF conf.kind = "ordered" THEN Flushable(pending, st.nextEmit) ELSE {m}
           ends == st.upDone /\ st.inFlight = 1
           outs == InSeqOrder(out)
           tells == [j \in DOMAIN outs |-> Element(outs[j].v)]
                    \o (IF st.upDone THEN <<>> ELSE <<<<UP, Request(1)>>>>)
       IN  IF m.err THEN StageStops(<<<<UP, Msg("cancel")>>, <<SINK, Msg("error")>>>>)
           ELSE IF ends THEN StageStops(tells \o <<<<SINK, Msg("complete")>>>>)
           ELSE /\ st' = [st EXCEPT !.inFlight = @ - 1, !.pending = IF conf.kind = "ordered" THEN pending \ out ELSE {},
                                    !.nextEmit = @ + Cardinality(out)]
                /\ Done(STAGE, FALSE, tells) /\ UNCHANGED work
    /\ UNCHANGED <<conf, up, sink>>

ParallelComplete ==
    /\ ~IsFlatMap /\ Turn(STAGE, "complete")
    /\ IF st.inFlight = 0 THEN StageStops(<<<<SINK, Msg("complete")>>>>)
       ELSE /\ st' = [st EXCEPT !.upDone = TRUE]
            /\ Done(STAGE, FALSE, <<>>) /\ UNCHANGED work
    /\ UNCHANGED <<conf, up, sink>>

---------------------------------------------------------------------------
(* FlatMap; the inner source of v emits v twice. *)

\* tryFlush and maybeComplete, after the messages tells.
FlatFlush(s, tells) ==
    LET k == Min({s.demand, Len(s.outBuf)})
        left == SubSeq(s.outBuf, k + 1, Len(s.outBuf))
        ends == s.upDone /\ s.inFlight = 0 /\ left = <<>>
        all == tells \o [j \in 1 .. k |-> Element(s.outBuf[j])]
    IN  IF ends THEN StageStops(all \o <<<<SINK, Msg("complete")>>>>)
        ELSE /\ st' = [s EXCEPT !.demand = @ - k, !.outBuf = left]
             /\ Done(STAGE, FALSE, all)

FlatRequest ==
    /\ IsFlatMap /\ Turn(STAGE, "request")
    /\ FlatFlush([st EXCEPT !.demand = @ + Head(box[STAGE]).n], <<>>)
    /\ (st'.alive => UNCHANGED work)
    /\ UNCHANGED <<conf, up, sink>>

\* spawnInner.
FlatElement ==
    /\ IsFlatMap /\ Turn(STAGE, "element")
    /\ LET v == Head(box[STAGE]).v
       IN  work' = [work EXCEPT !.inner = [i \in DOMAIN @ \union {v} |-> IF i = v THEN 2 ELSE @[i]]]
    /\ st' = [st EXCEPT !.credit = @ - 1, !.inFlight = @ + 1]
    /\ Done(STAGE, FALSE, <<>>)
    /\ UNCHANGED <<conf, up, sink>>

\* The inner pipeline of v: its merge sink tells subOut, then subDone or subErr.
InnerRuns(v) ==
    /\ v \in DOMAIN work.inner
    /\ LET left == work.inner[v]
           fails == v = conf.bad /\ left = 1
           m == IF left > 0 /\ ~fails THEN [t |-> "out", v |-> v] ELSE Msg(IF fails THEN "subErr" ELSE "subDone")
       IN  /\ work' = [work EXCEPT !.inner = IF m.t = "out" THEN [@ EXCEPT ![v] = left - 1]
                                             ELSE [i \in DOMAIN @ \ {v} |-> @[i]]]
           /\ box' = Told(box, Live, <<<<STAGE, m>>>>)
    /\ UNCHANGED <<conf, up, st, sink>>

FlatOut ==
    /\ IsFlatMap /\ Turn(STAGE, "out")
    /\ FlatFlush([st EXCEPT !.outBuf = Append(@, Head(box[STAGE]).v)], <<>>)
    /\ (st'.alive => UNCHANGED work)
    /\ UNCHANGED <<conf, up, sink>>

\* subDone: maybeRequestMore, then tryFlush.
FlatDone ==
    /\ IsFlatMap /\ Turn(STAGE, "subDone")
    /\ LET active == st.inFlight - 1
           refill == IF st.upDone THEN 0 ELSE Max({Workers - (st.credit + active), 0})
       IN  FlatFlush([st EXCEPT !.inFlight = active, !.credit = @ + refill],
                     IF refill > 0 THEN <<<<UP, Request(refill)>>>> ELSE <<>>)
    /\ (st'.alive => UNCHANGED work)
    /\ UNCHANGED <<conf, up, sink>>

FlatErr ==
    /\ IsFlatMap /\ Turn(STAGE, "subErr")
    /\ StageStops(<<<<UP, Msg("cancel")>>, <<SINK, Msg("error")>>>>)
    /\ UNCHANGED <<conf, up, sink>>

\* streamComplete: maybeComplete, which flushes nothing.
FlatComplete ==
    /\ IsFlatMap /\ Turn(STAGE, "complete")
    /\ IF st.inFlight = 0 /\ st.outBuf = <<>> THEN StageStops(<<<<SINK, Msg("complete")>>>>)
       ELSE /\ st' = [st EXCEPT !.upDone = TRUE]
            /\ Done(STAGE, FALSE, <<>>) /\ UNCHANGED work
    /\ UNCHANGED <<conf, up, sink>>

---------------------------------------------------------------------------
(* The sink (sinkActor). *)

SinkElement ==
    /\ Turn(SINK, "element")
    /\ LET v == Head(box[SINK]).v
           c == sink.credit - 1
           r == IF c <= RefillThreshold THEN InitialDemand - c ELSE 0
       IN  IF v = conf.sinkBad
           THEN sink' = [sink EXCEPT !.end = "error"] /\ Done(SINK, TRUE, <<<<STAGE, Msg("cancel")>>>>)
           ELSE /\ sink' = [sink EXCEPT !.credit = c + r, !.got = Append(@, v)]
                /\ Done(SINK, FALSE, IF r > 0 THEN <<<<STAGE, Request(r)>>>> ELSE <<>>)
    /\ UNCHANGED <<conf, up, st, work>>

SinkEnds ==
    /\ Turn(SINK, "complete") \/ Turn(SINK, "error")
    /\ sink' = [sink EXCEPT !.end = Head(box[SINK]).t]
    /\ Done(SINK, TRUE, <<>>)
    /\ UNCHANGED <<conf, up, st, work>>

Next ==
    \/ UpRequest \/ UpCancel \/ Wire \/ StageError \/ StageCancel
    \/ ParallelRequest \/ ParallelElement \/ ParallelResult \/ ParallelComplete
    \/ FlatRequest \/ FlatElement \/ FlatOut \/ FlatDone \/ FlatErr \/ FlatComplete
    \/ SinkElement \/ SinkEnds
    \/ \E w \in 0 .. Workers - 1 : WorkerRuns(w)
    \/ \E v \in 1 .. N : InnerRuns(v)

\* Every actor with a message is given a turn, every inner pipeline runs.
Spec == Init /\ [][Next]_vars /\ WF_vars(Next)

---------------------------------------------------------------------------
(* Properties. *)

Copies(s, v) == Cardinality({j \in DOMAIN s : s[j] = v})
Expected == IF IsFlatMap THEN 2 ELSE 1

\* No element is put out more often than it was produced; the ordered map puts
\* the results out in the order of its input whatever order the workers finish
\* in; a stream that completes without a failure has put out everything.
WorkersExact ==
    /\ \A v \in 1 .. N : Copies(sink.got, v) <= Expected
    /\ conf.kind = "ordered" => \A j \in DOMAIN sink.got : sink.got[j] = j
    /\ sink.end = "complete" => \A v \in 1 .. N : Copies(sink.got, v) = Expected

\* Never more work at once than asked for: what the stage has requested and not
\* finished, elements on the way included, is within the worker count.
WorkBounded ==
    LET coming == Len(SelectSeq(box[STAGE], LAMBDA m : m.t = "element"))
        asked == FoldLeft(LAMBDA a, m : IF m.t = "request" THEN a + m.n ELSE a, 0, box[UP])
    IN  st.alive => st.inFlight + coming + asked <= Workers

\* The stream ends and the work it started ends with it.
WorkersEnded == sink.end # "none" /\ ~up.alive /\ ~st.alive /\ DOMAIN work.inner = {}
WorkersEnd == <>WorkersEnded
===========================================================================
