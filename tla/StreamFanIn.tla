---------------------------- MODULE StreamFanIn ----------------------------
(***************************************************************************)
(* Fan-in of streams: Merge, Concat, Zip (and its two-source form Combine), *)
(* MergeLatest, MergePreferred/MergePrioritized and MergeSequence.  Each is *)
(* a source stage that materializes its inputs as sub-pipelines, whose      *)
(* sinks tell it mergeSubValue and, once, mergeSubDone.                     *)
(*                                                                         *)
(* An input is a process that emits its items in order and ends, by         *)
(* completing or by failing: makeMergeSinkDesc calls onComplete either way. *)
(* The sub-pipelines have demand of their own, so an input is never held    *)
(* back by the fan-in stage.  The stage feeds a sinkActor.                  *)
(***************************************************************************)
EXTENDS Integers, Sequences, SequencesExt, FiniteSets, FiniteSetsExt

CONSTANTS
    Inputs,            \* the items of every input, by slot
    Kinds,             \* subset of the operators above
    Preferred,         \* the slot MergePreferred drains first
    InitialDemand, RefillThreshold

VARIABLES kind, input, stage, box, sink

vars == <<kind, input, stage, box, sink>>

Slots == DOMAIN Inputs
Msg(t) == [t |-> t]
Element(v) == [t |-> "element", v |-> v]

Init ==
    /\ kind \in Kinds
    /\ input = [i \in Slots |-> [items |-> Inputs[i], state |-> "idle"]]
    /\ stage = [alive |-> TRUE, demand |-> 0, current |-> 0, done |-> {}, seen |-> {},
                buf |-> <<>>, bufs |-> [i \in Slots |-> <<>>],
                cache |-> [i \in Slots |-> 0], snapshots |-> 0, heap |-> {}, expected |-> 0]
    /\ box = [stage |-> <<Msg("wire"), [t |-> "request", n |-> InitialDemand]>>, sink |-> <<>>]
    /\ sink = [credit |-> InitialDemand, got |-> <<>>, end |-> "none", cancelled |-> FALSE]

---------------------------------------------------------------------------
(* Inputs: the sub-pipelines. *)

TellStage(m) == box' = IF stage.alive THEN [box EXCEPT !.stage = Append(@, m)] ELSE box

InputEmits(i) ==
    /\ input[i].state = "running" /\ input[i].items # <<>>
    /\ input' = [input EXCEPT ![i].items = Tail(@)]
    /\ TellStage([t |-> "value", slot |-> i, v |-> Head(input[i].items)])
    /\ UNCHANGED <<kind, stage, sink>>

\* The sub-sink's onComplete: when the input completed, or failed before.
InputEnds(i) ==
    /\ input[i].state = "running"
    /\ \E how \in IF input[i].items = <<>> THEN {"done"} ELSE {"failed"} :
         input' = [input EXCEPT ![i].state = how]
    /\ TellStage([t |-> "done", slot |-> i])
    /\ UNCHANGED <<kind, stage, sink>>

---------------------------------------------------------------------------
(* What each operator does with what it has: tryFlush / tryEmit.  They      *)
(* return the new state, what is emitted and how the stream ends.           *)

Drained(st, outs, st2, end) == [st |-> [st2 EXCEPT !.demand = st.demand - Len(outs)],
                                outs |-> outs, end |-> end]
Least(a, b) == IF a <= b THEN a ELSE b

\* As if the stream completed with its last input, whatever is still queued.
mergeTryFlushEarly(st) ==
    LET k == Least(st.demand, Len(st.buf))
    IN  Drained(st, SubSeq(st.buf, 1, k), [st EXCEPT !.buf = SubSeq(@, k + 1, Len(@))],
                IF st.done = Slots THEN "complete" ELSE "none")
\* mergeSourceActor and concatSourceActor: one queue.
mergeTryFlush(st) ==
    LET k == Least(st.demand, Len(st.buf))
        left == SubSeq(st.buf, k + 1, Len(st.buf))
    IN  Drained(st, SubSeq(st.buf, 1, k), [st EXCEPT !.buf = left],
                IF st.done = Slots /\ left = <<>> THEN "complete" ELSE "none")
concatTryFlush(st) == mergeTryFlush(st)

\* zipNSourceActor: a tuple while every queue has a head.
zipTryEmit(st) ==
    LET k == Min({Len(st.bufs[i]) : i \in Slots} \union {st.demand})
        left == [i \in Slots |-> SubSeq(st.bufs[i], k + 1, Len(st.bufs[i]))]
    IN  Drained(st, [j \in 1 .. k |-> [i \in Slots |-> st.bufs[i][j]]], [st EXCEPT !.bufs = left],
                IF \E i \in st.done : left[i] = <<>> THEN "complete" ELSE "none")

\* mergeLatestSourceActor: queued snapshots are all taken from the cache of now.
latestTryEmit(st) ==
    LET k == Least(st.demand, st.snapshots)
    IN  Drained(st, [j \in 1 .. k |-> st.cache], [st EXCEPT !.snapshots = @ - k],
                IF st.done = Slots /\ st.snapshots = k THEN "complete" ELSE "none")

\* selectSlot of MergePreferred; MergePrioritized may choose any slot with weight.
selectSlots(bufs) ==
    LET ready == {i \in Slots : bufs[i] # <<>>}
    IN  IF ready = {} THEN {}
        ELSE IF kind = "prioritized" THEN ready
        ELSE IF Preferred \in ready THEN {Preferred}
        ELSE {Min(ready)}

\* The queues after the sequence p of slots was popped, and what was popped.
Popped(bufs, p) ==
    FoldLeft(LAMBDA a, i : [bufs |-> [a.bufs EXCEPT ![i] = Tail(@)], outs |-> Append(a.outs, Head(a.bufs[i]))],
             [bufs |-> bufs, outs |-> <<>>], p)

\* weightedMergeSourceActor.tryFlush: the choices of slots it may make.
Picks(st) ==
    LET k == Least(st.demand, FoldFunction(LAMBDA q, a : a + Len(q), 0, st.bufs))
    IN  {p \in [1 .. k -> Slots] :
           \A j \in 1 .. k : /\ \A i \in Slots : Cardinality({l \in 1 .. j : p[l] = i}) <= Len(st.bufs[i])
                             /\ p[j] \in selectSlots(Popped(st.bufs, SubSeq(p, 1, j - 1)).bufs)}

weightedTryFlush(st, p) ==
    LET r == Popped(st.bufs, p)
    IN  Drained(st, r.outs, [st EXCEPT !.bufs = r.bufs],
                IF st.done = Slots /\ \A i \in Slots : r.bufs[i] = <<>> THEN "complete" ELSE "none")

\* mergeSequenceSourceActor: a heap by sequence number; the values are the numbers.
sequenceTryEmit(st) ==
    LET run == {s \in st.heap : st.expected .. s \subseteq st.heap /\ s >= st.expected}
        k == Least(st.demand, Cardinality(run))
        left == st.heap \ (st.expected .. st.expected + k - 1)
    IN  Drained(st, [j \in 1 .. k |-> st.expected + j - 1], [st EXCEPT !.heap = left, !.expected = @ + k],
                IF st.done # Slots THEN "none"
                ELSE IF left = {} THEN "complete"
                ELSE IF st.demand > k THEN "error" ELSE "none")

\* combineSourceActor: a left and a right queue; the stream ends when an exhausted
\* side has nothing left.
combineTryEmit(st) == zipTryEmit(st)

Emissions(st) ==
    CASE kind = "merge" -> {mergeTryFlush(st)}
      [] kind = "concat" -> {concatTryFlush(st)}
      [] kind = "zip" -> {zipTryEmit(st)}
      [] kind = "combine" -> {combineTryEmit(st)}
      [] kind = "latest" -> {latestTryEmit(st)}
      [] kind \in {"preferred", "prioritized"} -> {weightedTryFlush(st, p) : p \in Picks(st)}
      [] kind = "sequence" -> {sequenceTryEmit(st)}

---------------------------------------------------------------------------
(* What each operator does with a message before it flushes. *)

Requested(st, m) == [st EXCEPT !.demand = @ + m.n]
SubDone(st, m) == [st EXCEPT !.done = @ \union {m.slot}]
Queued(st, m) == [st EXCEPT !.bufs[m.slot] = Append(@, m.v)]

mergeReceive(st, m) ==
    CASE m.t = "request" -> Requested(st, m)
      [] m.t = "value" -> [st EXCEPT !.buf = Append(@, m.v)]
      [] m.t = "done" -> SubDone(st, m)
\* The input that is done is the current one; spawnNext starts the next.
concatReceive(st, m) ==
    CASE m.t = "request" -> Requested(st, m)
      [] m.t = "value" -> [st EXCEPT !.buf = Append(@, m.v)]
      [] m.t = "done" -> [st EXCEPT !.done = @ \union {st.current}, !.current = Least(@ + 1, Max(Slots))]
zipReceive(st, m) ==
    CASE m.t = "request" -> Requested(st, m)
      [] m.t = "value" -> Queued(st, m)
      [] m.t = "done" -> SubDone(st, m)
combineReceive(st, m) ==
    CASE m.t = "request" -> Requested(st, m)
      [] m.t = "value" -> Queued(st, m)
      [] m.t = "done" -> SubDone(st, m)
\* A value is cached; once every input was seen each value asks for a snapshot.
latestReceive(st, m) ==
    CASE m.t = "request" -> Requested(st, m)
      [] m.t = "value" -> LET s == st.seen \union {m.slot}
                          IN [st EXCEPT !.cache[m.slot] = m.v, !.seen = s,
                                        !.snapshots = IF s = Slots THEN @ + 1 ELSE @]
      [] m.t = "done" -> SubDone(st, m)
weightedReceive(st, m) ==
    CASE m.t = "request" -> Requested(st, m)
      [] m.t = "value" -> Queued(st, m)
      [] m.t = "done" -> SubDone(st, m)
sequenceReceive(st, m) ==
    CASE m.t = "request" -> Requested(st, m)
      [] m.t = "value" -> [st EXCEPT !.heap = @ \union {m.v}]
      [] m.t = "done" -> SubDone(st, m)

Receive(st, m) ==
    CASE kind = "merge" -> mergeReceive(st, m)
      [] kind = "concat" -> concatReceive(st, m)
      [] kind = "zip" -> zipReceive(st, m)
      [] kind = "combine" -> combineReceive(st, m)
      [] kind = "latest" -> latestReceive(st, m)
      [] kind \in {"preferred", "prioritized"} -> weightedReceive(st, m)
      [] kind = "sequence" -> sequenceReceive(st, m)

---------------------------------------------------------------------------
(* The fan-in stage. *)

Turn(p, t) == box[p] # <<>> /\ Head(box[p]).t = t
StageTurn(t) == stage.alive /\ Turn("stage", t)

\* The handler's state st is flushed; the stage stops when the stream ends.
Flush(st) ==
    \E r \in Emissions(st) :
        /\ stage' = [r.st EXCEPT !.alive = r.end = "none"]
        /\ box' = [stage |-> IF r.end = "none" THEN Tail(box.stage) ELSE <<>>,
                   sink |-> IF sink.end # "none" THEN <<>>
                            ELSE box.sink \o [j \in DOMAIN r.outs |-> Element(r.outs[j])]
                                          \o (IF r.end = "none" THEN <<>> ELSE <<Msg(r.end)>>)]

\* stageWire materializes the inputs; Concat only the first one.
StageWire ==
    /\ StageTurn("wire")
    /\ input' = [i \in Slots |-> IF kind = "concat" /\ i # Min(Slots) THEN input[i]
                                 ELSE [input[i] EXCEPT !.state = "running"]]
    /\ stage' = [stage EXCEPT !.current = Min(Slots)]
    /\ box' = [box EXCEPT !.stage = Tail(@)]
    /\ UNCHANGED <<kind, sink>>

\* spawnNext of Concat: the next input starts, and nothing is flushed.
spawnNext ==
    /\ StageTurn("done") /\ kind = "concat" /\ stage.current < Max(Slots)
    /\ stage' = Receive(stage, Head(box.stage))
    /\ input' = [input EXCEPT ![stage.current + 1].state = "running"]
    /\ box' = [box EXCEPT !.stage = Tail(@)]
    /\ UNCHANGED <<kind, sink>>

StageReceive ==
    /\ StageTurn("request") \/ StageTurn("value")
       \/ (StageTurn("done") /\ ~(kind = "concat" /\ stage.current < Max(Slots)))
    /\ Flush(Receive(stage, Head(box.stage)))
    /\ UNCHANGED <<kind, input, sink>>

\* streamCancel completes the downstream; the inputs are not cancelled.
StageCancel ==
    /\ StageTurn("cancel")
    /\ stage' = [stage EXCEPT !.alive = FALSE]
    /\ box' = [stage |-> <<>>, sink |-> IF sink.end = "none" THEN Append(box.sink, Msg("complete")) ELSE <<>>]
    /\ UNCHANGED <<kind, input, sink>>

---------------------------------------------------------------------------
(* The sink and the caller. *)

SinkElement ==
    /\ sink.end = "none" /\ Turn("sink", "element")
    /\ LET c == sink.credit - 1
           r == IF c <= RefillThreshold THEN InitialDemand - c ELSE 0
       IN  /\ sink' = [sink EXCEPT !.credit = c + r, !.got = Append(@, Head(box.sink).v)]
           /\ box' = [stage |-> IF r > 0 /\ stage.alive
                                THEN Append(box.stage, [t |-> "request", n |-> r]) ELSE box.stage,
                      sink |-> Tail(box.sink)]
    /\ UNCHANGED <<kind, input, stage>>

SinkEnds ==
    /\ sink.end = "none" /\ (Turn("sink", "complete") \/ Turn("sink", "error"))
    /\ sink' = [sink EXCEPT !.end = Head(box.sink).t]
    /\ box' = [box EXCEPT !.sink = <<>>]
    /\ UNCHANGED <<kind, input, stage>>

\* StreamHandle.Stop.
Stop ==
    /\ ~sink.cancelled /\ stage.alive
    /\ sink' = [sink EXCEPT !.cancelled = TRUE]
    /\ TellStage(Msg("cancel"))
    /\ UNCHANGED <<kind, input, stage>>

System == \/ StageWire \/ spawnNext \/ StageReceive \/ StageCancel
          \/ SinkElement \/ SinkEnds
          \/ \E i \in Slots : InputEmits(i) \/ InputEnds(i)

Next == System \/ Stop

\* Every stage with a message is given a turn, and the inputs are finite.
Spec == Init /\ [][Next]_vars /\ WF_vars(System)

---------------------------------------------------------------------------
(* Properties. *)

Shortest == Min({Len(Inputs[i]) : i \in Slots})
Of(s, i) == SelectSeq(s, LAMBDA v : v \in ToSet(Inputs[i]))

\* The order each operator promises: inputs are never reordered; Concat emits
\* them one after the other, Zip pairs the heads, MergeSequence counts up, and
\* the snapshots of MergeLatest only move forward.
FanInOrder ==
    LET got == sink.got
    IN  CASE kind \in {"merge", "preferred", "prioritized"} ->
               \A i \in Slots : IsPrefix(Of(got, i), Inputs[i])
          [] kind = "concat" ->
               \* a failed input is cut short, so each part is a prefix
               /\ \A i \in Slots : IsPrefix(Of(got, i), Inputs[i])
               /\ \A j, k \in DOMAIN got : j < k =>
                    \A a, b \in Slots : got[j] \in ToSet(Inputs[a]) /\ got[k] \in ToSet(Inputs[b]) => a <= b
          [] kind \in {"zip", "combine"} ->
               Len(got) <= Shortest /\ \A j \in DOMAIN got : got[j] = [i \in Slots |-> Inputs[i][j]]
          [] kind = "sequence" -> \A j \in DOMAIN got : got[j] = j - 1
          [] kind = "latest" ->
               \A j \in DOMAIN got : \A i \in Slots :
                  /\ got[j][i] \in ToSet(Inputs[i])
                  /\ j > 1 => got[j - 1][i] <= got[j][i]

\* When the inputs all completed and the stream completes without being stopped,
\* nothing is missing: every element came through, a tuple for every index of
\* the shortest input, a snapshot for every element once all inputs were seen.
Sizes == [i \in Slots |-> Len(Inputs[i])]
Total == FoldFunction(LAMBDA x, a : x + a, 0, Sizes)
FanInComplete ==
    (/\ sink.end = "complete" /\ ~sink.cancelled
     /\ \A i \in Slots : input[i].state # "failed") =>
        CASE kind \in {"merge", "concat", "preferred", "prioritized", "sequence"} -> Len(sink.got) = Total
          [] kind \in {"zip", "combine"} -> Len(sink.got) = Shortest
          [] kind = "latest" -> /\ sink.got[Len(sink.got)] = [i \in Slots |-> Last(Inputs[i])]
                                /\ Len(sink.got) >= Shortest

\* MergeSequence fails exactly when a number is missing.
GapIsReported ==
    (kind = "sequence" /\ sink.end = "error") => \E i \in Slots : input[i].state = "failed"

\* The stream ends, and only after every input that can still contribute ended.
FanInEnded == sink.end # "none"
FanInEnds == <>FanInEnded
===========================================================================
