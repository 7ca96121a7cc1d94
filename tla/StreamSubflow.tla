--------------------------- MODULE StreamSubflow ---------------------------
(***************************************************************************)
(* GroupBy, SplitWhen and SplitAfter: the splitter actor routes the         *)
(* elements of its upstream to substreams, one pipeline per key, and merges *)
(* what they put out.  A substream is a feed actor, which the splitter      *)
(* pushes to and which acknowledges in batches what it passed on, and a     *)
(* tail: the substream's flow, failing on the element conf.bad, together    *)
(* with its sink, which tells the splitter subOut and then subDone or       *)
(* subErr.  The upstream has demand of its own; its feeder sink stops when  *)
(* a Tell to the splitter fails.                                            *)
(***************************************************************************)
EXTENDS Integers, Sequences, SequencesExt, FiniteSets, FiniteSetsExt, ActorMail

CONSTANTS
    N,                  \* the upstream emits 1 .. N
    Confs,              \* [mode, overflow, onError, bad, maxSubs, fails, stops]
    PerKeyBuffer,       \* the in-flight cap of one substream
    InitialDemand, RefillThreshold

VARIABLES conf, up, sp, sub, sink, box

vars == <<conf, up, sp, sub, sink, box>>

Ids == 1 .. N     \* at most one substream per element
Parties == {<<"splitter", 0>>, <<"sink", 0>>} \union ({"feed", "tail"} \X Ids)
SPLITTER == <<"splitter", 0>>
SINK == <<"sink", 0>>
Feed(i) == <<"feed", i>>
TailOf(i) == <<"tail", i>>

keyFn(v) == v % 2
splitPred(v) == v % 2 = 0
ackThreshold == Max({PerKeyBuffer \div 4, 1})

NoSub == [key |-> 0, feed |-> FALSE, tail |-> FALSE, buf |-> <<>>, feedDone |-> FALSE,
          demand |-> 0, unacked |-> 0, credit |-> 0, pushed |-> <<>>]

Init ==
    /\ conf \in Confs
    /\ up = [items |-> [i \in 1 .. N |-> i], state |-> "idle", failed |-> FALSE]
    /\ sp = [alive |-> TRUE, demand |-> 0, buf |-> <<>>, children |-> [k \in {} |-> 0], active |-> 0,
             blocked |-> {}, counter |-> 0, hasElements |-> FALSE, upDone |-> FALSE,
             dropped |-> {}, spawned |-> 0]
    /\ sub = [i \in Ids |-> NoSub]
    /\ sink = [credit |-> InitialDemand, got |-> <<>>, end |-> "none", cancelled |-> FALSE]
    /\ box = [p \in Parties |-> IF p = SPLITTER
                                THEN <<Msg("wire"), [t |-> "request", n |-> InitialDemand]>> ELSE <<>>]

Live == {p \in Parties : CASE p = SPLITTER -> sp.alive
                           [] p = SINK -> sink.end = "none"
                           [] p[1] = "feed" -> sub[p[2]].feed
                           [] p[1] = "tail" -> sub[p[2]].tail}

Turn(p, t) == p \in Live /\ box[p] # <<>> /\ Head(box[p]).t = t
Done(p, stops, tells) == box' = AfterTurn(box, Live, p, stops, tells)

---------------------------------------------------------------------------
(* The upstream pipeline, ending in makeUpstreamFeederSinkDesc. *)

UpstreamEmits ==
    /\ up.state = "running" /\ up.items # <<>>
    /\ up' = [up EXCEPT !.items = Tail(@), !.state = IF sp.alive THEN @ ELSE "ended"]
    /\ box' = Told(box, Live, <<<<SPLITTER, [t |-> "elem", v |-> Head(up.items)]>>>>)
    /\ UNCHANGED <<conf, sp, sub, sink>>

\* The sink's onComplete, on completion and on error alike.
UpstreamEnds ==
    /\ up.state = "running" /\ (up.items = <<>> \/ conf.fails)
    /\ up' = [up EXCEPT !.state = "ended", !.failed = up.items # <<>>]
    /\ box' = Told(box, Live, <<<<SPLITTER, Msg("upDone")>>>>)
    /\ UNCHANGED <<conf, sp, sub, sink>>

---------------------------------------------------------------------------
(* The splitter. *)

ChildHeads(t) == LET ks == SetToSeq(DOMAIN sp.children)
                 IN  [j \in DOMAIN ks |-> <<Feed(sp.children[ks[j]].id), Msg(t)>>]

\* maybeComplete at the end of a handler that leaves the splitter in state st.
CompleteOr(st, tells) ==
    LET done == st.upDone /\ st.active = 0 /\ st.buf = <<>>
    IN  /\ sp' = [st EXCEPT !.alive = ~done]
        /\ Done(SPLITTER, done, tells \o (IF done THEN <<<<SINK, Msg("complete")>>>> ELSE <<>>))

\* fail: cancel the substreams, error downstream.
Fail(st) ==
    /\ sp' = [st EXCEPT !.alive = FALSE]
    /\ Done(SPLITTER, TRUE, ChildHeads("cancel") \o <<<<SINK, Msg("error")>>>>)

\* tryFlush.
Flush(st) ==
    LET k == Min({st.demand, Len(st.buf)})
    IN  CompleteOr([st EXCEPT !.demand = @ - k, !.buf = SubSeq(@, k + 1, Len(@))],
                   [j \in 1 .. k |-> <<SINK, [t |-> "element", v |-> st.buf[j]]>>])

SplitterWire ==
    /\ Turn(SPLITTER, "wire")
    /\ up' = [up EXCEPT !.state = "running"]
    /\ Done(SPLITTER, FALSE, <<>>)
    /\ UNCHANGED <<conf, sp, sub, sink>>

SplitterRequest ==
    /\ Turn(SPLITTER, "request")
    /\ Flush([sp EXCEPT !.demand = @ + Head(box[SPLITTER]).n])
    /\ UNCHANGED <<conf, up, sub, sink>>

SplitterOut ==
    /\ Turn(SPLITTER, "out")
    /\ Flush([sp EXCEPT !.buf = Append(@, Head(box[SPLITTER]).v)])
    /\ UNCHANGED <<conf, up, sub, sink>>

\* rotateSplitSubstream: end the current substream, count on.
rotateTells(key) == IF key \in DOMAIN sp.children THEN <<<<Feed(sp.children[key].id), Msg("feedDone")>>>> ELSE <<>>
Rotated(st) == [st EXCEPT !.counter = @ + 1, !.hasElements = FALSE]

\* routeElement.  r is the splitter after a SplitWhen rotation, pre its messages.
Route(v, r, pre) ==
    LET key == IF conf.mode = "GroupBy" THEN keyFn(v) ELSE r.counter
        new == key \notin DOMAIN r.children
        id == IF new THEN r.spawned + 1 ELSE r.children[key].id
        kids == IF new THEN [k \in DOMAIN r.children \union {key} |->
                               IF k = key THEN [id |-> id, inFlight |-> 0] ELSE r.children[k]]
                ELSE r.children
        st == [r EXCEPT !.children = kids, !.active = IF new THEN @ + 1 ELSE @,
                        !.spawned = IF new THEN id ELSE @]
        lost == [st EXCEPT !.dropped = @ \union {v}]
        after == conf.mode = "After" /\ splitPred(v)
        pushed == [st EXCEPT !.children[key].inFlight = @ + 1,
                             !.hasElements = (conf.mode = "When") \/ @]
    IN  CASE key \in r.blocked ->
               /\ sp' = [r EXCEPT !.dropped = @ \union {v}]
               /\ Done(SPLITTER, FALSE, pre) /\ UNCHANGED sub
          [] new /\ conf.maxSubs > 0 /\ Cardinality(DOMAIN r.children) >= conf.maxSubs /\ key \notin r.blocked ->
               Fail(r) /\ UNCHANGED sub
          [] kids[key].inFlight >= PerKeyBuffer /\ key \notin r.blocked /\ ~new ->
               /\ IF conf.overflow = "FailSource" THEN Fail(st)
                  ELSE sp' = lost /\ Done(SPLITTER, FALSE, pre)
               /\ UNCHANGED sub
          [] OTHER ->
               /\ sp' = IF after THEN Rotated(pushed) ELSE pushed
               /\ sub' = [sub EXCEPT ![id] =
                            IF new THEN [NoSub EXCEPT !.key = key, !.feed = TRUE, !.tail = TRUE, !.pushed = <<v>>]
                            ELSE [@ EXCEPT !.pushed = Append(@, v)]]
               /\ box' = [AfterTurn(box, Live \union {Feed(id)}, SPLITTER, FALSE,
                            pre \o <<<<Feed(id), [t |-> "push", v |-> v]>>>>
                                \o (IF after THEN <<<<Feed(id), Msg("feedDone")>>>> ELSE <<>>))
                          EXCEPT ![TailOf(id)] = IF new THEN <<Msg("wire")>> ELSE @]

SplitterElem ==
    /\ Turn(SPLITTER, "elem")
    /\ LET v == Head(box[SPLITTER]).v
           when == conf.mode = "When" /\ sp.hasElements /\ splitPred(v)
       IN  Route(v, IF when THEN Rotated(sp) ELSE sp, IF when THEN rotateTells(sp.counter) ELSE <<>>)
    /\ UNCHANGED <<conf, up, sink>>

SplitterUpDone ==
    /\ Turn(SPLITTER, "upDone")
    /\ CompleteOr([sp EXCEPT !.upDone = TRUE], ChildHeads("feedDone"))
    /\ UNCHANGED <<conf, up, sub, sink>>

\* As if only the map of substreams were updated, and not their number.
WithoutCount(st, key) == [st EXCEPT !.children = [k \in DOMAIN @ \ {key} |-> @[k]]]
Without(st, key) == [st EXCEPT !.children = [k \in DOMAIN @ \ {key} |-> @[k]], !.active = @ - 1]

\* handleDone.
SplitterDone ==
    /\ Turn(SPLITTER, "done")
    /\ CompleteOr(Without(sp, Head(box[SPLITTER]).key), <<>>)
    /\ UNCHANGED <<conf, up, sub, sink>>

\* handleErr.
SplitterErr ==
    /\ Turn(SPLITTER, "err")
    /\ LET key == Head(box[SPLITTER]).key
           st == Without(sp, key)
       IN  CASE conf.onError = "Drop" -> CompleteOr([st EXCEPT !.blocked = @ \union {key}], <<>>)
             [] conf.onError = "Restart" -> CompleteOr(st, <<>>)
             [] OTHER -> Fail(sp)
    /\ UNCHANGED <<conf, up, sub, sink>>

\* handleAck: by key, whichever substream of that key is running now.
SplitterAck ==
    /\ Turn(SPLITTER, "ack")
    /\ LET m == Head(box[SPLITTER])
       IN  sp' = IF m.key \in DOMAIN sp.children
                 THEN [sp EXCEPT !.children[m.key].inFlight = Max({@ - m.n, 0})] ELSE sp
    /\ Done(SPLITTER, FALSE, <<>>)
    /\ UNCHANGED <<conf, up, sub, sink>>

SplitterCancel ==
    /\ Turn(SPLITTER, "cancel")
    /\ sp' = [sp EXCEPT !.alive = FALSE]
    /\ Done(SPLITTER, TRUE, ChildHeads("cancel") \o <<<<SINK, Msg("complete")>>>>)
    /\ UNCHANGED <<conf, up, sub, sink>>

---------------------------------------------------------------------------
(* A substream. *)

\* feedSourceActor.tryFlush: pass on what is demanded, acknowledge by the batch.
FeedFlush(i, f) ==
    LET k == Min({f.demand, Len(f.buf)})
        un == f.unacked + k
        batches == un \div ackThreshold
        left == SubSeq(f.buf, k + 1, Len(f.buf))
        ends == f.feedDone /\ left = <<>>
        acks == IF ends THEN un ELSE batches * ackThreshold
    IN  /\ sub' = [sub EXCEPT ![i] = [f EXCEPT !.demand = @ - k, !.buf = left, !.unacked = un - acks,
                                               !.feed = ~ends]]
        /\ Done(Feed(i), ends,
                [j \in 1 .. k |-> <<TailOf(i), [t |-> "element", v |-> f.buf[j]]>>]
                \o (IF acks > 0 THEN <<<<SPLITTER, [t |-> "ack", key |-> f.key, n |-> acks]>>>> ELSE <<>>)
                \o (IF ends THEN <<<<TailOf(i), Msg("complete")>>>> ELSE <<>>))

FeedTurn(i) ==
    /\ LET f == sub[i]
           m == Head(box[Feed(i)])
       IN  \/ Turn(Feed(i), "request") /\ FeedFlush(i, [f EXCEPT !.demand = @ + m.n])
           \/ Turn(Feed(i), "push") /\ FeedFlush(i, [f EXCEPT !.buf = Append(@, m.v)])
           \/ Turn(Feed(i), "feedDone") /\ FeedFlush(i, [f EXCEPT !.feedDone = TRUE])
           \/ /\ Turn(Feed(i), "cancel")
              /\ sub' = [sub EXCEPT ![i].feed = FALSE]
              /\ Done(Feed(i), TRUE, <<<<TailOf(i), Msg("complete")>>>>)
    /\ UNCHANGED <<conf, up, sp, sink>>

\* subMergeSinkActor, behind a flow that fails on conf.bad.
TailWire(i) ==
    /\ Turn(TailOf(i), "wire")
    /\ sub' = [sub EXCEPT ![i].credit = InitialDemand]
    /\ Done(TailOf(i), FALSE, <<<<Feed(i), [t |-> "request", n |-> InitialDemand]>>>>)
    /\ UNCHANGED <<conf, up, sp, sink>>

TailElement(i) ==
    /\ Turn(TailOf(i), "element")
    /\ LET v == Head(box[TailOf(i)]).v
           c == sub[i].credit - 1
           refill == IF c <= RefillThreshold THEN InitialDemand - c ELSE 0
       IN  IF v = conf.bad
           THEN /\ sub' = [sub EXCEPT ![i].tail = FALSE]
                /\ Done(TailOf(i), TRUE, <<<<Feed(i), Msg("cancel")>>, <<SPLITTER, [t |-> "err", key |-> sub[i].key]>>>>)
           ELSE /\ sub' = [sub EXCEPT ![i].credit = c + refill]
                /\ Done(TailOf(i), FALSE, <<<<SPLITTER, [t |-> "out", v |-> v]>>>>
                     \o (IF refill > 0 THEN <<<<Feed(i), [t |-> "request", n |-> refill]>>>> ELSE <<>>))
    /\ UNCHANGED <<conf, up, sp, sink>>

TailComplete(i) ==
    /\ Turn(TailOf(i), "complete")
    /\ sub' = [sub EXCEPT ![i].tail = FALSE]
    /\ Done(TailOf(i), TRUE, <<<<SPLITTER, [t |-> "done", key |-> sub[i].key]>>>>)
    /\ UNCHANGED <<conf, up, sp, sink>>

---------------------------------------------------------------------------
(* The downstream sink and the caller. *)

SinkElement ==
    /\ Turn(SINK, "element")
    /\ LET c == sink.credit - 1
           r == IF c <= RefillThreshold THEN InitialDemand - c ELSE 0
       IN  /\ sink' = [sink EXCEPT !.credit = c + r, !.got = Append(@, Head(box[SINK]).v)]
           /\ Done(SINK, FALSE, IF r > 0 THEN <<<<SPLITTER, [t |-> "request", n |-> r]>>>> ELSE <<>>)
    /\ UNCHANGED <<conf, up, sp, sub>>

SinkEnds ==
    /\ Turn(SINK, "complete") \/ Turn(SINK, "error")
    /\ sink' = [sink EXCEPT !.end = Head(box[SINK]).t]
    /\ Done(SINK, TRUE, <<>>)
    /\ UNCHANGED <<conf, up, sp, sub>>

\* StreamHandle.Stop.
Stop ==
    /\ conf.stops /\ ~sink.cancelled /\ sp.alive
    /\ sink' = [sink EXCEPT !.cancelled = TRUE]
    /\ box' = Told(box, Live, <<<<SPLITTER, Msg("cancel")>>>>)
    /\ UNCHANGED <<conf, up, sp, sub>>

Splitter == SplitterWire \/ SplitterRequest \/ SplitterOut \/ SplitterElem \/ SplitterUpDone
            \/ SplitterDone \/ SplitterErr \/ SplitterAck \/ SplitterCancel
Substream(i) == FeedTurn(i) \/ TailWire(i) \/ TailElement(i) \/ TailComplete(i)
Upstream == UpstreamEmits \/ UpstreamEnds
System == Splitter \/ Upstream \/ SinkElement \/ SinkEnds \/ \E i \in Ids : Substream(i)

Next == System \/ Stop

\* Every actor with a message is given a turn.
Spec == Init /\ [][Next]_vars /\ WF_vars(System)

---------------------------------------------------------------------------
(* Properties. *)

\* Elements pushed to substream i that its feed has not passed on.
Waiting(i) == Len(SelectSeq(box[Feed(i)], LAMBDA m : m.t = "push")) + Len(sub[i].buf)

\* The memory of a substream is bounded by the per-key buffer: an
\* acknowledgement is never counted for more than was passed on.  Under
\* SubstreamRestart a late acknowledgement of a failed substream is counted
\* for its successor, so the bound is claimed for the other strategies.
SubstreamBounded == \A i \in Ids : conf.onError # "Restart" => Waiting(i) <= PerKeyBuffer

\* A substream of SplitWhen or SplitAfter is one segment of the upstream: only
\* its first (last) element satisfies the predicate and nothing is between two
\* neighbours, unless elements were dropped.
SegmentsExact ==
    (conf.mode # "GroupBy" /\ sp.dropped = {}) =>
        \A i \in Ids : LET p == sub[i].pushed IN
            \A j \in DOMAIN p :
                /\ j > 1 => p[j] = p[j - 1] + 1
                /\ j > 1 /\ conf.mode = "When" => ~splitPred(p[j])
                /\ j < Len(p) /\ conf.mode = "After" => ~splitPred(p[j])

\* The stream puts out the elements of a key in their order, and when it
\* completes with no input lost to a failure, a full buffer or a Stop, all.
GroupsInOrder ==
    /\ \A j, k \in DOMAIN sink.got : j < k /\ keyFn(sink.got[j]) = keyFn(sink.got[k]) /\ conf.mode = "GroupBy"
          => sink.got[j] < sink.got[k]
    /\ (/\ sink.end = "complete" /\ ~sink.cancelled /\ ~up.failed /\ sp.dropped = {}
        /\ conf.bad = 0) => ToSet(sink.got) = 1 .. N

\* The counter that decides on completion agrees with the map of substreams.
ActiveExact == sp.alive => sp.active = Cardinality(DOMAIN sp.children)

\* The stream ends, and no substream outlives it for ever.
SubflowEnded == sink.end # "none" /\ ~sp.alive /\ \A i \in Ids : ~sub[i].feed /\ ~sub[i].tail
SubflowReaped == <>SubflowEnded
===========================================================================
