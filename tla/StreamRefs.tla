----------------------------- MODULE StreamRefs -----------------------------
(***************************************************************************)
(* Stream references: a SourceRef or SinkRef names an endpoint actor, on    *)
(* this node or another, that one remote stream may attach to.              *)
(*                                                                         *)
(* kind = "source": the endpoint runs the source and ships its elements to  *)
(* the subscribed bridge, as far as that bridge's requests allow; a bridge  *)
(* is the source of a consuming stream.  kind = "sink": the endpoint feeds  *)
(* a local sink with the elements a subscribed bridge, the sink of a        *)
(* producing stream, sends on the credit the endpoint grants.               *)
(*                                                                         *)
(* Two remote streams use the one reference.  The endpoint's node may       *)
(* crash: those that watch the endpoint are told Terminated.                *)
(***************************************************************************)
EXTENDS Integers, Sequences, SequencesExt, FiniteSets, FiniteSetsExt, ActorMail

CONSTANTS
    N,                    \* elements 1 .. N of the source
    Confs,                \* [kind, crash, stops: the bridges that may be cancelled]
    BufferLimit,          \* sourceRefBufferLimit
    SinkCredit,           \* sinkRefInitialCredit
    AckThreshold,         \* sinkRefAckThreshold
    InitialDemand, RefillThreshold

VARIABLES conf, ep, src, bridge, sink, box

vars == <<conf, ep, src, bridge, sink, box>>

Remote == {1, 2}
EP == <<"endpoint", 0>>
FEED == <<"feed", 0>>
Bridge(b) == <<"bridge", b>>
SinkOf(b) == <<"sink", b>>       \* 0 is the sink behind a SinkRef
Parties == {EP, FEED} \union {Bridge(b) : b \in Remote} \union {SinkOf(b) : b \in Remote \union {0}}

FreshSrc == [items |-> [i \in 1 .. N |-> i], demand |-> 0, alive |-> FALSE]

Init ==
    /\ conf \in Confs
    /\ ep = [alive |-> TRUE, sub |-> 0, wireCredit |-> 0, pending |-> <<>>, completed |-> FALSE,
             terminated |-> FALSE, watchers |-> {}, feed |-> FALSE, unacked |-> 0, crashed |-> FALSE]
    /\ src = [b \in Remote \union {0} |-> [FreshSrc EXCEPT !.alive = (conf.kind = "sink" /\ b \in Remote)]]
    /\ bridge = [b \in Remote |-> [alive |-> TRUE, endpoint |-> FALSE, cancelled |-> FALSE, err |-> FALSE]]
    /\ sink = [b \in Remote \union {0} |-> [credit |-> InitialDemand, got |-> <<>>, end |-> "none"]]
    /\ box = [p \in Parties |->
               IF p[1] # "bridge" THEN <<>>
               ELSE <<Msg("wire")>> \o (IF conf.kind = "source" THEN <<[t |-> "request", n |-> InitialDemand]>> ELSE <<>>)]

Live == {p \in Parties : CASE p = EP -> ep.alive
                           [] p = FEED -> ep.feed
                           [] p[1] = "bridge" -> bridge[p[2]].alive
                           [] p[1] = "sink" -> sink[p[2]].end = "none"}
Turn(p, t) == p \in Live /\ box[p] # <<>> /\ Head(box[p]).t = t
Done(p, stops, tells) == box' = AfterTurn(box, Live, p, stops, tells)
Request(b, n) == [t |-> "requestWire", id |-> b, n |-> n]
ElementTo(p, v) == <<p, [t |-> "element", v |-> v]>>

\* A stopping endpoint tells its watchers.
Terminations == LET w == SetToSeq(ep.watchers) IN [j \in DOMAIN w |-> <<Bridge(w[j]), Msg("terminated")>>]
EpStops(tells) ==
    /\ ep' = [ep EXCEPT !.alive = FALSE]
    /\ Done(EP, TRUE, tells \o Terminations)

---------------------------------------------------------------------------
(* The endpoint of a SourceRef. *)

\* A subscriber is accepted: a SourceRef starts its source, a SinkRef its feed
\* and its sink, and grants the first credit.
SourceAccepts(b) ==
    /\ ep' = [ep EXCEPT !.sub = b]
    /\ src' = [src EXCEPT ![0].alive = TRUE]
    /\ Done(EP, FALSE, <<>>)
SinkAccepts(b) ==
    /\ ep' = [ep EXCEPT !.sub = b, !.feed = TRUE]
    /\ src' = [src EXCEPT ![0].demand = InitialDemand]
    /\ Done(EP, FALSE, <<<<Bridge(b), Request(b, SinkCredit)>>>>)

\* A second subscriber is refused, as is one that comes after the end.
EpSubscribe ==
    /\ Turn(EP, "subscribe")
    /\ LET b == Head(box[EP]).id
       IN  IF ep.sub # 0 \/ ep.terminated
           THEN Done(EP, FALSE, <<<<Bridge(b), [t |-> "errorWire", id |-> b]>>>>) /\ UNCHANGED <<ep, src>>
           ELSE IF conf.kind = "source" THEN SourceAccepts(b) ELSE SinkAccepts(b)
    /\ UNCHANGED <<conf, bridge, sink>>

\* As if the end were reported although elements still wait for credit.
ShipAndFinishEarly(e) ==
    LET k == Min({e.wireCredit, Len(e.pending)})
    IN  /\ ep' = [e EXCEPT !.wireCredit = @ - k, !.pending = SubSeq(@, k + 1, Len(@)), !.terminated = e.completed]
        /\ Done(EP, FALSE, [j \in 1 .. k |-> ElementTo(Bridge(e.sub), e.pending[j])]
                           \o (IF e.completed THEN <<<<Bridge(e.sub), [t |-> "completeWire", id |-> e.sub]>>>> ELSE <<>>))
\* shipElement for as many as the credit allows, then maybeFinish.
ShipAndFinish(e) ==
    LET k == Min({e.wireCredit, Len(e.pending)})
        left == SubSeq(e.pending, k + 1, Len(e.pending))
        ends == e.completed /\ left = <<>>
    IN  /\ ep' = [e EXCEPT !.wireCredit = @ - k, !.pending = left, !.terminated = ends]
        /\ Done(EP, FALSE, [j \in 1 .. k |-> ElementTo(Bridge(e.sub), e.pending[j])]
                           \o (IF ends THEN <<<<Bridge(e.sub), [t |-> "completeWire", id |-> e.sub]>>>> ELSE <<>>))

EpRequest ==
    /\ Turn(EP, "requestWire")
    /\ LET m == Head(box[EP])
       IN  IF m.id # ep.sub \/ ep.terminated THEN Done(EP, FALSE, <<>>) /\ UNCHANGED ep
           ELSE ShipAndFinish([ep EXCEPT !.wireCredit = @ + m.n])
    /\ UNCHANGED <<conf, src, bridge, sink>>

\* mergeSubValue: shipped, buffered, or too much.
EpValue ==
    /\ Turn(EP, "value")
    /\ LET v == Head(box[EP]).v
       IN  IF ep.terminated THEN Done(EP, FALSE, <<>>) /\ UNCHANGED ep
           ELSE IF Len(ep.pending) >= BufferLimit
           THEN /\ ep' = [ep EXCEPT !.pending = <<>>, !.terminated = TRUE]
                /\ Done(EP, FALSE, <<<<Bridge(ep.sub), [t |-> "errorWire", id |-> ep.sub]>>>>)
           ELSE LET e == [ep EXCEPT !.pending = Append(@, v)]
                IN  ShipAndFinish(e)
    /\ UNCHANGED <<conf, src, bridge, sink>>

EpDone ==
    /\ Turn(EP, "done")
    /\ IF ep.terminated THEN Done(EP, FALSE, <<>>) /\ UNCHANGED ep
       ELSE ShipAndFinish([ep EXCEPT !.completed = TRUE])
    /\ UNCHANGED <<conf, src, bridge, sink>>

\* streamCancelWire: from whichever bridge it comes.
EpCancel ==
    /\ Turn(EP, "cancelWire")
    /\ EpStops(<<>>)
    /\ UNCHANGED <<conf, src, bridge, sink>>

\* sourceRefShutdown, after the grace period of scheduleTermination.
EpShutdown ==
    /\ ep.alive /\ ep.terminated
    /\ ep' = [ep EXCEPT !.alive = FALSE]
    /\ box' = [Told(box, Live, Terminations) EXCEPT ![EP] = <<>>]
    /\ UNCHANGED <<conf, src, bridge, sink>>

\* The source's pipeline has demand of its own; its sink stops with the endpoint.
SourceEmits ==
    /\ src[0].alive
    /\ src' = [src EXCEPT ![0].items = IF @ = <<>> THEN @ ELSE Tail(@),
                          ![0].alive = ep.alive /\ src[0].items # <<>>]
    /\ box' = Told(box, Live, IF src[0].items = <<>> THEN <<<<EP, Msg("done")>>>>
                              ELSE <<<<EP, [t |-> "value", v |-> Head(src[0].items)]>>>>)
    /\ UNCHANGED <<conf, ep, bridge, sink>>

---------------------------------------------------------------------------
(* The bridge of a SourceRef: the source stage of a consuming stream. *)

BridgeStops(b, tells, err) ==
    /\ bridge' = [bridge EXCEPT ![b].alive = FALSE, ![b].err = err]
    /\ Done(Bridge(b), TRUE, tells)
Down(b, t) == <<<<SinkOf(b), Msg(t)>>>>

\* stageWire: resolve the endpoint, watch it, subscribe.  A SinkRef's bridge
\* does not watch; a resolution or subscription that fails ends the stream.
BridgeWire(b) ==
    /\ Turn(Bridge(b), "wire")
    /\ IF ~ep.alive
       THEN BridgeStops(b, IF conf.kind = "source" THEN Down(b, "error") ELSE <<>>, TRUE) /\ UNCHANGED ep
       ELSE /\ bridge' = [bridge EXCEPT ![b].endpoint = TRUE]
            /\ ep' = IF conf.kind = "source" THEN [ep EXCEPT !.watchers = @ \union {b}] ELSE ep
            /\ Done(Bridge(b), FALSE, <<<<EP, [t |-> "subscribe", id |-> b]>>>>)
    /\ UNCHANGED <<conf, src, sink>>

BridgeRequest(b) ==
    /\ Turn(Bridge(b), "request")
    /\ Done(Bridge(b), FALSE, <<<<EP, Request(b, Head(box[Bridge(b)]).n)>>>>)
    /\ UNCHANGED <<conf, ep, src, bridge, sink>>

BridgeElement(b) ==
    /\ conf.kind = "source" /\ Turn(Bridge(b), "element")
    /\ Done(Bridge(b), FALSE, <<ElementTo(SinkOf(b), Head(box[Bridge(b)]).v)>>)
    /\ UNCHANGED <<conf, ep, src, bridge, sink>>

BridgeEnds(b) ==
    /\ \/ Turn(Bridge(b), "completeWire") /\ BridgeStops(b, Down(b, "complete"), FALSE)
       \/ /\ Turn(Bridge(b), "errorWire") \/ Turn(Bridge(b), "terminated")
          /\ BridgeStops(b, IF conf.kind = "source" THEN Down(b, "error") ELSE <<>>, TRUE)
    /\ UNCHANGED <<conf, ep, src, sink>>

\* streamCancel, from StreamHandle.Stop.
BridgeCancel(b) ==
    /\ conf.kind = "source" /\ Turn(Bridge(b), "cancel")
    /\ BridgeStops(b, (IF bridge[b].endpoint THEN <<<<EP, Msg("cancelWire")>>>> ELSE <<>>) \o Down(b, "complete"), FALSE)
    /\ UNCHANGED <<conf, ep, src, sink>>

StopConsumer(b) ==
    /\ b \in conf.stops /\ ~bridge[b].cancelled /\ bridge[b].alive
    /\ bridge' = [bridge EXCEPT ![b].cancelled = TRUE]
    /\ box' = Told(box, Live, <<<<Bridge(b), Msg("cancel")>>>>)
    /\ UNCHANGED <<conf, ep, src, sink>>

SinkElement(b) ==
    /\ Turn(SinkOf(b), "element")
    /\ LET c == sink[b].credit - 1
           r == IF c <= RefillThreshold THEN InitialDemand - c ELSE 0
       IN  /\ sink' = [sink EXCEPT ![b].credit = c + r, ![b].got = Append(@, Head(box[SinkOf(b)]).v)]
           /\ Done(SinkOf(b), FALSE,
                IF r > 0 THEN <<<<IF b = 0 THEN FEED ELSE Bridge(b), [t |-> "request", n |-> r]>>>> ELSE <<>>)
    /\ UNCHANGED <<conf, ep, src, bridge>>

SinkEnds(b) ==
    /\ Turn(SinkOf(b), "complete") \/ Turn(SinkOf(b), "error")
    /\ sink' = [sink EXCEPT ![b].end = Head(box[SinkOf(b)]).t]
    /\ Done(SinkOf(b), TRUE, <<>>)
    /\ UNCHANGED <<conf, ep, src, bridge>>

---------------------------------------------------------------------------
(* The bridge of a SinkRef: the sink of a producing stream whose source is  *)
(* a pull source of 1 .. N.                                                 *)

\* streamRequestWire becomes a request to the upstream.
BridgeCredit(b) ==
    /\ conf.kind = "sink" /\ Turn(Bridge(b), "requestWire")
    /\ src' = [src EXCEPT ![b].demand = @ + Head(box[Bridge(b)]).n]
    /\ Done(Bridge(b), FALSE, <<>>)
    /\ UNCHANGED <<conf, ep, bridge, sink>>

\* The upstream emits; the bridge sends it on.
ProducerEmits(b) ==
    /\ bridge[b].alive /\ src[b].alive /\ src[b].demand > 0 /\ src[b].items # <<>>
    /\ src' = [src EXCEPT ![b].items = Tail(@), ![b].demand = @ - 1]
    /\ box' = Told(box, Live, <<ElementTo(EP, Head(src[b].items))>>)
    /\ UNCHANGED <<conf, ep, bridge, sink>>

\* streamComplete or streamError from the upstream.
ProducerEnds(b) ==
    /\ conf.kind = "sink" /\ bridge[b].alive /\ src[b].alive /\ bridge[b].endpoint
    /\ \E t \in {"completeWire", "errorWire"} :
         /\ t = "completeWire" => src[b].demand > 0 /\ src[b].items = <<>>
         /\ src' = [src EXCEPT ![b].alive = FALSE]
         /\ bridge' = [bridge EXCEPT ![b].alive = FALSE, ![b].err = (t = "errorWire")]
         /\ box' = [Told(box, Live, <<<<EP, [t |-> t, id |-> b]>>>>) EXCEPT ![Bridge(b)] = <<>>]
    /\ UNCHANGED <<conf, ep, sink>>

---------------------------------------------------------------------------
(* The endpoint of a SinkRef, its feed and its sink. *)

EpElement ==
    /\ Turn(EP, "element")
    /\ Done(EP, FALSE, IF ep.sub = 0 THEN <<>> ELSE <<<<FEED, [t |-> "push", v |-> Head(box[EP]).v]>>>>)
    /\ UNCHANGED <<conf, ep, src, bridge, sink>>

\* Completion and error of the producer both end the feed.
EpProducerEnds ==
    /\ conf.kind = "sink" /\ (Turn(EP, "completeWire") \/ Turn(EP, "errorWire"))
    /\ IF Head(box[EP]).id # ep.sub THEN Done(EP, FALSE, <<>>) /\ UNCHANGED ep
       ELSE EpStops(<<<<FEED, Msg("feedDone")>>>>)
    /\ UNCHANGED <<conf, src, bridge, sink>>

EpAck ==
    /\ Turn(EP, "ack")
    /\ Done(EP, FALSE, <<<<Bridge(ep.sub), Request(ep.sub, Head(box[EP]).n)>>>>)
    /\ UNCHANGED <<conf, ep, src, bridge, sink>>

\* feedSourceActor; its queue and demand are ep.pending and src[0].demand.
FeedTurn ==
    /\ \E t \in {"push", "request", "feedDone"} : Turn(FEED, t)
    /\ LET m == Head(box[FEED])
           buf == IF m.t = "push" THEN Append(ep.pending, m.v) ELSE ep.pending
           dem == IF m.t = "request" THEN src[0].demand + m.n ELSE src[0].demand
           fin == ep.completed \/ m.t = "feedDone"
           k == Min({dem, Len(buf)})
           un == ep.unacked + k
           left == SubSeq(buf, k + 1, Len(buf))
           ends == fin /\ left = <<>>
           acks == IF ends THEN un ELSE (un \div AckThreshold) * AckThreshold
       IN  /\ ep' = [ep EXCEPT !.pending = left, !.unacked = un - acks, !.completed = fin, !.feed = ~ends]
           /\ src' = [src EXCEPT ![0].demand = dem - k]
           /\ Done(FEED, ends, [j \in 1 .. k |-> ElementTo(SinkOf(0), buf[j])]
                \o (IF acks > 0 THEN <<<<EP, [t |-> "ack", n |-> acks]>>>> ELSE <<>>)
                \o (IF ends THEN <<<<SinkOf(0), Msg("complete")>>>> ELSE <<>>))
    /\ UNCHANGED <<conf, bridge, sink>>

\* The endpoint's node fails, with the feed and the sink on it.
Crash ==
    /\ conf.crash /\ ep.alive
    /\ ep' = [ep EXCEPT !.alive = FALSE, !.feed = FALSE, !.crashed = TRUE]
    /\ src' = [src EXCEPT ![0].alive = FALSE]
    /\ box' = [Told(box, Live, Terminations) EXCEPT ![EP] = <<>>, ![FEED] = <<>>]
    /\ UNCHANGED <<conf, bridge, sink>>

System ==
    \/ EpSubscribe \/ EpRequest \/ EpValue \/ EpDone \/ EpCancel \/ EpShutdown \/ SourceEmits
    \/ EpElement \/ EpProducerEnds \/ EpAck \/ FeedTurn
    \/ \E b \in Remote : BridgeWire(b) \/ BridgeRequest(b) \/ BridgeElement(b) \/ BridgeEnds(b)
                         \/ BridgeCancel(b) \/ BridgeCredit(b) \/ ProducerEmits(b) \/ ProducerEnds(b)
    \/ \E b \in Remote \union {0} : SinkElement(b) \/ SinkEnds(b)

Next == System \/ Crash \/ \E b \in Remote : StopConsumer(b)

\* Messages are handled and sources run; nothing forces a crash or a Stop.
Spec == Init /\ [][Next]_vars /\ WF_vars(System)

---------------------------------------------------------------------------
(* Properties. *)

\* One stream gets everything: elements reach one consumer only, in order and
\* without a gap, and a consumer's stream that completes without having been
\* stopped has seen all of them; behind a SinkRef the sink's elements are a
\* prefix of the subscribed producer's.
RefExact ==
    /\ \A b \in DOMAIN sink : IsPrefix(sink[b].got, [i \in 1 .. N |-> i])
    /\ Cardinality({b \in Remote : sink[b].got # <<>>}) <= 1
    /\ \A b \in Remote : (conf.kind = "source" /\ sink[b].end = "complete" /\ ~bridge[b].cancelled)
                            => Len(sink[b].got) = N

\* Backpressure across the wire: the elements on their way to the remote side
\* are within the credit it granted.
Coming(p) == Len(SelectSeq(box[p], LAMBDA m : m.t \in {"element", "push"}))
WireBounded ==
    /\ \A b \in Remote : conf.kind = "source" => Coming(Bridge(b)) + Coming(SinkOf(b)) <= InitialDemand
    /\ conf.kind = "sink" => Coming(EP) + Coming(FEED) + Len(ep.pending) <= SinkCredit

\* A consumer's stream ends, also when the endpoint's node crashes.
ConsumersEnded == \A b \in Remote : conf.kind = "source" => sink[b].end # "none"
ConsumersEnd == <>ConsumersEnded

\* A subscribed consumer's stream fails only for a reason of its own: the
\* endpoint's node crashed or its buffer overflowed.
\* Does not hold: a cancellation is taken from any bridge.
SubscriberUndisturbed ==
    \A b \in Remote : (conf.kind = "source" /\ ep.sub = b /\ sink[b].end = "error") => ep.crashed \/ ep.terminated
===========================================================================
