--------------------------- MODULE StreamFanOut ---------------------------
(***************************************************************************)
(* Fan-out of a stream: Broadcast, Balance and Partition.  Every branch is  *)
(* a pipeline whose source is a slot actor; the slots register with the     *)
(* shared state, the last one to do so spawns the upstream pipeline, whose  *)
(* sink is the hub.  The hub pulls from the upstream what the branches have *)
(* asked for and routes what it receives.                                   *)
(*                                                                         *)
(* The upstream is a pull source of the elements 1 .. N; a branch is a slot *)
(* and a sink (sinkActor, as in StreamPipeline).  `kind' is the operator.   *)
(***************************************************************************)
EXTENDS Integers, Sequences, SequencesExt, FiniteSets, FiniteSetsExt, ActorMail

CONSTANTS
    N,                \* elements of the upstream
    Slots,            \* the branches, 0 .. n-1
    InitialDemand,    \* of the branch sinks
    RefillThreshold,
    Stoppable,        \* the branches whose handle may be stopped
    Kinds             \* subset of {"broadcast", "balance", "partition"}

VARIABLES kind, registered, up, hub, slot, branch, box

vars == <<kind, registered, up, hub, slot, branch, box>>

n == Cardinality(Slots)
UP == <<-1, "up">>
HUB == <<-1, "hub">>
Parties == {UP, HUB} \union (Slots \X {"slot", "sink"})
SlotOf(i) == <<i, "slot">>
SinkOf(i) == <<i, "sink">>

\* partitionFn: the elements are dealt to the slots, and to one index too many.
partitionFn(v) == v % (n + 1)

Init ==
    /\ kind \in Kinds
    /\ registered = {}
    /\ up = [items |-> [i \in 1 .. N |-> i], alive |-> FALSE]
    /\ hub = [alive |-> FALSE, ready |-> FALSE, live |-> Slots, cancelled |-> 0,
              demand |-> [i \in Slots |-> 0], pending |-> 0, next |-> 0]
    /\ slot = [i \in Slots |-> [alive |-> TRUE, hub |-> FALSE, pendingDemand |-> 0]]
    /\ branch = [i \in Slots |-> [alive |-> TRUE, credit |-> InitialDemand, got |-> <<>>,
                                  end |-> "none", stopped |-> FALSE]]
    /\ box = [p \in Parties |->
               IF \E i \in Slots : p = SlotOf(i) THEN <<Msg("wire"), [t |-> "request", n |-> InitialDemand]>>
               ELSE <<>>]

---------------------------------------------------------------------------
(* Handlers: what a slot or the hub does with a message.  They return its   *)
(* new state, whether it shuts down, and what it tells.                     *)

Result(st, stops, tells) == [st |-> st, stops |-> stops, tells |-> tells]
Request(k) == [t |-> "request", n |-> k]
Demand(i, k) == <<HUB, [t |-> "demand", slot |-> i, n |-> k]>>
ToSlots(S, m) == LET s == SetToSeq(S) IN [j \in DOMAIN s |-> <<SlotOf(s[j]), m>>]

\* A slot passes the demand of its branch on to the hub, once it knows the hub,
\* and what the hub sends it on to its branch.
broadcastSlot(s, i, m) ==
    CASE m.t = "wire" -> Result(s, FALSE, <<>>)
      [] m.t = "request" -> IF s.hub THEN Result(s, FALSE, <<Demand(i, m.n)>>)
                            ELSE Result([s EXCEPT !.pendingDemand = @ + m.n], FALSE, <<>>)
      [] m.t = "hubReady" -> Result([s EXCEPT !.hub = TRUE, !.pendingDemand = 0], FALSE,
                                    IF s.pendingDemand > 0 THEN <<Demand(i, s.pendingDemand)>> ELSE <<>>)
      [] m.t = "element" -> Result(s, FALSE, <<<<SinkOf(i), m>>>>)
      [] m.t \in {"complete", "error"} -> Result(s, TRUE, <<<<SinkOf(i), m>>>>)
      [] m.t = "cancel" -> Result(s, TRUE, IF s.hub THEN <<<<HUB, [t |-> "slotCancel", slot |-> i]>>>> ELSE <<>>)

\* The slots of the other two also complete their branch when it is cancelled.
balanceSlot(s, i, m) ==
    LET r == broadcastSlot(s, i, m)
    IN  IF m.t = "cancel" THEN [r EXCEPT !.tells = Append(@, <<SinkOf(i), Msg("complete")>>)] ELSE r
partitionSlot(s, i, m) ==
    LET r == broadcastSlot(s, i, m)
    IN  IF m.t = "cancel" THEN [r EXCEPT !.tells = Append(@, <<SinkOf(i), Msg("complete")>>)] ELSE r

minDemand(h) == IF h.live = {} THEN 0 ELSE Max({0, Min({h.demand[i] : i \in h.live})})
totalDemand(h) == MapThenSumSet(LAMBDA i : h.demand[i], h.live)

\* As if the batch under way were not waited for.
maybePullEager(h, batch, tells) ==
    Result([h EXCEPT !.pending = @ + batch], FALSE, tells \o IF batch > 0 THEN <<<<UP, Request(batch)>>>> ELSE <<>>)
\* maybePull: one batch at a time, sized so that no branch is sent more than it
\* asked for.
maybePull(h, batch, tells) ==
    LET k == IF h.pending > 0 THEN 0 ELSE batch
    IN  Result([h EXCEPT !.pending = @ + k], FALSE, tells \o IF k > 0 THEN <<<<UP, Request(k)>>>> ELSE <<>>)

\* The batch a hub may pull.
wanted(h) == IF kind = "balance" THEN totalDemand(h) ELSE minDemand(h)

\* A hub that routes elements to the slots R.
hubReceive(h, m, R) ==
    CASE m.t = "wire" -> Result([h EXCEPT !.ready = TRUE], FALSE, ToSlots(Slots, Msg("hubReady")))
      [] m.t = "demand" -> LET g == [h EXCEPT !.demand[m.slot] = @ + m.n] IN maybePull(g, wanted(g), <<>>)
      [] m.t = "element" ->
           LET g == [h EXCEPT !.pending = @ - 1,
                       !.demand = [i \in Slots |-> IF i \in R THEN @[i] - 1 ELSE @[i]]]
           IN  maybePull(g, wanted(g), ToSlots(R, m))
      [] m.t \in {"complete", "error"} -> Result(h, TRUE, ToSlots(h.live, m))
      [] m.t = "slotCancel" ->
           LET g == [h EXCEPT !.live = @ \ {m.slot}, !.cancelled = @ + 1]
           IN  IF g.cancelled >= n THEN Result(g, TRUE, <<<<UP, Msg("cancel")>>>>)
               ELSE maybePull(g, wanted(g), <<>>)

\* broadcastHubActor: every slot that has not cancelled gets the element.
broadcastHub(h, m) == hubReceive(h, m, h.live)

\* balanceHubActor: the next slot, round robin, that has demand.
balanceHub(h, m) ==
    LET ready == {k \in 0 .. n - 1 : LET i == (h.next + k) % n IN i \in h.live /\ h.demand[i] > 0}
        chosen == (h.next + Min(ready)) % n
    IN  IF m.t # "element" \/ ready = {} THEN hubReceive(h, m, {})
        ELSE hubReceive([h EXCEPT !.next = (chosen + 1) % n], m, {chosen})

\* partitionHubActor: the slot the partition function names, if there is one.
partitionHub(h, m) ==
    hubReceive(h, m, IF m.t = "element" THEN {partitionFn(m.v)} \intersect h.live ELSE {})

SlotReceive(s, i, m) == CASE kind = "broadcast" -> broadcastSlot(s, i, m)
                          [] kind = "balance" -> balanceSlot(s, i, m)
                          [] kind = "partition" -> partitionSlot(s, i, m)
HubReceive(h, m) == CASE kind = "broadcast" -> broadcastHub(h, m)
                      [] kind = "balance" -> balanceHub(h, m)
                      [] kind = "partition" -> partitionHub(h, m)

---------------------------------------------------------------------------
(* Turns. *)

Live == {p \in Parties :
           CASE p = UP -> up.alive
             [] p = HUB -> hub.alive
             [] OTHER -> IF p[2] = "slot" THEN slot[p[1]].alive ELSE branch[p[1]].alive}
HasMail(p) == p \in Live /\ box[p] # <<>>

\* registerSlot, on the wire message of a slot.
SlotTurn(i) ==
    /\ HasMail(SlotOf(i))
    /\ LET m == Head(box[SlotOf(i)])
           r == SlotReceive(slot[i], i, m)
       IN  /\ slot' = [slot EXCEPT ![i] = [r.st EXCEPT !.alive = ~r.stops]]
           /\ registered' = IF m.t = "wire" THEN registered \union {i} ELSE registered
           /\ box' = AfterTurn(box, Live, SlotOf(i), r.stops, r.tells)
    /\ UNCHANGED <<kind, up, hub, branch>>

\* The last registration starts a goroutine that spawns the upstream pipeline
\* with the hub as its sink.
registerSlot ==
    /\ registered = Slots /\ ~hub.ready /\ ~hub.alive
    /\ up' = [up EXCEPT !.alive = TRUE]
    /\ hub' = [hub EXCEPT !.alive = TRUE]
    /\ box' = [box EXCEPT ![HUB] = <<Msg("wire")>>]
    /\ UNCHANGED <<kind, registered, slot, branch>>

HubTurn ==
    /\ HasMail(HUB)
    /\ LET r == HubReceive(hub, Head(box[HUB]))
       IN  /\ hub' = [r.st EXCEPT !.alive = ~r.stops]
           /\ box' = AfterTurn(box, Live, HUB, r.stops, r.tells)
    /\ UNCHANGED <<kind, registered, up, slot, branch>>

\* pullSourceActor; the source may fail instead (FailFast flow upstream).
UpRequest ==
    /\ HasMail(UP) /\ Head(box[UP]).t = "request"
    /\ LET k == Min({Head(box[UP]).n, Len(up.items)})
           ends == Head(box[UP]).n >= Len(up.items)
           elems == [j \in 1 .. k |-> <<HUB, [t |-> "element", v |-> up.items[j]]>>]
       IN  /\ \E last \in {"complete", "error"} :
                box' = AfterTurn(box, Live, UP, ends, elems \o IF ends THEN <<<<HUB, Msg(last)>>>> ELSE <<>>)
           /\ up' = [items |-> SubSeq(up.items, k + 1, Len(up.items)), alive |-> ~ends]
    /\ UNCHANGED <<kind, registered, hub, slot, branch>>

UpCancel ==
    /\ HasMail(UP) /\ Head(box[UP]).t = "cancel"
    /\ box' = AfterTurn(box, Live, UP, TRUE, <<<<HUB, Msg("complete")>>>>)
    /\ up' = [up EXCEPT !.alive = FALSE]
    /\ UNCHANGED <<kind, registered, hub, slot, branch>>

SinkElement(i) ==
    /\ HasMail(SinkOf(i)) /\ Head(box[SinkOf(i)]).t = "element"
    /\ LET c == branch[i].credit - 1
           r == IF c <= RefillThreshold THEN InitialDemand - c ELSE 0
       IN  /\ branch' = [branch EXCEPT ![i].credit = c + r, ![i].got = Append(@, Head(box[SinkOf(i)]).v)]
           /\ box' = AfterTurn(box, Live, SinkOf(i), FALSE, IF r > 0 THEN <<<<SlotOf(i), Request(r)>>>> ELSE <<>>)
    /\ UNCHANGED <<kind, registered, up, hub, slot>>

\* The consumer of a branch fails at an element: the sink cancels its upstream.
SinkFails(i) ==
    /\ HasMail(SinkOf(i)) /\ Head(box[SinkOf(i)]).t = "element"
    /\ branch' = [branch EXCEPT ![i].alive = FALSE, ![i].end = "failed"]
    /\ box' = AfterTurn(box, Live, SinkOf(i), TRUE, <<<<SlotOf(i), Msg("cancel")>>>>)
    /\ UNCHANGED <<kind, registered, up, hub, slot>>

SinkEnds(i) ==
    /\ HasMail(SinkOf(i)) /\ Head(box[SinkOf(i)]).t \in {"complete", "error"}
    /\ LET t == Head(box[SinkOf(i)]).t
       IN  /\ branch' = [branch EXCEPT ![i].alive = FALSE, ![i].end = t]
           /\ box' = AfterTurn(box, Live, SinkOf(i), TRUE,
                               IF t = "error" THEN <<<<SlotOf(i), Msg("cancel")>>>> ELSE <<>>)
    /\ UNCHANGED <<kind, registered, up, hub, slot>>

\* StreamHandle.Stop of the branch pipeline: its source stage is the slot.
StopBranch(i) ==
    /\ i \in Stoppable /\ ~branch[i].stopped
    /\ branch' = [branch EXCEPT ![i].stopped = TRUE]
    /\ box' = Told(box, Live, <<<<SlotOf(i), Msg("cancel")>>>>)
    /\ UNCHANGED <<kind, registered, up, hub, slot>>

System ==
    \/ registerSlot \/ HubTurn \/ UpRequest \/ UpCancel
    \/ \E i \in Slots : SlotTurn(i) \/ SinkElement(i) \/ SinkEnds(i)

Next == System \/ \E i \in Slots : SinkFails(i) \/ StopBranch(i)

\* Every stage with a message is given a turn.
Spec == Init /\ [][Next]_vars /\ WF_vars(System)

---------------------------------------------------------------------------
(* Properties. *)

\* No branch is sent an element it has not asked for, although the hub pulls one
\* batch for all of them and branches come and go while it is under way: what is
\* in flight to the sink of a branch never exceeds its credit.
InFlight(p) == Cardinality({j \in DOMAIN box[p] : box[p][j].t = "element"})
NoBranchOverrun ==
    \A i \in Slots :
        /\ i \in hub.live => hub.demand[i] >= 0
        /\ branch[i].alive => InFlight(SlotOf(i)) + InFlight(SinkOf(i)) <= branch[i].credit

\* Routing: a broadcast branch receives a prefix of the source, a balanced
\* element reaches at most one branch, a partitioned one only its own; each in
\* source order.
IsIncreasing(s) == \A j, k \in DOMAIN s : j < k => s[j] < s[k]
RoutedCorrectly ==
    /\ \A i \in Slots : IsIncreasing(branch[i].got)
    /\ kind = "broadcast" => \A i \in Slots : IsPrefix(branch[i].got, [j \in 1 .. N |-> j])
    /\ kind = "partition" => \A i \in Slots : \A v \in ToSet(branch[i].got) : partitionFn(v) = i
    /\ kind = "balance" =>
         \A i, j \in Slots : i # j => ToSet(branch[i].got) \intersect ToSet(branch[j].got) = {}

\* A branch that completes while no branch was stopped or failed has received
\* all its elements.
CompleteBranchIsComplete ==
    (\A i \in Slots : ~branch[i].stopped /\ branch[i].end = "complete") =>
        /\ kind = "broadcast" => \A i \in Slots : Len(branch[i].got) = N
        /\ kind = "balance" => UNION {ToSet(branch[i].got) : i \in Slots} = 1 .. N
        /\ kind = "partition" =>
             \A i \in Slots : ToSet(branch[i].got) = {v \in 1 .. N : partitionFn(v) = i}

\* Every branch ends, unless one was stopped: a slot that is cancelled before the
\* hub is ready never tells the hub, and a stopped broadcast slot never tells its
\* own sink.
BranchesEnded == \/ \E i \in Slots : branch[i].stopped
                 \/ \A i \in Slots : branch[i].end # "none"
BranchesEnd == <>BranchesEnded

\* StreamHandle.Stop: "Blocks until the stream has terminated", so a stopped
\* branch terminates.
\* Does not hold: a slot that is cancelled does not complete its downstream.
StopEndsBranch == \A i \in Slots : branch[i].stopped ~> branch[i].end # "none"
===========================================================================
