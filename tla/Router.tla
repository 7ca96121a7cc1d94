-------------------------------- MODULE Router --------------------------------
(***************************************************************************)
(* The router actor (actor/router.go) and its pool of routees.  A client    *)
(* sends it broadcasts, pool-size adjustments and GetRoutees; the router    *)
(* spreads each broadcast by its strategy, or asks the routees itself       *)
(* (scatter-gather-first, tail-chopping) and tells the client the outcome.  *)
(* A routee that panics is suspended and escalates to the router, which     *)
(* stops, restarts or resumes it.                                           *)
(*                                                                          *)
(* A routee's name is its index; the names' and keys' places on the hash    *)
(* ring are the constants VNodes and KeyHash.  The death watch has removed  *)
(* a stopped routee from the actor tree before its name is used again.      *)
(***************************************************************************)
EXTENDS Integers, Sequences, FiniteSets, SequencesExt, Functions

CONSTANTS Confs,      \* records [pool, options, script, faults]
          VNodes, KeyHash

VARIABLES conf,    \* the router's options, the client's messages, the faults
          r,       \* the router: its routeesMap, counters, ring, mailboxes
          pids,    \* the routees spawned so far
          tree,    \* per name: its node of the actor tree, 0 when none
          flight,  \* Tells of fan-out goroutines not yet made
          asks,    \* Asks of scatter-gather and tail-chopping goroutines
          sup,     \* panicked routees whose supervision is queued
          out,     \* history: what the client was told
          routed   \* history: the single-target choices, with the pool then

vars == <<conf, r, pids, tree, flight, asks, sup, out, routed>>

Names == DOMAIN VNodes
NoCall == [m |-> 0, list |-> <<>>, next |-> 1, pending |-> 0, results |-> <<>>, clock |-> FALSE, over |-> FALSE]
Message == conf.script[r.n]

\* newRouter: fan-out, a failing routee is stopped; the options change that.
newRouter(pool, script, faults) ==
    [kind |-> "standard", strategy |-> "fanOut", pool |-> pool, directive |-> "stop",
     interval |-> FALSE, extractor |-> FALSE, script |-> script, faults |-> faults]
WithRoutingStrategy(c, strategy) == [c EXCEPT !.strategy = strategy]
AsTailChopping(c, moreThanOne) == [c EXCEPT !.kind = "tail", !.interval = moreThanOne]
AsScatterGatherFirst(c) == [c EXCEPT !.kind = "scatter"]
WithConsistentHashRouter(c) == [c EXCEPT !.strategy = "hash", !.extractor = TRUE]
WithResumeRouteeOnFailure(c) == [c EXCEPT !.directive = "resume"]
WithRestartRouteeOnFailure(c) == [c EXCEPT !.directive = "restart"]

Option(c, option) ==
    CASE option \in {"roundRobin", "random", "fanOut"} -> WithRoutingStrategy(c, option)
      [] option \in {"tailChopping", "tailChoppingOnce"} -> AsTailChopping(c, option = "tailChopping")
      [] option = "scatterGather" -> AsScatterGatherFirst(c)
      [] option = "hash" -> WithConsistentHashRouter(c)
      [] option = "resume" -> WithResumeRouteeOnFailure(c)
      [] option = "restart" -> WithRestartRouteeOnFailure(c)
RouterOf(c) == FoldLeft(Option, newRouter(c.pool, c.script, c.faults), c.options)

\* PreStart: a misconfigured router does not start.
validate(c) == c.pool > 0 /\ (c.strategy = "hash" => c.extractor)

RtInit ==
    /\ conf \in {RouterOf(c) : c \in Confs} /\ validate(conf)
    /\ r = [pc |-> "starting", sys |-> <<>>, n |-> 1, map |-> <<>>, size |-> conf.pool,
            next |-> 0, ring |-> {}, call |-> NoCall]
    /\ pids = <<>> /\ tree = [n \in Names |-> 0]
    /\ flight = {} /\ asks = {} /\ sup = {} /\ out = <<>> /\ routed = <<>>

Running(p) == pids[p].life = "running"

---------------------------------------------------------------------------
\* SpawnChild of a routee name: the child of that name when it runs, else a new
\* one, which a suspended child of the same name keeps out of the tree.
spawnRoutee(s, i) ==
    LET old == s.tree[i] IN
    IF old # 0 /\ s.pids[old].life = "running" THEN [s EXCEPT !.map = (i :> old) @@ s.map]
    ELSE LET p == Len(s.pids) + 1 IN
         [pids |-> Append(s.pids, [name |-> i, life |-> "running", box |-> <<>>]),
          tree |-> IF old = 0 THEN [s.tree EXCEPT ![i] = p] ELSE s.tree,
          map |-> (i :> p) @@ s.map]

spawnRoutees(s, start, size) == FoldLeft(spawnRoutee, s, [k \in 1..(size - start) |-> start + k - 1])

Pool == [pids |-> pids, tree |-> tree, map |-> r.map]

\* rebuildHashRing: only for consistent hashing.
rebuildHashRing(map) == IF conf.strategy = "hash" THEN DOMAIN map ELSE r.ring

\* consistentHashRing.lookup: the member of the first virtual node at or after
\* the key's hash, wrapping around.
lookup(ring, key) ==
    LET places == UNION {VNodes[i] : i \in ring}
        after == {p \in places : p >= KeyHash[key]}
        place == Min(IF after = {} THEN places ELSE after)
    IN CHOOSE i \in ring : place \in VNodes[i]

\* availableRoutees: those not running are dropped from the map, but not from
\* the list it returns.
availableRoutees == Range(r.map)
Pruned == Restrict(r.map, {i \in DOMAIN r.map : Running(r.map[i])})

---------------------------------------------------------------------------
\* postStart: the first routees, the ring, and then the broadcast behaviour.
postStart ==
    LET s == spawnRoutees(Pool, 0, r.size) IN
    /\ r.pc = "starting"
    /\ pids' = s.pids /\ tree' = s.tree
    /\ r' = [r EXCEPT !.pc = "ready", !.map = s.map, !.ring = rebuildHashRing(s.map)]
    /\ UNCHANGED <<conf, flight, asks, sup, out, routed>>

\* A user message waits for the system messages.
Receives(op) ==
    /\ r.pc = "ready" /\ r.sys = <<>>
    /\ r.n <= Len(conf.script) /\ Message[1] = op

\* handleAjustRouterPoolSize, scaleUp: names from the number of routees on.
scaleUp ==
    LET size == Cardinality(DOMAIN r.map)
        s == spawnRoutees(Pool, size, size + Message[2]) IN
    /\ Receives("adjust") /\ Message[2] > 0
    /\ pids' = s.pids /\ tree' = s.tree
    /\ r' = [r EXCEPT !.n = @ + 1, !.size = size + Message[2], !.map = s.map, !.ring = rebuildHashRing(s.map)]
    /\ UNCHANGED <<conf, flight, asks, sup, out, routed>>

\* Stop of routees: those not yet stopped are shut down, with what they queued.
Stopped(ps) ==
    /\ pids' = [p \in DOMAIN pids |-> IF p \in ps THEN [pids[p] EXCEPT !.life = "stopped", !.box = <<>>] ELSE pids[p]]
    /\ tree' = [i \in Names |-> IF tree[i] \in ps THEN 0 ELSE tree[i]]

\* scaleDown: that many routees, in the order of the map's iteration (any).
scaleDown ==
    /\ Receives("adjust") /\ Message[2] <= 0
    /\ LET n == Cardinality(availableRoutees)
           delta == IF -Message[2] > n THEN n ELSE -Message[2] IN
       IF delta = 0 THEN r' = [r EXCEPT !.n = @ + 1, !.map = IF Message[2] = 0 THEN @ ELSE Pruned] /\ UNCHANGED <<pids, tree>>
       ELSE \E ps \in SUBSET availableRoutees :
               LET map == Restrict(Pruned, {i \in DOMAIN Pruned : Pruned[i] \notin ps}) IN
               /\ Cardinality(ps) = delta
               /\ Stopped(ps)
               /\ r' = [r EXCEPT !.n = @ + 1, !.size = n - delta, !.map = map, !.ring = rebuildHashRing(map)]
    /\ UNCHANGED <<conf, flight, asks, sup, out, routed>>

handleGetRoutees ==
    /\ Receives("get")
    /\ r' = [r EXCEPT !.n = @ + 1, !.map = Pruned]
    /\ UNCHANGED <<conf, pids, tree, flight, asks, sup, out, routed>>

---------------------------------------------------------------------------
\* ctx.Tell to one routee: lost when it does not run.
TellRoutee(p) ==
    /\ pids' = IF Running(p) THEN [pids EXCEPT ![p].box = Append(@, [m |-> r.n, ask |-> FALSE])] ELSE pids
    /\ routed' = Append(routed, [m |-> r.n, to |-> p, ring |-> r.ring, live |-> {q \in DOMAIN pids : Running(q)}])
    /\ UNCHANGED flight

\* routeByStrategy.  Round robin counts through a list in map order, which is
\* any; fan-out starts a goroutine per routee.
routeRoundRobin ==
    /\ conf.strategy = "roundRobin"
    /\ \E list \in SetToSeqs(availableRoutees) : TellRoutee(list[(r.next % Len(list)) + 1])
    /\ r' = [r EXCEPT !.n = @ + 1, !.map = Pruned, !.next = @ + 1]

routeRandom ==
    /\ conf.strategy = "random"
    /\ \E p \in availableRoutees : TellRoutee(p)
    /\ r' = [r EXCEPT !.n = @ + 1, !.map = Pruned]

\* routeByConsistentHash: the ring's member when it is still in the map and
\* runs; any routee for an empty key, or when it is gone.
routeByConsistentHash ==
    /\ conf.strategy = "hash"
    /\ LET owner == lookup(r.ring, Message[2]) IN
       IF Message[2] # 0 /\ r.ring # {} /\ owner \in DOMAIN Pruned
       THEN TellRoutee(Pruned[owner])
       ELSE \E p \in availableRoutees : TellRoutee(p)
    /\ r' = [r EXCEPT !.n = @ + 1, !.map = Pruned]

routeFanOut ==
    /\ conf.strategy = "fanOut"
    /\ flight' = flight \cup {<<p, r.n>> : p \in availableRoutees}
    /\ r' = [r EXCEPT !.n = @ + 1, !.map = Pruned]
    /\ UNCHANGED <<pids, routed>>

routeByStrategy ==
    /\ routeRoundRobin \/ routeRandom \/ routeByConsistentHash \/ routeFanOut
    /\ UNCHANGED <<asks, out>>

\* The router stays in the turn until the call is over.
Begins(pc, list, asked, clock) ==
    /\ r' = [r EXCEPT !.pc = pc, !.map = Pruned,
                      !.call = [NoCall EXCEPT !.m = r.n, !.list = list, !.next = asked + 1, !.pending = asked, !.clock = clock]]
    /\ asks' = asks \cup {[m |-> r.n, to |-> list[k], st |-> "new", ok |-> FALSE] : k \in 1..asked}
    /\ UNCHANGED <<pids, flight, out, routed>>

\* scatterGatherFirst asks every routee at once; tailChopping shuffles, asks
\* the first and starts its clock when there is another to ask in time.
scatterGatherFirst ==
    LET list == SetToSeq(availableRoutees) IN Begins("scatter", list, Len(list), FALSE)

tailChopping ==
    \E list \in SetToSeqs(availableRoutees) : Begins("tail", list, 1, Len(list) > 1 /\ conf.interval)

dispatchToRoutees ==
    CASE conf.kind = "scatter" -> scatterGatherFirst
      [] conf.kind = "tail" -> tailChopping
      [] OTHER -> routeByStrategy

\* handleBroadcast; handleNoRoutees: without a routee the router stops.
handleBroadcast ==
    /\ Receives("broadcast")
    /\ IF availableRoutees = {} THEN r' = [r EXCEPT !.pc = "stopped"] /\ UNCHANGED <<pids, flight, asks, out, routed>>
       ELSE dispatchToRoutees
    /\ UNCHANGED <<conf, tree, sup>>

---------------------------------------------------------------------------
\* The call ends: the client is told, the shared context cancelled.
CallEnds(answer) ==
    /\ out' = Append(out, [m |-> r.call.m, from |-> answer])
    /\ r' = [r EXCEPT !.pc = "ready", !.n = @ + 1, !.call = NoCall]

InCall == r.pc \in {"scatter", "tail"}

\* A result: the first success wins; a failure ends a scatter-gather when it is
\* the last one out, a tail-chopping only when in addition nobody is left to ask.
CallResult ==
    /\ InCall /\ r.call.results # <<>>
    /\ LET res == Head(r.call.results)
           exhausted == r.call.pending = 1 /\ (r.pc = "tail" => r.call.next > Len(r.call.list)) IN
       IF res.ok THEN CallEnds(res.to)
       ELSE IF exhausted THEN CallEnds(0)
       ELSE r' = [r EXCEPT !.call.pending = @ - 1, !.call.results = Tail(@)] /\ UNCHANGED out
    /\ UNCHANGED <<conf, pids, tree, flight, asks, sup, routed>>

\* The deadline passes, and the loop sees it, perhaps after results that came
\* in meanwhile.
Deadline ==
    /\ InCall /\ ~r.call.over
    /\ r' = [r EXCEPT !.call.over = TRUE]
    /\ UNCHANGED <<conf, pids, tree, flight, asks, sup, out, routed>>

CallTimesOut ==
    /\ InCall /\ r.call.over
    /\ CallEnds(0)
    /\ UNCHANGED <<conf, pids, tree, flight, asks, sup, routed>>

\* A tick of tailChopping asks the next routee, or reports at once that no time
\* is left.
TailTick ==
    /\ r.pc = "tail" /\ r.call.clock /\ r.call.next <= Len(r.call.list)
    /\ LET p == r.call.list[r.call.next] IN
       /\ r' = [r EXCEPT !.call.next = @ + 1, !.call.pending = @ + 1,
                         !.call.results = IF r.call.over THEN Append(@, [to |-> p, ok |-> FALSE]) ELSE @]
       /\ asks' = IF r.call.over THEN asks ELSE asks \cup {[m |-> r.call.m, to |-> p, st |-> "new", ok |-> FALSE]}
    /\ UNCHANGED <<conf, pids, tree, flight, sup, out, routed>>

---------------------------------------------------------------------------
\* The goroutine of an Ask: refused by a routee that does not run.
AskRoutee(a) ==
    /\ a.st = "new"
    /\ IF Running(a.to)
       THEN /\ asks' = (asks \ {a}) \cup {[a EXCEPT !.st = "asked"]}
            /\ pids' = [pids EXCEPT ![a.to].box = Append(@, [m |-> a.m, ask |-> TRUE])]
       ELSE asks' = (asks \ {a}) \cup {[a EXCEPT !.st = "done"]} /\ UNCHANGED pids
    /\ UNCHANGED <<conf, r, tree, flight, sup, out, routed>>

\* It gives up at the deadline, or once the call is over and its context cancelled.
AskExpires(a) ==
    /\ a.st = "asked"
    /\ r.call.m # a.m \/ r.call.over
    /\ asks' = (asks \ {a}) \cup {[a EXCEPT !.st = "done"]}
    /\ UNCHANGED <<conf, r, pids, tree, flight, sup, out, routed>>

\* Its result goes to the channel, which has room for all of them.
AskEnds(a) ==
    /\ a.st = "done"
    /\ asks' = asks \ {a}
    /\ r' = IF r.call.m = a.m THEN [r EXCEPT !.call.results = Append(@, [to |-> a.to, ok |-> a.ok])] ELSE r
    /\ UNCHANGED <<conf, pids, tree, flight, sup, out, routed>>

\* A goroutine of the fan-out makes its Tell.
FanOutTell(f) ==
    /\ flight' = flight \ {f}
    /\ pids' = IF Running(f[1]) THEN [pids EXCEPT ![f[1]].box = Append(@, [m |-> f[2], ask |-> FALSE])] ELSE pids
    /\ UNCHANGED <<conf, r, tree, asks, sup, out, routed>>

\* A routee takes a message: it answers an Ask, or not, or panics, and then its
\* supervision is queued.  What a suspended routee had queued it still takes.
RouteeTurn(p) ==
    /\ pids[p].life \in {"running", "suspended"} /\ pids[p].box # <<>>
    /\ LET msg == Head(pids[p].box)
           a == [m |-> msg.m, to |-> p, st |-> "asked", ok |-> FALSE] IN
       /\ pids' = [pids EXCEPT ![p].box = Tail(@)]
       /\ \/ /\ asks' = IF msg.ask /\ a \in asks THEN (asks \ {a}) \cup {[a EXCEPT !.st = "done", !.ok = TRUE]} ELSE asks
             /\ UNCHANGED sup
          \/ /\ "silent" \in conf.faults /\ msg.ask
             /\ UNCHANGED <<asks, sup>>
          \/ /\ "panic" \in conf.faults
             /\ sup' = sup \cup {<<"signal", p>>} /\ UNCHANGED asks
    /\ UNCHANGED <<conf, r, tree, flight, out, routed>>

---------------------------------------------------------------------------
\* notifyParent of the routee, off its turn: suspended, and then Panicking is
\* told to the router, which turns it into a PanicSignal to itself
\* (handlePanicking).
suspend(p) ==
    /\ <<"signal", p>> \in sup
    /\ sup' = (sup \ {<<"signal", p>>}) \cup {<<"tell", p>>}
    /\ pids' = IF pids[p].life = "running" THEN [pids EXCEPT ![p].life = "suspended"] ELSE pids
    /\ UNCHANGED <<conf, r, tree, flight, asks, out, routed>>

notifyParent(p) ==
    /\ <<"tell", p>> \in sup
    /\ sup' = sup \ {<<"tell", p>>}
    /\ r' = IF r.pc = "stopped" THEN r ELSE [r EXCEPT !.sys = Append(@, [op |-> "panicking", p |-> p])]
    /\ UNCHANGED <<conf, pids, tree, flight, asks, out, routed>>

System(op) == r.pc = "ready" /\ r.sys # <<>> /\ Head(r.sys).op = op

handlePanicking ==
    /\ System("panicking")
    /\ r' = [r EXCEPT !.sys = Append(Tail(@), [op |-> "panic", p |-> Head(@).p])]
    /\ UNCHANGED <<conf, pids, tree, flight, asks, sup, out, routed>>

\* handleStopRoutee: an error of Stop (already stopped) changes nothing more.
handleStopRoutee ==
    LET p == Head(r.sys).p
        map == Restrict(r.map, DOMAIN r.map \ {pids[p].name}) IN
    /\ IF pids[p].life # "stopped" THEN Stopped({p}) ELSE UNCHANGED <<pids, tree>>
    /\ r' = [r EXCEPT !.sys = Tail(@), !.map = map, !.ring = rebuildHashRing(map)]

\* handleRestartRoutee: the attempts succeed, and the routee is put (back) in
\* the map, or all fail, and it is stopped.
handleRestartRoutee ==
    LET p == Head(r.sys).p IN
    \/ /\ pids' = [pids EXCEPT ![p].life = "running"]
       /\ tree' = [tree EXCEPT ![pids[p].name] = IF @ = 0 THEN p ELSE @]
       /\ r' = [r EXCEPT !.sys = Tail(@), !.map = (pids[p].name :> p) @@ @]
    \/ /\ "restart" \in conf.faults
       /\ handleStopRoutee

\* handleResumeRoutee: Reinstate, for a routee the tree knows.
handleResumeRoutee ==
    LET p == Head(r.sys).p IN
    /\ pids' = IF pids[p].life = "suspended" /\ tree[pids[p].name] # 0 THEN [pids EXCEPT ![p].life = "running"] ELSE pids
    /\ r' = [r EXCEPT !.sys = Tail(@)]
    /\ UNCHANGED tree

handlePanicSignal ==
    /\ System("panic")
    /\ CASE conf.directive = "restart" -> handleRestartRoutee
         [] conf.directive = "resume" -> handleResumeRoutee
         [] OTHER -> handleStopRoutee
    /\ UNCHANGED <<conf, flight, asks, sup, out, routed>>

RtSystem ==
    \/ postStart \/ scaleUp \/ scaleDown \/ handleGetRoutees \/ handleBroadcast
    \/ CallResult \/ Deadline \/ CallTimesOut \/ TailTick
    \/ \E a \in asks : AskRoutee(a) \/ AskExpires(a) \/ AskEnds(a)
    \/ \E f \in flight : FanOutTell(f)
    \/ \E p \in DOMAIN pids : RouteeTurn(p) \/ suspend(p) \/ notifyParent(p)
    \/ handlePanicking \/ handlePanicSignal
RtNext == RtSystem
RtSpec == RtInit /\ [][RtNext]_vars /\ WF_vars(RtSystem)

---------------------------------------------------------------------------
\* Scatter-gather and tail-chopping tell the client once per broadcast, in the
\* order of the broadcasts, and a success comes from a routee that was asked and
\* answered (router.go, scatterGatherFirst and tailChopping): a late answer of
\* an earlier call is never taken for one of the current call.
CallsAnsweredOnce ==
    /\ \A i, j \in DOMAIN out : i < j => out[i].m < out[j].m
    /\ InCall => \A i \in DOMAIN out : out[i].m # r.call.m
    /\ conf.kind # "standard" /\ r.pc = "ready" =>
         {out[i].m : i \in DOMAIN out} = {m \in 1..(r.n - 1) : conf.script[m][1] = "broadcast"}
    /\ r.call.pending >= Len(r.call.results)

\* A routee that runs is in the routeesMap, so that broadcasts reach it: the
\* router loses no routee to a failure that raced with a broadcast (router.go,
\* availableRoutees drops it while suspended, handleRestartRoutee puts it back).
RoutedWhileRunning == r.pc # "starting" => \A p \in DOMAIN pids : Running(p) => p \in Range(r.map)

\* Two messages of one key, routed over one set of members while all of them
\* run, reach the same routee (routeByConsistentHash).
SameKeySameRoutee ==
    \A i, j \in DOMAIN routed :
       LET a == routed[i] b == routed[j] IN
       /\ conf.strategy = "hash" /\ a.ring = b.ring /\ a.live = b.live
       /\ conf.script[a.m][2] = conf.script[b.m][2] /\ conf.script[a.m][2] # 0
       /\ {pids[p].name : p \in a.live} = a.ring
       => a.to = b.to

\* RoundRobinRouting "sends each incoming message to the next routee in order":
\* over an unchanged pool of n, n successive messages reach n routees.
\* Does not hold: the routees are in the order of a Go map.
EvenDistribution ==
    \A i, j \in DOMAIN routed :
       /\ conf.strategy = "roundRobin" /\ i < j
       /\ \A k \in i..j : routed[k].live = routed[i].live
       /\ j - i < Cardinality(routed[i].live)
       => routed[i].to # routed[j].to

\* "PoolSize > 0: Scale up by PoolSize (spawn that many additional routees)."
\* Does not hold: after scaling down, scaling up reuses names that are still taken.
PoolSizeKept == r.pc = "ready" /\ sup = {} /\ r.sys = <<>> => Cardinality(DOMAIN r.map) = r.size

RouterEnded ==
    /\ r.pc = "stopped" \/ (r.pc = "ready" /\ r.n > Len(conf.script) /\ r.sys = <<>>)
    /\ asks = {} /\ flight = {} /\ sup = {}
RouterEnds == <>[]RouterEnded
=============================================================================
