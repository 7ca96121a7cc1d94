----------------------------- MODULE DeathWatch -----------------------------
(***************************************************************************)
(* Watch and Terminated within a node and between nodes: PID.Watch,         *)
(* UnWatch and doStop of actor/pid.go, the watch relation of the actors     *)
(* tree, remoteWatchRegistry (by actor and by host), the two remote watch   *)
(* handlers, the system death watch and the pruning done when a node leaves.*)
(*                                                                          *)
(* Every remote call is a request that another goroutine serves; it may     *)
(* time out while the request is still on its way.  Every node has a host   *)
(* of its own.                                                              *)
(***************************************************************************)
EXTENDS Integers, FiniteSets

CONSTANTS Actors, Home, None, Confs

VARIABLES conf,   \* who may watch whom, who may be stopped, the faults
          life,   \* per actor
          tree,   \* <<watchee, watcher>> pairs of the actors tree
          reg,    \* per node: its remoteWatchRegistry
          call,   \* per actor and thread ("turn", "stop"): its remote call
          late,   \* requests whose caller gave up before they were served
          todo,   \* per stopping actor: remote watchees still to release
          tells,  \* Terminated messages on their way to another node
          got,    \* <<watcher, watchee>> -> Terminated messages handled
          may,    \* operations that the actors' handlers may still perform
          owed,   \* history: <<watcher, watchee>> registered when watchee's stop began
          told,   \* history: <<watcher, watchee>> whose Terminated was sent
          down    \* nodes that crashed, with "seen" once the survivors pruned them

vars == <<conf, life, tree, reg, call, late, todo, tells, got, may, owed, told, down>>

Nodes == {Home[a] : a \in Actors}
Threads == Actors \X {"turn", "stop"}
Pairs == Actors \X Actors
Remote(a, b) == Home[a] # Home[b]
Fault(f) == f \in conf.faults
IsRunning(a) == life[a] = "running"
InTree(a) == life[a] \notin {"deleted", "crashed"}
Idle == [kind |-> "none", e |-> None, pc |-> "idle"]

newRemoteWatchRegistry == [watchers |-> {}, watchees |-> {}, watchersByHost |-> {}, watcheesByHost |-> {}]

DInit ==
    /\ conf \in Confs
    /\ life = [a \in Actors |-> "running"]
    /\ tree = {}
    /\ reg = [n \in Nodes |-> newRemoteWatchRegistry]
    /\ call = [t \in Threads |-> Idle]
    /\ late = {} /\ tells = {}
    /\ todo = [a \in Actors |-> {}]
    /\ got = [p \in Pairs |-> 0]
    /\ may = conf.may
    /\ owed = {} /\ told = {}
    /\ down = [n \in Nodes |-> "no"]

---------------------------------------------------------------------------
\* remoteWatchRegistry.  An entry is <<local actor, remote actor>>; the by-host
\* views hold <<host, local actor, remote actor>>.
ByHost(l, r) == <<Home[r], l, r>>

addWatcher(g, l, r) == [g EXCEPT !.watchers = @ \cup {<<l, r>>}, !.watchersByHost = @ \cup {ByHost(l, r)}]
removeWatcher(g, l, r) == [g EXCEPT !.watchers = @ \ {<<l, r>>}, !.watchersByHost = @ \ {ByHost(l, r)}]
addWatchee(g, l, r) == [g EXCEPT !.watchees = @ \cup {<<l, r>>}, !.watcheesByHost = @ \cup {ByHost(l, r)}]
removeWatchee(g, l, r) == [g EXCEPT !.watchees = @ \ {<<l, r>>}, !.watcheesByHost = @ \ {ByHost(l, r)}]

watchersFor(g, l) == {p[2] : p \in {q \in g.watchers : q[1] = l}}
watcheesFor(g, l) == {p[2] : p \in {q \in g.watchees : q[1] = l}}

Without(g, ws, es) ==
    [g EXCEPT !.watchers = @ \ ws, !.watchersByHost = @ \ {ByHost(p[1], p[2]) : p \in ws},
              !.watchees = @ \ es, !.watcheesByHost = @ \ {ByHost(p[1], p[2]) : p \in es}]

\* As if the view by host kept what the view by PID drops.
DropPIDKeepsHostView(g, l) == [g EXCEPT !.watchers = {p \in @ : p[1] # l}, !.watchees = {p \in @ : p[1] # l}]
\* Both directions of the actor's entries go.
dropPID(g, l) == Without(g, {p \in g.watchers : p[1] = l}, {p \in g.watchees : p[1] = l})

\* The entries a departed host touches, found through the by-host views.
dropHost(g, h) == Without(g, {<<t[2], t[3]>> : t \in {u \in g.watchersByHost : u[1] = h}},
                             {<<t[2], t[3]>> : t \in {u \in g.watcheesByHost : u[1] = h}})

---------------------------------------------------------------------------
Begin(t, k, e) == call' = [call EXCEPT ![t] = [kind |-> k, e |-> e, pc |-> "request"]]

\* PID.Watch called by w's handler.
Watch(w, e) ==
    /\ <<"watch", w, e>> \in may /\ IsRunning(w) /\ call[<<w, "turn">>].pc = "idle"
    /\ may' = may \ {<<"watch", w, e>>}
    /\ IF Remote(w, e)
       THEN Begin(<<w, "turn">>, "watch", e) /\ UNCHANGED tree
       ELSE tree' = (IF InTree(e) /\ InTree(w) THEN tree \cup {<<e, w>>} ELSE tree) /\ UNCHANGED call
    /\ UNCHANGED <<conf, life, reg, late, todo, tells, got, owed, told, down>>

\* PID.UnWatch: the local registration goes first.
UnWatch(w, e) ==
    /\ <<"unwatch", w, e>> \in may /\ IsRunning(w) /\ call[<<w, "turn">>].pc = "idle"
    /\ may' = may \ {<<"unwatch", w, e>>}
    /\ IF Remote(w, e)
       THEN /\ reg' = [reg EXCEPT ![Home[w]] = removeWatchee(@, w, e)]
            /\ Begin(<<w, "turn">>, "unwatch", e) /\ UNCHANGED tree
       ELSE tree' = tree \ {<<e, w>>} /\ UNCHANGED <<call, reg>>
    /\ owed' = owed \ {<<w, e>>}
    /\ UNCHANGED <<conf, life, late, todo, tells, got, told, down>>

---------------------------------------------------------------------------
\* remoteWatchHandler: the actor is looked up, then registered.
WatchLookup(t) ==
    LET c == call[t] IN
    /\ c.kind = "watch" /\ c.pc = "request" /\ down[Home[c.e]] = "no"
    /\ call' = [call EXCEPT ![t].pc = IF InTree(c.e) THEN "found" ELSE "notFound"]
    /\ UNCHANGED <<conf, life, tree, reg, late, todo, tells, got, may, owed, told, down>>

remoteWatchHandler(t) ==
    LET c == call[t] IN
    /\ c.pc = "found" /\ down[Home[c.e]] = "no"
    /\ reg' = [reg EXCEPT ![Home[c.e]] = addWatcher(@, c.e, t[1])]
    /\ call' = [call EXCEPT ![t].pc = "ok"]
    /\ UNCHANGED <<conf, life, tree, late, todo, tells, got, may, owed, told, down>>

\* remoteUnWatchHandler: an actor that is gone is a success.
remoteUnWatchHandler(t) ==
    LET c == call[t] IN
    /\ c.kind = "unwatch" /\ c.pc = "request" /\ down[Home[c.e]] = "no"
    /\ reg' = IF InTree(c.e) THEN [reg EXCEPT ![Home[c.e]] = removeWatcher(@, c.e, t[1])] ELSE reg
    /\ call' = [call EXCEPT ![t].pc = "ok"]
    /\ UNCHANGED <<conf, life, tree, late, todo, tells, got, may, owed, told, down>>

\* The request of a caller that gave up is served all the same.
ServeLate(q) ==
    LET n == Home[q.e] IN
    /\ late' = late \ {q}
    /\ reg' = IF ~InTree(q.e) THEN reg
              ELSE IF q.kind = "watch" THEN [reg EXCEPT ![n] = addWatcher(@, q.e, q.w)]
              ELSE [reg EXCEPT ![n] = removeWatcher(@, q.e, q.w)]
    /\ UNCHANGED <<conf, life, tree, call, todo, tells, got, may, owed, told, down>>

\* The call ends; the stop thread goes on to its next watchee.
Returned(t) ==
    /\ call' = [call EXCEPT ![t] = Idle]
    /\ todo' = IF t[2] = "stop" THEN [todo EXCEPT ![t[1]] = @ \ {call[t].e}] ELSE todo

\* RemoteWatch returns: only a successful watch is recorded locally.
RemoteWatch(t) ==
    LET c == call[t] IN
    /\ c.kind = "watch" /\ c.pc \in {"ok", "notFound"}
    /\ Returned(t)
    /\ reg' = IF c.pc = "ok" THEN [reg EXCEPT ![Home[t[1]]] = addWatchee(@, t[1], c.e)] ELSE reg
    /\ UNCHANGED <<conf, life, tree, late, tells, got, may, owed, told, down>>

RemoteUnWatch(t) ==
    /\ call[t].kind = "unwatch" /\ call[t].pc = "ok"
    /\ Returned(t)
    /\ UNCHANGED <<conf, life, tree, reg, late, tells, got, may, owed, told, down>>

\* The remote watch timeout, a lost request or reply, or a peer that is gone: the
\* error is only logged.
CallFails(t) ==
    LET c == call[t]
        r == [kind |-> c.kind, w |-> t[1], e |-> c.e]
    IN
    /\ c.kind # "none"
    /\ Fault("lossy") \/ down[Home[c.e]] # "no"
    /\ Returned(t)
    /\ \/ c.pc \in {"request", "found"} /\ down[Home[c.e]] = "no" /\ late' = late \cup {r}
       \/ UNCHANGED late
    /\ UNCHANGED <<conf, life, tree, reg, tells, got, may, owed, told, down>>

---------------------------------------------------------------------------
\* Shutdown and the first half of freeWatchees: the local watches are released.
Shutdown(a) ==
    /\ a \in conf.stops /\ IsRunning(a)
    /\ life' = [life EXCEPT ![a] = "freeWatchees"]
    /\ tree' = {p \in tree : p[2] # a}
    /\ todo' = [todo EXCEPT ![a] = watcheesFor(reg[Home[a]], a)]
    /\ owed' = owed \cup {<<w, a>> : w \in {x \in Actors :
                   \/ <<a, x>> \in tree
                   \/ <<a, x>> \in reg[Home[a]].watchers /\ <<x, a>> \in reg[Home[x]].watchees}}
    /\ UNCHANGED <<conf, reg, call, late, tells, got, may, told, down>>

freeNextWatchee(a) ==
    /\ life[a] = "freeWatchees" /\ call[<<a, "stop">>].pc = "idle"
    /\ \E e \in todo[a] : Begin(<<a, "stop">>, "unwatch", e)
    /\ UNCHANGED <<conf, life, tree, reg, late, todo, tells, got, may, owed, told, down>>

\* The end of freeWatchees; the children are stopped next (module Lifecycle).
freeWatchees(a) ==
    /\ life[a] = "freeWatchees" /\ todo[a] = {} /\ call[<<a, "stop">>].pc = "idle"
    /\ reg' = [reg EXCEPT ![Home[a]] = dropPID(@, a)]
    /\ life' = [life EXCEPT ![a] = "postStop"]
    /\ UNCHANGED <<conf, tree, call, late, todo, tells, got, may, owed, told, down>>

\* An error of PostStop skips freeWatchers.
PostStop(a) ==
    /\ life[a] = "postStop"
    /\ \/ life' = [life EXCEPT ![a] = "freeWatchers"]
       \/ Fault("postStop") /\ life' = [life EXCEPT ![a] = "stopFailed"]
    /\ UNCHANGED <<conf, tree, reg, call, late, todo, tells, got, may, owed, told, down>>

\* Local watchers that run are told and released; remote ones are told.
freeWatchers(a) ==
    LET locals == {w \in Actors : <<a, w>> \in tree /\ IsRunning(w)}
        remotes == watchersFor(reg[Home[a]], a)
    IN
    /\ life[a] = "freeWatchers"
    /\ got' = [p \in Pairs |-> IF p[2] = a /\ p[1] \in locals THEN got[p] + 1 ELSE got[p]]
    /\ tree' = tree \ {<<a, w>> : w \in locals}
    /\ tells' = tells \cup {<<w, a>> : w \in remotes}
    /\ told' = told \cup {<<w, a>> : w \in locals \cup remotes}
    /\ life' = [life EXCEPT ![a] = "stopped"]
    /\ UNCHANGED <<conf, reg, call, late, todo, may, owed, down>>

\* The system death watch removes the stopped actor from the tree.
handleTerminated(a) ==
    /\ life[a] = "stopped"
    /\ life' = [life EXCEPT ![a] = "deleted"]
    /\ tree' = {p \in tree : p[1] # a /\ p[2] # a}
    /\ UNCHANGED <<conf, reg, call, late, todo, tells, got, may, owed, told, down>>

\* A Terminated message reaches the watcher's node, or is lost on the way.
deliverTerminated(p) ==
    /\ p \in tells
    /\ tells' = tells \ {p}
    /\ \/ got' = IF IsRunning(p[1]) THEN [got EXCEPT ![p] = @ + 1] ELSE got
       \/ Fault("lossy") /\ UNCHANGED got
    /\ UNCHANGED <<conf, life, tree, reg, call, late, todo, may, owed, told, down>>

---------------------------------------------------------------------------
\* A node disappears with its actors and the calls they were making.
Crash(n) ==
    /\ Fault("crash") /\ n \in conf.crashes /\ down[n] = "no"
    /\ down' = [down EXCEPT ![n] = "crashed"]
    /\ life' = [a \in Actors |-> IF Home[a] = n THEN "crashed" ELSE life[a]]
    /\ call' = [t \in Threads |-> IF Home[t[1]] = n THEN Idle ELSE call[t]]
    /\ tree' = {p \in tree : Home[p[1]] # n}
    /\ late' = {q \in late : Home[q.e] # n}
    /\ tells' = {p \in tells : Home[p[1]] # n}
    /\ UNCHANGED <<conf, reg, todo, got, may, owed, told>>

\* pruneRemoteWatchesForHost, on the survivor m.
pruneRemoteWatchesForHost(n, m) ==
    LET lost == {<<t[2], t[3]>> : t \in {u \in reg[m].watcheesByHost : u[1] = n}} IN
    /\ down[n] = "crashed" /\ down[m] = "no" /\ n # m
    /\ reg' = [reg EXCEPT ![m] = dropHost(@, n)]
    /\ got' = [p \in Pairs |-> IF p \in lost /\ IsRunning(p[1]) THEN got[p] + 1 ELSE got[p]]
    /\ down' = [down EXCEPT ![n] = "seen"]
    /\ UNCHANGED <<conf, life, tree, call, late, todo, tells, may, owed, told>>

---------------------------------------------------------------------------
DSystem ==
    \/ \E t \in Threads : \/ WatchLookup(t) \/ remoteWatchHandler(t) \/ remoteUnWatchHandler(t)
                          \/ RemoteWatch(t) \/ RemoteUnWatch(t) \/ CallFails(t)
    \/ \E a \in Actors : \/ freeNextWatchee(a) \/ freeWatchees(a) \/ PostStop(a) \/ freeWatchers(a)
                         \/ handleTerminated(a)
    \/ \E q \in late : ServeLate(q)
    \/ \E p \in tells : deliverTerminated(p)
    \/ \E n, m \in Nodes : pruneRemoteWatchesForHost(n, m)

DUser ==
    \/ \E w, e \in Actors : Watch(w, e) \/ UnWatch(w, e)
    \/ \E a \in Actors : Shutdown(a)
    \/ \E n \in Nodes : Crash(n)

DNext == DSystem \/ DUser

DSpec == DInit /\ [][DNext]_vars /\ WF_vars(DSystem)

---------------------------------------------------------------------------
\* remoteWatchRegistry: the by-actor and the by-host view of each direction hold
\* the same entries whatever sequence of calls, drops and sweeps made them, so a
\* node-left sweep misses nobody and a stopped actor leaves nothing behind.
IndexesAgree ==
    \A n \in Nodes :
        /\ reg[n].watchersByHost = {ByHost(p[1], p[2]) : p \in reg[n].watchers}
        /\ reg[n].watcheesByHost = {ByHost(p[1], p[2]) : p \in reg[n].watchees}

\* A Terminated message is the truth: the actor it names has run its PostStop or
\* is gone with its node.
NoFalseTerminated ==
    \A p \in Pairs : got[p] > 0 => life[p[2]] \in {"stopped", "deleted", "crashed"}

\* A local watcher that is registered when the stop begins, keeps its watch and
\* runs, gets exactly one Terminated by the time the stop is complete.
LocalWatcherNotified ==
    \A p \in owed : (~Remote(p[1], p[2]) /\ life[p[2]] \in {"stopped", "deleted"} /\ IsRunning(p[1])) => got[p] = 1

\* Every stop, call and notification comes to its end.
WatchEnded ==
    /\ \A a \in Actors : life[a] \in {"running", "deleted", "stopFailed", "crashed"}
    /\ \A t \in Threads : call[t].pc = "idle"
    /\ late = {} /\ tells = {}

\* CHANGELOG.md:252: a remote watchee that terminates normally delivers a
\* Terminated to every watcher: whoever was registered when the stop began has
\* been sent one when the stop is complete.
\* Does not hold: a notification that fails is not repeated, and dropPID may
\* come first.
RemoteWatcherNotified ==
    \A p \in owed : life[p[2]] \in {"stopped", "deleted"} /\ IsRunning(p[1]) => p \in told
=============================================================================
