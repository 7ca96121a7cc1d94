------------------------------ MODULE DataCenter ------------------------------
(***************************************************************************)
(* The multi-datacenter controllers (internal/datacentercontroller and      *)
(* actor/data_center_controller.go) over a control plane in etcd or in a    *)
(* NATS bucket (datacenter/controlplane).  A node of every datacenter leads *)
(* and runs the controller that registers the datacenter, heartbeats its    *)
(* record under optimistic concurrency and keeps a cache of the active      *)
(* records, by polling and from watch events.  Reconciliation starts, stops *)
(* and updates the controller as leaders and members change.                *)
(* The endpoints of a datacenter are the number of its membership change.   *)
(***************************************************************************)
EXTENDS Integers, Sequences, FiniteSets, SequencesExt

CONSTANTS DCs, None, Confs

VARIABLES conf,   \* the plane, where the nodes are, what happens
          store,  \* the control plane: its revision and the records
          lead,   \* per datacenter: its leader
          eps,    \* per datacenter: its endpoints
          ctl,    \* per node: its controller
          proc,   \* per node: its goroutines
          q,      \* per node: the watch events on their way
          left    \* how often what is periodic or external may still happen

vars == <<conf, store, lead, eps, ctl, proc, q, left>>

Nodes == DOMAIN conf.dc
DC(n) == conf.dc[n]
Etcd == conf.plane = "etcd"
Procs == {"main", "beat", "refresh", "watch"}
Off == [pc |-> "off", next |-> "none", eps |-> 0, ver |-> 0, seen |-> 0, state |-> "none",
        list |-> {}, keys |-> {}]

\* NewController, newRecordCache.
NewController(e) ==
    [made |-> FALSE, started |-> FALSE, alive |-> FALSE, ver |-> 0, eps |-> e, hasID |-> FALSE,
     records |-> {}, tombs |-> {}, refreshed |-> 0, watching |-> FALSE]

DInit ==
    /\ conf \in Confs
    /\ store = [rev |-> 0, rec |-> [d \in DCs |-> None]]
    /\ lead = conf.lead
    /\ eps = [d \in DCs |-> 1]
    /\ ctl = [n \in Nodes |-> NewController(0)]
    /\ proc = [n \in Nodes |-> [p \in Procs |-> Off]]
    /\ q = [n \in Nodes |-> <<>>]
    /\ left = conf.left

May(what) == left[what] > 0
Spend(what) == left' = [left EXCEPT ![what] = @ - 1]

---------------------------------------------------------------------------
\* The control plane.  Watchers get an event for every change, in order; a record
\* that expires in a NATS bucket leaves without one.
Event(type, d, v, state, e) == [type |-> type, id |-> d, ver |-> v, state |-> state, eps |-> e]
Watchers == {n \in Nodes : proc[n]["watch"].pc = "events"}
Emit(ev) == q' = [n \in Nodes |-> IF n \in Watchers THEN Append(q[n], ev) ELSE q[n]]

Ver(d) == IF store.rec[d] = None THEN 0 ELSE store.rec[d].ver
Put(d, state, e) ==
    /\ store' = [rev |-> store.rev + 1, rec |-> [store.rec EXCEPT ![d] = [ver |-> store.rev + 1, state |-> state, eps |-> e]]]
    /\ Emit(Event("upsert", d, store.rev + 1, state, e))

\* toControlPlaneEvent of a deletion: etcd knows the previous value and its
\* version, a NATS marker carries neither.
Deleted(d) ==
    IF Etcd THEN Event("delete", d, Ver(d), store.rec[d].state, store.rec[d].eps) ELSE Event("delete", d, 0, "none", 0)
Delete(d) ==
    /\ store' = [rev |-> store.rev + 1, rec |-> [store.rec EXCEPT ![d] = None]]
    /\ Emit(Deleted(d))

Listed(ds) == {[id |-> d, ver |-> Ver(d), state |-> store.rec[d].state, eps |-> store.rec[d].eps] :
                 d \in {x \in ds : store.rec[x] # None /\ store.rec[x].state = "active"}}
ListActive == Listed(DCs)

---------------------------------------------------------------------------
\* The cache.  A record here is [id, ver, state, eps]; a tombstone is <<id, ver>>.
Versions(c, id) ==
    LET r == {x.ver : x \in {y \in c.records : y.id = id}}
        t == {x[2] : x \in {y \in c.tombs : y[1] = id}} IN
    IF r # {} THEN r ELSE t
currentVersionLocked(c, id) == IF Versions(c, id) = {} THEN 0 ELSE CHOOSE v \in Versions(c, id) : TRUE
shouldApplyLocked(c, id, v) ==
    IF v = 0 THEN currentVersionLocked(c, id) = 0 ELSE v >= currentVersionLocked(c, id)

Without(s, id) == {x \in s : x.id # id}
Untombed(c, ids) == {x \in c.tombs : x[1] \notin ids}
Accepted(c, list) == {r \in list : r.state = "active" /\ shouldApplyLocked(c, r.id, r.ver)}

replace(c, list, at) ==
    LET new == Accepted(c, list) IN
    [c EXCEPT !.records = new, !.tombs = Untombed(c, {r.id : r \in new}), !.refreshed = at]
merge(c, list, at) ==
    LET new == Accepted(c, list)
        ids == {r.id : r \in new} IN
    [c EXCEPT !.records = {x \in @ : x.id \notin ids} \cup new, !.tombs = Untombed(c, ids), !.refreshed = at]

\* apply: an upsert of a record that is not active deletes it.
apply(c, ev, at) ==
    LET record == [id |-> ev.id, ver |-> ev.ver, state |-> ev.state, eps |-> ev.eps]
        deletes == ev.type = "delete" \/ ev.state # "active" IN
    IF ~shouldApplyLocked(c, ev.id, ev.ver) THEN c
    ELSE IF deletes
    THEN [c EXCEPT !.records = Without(@, ev.id), !.refreshed = at,
                   !.tombs = IF ev.ver > 0 THEN Untombed(c, {ev.id}) \cup {<<ev.id, ev.ver>>} ELSE @]
    ELSE [c EXCEPT !.records = Without(@, ev.id) \cup {record}, !.tombs = Untombed(c, {ev.id}), !.refreshed = at]

---------------------------------------------------------------------------
At(n, p, pc) == proc[n][p].pc = pc
Set(n, p, r) == proc' = [proc EXCEPT ![n][p] = r]
Goto(n, p, pc) == Set(n, p, [proc[n][p] EXCEPT !.pc = pc])
Lost == "net" \in conf.faults
Idle(p) == IF p = "main" THEN Off ELSE [Off EXCEPT !.pc = "idle"]
\* The loops of a controller whose context is done return instead.
Rest(n, p) == Set(n, p, IF p # "main" /\ ~ctl[n].alive THEN Off ELSE Idle(p))

\* A call may be lost on its way to the plane, and its answer on the way back.
\* Register without a version: read what is there, then write if it has not changed.
etcdRegisterTxn(n, p) == proc[n][p].seen = Ver(DC(n))
\* NATS puts a new key without looking again.
natsRegisterTxn(n, p) == proc[n][p].seen = 0 \/ proc[n][p].seen = Ver(DC(n))
RegisterTxn(n, p) == IF Etcd THEN etcdRegisterTxn(n, p) ELSE natsRegisterTxn(n, p)

registerCompare(n, p) ==
    /\ At(n, p, "register")
    /\ Set(n, p, [proc[n][p] EXCEPT !.pc = "registerTxn", !.seen = IF @ > 0 THEN @ ELSE Ver(DC(n))])
    /\ UNCHANGED <<conf, store, lead, eps, ctl, q, left>>

\* Which call failed decides what follows.
Fails(n, p) == IF p = "beat" \/ proc[n][p].next = "off" THEN Rest(n, p) ELSE Goto(n, p, proc[n][p].next)

\* register: as registered, then as active; UpdateEndpoints: as active at once.
Registered(n, p) == IF proc[n][p].state = "active" THEN "updated" ELSE "setState"
Register(n, p) ==
    /\ At(n, p, "registerTxn")
    /\ \/ /\ RegisterTxn(n, p)
          /\ Put(DC(n), proc[n][p].state, proc[n][p].eps)
          /\ Set(n, p, [proc[n][p] EXCEPT !.pc = Registered(n, p), !.ver = store.rev + 1, !.state = "active"])
       \/ (Lost \/ ~RegisterTxn(n, p)) /\ Fails(n, p) /\ UNCHANGED <<store, q>>
       \/ Lost /\ RegisterTxn(n, p) /\ Put(DC(n), proc[n][p].state, proc[n][p].eps) /\ Fails(n, p)
    /\ UNCHANGED <<conf, lead, eps, ctl, left>>

\* SetState: the record must be at the caller's version when read and when written.
SetStateRead(n, p) ==
    /\ At(n, p, "setState")
    /\ IF Ver(DC(n)) # 0 /\ Ver(DC(n)) = proc[n][p].ver THEN Goto(n, p, "setStateTxn")
       ELSE IF p = "main" /\ Ver(DC(n)) = 0 /\ proc[n][p].state # "active" THEN Goto(n, p, "gone")
       ELSE Fails(n, p)
    /\ UNCHANGED <<conf, store, lead, eps, ctl, q, left>>
AfterState(s) == CASE s = "active" -> "registered" [] s = "draining" -> "drained" [] OTHER -> "deregister"
SetState(n, p) ==
    /\ At(n, p, "setStateTxn")
    /\ \/ /\ Ver(DC(n)) = proc[n][p].ver
          /\ Put(DC(n), proc[n][p].state, store.rec[DC(n)].eps)
          /\ Set(n, p, [proc[n][p] EXCEPT !.pc = AfterState(proc[n][p].state), !.ver = store.rev + 1])
       \/ (Lost \/ Ver(DC(n)) # proc[n][p].ver) /\ Fails(n, p) /\ UNCHANGED <<store, q>>
       \/ Lost /\ Ver(DC(n)) = proc[n][p].ver /\ Put(DC(n), proc[n][p].state, store.rec[DC(n)].eps) /\ Fails(n, p)
    /\ UNCHANGED <<conf, lead, eps, ctl, left>>

\* setRecordRef, at the end of register.
setRecordRef(n) ==
    /\ At(n, "beat", "registered")
    /\ ctl' = [ctl EXCEPT ![n].ver = proc[n]["beat"].ver, ![n].hasID = TRUE]
    /\ Rest(n, "beat")
    /\ UNCHANGED <<conf, store, lead, eps, q, left>>

---------------------------------------------------------------------------
\* startDataCenterController: only the leader has a controller, with the endpoints
\* of its members.
Busy(n) == proc[n]["main"].pc # "off"
Reconciles(n) == conf.up[n] /\ ~Busy(n)

startDataCenterController(n) ==
    /\ Reconciles(n) /\ lead[DC(n)] = n /\ ~ctl[n].made /\ May("start")
    /\ Spend("start")
    /\ ctl' = [ctl EXCEPT ![n] = [NewController(eps[DC(n)]) EXCEPT !.alive = TRUE]]
    /\ Set(n, "main", [Off EXCEPT !.pc = "register", !.next = "startFails", !.eps = eps[DC(n)], !.state = "registered"])
    /\ UNCHANGED <<conf, store, lead, eps, q>>

\* A controller that cannot register is dropped.
StartFails(n) ==
    /\ At(n, "main", "startFails")
    /\ ctl' = [ctl EXCEPT ![n] = NewController(0)]
    /\ Set(n, "main", Off)
    /\ UNCHANGED <<conf, store, lead, eps, q, left>>

StartRegistered(n) ==
    /\ At(n, "main", "registered")
    /\ ctl' = [ctl EXCEPT ![n].ver = proc[n]["main"].ver, ![n].hasID = TRUE]
    /\ Goto(n, "main", "list")
    /\ UNCHANGED <<conf, store, lead, eps, q, left>>

\* Start: the first refresh may fail, then the loops are started; the context of a
\* reconciliation ends with it, and theirs with that.
Started(n, list) ==
    /\ ctl' = [ctl EXCEPT ![n] = [replace(@, list, store.rev) EXCEPT !.made = TRUE, !.started = TRUE,
                                                                     !.alive = "bounded" \notin conf.faults]]
    /\ proc' = [proc EXCEPT ![n] = [p \in Procs |->
                  IF p = "main" \/ "bounded" \in conf.faults \/ (p = "watch" /\ ~conf.watch) THEN Off ELSE Idle(p)]]
StartLists(n) ==
    /\ At(n, "main", "list")
    /\ Started(n, ListActive)
    /\ UNCHANGED <<conf, store, lead, eps, q, left>>

\* maybeUpdateEndpoints, UpdateEndpoints: registers at the version it reads.
UpdateEndpoints(n) ==
    /\ Reconciles(n) /\ lead[DC(n)] = n /\ ctl[n].made /\ ctl[n].eps # eps[DC(n)]
    /\ ctl[n].started /\ ctl[n].hasID /\ May("update") /\ Spend("update")
    /\ Set(n, "main", [Off EXCEPT !.pc = "register", !.next = "off", !.eps = eps[DC(n)], !.state = "active", !.seen = ctl[n].ver])
    /\ UNCHANGED <<conf, store, lead, eps, ctl, q>>
Updated(n) ==
    /\ At(n, "main", "updated")
    /\ ctl' = [ctl EXCEPT ![n].ver = proc[n]["main"].ver, ![n].eps = proc[n]["main"].eps]
    /\ Set(n, "main", Off)
    /\ UNCHANGED <<conf, store, lead, eps, q, left>>

\* stopControllerLocked, Stop: the loops first, then DRAINING, INACTIVE and gone.
Dropped(n) == ctl' = [ctl EXCEPT ![n] = NewController(0)] /\ Set(n, "main", Off)
Stop(n) ==
    /\ Reconciles(n) /\ lead[DC(n)] # n /\ ctl[n].made
    /\ IF ctl[n].started
       THEN ctl' = [ctl EXCEPT ![n].started = FALSE, ![n].alive = FALSE] /\ Goto(n, "main", "wait")
       ELSE Dropped(n)
    /\ UNCHANGED <<conf, store, lead, eps, q, left>>
LoopReturns(n, p) ==
    /\ p # "main" /\ ~ctl[n].alive /\ proc[n][p].pc \in {"idle", "events"}
    /\ Set(n, p, Off) /\ q' = IF p = "watch" THEN [q EXCEPT ![n] = <<>>] ELSE q
    /\ UNCHANGED <<conf, store, lead, eps, ctl, left>>
StopWaited(n) ==
    /\ At(n, "main", "wait") /\ \A p \in Procs \ {"main"} : At(n, p, "off")
    /\ ctl' = [ctl EXCEPT ![n].watching = FALSE]
    /\ Set(n, "main", [Off EXCEPT !.pc = "setState", !.next = "off", !.state = "draining", !.ver = ctl[n].ver])
    /\ UNCHANGED <<conf, store, lead, eps, q, left>>
Drained(n) ==
    /\ At(n, "main", "drained")
    /\ Set(n, "main", [proc[n]["main"] EXCEPT !.pc = "setState", !.state = "inactive"])
    /\ UNCHANGED <<conf, store, lead, eps, ctl, q, left>>
\* The record is gone: after DRAINING that is the end, after INACTIVE it is
\* deregistered all the same.
Gone(n) ==
    /\ At(n, "main", "gone")
    /\ IF proc[n]["main"].state = "draining" THEN Dropped(n) ELSE Goto(n, "main", "deregister") /\ UNCHANGED ctl
    /\ UNCHANGED <<conf, store, lead, eps, q, left>>

\* Deregister checks no version, and may fail without harm.
Deregister(n) ==
    /\ At(n, "main", "deregister")
    /\ Dropped(n)
    /\ \/ IF Ver(DC(n)) = 0 THEN UNCHANGED <<store, q>> ELSE Delete(DC(n))
       \/ Lost /\ UNCHANGED <<store, q>>
    /\ UNCHANGED <<conf, lead, eps, left>>

---------------------------------------------------------------------------
\* heartbeatOnce: a record that is gone or was written by another is registered
\* again, with the endpoints known now.
Reregisters(n) ==
    Set(n, "beat", [Off EXCEPT !.pc = "register", !.eps = ctl[n].eps, !.state = "registered"])
heartbeatOnce(n) ==
    /\ At(n, "beat", "idle") /\ ctl[n].alive /\ May("beat") /\ Spend("beat")
    /\ Set(n, "beat", [Off EXCEPT !.pc = "heartbeat", !.ver = ctl[n].ver])
    /\ UNCHANGED <<conf, store, lead, eps, ctl, q>>
HeartbeatRead(n) ==
    /\ At(n, "beat", "heartbeat")
    /\ IF Ver(DC(n)) # 0 /\ Ver(DC(n)) = proc[n]["beat"].ver THEN Goto(n, "beat", "heartbeatTxn") ELSE Reregisters(n)
    /\ UNCHANGED <<conf, store, lead, eps, ctl, q, left>>
Heartbeat(n) ==
    /\ At(n, "beat", "heartbeatTxn")
    /\ \/ /\ Ver(DC(n)) = proc[n]["beat"].ver
          /\ Put(DC(n), store.rec[DC(n)].state, store.rec[DC(n)].eps)
          /\ Set(n, "beat", [proc[n]["beat"] EXCEPT !.pc = "beaten", !.ver = store.rev + 1])
       \/ /\ Ver(DC(n)) # proc[n]["beat"].ver /\ Reregisters(n) /\ UNCHANGED <<store, q>>
       \/ /\ Lost /\ Rest(n, "beat") /\ UNCHANGED <<store, q>>
    /\ UNCHANGED <<conf, lead, eps, ctl, left>>
Beaten(n) ==
    /\ At(n, "beat", "beaten")
    /\ ctl' = [ctl EXCEPT ![n].ver = proc[n]["beat"].ver]
    /\ Rest(n, "beat")
    /\ UNCHANGED <<conf, store, lead, eps, q, left>>

\* refreshCache: what was listed replaces the cache, or is merged while a watch runs.
refreshCache(n) ==
    /\ At(n, "refresh", "idle") /\ ctl[n].alive /\ May("refresh") /\ Spend("refresh")
    /\ Set(n, "refresh", IF Etcd THEN [Off EXCEPT !.pc = "apply", !.list = ListActive, !.seen = store.rev]
                         ELSE [Off EXCEPT !.pc = "get", !.keys = {d \in DCs : store.rec[d] # None}, !.seen = store.rev])
    /\ UNCHANGED <<conf, store, lead, eps, ctl, q>>
\* NATS lists the keys and gets one after the other.
natsListActive(n) ==
    /\ At(n, "refresh", "get")
    /\ LET p == proc[n]["refresh"] IN
       IF p.keys = {} THEN Goto(n, "refresh", "apply")
       ELSE \E d \in p.keys : Set(n, "refresh", [p EXCEPT !.keys = @ \ {d}, !.list = @ \cup Listed({d})])
    /\ UNCHANGED <<conf, store, lead, eps, ctl, q, left>>
RefreshApplies(n) ==
    LET p == proc[n]["refresh"] IN
    /\ At(n, "refresh", "apply")
    /\ ctl' = [ctl EXCEPT ![n] = IF @.watching THEN merge(@, p.list, p.seen) ELSE replace(@, p.list, p.seen)]
    /\ Rest(n, "refresh")
    /\ UNCHANGED <<conf, store, lead, eps, q, left>>

\* watchLoop: etcd's watch begins with the next change, NATS's with the values.
Values == SetToSeq({Event("upsert", d, Ver(d), store.rec[d].state, store.rec[d].eps) : d \in {x \in DCs : store.rec[x] # None}})
watchLoop(n) ==
    /\ At(n, "watch", "idle") /\ ctl[n].alive
    /\ Set(n, "watch", [Off EXCEPT !.pc = "events", !.seen = IF Etcd THEN store.rev ELSE 0])
    /\ ctl' = [ctl EXCEPT ![n].watching = TRUE]
    /\ q' = [q EXCEPT ![n] = IF Etcd THEN <<>> ELSE Values]
    /\ UNCHANGED <<conf, store, lead, eps, left>>
WatchApplies(n) ==
    /\ At(n, "watch", "events") /\ q[n] # <<>>
    /\ ctl' = [ctl EXCEPT ![n] = apply(@, Head(q[n]), @.refreshed)]
    /\ q' = [q EXCEPT ![n] = Tail(@)]
    /\ UNCHANGED <<conf, store, lead, eps, proc, left>>
WatchCloses(n) ==
    /\ At(n, "watch", "events") /\ May("close") /\ Spend("close")
    /\ Set(n, "watch", Idle("watch")) /\ q' = [q EXCEPT ![n] = <<>>]
    /\ ctl' = [ctl EXCEPT ![n].watching = FALSE]
    /\ UNCHANGED <<conf, store, lead, eps>>

---------------------------------------------------------------------------
\* Leaders and members change, nodes crash, leases run out.
Elect(d, n) ==
    /\ May("elect") /\ Spend("elect") /\ DC(n) = d /\ conf.up[n] /\ lead[d] # n
    /\ lead' = [lead EXCEPT ![d] = n]
    /\ UNCHANGED <<conf, store, eps, ctl, proc, q>>
Members(d) ==
    /\ May("members") /\ Spend("members") /\ d \in conf.moving
    /\ eps' = [eps EXCEPT ![d] = @ + 1]
    /\ UNCHANGED <<conf, store, lead, ctl, proc, q>>
Crash(n) ==
    /\ May("crash") /\ Spend("crash") /\ n \in conf.mayCrash /\ conf.up[n]
    /\ conf' = [conf EXCEPT !.up[n] = FALSE]
    /\ ctl' = [ctl EXCEPT ![n] = NewController(0)]
    /\ proc' = [proc EXCEPT ![n] = [p \in Procs |-> Off]]
    /\ q' = [q EXCEPT ![n] = <<>>]
    /\ UNCHANGED <<store, lead, eps>>
Unkept(d) == \A n \in Nodes : DC(n) = d => ~ctl[n].alive /\ ~Busy(n)
Expire(d) ==
    /\ Ver(d) # 0
    /\ store' = [rev |-> store.rev + 1, rec |-> [store.rec EXCEPT ![d] = None]]
    /\ IF Etcd THEN Emit(Deleted(d)) ELSE UNCHANGED q
    /\ UNCHANGED <<conf, lead, eps, ctl, proc>>
ExpireUnkept(d) == Unkept(d) /\ Expire(d) /\ UNCHANGED left
ExpireKept(d) == ~Unkept(d) /\ May("expire") /\ Spend("expire") /\ Expire(d)

DSystem ==
    \/ \E n \in Nodes :
          \/ startDataCenterController(n) \/ StartFails(n) \/ StartRegistered(n) \/ StartLists(n)
          \/ UpdateEndpoints(n) \/ Updated(n) \/ Stop(n) \/ StopWaited(n) \/ Drained(n) \/ Gone(n) \/ Deregister(n)
          \/ heartbeatOnce(n) \/ HeartbeatRead(n) \/ Heartbeat(n) \/ Beaten(n) \/ setRecordRef(n)
          \/ refreshCache(n) \/ natsListActive(n) \/ RefreshApplies(n) \/ watchLoop(n) \/ WatchApplies(n)
          \/ \E p \in Procs : registerCompare(n, p) \/ Register(n, p) \/ SetStateRead(n, p) \/ SetState(n, p) \/ LoopReturns(n, p)
    \/ \E d \in DCs : ExpireUnkept(d)
DEnv ==
    \/ \E n \in Nodes : WatchCloses(n) \/ Crash(n)
    \/ \E d \in DCs : Members(d) \/ ExpireKept(d) \/ \E n \in Nodes : Elect(d, n)
DNext == DSystem \/ DEnv
DSpec == DInit /\ [][DNext]_vars /\ WF_vars(DSystem)

---------------------------------------------------------------------------
\* By polling alone, a refresh that listed the control plane as it is leaves
\* exactly its active records in the cache, whatever the cache held and whatever
\* was deleted and registered again since (replace, shouldApplyLocked).
PollingExact ==
    \A n \in Nodes : ~conf.watch /\ ctl[n].started /\ ctl[n].refreshed = store.rev => ctl[n].records = ListActive

\* With a watch, once its events are applied no active record that changed since
\* it began is missing or old (apply, merge and their versions), whichever way
\* refreshes and events interleave.
WatchMissesNothing ==
    \A n \in Nodes :
       At(n, "watch", "events") /\ q[n] = <<>> =>
          {r \in ListActive : r.ver > proc[n]["watch"].seen} \subseteq ctl[n].records

\* Optimistic concurrency: a controller at the version of the stored record wrote
\* that record, as active and with its own endpoints (register, UpdateEndpoints,
\* Heartbeat).
OwnsItsVersion ==
    \A n \in Nodes :
       /\ ctl[n].started /\ ctl[n].ver = Ver(DC(n)) /\ Ver(DC(n)) # 0
       => store.rec[DC(n)].state = "active" /\ store.rec[DC(n)].eps = ctl[n].eps

\* In the end only a leader has a controller and everything rests
\* (startDataCenterController on every node, Stop even when it fails).
Rested ==
    \A n \in Nodes : /\ proc[n]["main"].pc = "off" /\ \A p \in Procs : proc[n][p].pc \in {"off", "idle", "events"}
                     /\ ctl[n].made => lead[DC(n)] = n
ControllersSettle == <>[]Rested

\* "Tombstones prevent deleted records from being resurrected by out-of-order
\* updates that arrive after a deletion event" (controller.go).
\* Does not hold: a refresh that read the record before its deletion has its
\* version, which a tombstone does not outrank.
NoResurrection ==
    [][\A n \in Nodes : \A t \in ctl[n].tombs : \A x \in ctl'[n].records : x.id = t[1] => x.ver > t[2]]_vars

\* "Background goroutines (heartbeat, refresh, optional watch) are started by Start
\* and are stopped/cancelled by Stop" (controller.go).
\* Does not hold: they run under the context given to Start, which the
\* reconciliation cancels when it returns.
BackgroundUntilStop == \A n \in Nodes : ctl[n].started => ctl[n].alive
=============================================================================
