----------------------------- MODULE WorkerPool -----------------------------
(***************************************************************************)
(* WorkerPool of internal/net/worker_pool.go, which runs the connections of *)
(* the TCP server: one shard with its two lock-free idle slots, its locked  *)
(* idle list, the periodic cleanup and Stop.                                *)
(***************************************************************************)
EXTENDS Integers, Sequences, FiniteSets, SequencesExt

CONSTANTS Confs,     \* tasks to add, workers already parked, and whether the last
                     \* of those is still at the end of a task
          MaxWorkers

VARIABLES conf,
          slot,      \* idleWorker1 and idleWorker2: a worker or NoWorker
          list,      \* idleWorkerList
          pool,      \* the stopped flags, where Stop and cleanup are
          adder,     \* per task: where its AddTask is and the worker it took
          worker,    \* the workers spawned so far
          ran        \* history: how often a task was handled

vars == <<conf, slot, list, pool, adder, worker, ran>>

NoWorker == 0
Tasks == 1..conf.tasks
Workers == DOMAIN worker

NewWorker == [pc |-> "range", buf |-> <<>>, closed |-> 0, bad |-> FALSE]

WInit ==
    /\ conf \in Confs
    /\ worker = [w \in 1..conf.parked |-> [NewWorker EXCEPT !.pc = IF w = 3 /\ conf.busy THEN "idle0" ELSE @]]
    /\ slot = [i \in 1..2 |-> IF i <= conf.parked THEN i ELSE NoWorker]
    /\ list = IF conf.parked = 3 /\ ~conf.busy THEN <<3>> ELSE <<>>
    /\ pool = [stopped |-> FALSE, shardStopped |-> FALSE, stop |-> "no", clean |-> 0, taken |-> <<>>]
    /\ adder = [t \in Tasks |-> [pc |-> "add", w |-> NoWorker]]
    /\ ran = [t \in Tasks |-> 0]

---------------------------------------------------------------------------
At(t, pc) == adder' = [adder EXCEPT ![t].pc = pc]
Takes(t, w) == adder' = [adder EXCEPT ![t].pc = "send", ![t].w = w]

\* AddTask: refused once the pool has stopped.
AddTask(t) ==
    /\ adder[t].pc = "add"
    /\ At(t, IF pool.stopped THEN "refused" ELSE "slot1")
    /\ UNCHANGED <<conf, slot, list, pool, worker, ran>>

\* getWorker: an idle slot is claimed by a compare-and-swap,
getWorkerSlot(t, i) ==
    /\ adder[t].pc = <<"slot1", "slot2">>[i]
    /\ \/ /\ slot[i] # NoWorker
          /\ slot' = [slot EXCEPT ![i] = NoWorker]
          /\ Takes(t, slot[i])
       \/ /\ slot[i] = NoWorker
          /\ At(t, <<"slot2", "list">>[i]) /\ UNCHANGED slot
    /\ UNCHANGED <<conf, list, pool, worker, ran>>

\* then the newest of the list, under the lock; otherwise a new worker.
getWorker(t) ==
    /\ adder[t].pc = "list"
    /\ \/ /\ list # <<>>
          /\ list' = Front(list) /\ Takes(t, Last(list)) /\ UNCHANGED worker
       \/ /\ list = <<>> /\ Len(worker) < MaxWorkers
          /\ worker' = Append(worker, NewWorker)
          /\ Takes(t, Len(worker) + 1) /\ UNCHANGED list
    /\ UNCHANGED <<conf, slot, pool, ran>>

\* The task is sent on the worker's channel; a send on a closed channel panics.
SendTask(t) ==
    /\ adder[t].pc = "send"
    /\ LET w == adder[t].w IN
       /\ Len(worker[w].buf) = 0
       /\ worker' = IF worker[w].closed > 0 THEN [worker EXCEPT ![w].bad = TRUE]
                    ELSE [worker EXCEPT ![w].buf = <<t>>]
    /\ At(t, "sent")
    /\ UNCHANGED <<conf, slot, list, pool, ran>>

---------------------------------------------------------------------------
WorkerAt(w, pc) == worker' = [worker EXCEPT ![w].pc = pc]

\* run: a task is received and handled; a closed, empty channel ends the worker.
run(w) ==
    /\ worker[w].pc = "range"
    /\ \/ /\ worker[w].buf # <<>>
          /\ ran' = [ran EXCEPT ![Head(worker[w].buf)] = @ + 1]
          /\ worker' = [worker EXCEPT ![w].pc = "idle0", ![w].buf = <<>>]
       \/ /\ worker[w].buf = <<>> /\ worker[w].closed > 0
          /\ WorkerAt(w, "ended") /\ UNCHANGED ran
    /\ UNCHANGED <<conf, slot, list, pool, adder>>

\* setWorkerIdle: nothing is parked in a stopped shard,
setWorkerIdle(w) ==
    /\ worker[w].pc = "idle0"
    /\ WorkerAt(w, IF pool.shardStopped THEN "ended" ELSE "idle1")
    /\ UNCHANGED <<conf, slot, list, pool, adder, ran>>

\* the worker parks itself in a free slot,
ParkInSlot(w, i) ==
    /\ worker[w].pc = <<"idle1", "idle2">>[i]
    /\ \/ /\ slot[i] = NoWorker
          /\ slot' = [slot EXCEPT ![i] = w]
          /\ WorkerAt(w, <<"check1", "check2">>[i])
       \/ /\ slot[i] # NoWorker
          /\ WorkerAt(w, <<"idle2", "park">>[i]) /\ UNCHANGED slot
    /\ UNCHANGED <<conf, list, pool, adder, ran>>

\* As if a worker in a slot did not look whether the shard has stopped.
NoRecheck(w, i) ==
    /\ worker[w].pc = <<"check1", "check2">>[i]
    /\ WorkerAt(w, "range")
    /\ UNCHANGED <<conf, slot, list, pool, adder, ran>>

\* looks again whether the shard has stopped meanwhile, and then tries to take
\* itself back out,
Recheck(w, i) ==
    /\ worker[w].pc = <<"check1", "check2">>[i]
    /\ IF pool.shardStopped /\ slot[i] = w
       THEN slot' = [slot EXCEPT ![i] = NoWorker] /\ WorkerAt(w, "ended")
       ELSE WorkerAt(w, "range") /\ UNCHANGED slot
    /\ UNCHANGED <<conf, list, pool, adder, ran>>

\* or goes to the list, under the lock.
ParkInList(w) ==
    /\ worker[w].pc = "park"
    /\ IF pool.shardStopped
       THEN WorkerAt(w, "ended") /\ UNCHANGED list
       ELSE list' = Append(list, w) /\ WorkerAt(w, "range")
    /\ UNCHANGED <<conf, slot, pool, adder, ran>>

---------------------------------------------------------------------------
Closed(W) == [w \in Workers |-> IF w \in W THEN [worker[w] EXCEPT !.closed = @ + 1] ELSE worker[w]]

\* Stop: the pool's flag, the shard's flag, each slot, then the list.
Stop ==
    /\ \/ /\ pool.stop = "no"
          /\ pool' = [pool EXCEPT !.stopped = TRUE, !.stop = "shard"] /\ UNCHANGED <<slot, list, worker>>
       \/ /\ pool.stop = "shard"
          /\ pool' = [pool EXCEPT !.shardStopped = TRUE, !.stop = "slot1"] /\ UNCHANGED <<slot, list, worker>>
       \/ \E i \in 1..2 :
          /\ pool.stop = <<"slot1", "slot2">>[i]
          /\ slot' = [slot EXCEPT ![i] = NoWorker]
          /\ worker' = Closed({slot[i]} \ {NoWorker})
          /\ pool' = [pool EXCEPT !.stop = <<"slot2", "list">>[i]]
          /\ UNCHANGED list
       \/ /\ pool.stop = "list"
          /\ worker' = Closed(ToSet(list)) /\ list' = <<>>
          /\ pool' = [pool EXCEPT !.stop = "done"] /\ UNCHANGED slot
    /\ UNCHANGED <<conf, adder, ran>>

\* cleanup: an expired worker in a slot is swapped out and closed; the expired
\* prefix of the list is cut under the lock and closed after it.
cleanup ==
    /\ \/ /\ pool.clean = 0 /\ ~pool.shardStopped
          /\ pool' = [pool EXCEPT !.clean = 1] /\ UNCHANGED <<slot, list, worker>>
       \/ \E i \in 1..2 :
          /\ pool.clean = i
          /\ pool' = [pool EXCEPT !.clean = @ + 1]
          /\ \/ slot[i] # NoWorker /\ slot' = [slot EXCEPT ![i] = NoWorker] /\ worker' = Closed({slot[i]})
             \/ UNCHANGED <<slot, worker>>
          /\ UNCHANGED list
       \/ /\ pool.clean = 3
          /\ \E j \in 0..Len(list) :
             /\ pool' = [pool EXCEPT !.clean = 4, !.taken = SubSeq(list, 1, j)]
             /\ list' = SubSeq(list, j + 1, Len(list))
          /\ UNCHANGED <<slot, worker>>
       \/ /\ pool.clean = 4
          /\ worker' = Closed(ToSet(pool.taken))
          /\ pool' = [pool EXCEPT !.clean = 5, !.taken = <<>>]
          /\ UNCHANGED <<slot, list>>
    /\ UNCHANGED <<conf, adder, ran>>

WSystem ==
    \/ \E t \in Tasks : AddTask(t) \/ getWorker(t) \/ SendTask(t) \/ \E i \in 1..2 : getWorkerSlot(t, i)
    \/ \E w \in Workers : run(w) \/ setWorkerIdle(w) \/ ParkInList(w) \/ \E i \in 1..2 : ParkInSlot(w, i) \/ Recheck(w, i)
    \/ Stop
    \/ pool.clean > 0 /\ cleanup
WNext == WSystem \/ cleanup
WSpec == WInit /\ [][WNext]_vars /\ WF_vars(WSystem)

---------------------------------------------------------------------------
\* Whatever AddTask, the workers, the cleanup and Stop do to the two slots and
\* the list at once, a channel is closed at most once and never sent on after
\* that (either panics), and a worker is parked in at most one place.
WorkersOwned ==
    /\ \A w \in Workers : ~worker[w].bad /\ worker[w].closed <= 1
    /\ slot[1] # NoWorker => slot[1] # slot[2]
    /\ Cardinality(ToSet(list)) = Len(list)
    /\ ToSet(list) \cap {slot[1], slot[2]} = {}

\* An accepted task is run exactly once, and no worker outlives a Stop: those
\* parked are closed, those busy end after their task.
PoolEnded ==
    /\ pool.stop = "done"
    /\ \A t \in Tasks : adder[t].pc \in {"sent", "refused"} /\ ran[t] = (IF adder[t].pc = "sent" THEN 1 ELSE 0)
    /\ \A w \in Workers : worker[w].pc = "ended"
=============================================================================
