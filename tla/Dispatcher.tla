----------------------------- MODULE Dispatcher -----------------------------
(***************************************************************************)
(* The dispatcher pool of the actor runtime: the per-actor dispatch state  *)
(* machine (actor/dispatch_state.go), the sharded ready queue with its     *)
(* local rings, global overflow, stealing and condition-variable parking   *)
(* (actor/ready_queue.go), the workers (actor/worker.go), and the delivery *)
(* and turn code of an actor (doReceive, runTurn and finishOrReclaim of    *)
(* actor/pid.go).                                                          *)
(*                                                                         *)
(* Grain of atomicity.  One step per atomic memory operation or critical   *)
(* section.  The lock-free probes globalCount and sizeAtomic are written   *)
(* inside the critical sections that change the sizes they mirror; a probe *)
(* that reads one mid-section reads the value from before the section, so  *)
(* probe and pop are one step here.  A load followed by a compare-and-swap *)
(* that fails if the loaded value changed is one step for the same reason. *)
(***************************************************************************)
EXTENDS Integers, Sequences, FiniteSets, Functions

CONSTANTS
    NumWorkers,      \* worker goroutines, dispatcherWorkerCount()
    Actors,          \* PIDs that are spawned and running
    Producers,       \* goroutines that send messages from outside the pool
    Chatty,          \* actors whose handler may Tell its own actor
    Kinds,           \* kinds of message the producers send
    Throughput,      \* messages an actor may process per turn
    LocalCap,        \* localQueueCap
    MaxSend,         \* bound: messages per producer
    MaxBox,          \* bound: user mailbox length a handler's Tell may reach
    None             \* no actor, no message

ASSUME DispatcherAssumption ==
    /\ NumWorkers \in Nat \ {0}
    /\ Throughput \in Nat \ {0}
    /\ LocalCap \in Nat \ {0}
    /\ MaxSend \in Nat
    /\ MaxBox \in Nat
    /\ Chatty \subseteq Actors
    /\ Kinds \subseteq {"control", "async", "user"}
    /\ Producers \cap (0 .. NumWorkers - 1) = {}

VARIABLES
    schedState,      \* [Actors -> dispatch state]
    systemMailbox,   \* [Actors -> queue of control messages]
    mailbox,         \* [Actors -> queue of the other messages]
    global,          \* shared overflow queue of actors
    locals,          \* [Workers -> local ring of actors]
    sys,             \* the actor system: running, stopping, reset, closed
    pc,              \* [Workers -> where the worker is]
    held,            \* [Workers -> the actor it took, once it took one]
    budget,          \* [Workers -> loop iterations left in the turn]
    victim,          \* [Workers -> steal rotation offset]
    current,         \* [Workers -> the message being handled]
    call,            \* [Callers -> where the caller is in doReceive]
    sending,         \* [Callers -> the message it is delivering]
    sent             \* [Producers -> messages sent so far]

queueVars == <<global, locals, sys>>
boxVars == <<systemMailbox, mailbox>>
workerVars == <<pc, held, budget, victim, current>>
callerVars == <<call, sending, sent>>
vars == <<schedState, queueVars, boxVars, workerVars, callerVars>>

Workers == 0 .. NumWorkers - 1

\* Every goroutine that runs doReceive: the producers, and the workers
\* while they run a handler.
Callers == Producers \cup Workers

States == {"Idle", "Scheduled", "Processing"}

\* A message carries its sender and the sender's count, which identify it,
\* its kind and its target.
Messages ==
    [from : Callers, num : 0 .. MaxSend, kind : {"control", "async", "user"},
     to : Actors]

ASSUME NoneAssumption == None \notin Actors /\ None \notin Messages

\* A mailbox entry.  UnboundedMailbox.Enqueue swaps the tail and then links
\* the node: a swapped entry that is not linked hides itself and all the
\* entries behind it from Dequeue and IsEmpty.
Entries == [msg : Messages, linked : BOOLEAN]

\* Where a worker owns its actor (schedState is Processing and it put it
\* there) and where it carries the single right to run a Scheduled actor.
Owning == {"system", "user", "handle", "telling", "reset", "yield"}
Carrying == {"taken", "reclaim", "pushLocal"}
Released == {"checkUser", "checkSystem", "reschedule"}
Searching == {"popGlobal", "steal", "park", "parked", "woken", "exited"}
WorkerPcs == {"popFront"} \cup Owning \cup Carrying \cup Released \cup Searching
Holding == Owning \cup Carrying \cup Released
InLoop == {"system", "user", "handle", "telling", "reset", "reclaim"} \cup Released
CallPcs == {"ready", "enqueue", "link", "trySchedule", "push"}

Owns(w, a) == pc[w] \in Owning /\ held[w] = a
Carries(w, a) == pc[w] \in Carrying /\ held[w] = a
Pushes(c, a) == call[c] = "push" /\ sending[c].to = a

\* Mutant: TrySchedule that only refuses an actor already Scheduled.
TryScheduleAnyRunning(a) == schedState[a] # "Scheduled"

\* TrySchedule succeeds only from Idle.
TryScheduleWins(a) == schedState[a] = "Idle"

Init ==
    /\ schedState = [a \in Actors |-> "Idle"]
    /\ systemMailbox = [a \in Actors |-> <<>>]
    /\ mailbox = [a \in Actors |-> <<>>]
    /\ global = <<>>
    /\ locals = [w \in Workers |-> <<>>]
    /\ sys = "running"
    /\ pc = [w \in Workers |-> "popFront"]
    /\ held = [w \in Workers |-> None]
    /\ budget = [w \in Workers |-> 0]
    /\ victim = [w \in Workers |-> 1]
    /\ current = [w \in Workers |-> None]
    /\ call = [c \in Callers |-> "ready"]
    /\ sending = [c \in Callers |-> None]
    /\ sent = [p \in Producers |-> 0]

-----------------------------------------------------------------------------
(* Mailboxes: the contract UnboundedMailbox gives to doReceive and runTurn. *)

IsEmpty(box) == box = <<>> \/ ~ Head(box).linked

\* Mutant: the new node becomes the head.
SwapAtHead(box, m) == <<[msg |-> m, linked |-> FALSE]>> \o box

Swap(box, m) == Append(box, [msg |-> m, linked |-> FALSE])

Link(box, m) ==
    [i \in DOMAIN box |->
        IF box[i].msg = m THEN [box[i] EXCEPT !.linked = TRUE] ELSE box[i]]

-----------------------------------------------------------------------------
(* Ready queue.                                                            *)

\* Mutant: push that never signals.
SignalNobody(pcs) == {pcs}

\* cond.Signal wakes one parked worker, if there is one.
Signal(pcs) ==
    LET parked == {w \in Workers : pcs[w] = "parked"} IN
    IF parked = {} THEN {pcs}
    ELSE {[pcs EXCEPT ![w] = "woken"] : w \in parked}

\* readyQueue.push.
Push(a, pcs) ==
    /\ global' = Append(global, a)
    /\ pc' \in Signal(pcs)

\* take, first choice: the head of the worker's own ring.
PopFront(w) ==
    /\ pc[w] = "popFront"
    /\ IF locals[w] = <<>>
       THEN /\ pc' = [pc EXCEPT ![w] = "popGlobal"]
            /\ UNCHANGED <<held, locals>>
       ELSE /\ held' = [held EXCEPT ![w] = Head(locals[w])]
            /\ locals' = [locals EXCEPT ![w] = Tail(@)]
            /\ pc' = [pc EXCEPT ![w] = "taken"]
    /\ UNCHANGED <<schedState, global, sys, boxVars, budget, victim, current, callerVars>>

\* take, second choice: the head of the global queue.
PopGlobal(w) ==
    /\ pc[w] = "popGlobal"
    /\ IF global = <<>>
       THEN /\ pc' = [pc EXCEPT ![w] = "steal"]
            /\ UNCHANGED <<held, global>>
       ELSE /\ held' = [held EXCEPT ![w] = Head(global)]
            /\ global' = Tail(global)
            /\ pc' = [pc EXCEPT ![w] = "taken"]
    /\ UNCHANGED <<schedState, locals, sys, boxVars, budget, victim, current, callerVars>>

\* How many actors, after the first, stealHalf moves from q into dst.
Moved(q, dst) ==
    LET extra == (Len(q) + 1) \div 2 - 1
        room == LocalCap - Len(dst)
    IN IF extra < room THEN extra ELSE room

\* take, third choice: one iteration of trySteal over the siblings.
TrySteal(w) ==
    /\ pc[w] = "steal"
    /\ LET v == (w + victim[w]) % NumWorkers
           n == Moved(locals[v], locals[w])
       IN \/ /\ victim[w] >= NumWorkers
             /\ pc' = [pc EXCEPT ![w] = "park"]
             /\ victim' = [victim EXCEPT ![w] = 1]
             /\ UNCHANGED <<held, locals>>
          \/ /\ victim[w] < NumWorkers
             /\ locals[v] = <<>>
             /\ victim' = [victim EXCEPT ![w] = @ + 1]
             /\ UNCHANGED <<pc, held, locals>>
          \/ /\ victim[w] < NumWorkers
             /\ locals[v] # <<>>
             /\ held' = [held EXCEPT ![w] = Head(locals[v])]
             /\ locals' = [locals EXCEPT
                             ![v] = SubSeq(@, n + 2, Len(@)),
                             ![w] = @ \o SubSeq(locals[v], 2, n + 1)]
             /\ pc' = [pc EXCEPT ![w] = "taken"]
             /\ victim' = [victim EXCEPT ![w] = 1]
    /\ UNCHANGED <<schedState, global, sys, boxVars, budget, current, callerVars>>

\* take, last choice: parkAndTake, on entry and each time Wait returns.
ParkAndTake(w) ==
    /\ pc[w] \in {"park", "woken"}
    /\ \/ /\ sys = "closed"
          /\ pc' = [pc EXCEPT ![w] = "exited"]
          /\ UNCHANGED <<held, global>>
       \/ /\ sys # "closed"
          /\ global # <<>>
          /\ held' = [held EXCEPT ![w] = Head(global)]
          /\ global' = Tail(global)
          /\ pc' = [pc EXCEPT ![w] = "taken"]
       \/ /\ sys # "closed"
          /\ global = <<>>
          /\ pc' = [pc EXCEPT ![w] = "parked"]
          /\ UNCHANGED <<held, global>>
    /\ UNCHANGED <<schedState, locals, sys, boxVars, budget, victim, current, callerVars>>

-----------------------------------------------------------------------------
(* runTurn.                                                                *)

\* The worker drops the actor and goes back to take.
LeaveTurn(w) ==
    /\ pc' = [pc EXCEPT ![w] = "popFront"]
    /\ held' = [held EXCEPT ![w] = None]
    /\ budget' = [budget EXCEPT ![w] = 0]

\* Mutant: the loop forgets that the last iteration ends the turn.
ContinueForever(w) ==
    /\ pc' = [pc EXCEPT ![w] = "system"]
    /\ budget' = [budget EXCEPT ![w] = @ - 1]

\* End of one iteration of the loop over the budget.
Continue(w) ==
    /\ pc' = [pc EXCEPT ![w] = IF budget[w] = 1 THEN "yield" ELSE "system"]
    /\ budget' = [budget EXCEPT ![w] = @ - 1]

\* The Scheduled -> Processing compare-and-swap that opens a turn.
TakeForProcessing(w) ==
    /\ pc[w] = "taken"
    /\ IF schedState[held[w]] = "Scheduled"
       THEN /\ schedState' = [schedState EXCEPT ![held[w]] = "Processing"]
            /\ pc' = [pc EXCEPT ![w] = "system"]
            /\ budget' = [budget EXCEPT ![w] = Throughput]
            /\ UNCHANGED held
       ELSE /\ LeaveTurn(w)
            /\ UNCHANGED schedState
    /\ UNCHANGED <<queueVars, boxVars, victim, current, callerVars>>

\* systemMailbox.Dequeue: a control message is handled before any other.
DequeueSystem(w) ==
    /\ pc[w] = "system"
    /\ LET box == systemMailbox[held[w]] IN
       IF IsEmpty(box)
       THEN /\ pc' = [pc EXCEPT ![w] = "user"]
            /\ UNCHANGED <<systemMailbox, current>>
       ELSE /\ systemMailbox' = [systemMailbox EXCEPT ![held[w]] = Tail(@)]
            /\ current' = [current EXCEPT ![w] = Head(box).msg]
            /\ pc' = [pc EXCEPT ![w] = "handle"]
    /\ UNCHANGED <<schedState, queueVars, mailbox, held, budget, victim, callerVars>>

\* mailbox.Dequeue; nil starts finishOrReclaim.
DequeueUser(w) ==
    /\ pc[w] = "user"
    /\ LET box == mailbox[held[w]] IN
       IF IsEmpty(box)
       THEN /\ pc' = [pc EXCEPT ![w] = "reset"]
            /\ UNCHANGED <<mailbox, current>>
       ELSE /\ mailbox' = [mailbox EXCEPT ![held[w]] = Tail(@)]
            /\ current' = [current EXCEPT ![w] = Head(box).msg]
            /\ pc' = [pc EXCEPT ![w] = "handle"]
    /\ UNCHANGED <<schedState, queueVars, systemMailbox, held, budget, victim, callerVars>>

\* dispatchOne returns.
EndHandle(w) ==
    /\ pc[w] \in {"handle", "telling"}
    /\ call[w] = "ready"
    /\ current' = [current EXCEPT ![w] = None]
    /\ Continue(w)
    /\ UNCHANGED <<schedState, queueVars, boxVars, held, victim, callerVars>>

\* finishOrReclaim: schedState.reset() ...
Reset(w) ==
    /\ pc[w] = "reset"
    /\ schedState' = [schedState EXCEPT ![held[w]] = "Idle"]
    /\ pc' = [pc EXCEPT ![w] = "checkUser"]
    /\ UNCHANGED <<queueVars, boxVars, held, budget, victim, current, callerVars>>

\* Mutant: finishOrReclaim without the emptiness re-check after reset.
CheckNothing(w) ==
    /\ pc[w] = "checkUser"
    /\ LeaveTurn(w)
    /\ UNCHANGED <<schedState, queueVars, boxVars, victim, current, callerVars>>

\* ... mailbox.IsEmpty() ...
CheckUser(w) ==
    /\ pc[w] = "checkUser"
    /\ pc' = [pc EXCEPT ![w] =
                IF IsEmpty(mailbox[held[w]]) THEN "checkSystem" ELSE "reschedule"]
    /\ UNCHANGED <<schedState, queueVars, boxVars, held, budget, victim, current, callerVars>>

\* ... && systemMailbox.IsEmpty() ...
CheckSystem(w) ==
    /\ pc[w] = "checkSystem"
    /\ IF IsEmpty(systemMailbox[held[w]])
       THEN LeaveTurn(w)
       ELSE /\ pc' = [pc EXCEPT ![w] = "reschedule"]
            /\ UNCHANGED <<held, budget>>
    /\ UNCHANGED <<schedState, queueVars, boxVars, victim, current, callerVars>>

\* ... TrySchedule() ...
Reschedule(w) ==
    /\ pc[w] = "reschedule"
    /\ IF TryScheduleWins(held[w])
       THEN /\ schedState' = [schedState EXCEPT ![held[w]] = "Scheduled"]
            /\ pc' = [pc EXCEPT ![w] = "reclaim"]
            /\ UNCHANGED <<held, budget>>
       ELSE /\ LeaveTurn(w)
            /\ UNCHANGED schedState
    /\ UNCHANGED <<queueVars, boxVars, victim, current, callerVars>>

\* ... and TakeForProcessing().
Reclaim(w) ==
    /\ pc[w] = "reclaim"
    /\ IF schedState[held[w]] = "Scheduled"
       THEN /\ schedState' = [schedState EXCEPT ![held[w]] = "Processing"]
            /\ Continue(w)
            /\ UNCHANGED held
       ELSE /\ LeaveTurn(w)
            /\ UNCHANGED schedState
    /\ UNCHANGED <<queueVars, boxVars, victim, current, callerVars>>

\* Mutant: reschedule without YieldToScheduled.
YieldStillProcessing(w) ==
    /\ pc[w] = "yield"
    /\ pc' = [pc EXCEPT ![w] = "pushLocal"]
    /\ UNCHANGED <<schedState, queueVars, boxVars, held, budget, victim, current, callerVars>>

\* The budget is spent: YieldToScheduled.
Yield(w) ==
    /\ pc[w] = "yield"
    /\ schedState' = [schedState EXCEPT ![held[w]] = "Scheduled"]
    /\ pc' = [pc EXCEPT ![w] = "pushLocal"]
    /\ UNCHANGED <<queueVars, boxVars, held, budget, victim, current, callerVars>>

\* worker.reschedule: pushLocal, spilling to the global queue.
PushLocal(w) ==
    /\ pc[w] = "pushLocal"
    /\ held' = [held EXCEPT ![w] = None]
    /\ LET pcs == [pc EXCEPT ![w] = "popFront"] IN
       IF Len(locals[w]) = LocalCap
       THEN /\ Push(held[w], pcs)
            /\ UNCHANGED locals
       ELSE /\ locals' = [locals EXCEPT ![w] = Append(@, held[w])]
            /\ pc' = pcs
            /\ UNCHANGED global
    /\ UNCHANGED <<schedState, sys, boxVars, budget, victim, current, callerVars>>

-----------------------------------------------------------------------------
(* doReceive, run by producers and, for a Tell to self, by handlers.       *)

IsControlMessage(m) == m.kind = "control"
IsSystemMessage(m) == m.kind \in {"control", "async"}

\* Entry of doReceive: a stopping system sends what is not a system message
\* to the dead letters and returns.
Receive(c, m) ==
    /\ call[c] = "ready"
    /\ IF sys = "stopping" /\ ~ IsSystemMessage(m)
       THEN UNCHANGED <<call, sending>>
       ELSE /\ call' = [call EXCEPT ![c] = "enqueue"]
            /\ sending' = [sending EXCEPT ![c] = m]

\* A producer delivers its next message to some actor.
ProducerTell(p) ==
    /\ sent[p] < MaxSend
    /\ \E k \in Kinds, a \in Actors :
          Receive(p, [from |-> p, num |-> sent[p] + 1, kind |-> k, to |-> a])
    /\ sent' = [sent EXCEPT ![p] = @ + 1]
    /\ UNCHANGED <<schedState, queueVars, boxVars, workerVars>>

\* The handler of a chatty actor tells its own actor.
HandlerTell(w) ==
    /\ pc[w] = "handle"
    /\ held[w] \in Chatty
    /\ Len(mailbox[held[w]]) < MaxBox
    /\ Receive(w, [from |-> w, num |-> 0, kind |-> "user", to |-> held[w]])
    /\ pc' = [pc EXCEPT ![w] = "telling"]
    /\ UNCHANGED <<schedState, queueVars, boxVars, held, budget, victim, current, sent>>

\* Enqueue, first half: the tail swap that fixes the message's place.
EnqueueSwap(c) ==
    /\ call[c] = "enqueue"
    /\ LET m == sending[c] IN
       IF IsControlMessage(m)
       THEN /\ systemMailbox' = [systemMailbox EXCEPT ![m.to] = Swap(@, m)]
            /\ UNCHANGED mailbox
       ELSE /\ mailbox' = [mailbox EXCEPT ![m.to] = Swap(@, m)]
            /\ UNCHANGED systemMailbox
    /\ call' = [call EXCEPT ![c] = "link"]
    /\ UNCHANGED <<schedState, queueVars, workerVars, sending, sent>>

\* Enqueue, second half: the link that makes it visible.
EnqueueLink(c) ==
    /\ call[c] = "link"
    /\ LET m == sending[c] IN
       IF IsControlMessage(m)
       THEN /\ systemMailbox' = [systemMailbox EXCEPT ![m.to] = Link(@, m)]
            /\ UNCHANGED mailbox
       ELSE /\ mailbox' = [mailbox EXCEPT ![m.to] = Link(@, m)]
            /\ UNCHANGED systemMailbox
    /\ call' = [call EXCEPT ![c] = "trySchedule"]
    /\ UNCHANGED <<schedState, queueVars, workerVars, sending, sent>>

\* TrySchedule after the enqueue.
TrySchedule(c) ==
    /\ call[c] = "trySchedule"
    /\ LET a == sending[c].to IN
       IF TryScheduleWins(a)
       THEN /\ schedState' = [schedState EXCEPT ![a] = "Scheduled"]
            /\ call' = [call EXCEPT ![c] = "push"]
            /\ UNCHANGED sending
       ELSE /\ call' = [call EXCEPT ![c] = "ready"]
            /\ sending' = [sending EXCEPT ![c] = None]
            /\ UNCHANGED schedState
    /\ UNCHANGED <<queueVars, boxVars, workerVars, sent>>

\* dispatcher.schedule.
Schedule(c) ==
    /\ call[c] = "push"
    /\ Push(sending[c].to, pc)
    /\ call' = [call EXCEPT ![c] = "ready"]
    /\ sending' = [sending EXCEPT ![c] = None]
    /\ UNCHANGED <<schedState, locals, sys, boxVars, held, budget, victim, current, sent>>

-----------------------------------------------------------------------------
(* System shutdown, as far as it concerns the dispatcher: shuttingDown is   *)
(* set, the system is torn down and reset (which clears shuttingDown), and *)
(* the ready queue is closed.                                              *)

BeginShutdown ==
    /\ sys = "running"
    /\ sys' = "stopping"
    /\ UNCHANGED <<schedState, global, locals, boxVars, workerVars, callerVars>>

ResetSystem ==
    /\ sys = "stopping"
    /\ sys' = "reset"
    /\ UNCHANGED <<schedState, global, locals, boxVars, workerVars, callerVars>>

\* readyQueue.close: broadcast wakes every parked worker.
SignalStop ==
    /\ sys = "reset"
    /\ sys' = "closed"
    /\ pc' = [w \in Workers |-> IF pc[w] = "parked" THEN "woken" ELSE pc[w]]
    /\ UNCHANGED <<schedState, global, locals, boxVars, held, budget, victim,
                   current, callerVars>>

-----------------------------------------------------------------------------
WorkerStep(w) ==
    \/ PopFront(w) \/ PopGlobal(w) \/ TrySteal(w) \/ ParkAndTake(w)
    \/ TakeForProcessing(w) \/ DequeueSystem(w) \/ DequeueUser(w) \/ EndHandle(w)
    \/ Reset(w) \/ CheckUser(w) \/ CheckSystem(w) \/ Reschedule(w) \/ Reclaim(w)
    \/ Yield(w) \/ PushLocal(w)

CallStep(c) ==
    EnqueueSwap(c) \/ EnqueueLink(c) \/ TrySchedule(c) \/ Schedule(c)

Shutdown == BeginShutdown \/ ResetSystem \/ SignalStop

Next ==
    \/ \E w \in Workers : WorkerStep(w)
    \/ \E w \in Workers : HandlerTell(w)
    \/ \E p \in Producers : ProducerTell(p)
    \/ \E c \in Callers : CallStep(c)
    \/ Shutdown

Spec == Init /\ [][Next]_vars

\* The Go scheduler runs every runnable goroutine, and handlers return: weak
\* fairness of each worker and of each call of doReceive.  Nothing makes a
\* producer send or the system shut down.
Fairness ==
    /\ \A w \in Workers : WF_vars(WorkerStep(w))
    /\ \A c \in Callers : WF_vars(CallStep(c))

FairSpec == Spec /\ Fairness

-----------------------------------------------------------------------------
(* Properties.                                                             *)

BoxesOK ==
    /\ systemMailbox \in [Actors -> Seq(Entries)]
    /\ mailbox \in [Actors -> Seq(Entries)]

QueuesOK ==
    /\ global \in Seq(Actors)
    /\ locals \in [Workers -> Seq(Actors)]
    /\ sys \in {"running", "stopping", "reset", "closed"}

WorkersOK ==
    /\ pc \in [Workers -> WorkerPcs]
    /\ held \in [Workers -> Actors \cup {None}]
    /\ \A w \in Workers : held[w] \in Actors <=> pc[w] \in Holding
    /\ budget \in [Workers -> 0 .. Throughput]
    /\ \A w \in Workers : pc[w] \in InLoop => budget[w] > 0
    /\ victim \in [Workers -> 1 .. NumWorkers]
    /\ current \in [Workers -> Messages \cup {None}]

CallersOK ==
    /\ call \in [Callers -> CallPcs]
    /\ sending \in [Callers -> Messages \cup {None}]
    /\ \A c \in Callers : sending[c] \in Messages <=> call[c] # "ready"
    /\ sent \in [Producers -> 0 .. MaxSend]

\* The ranges of the variables; a worker holds an actor exactly between take
\* and the end of the turn, inside the budget; a caller has a message exactly
\* during doReceive.
TypeOK ==
    /\ schedState \in [Actors -> States]
    /\ BoxesOK
    /\ QueuesOK
    /\ WorkersOK
    /\ CallersOK

\* Single-threaded actor execution (runTurn): an actor is Processing exactly
\* while one worker is inside its turn, and never two.
SingleOwner ==
    \A a \in Actors :
        /\ schedState[a] = "Processing" <=> \E w \in Workers : Owns(w, a)
        /\ \A v, w \in Workers : Owns(v, a) /\ Owns(w, a) => v = w

\* The places where the right to run actor a can be: a slot of the global
\* queue, a slot of a local ring, a worker between take and the compare-and-
\* swap or between yield and pushLocal, a doReceive before its push.
Places(a) ==
    {<<"global", 0, i>> : i \in {j \in DOMAIN global : global[j] = a}}
    \cup (UNION {{<<"local", w, i>> : i \in {j \in DOMAIN locals[w] : locals[w][j] = a}}
                   : w \in Workers})
    \cup {<<"worker", w, 0>> : w \in {v \in Workers : Carries(v, a)}}
    \cup {<<"caller", c, 0>> : c \in {d \in Callers : Pushes(d, a)}}

\* The ready queue never duplicates or drops an actor, through pushes,
\* spills, steals and reclaims: Scheduled means exactly one place holds it,
\* Idle and Processing mean none does.
ScheduledOnce ==
    \A a \in Actors :
        /\ schedState[a] = "Scheduled" <=> Places(a) # {}
        /\ \A x, y \in Places(a) : x = y

\* Dequeue would return a message of a.
Visible(a) == ~ IsEmpty(mailbox[a]) \/ ~ IsEmpty(systemMailbox[a])

SenderWillSchedule(c, a) == call[c] = "trySchedule" /\ sending[c].to = a

WorkerWillSee(w, a) ==
    /\ held[w] = a
    /\ \/ pc[w] \in {"checkUser", "reschedule"}
       \/ pc[w] = "checkSystem" /\ ~ IsEmpty(systemMailbox[a])

\* No lost wake-up (doReceive against finishOrReclaim): an actor at rest
\* with a message Dequeue would return has a sender about to TrySchedule it,
\* or the worker that just released it about to see the message.
NoLostWakeup ==
    \A a \in Actors :
        schedState[a] = "Idle" /\ Visible(a) =>
            \/ \E c \in Callers : SenderWillSchedule(c, a)
            \/ \E w \in Workers : WorkerWillSee(w, a)

\* Parking (parkAndTake against push and pushLocal): while the pool is open,
\* work in the global queue keeps a worker awake.  A local ring holds at most
\* the actor its owner just yielded, and only while the owner is about to pop
\* it, so pushLocal needs no signal.
NoStrandedWork ==
    /\ global # <<>> /\ sys # "closed" => \E w \in Workers : pc[w] # "parked"
    /\ \A w \in Workers :
          locals[w] # <<>> => Len(locals[w]) = 1 /\ pc[w] = "popFront"

\* FIFO within a producer: the messages of one producer leave each mailbox
\* of an actor in the order they were sent.
FIFOWithinProducer ==
    LET InOrder(m, n) ==
            m.from = n.from /\ m.from \in Producers => m.num < n.num
    IN \A a \in Actors : \A box \in {mailbox[a], systemMailbox[a]} :
          /\ \A i, j \in DOMAIN box : i < j => InOrder(box[i].msg, box[j].msg)
          /\ \A w \in Workers, i \in DOMAIN box :
                /\ Owns(w, a)
                /\ current[w] # None
                /\ IsControlMessage(current[w]) = IsControlMessage(box[i].msg)
                => InOrder(current[w], box[i].msg)

InMailbox(p, n) ==
    \E a \in Actors : \E box \in {mailbox[a], systemMailbox[a]} :
        \E i \in DOMAIN box : box[i].msg.from = p /\ box[i].msg.num = n

\* Every message a running system accepts is handled, unless the system
\* shuts down first.
EventuallyHandled ==
    \A p \in Producers, n \in 1 .. MaxSend :
        InMailbox(p, n) ~> (~ InMailbox(p, n) \/ sys # "running")

\* take (ready_queue.go): "The second return value is false when the queue
\* has been closed and no items remain for this worker."
\* Does not hold: a closed queue ends the workers with actors still in it.
ExitOnlyWhenDrained ==
    [][\A w \in Workers :
          pc[w] # "exited" /\ pc'[w] = "exited" => global = <<>> /\ locals[w] = <<>>]_vars

\* take (ready_queue.go): the take order is "guaranteeing fairness via the
\* global queue": an actor in the global queue gets its turn.
\* Does not hold: a worker whose own ring never empties looks at the global
\* queue only after it.
GlobalQueueFairness ==
    \A a \in Actors :
        (\E i \in DOMAIN global : global[i] = a)
            ~> (schedState[a] = "Processing" \/ sys # "running")
=============================================================================
