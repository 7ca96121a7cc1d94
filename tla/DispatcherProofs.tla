-------------------------- MODULE DispatcherProofs --------------------------
(***************************************************************************)
(* Proofs about Dispatcher: type correctness, single-threaded execution    *)
(* and the uniqueness of an actor's place in the ready queue, then that no *)
(* worker sleeps while the global queue has work and that no message waits *)
(* in a mailbox nobody will look at, for every number of workers, actors,  *)
(* producers and every throughput.                                         *)
(*                                                                         *)
(* The right to run a Scheduled actor is a ticket.  It is in a slot of the *)
(* global queue, with a worker (in its ring, or in its hands), or with a   *)
(* caller of doReceive.  The inductive invariant says that tickets are     *)
(* unique, that an actor with a ticket is Scheduled and one inside a turn  *)
(* is Processing, and the converses.  Ring, the bound on local rings, is   *)
(* what lets a worker's ring and hands count as one place.                 *)
(***************************************************************************)
EXTENDS Dispatcher, SequenceTheorems, TLAPS

InRing(w, a) == locals[w] # <<>> /\ locals[w][1] = a
WorkerTicket(w, a) == Carries(w, a) \/ InRing(w, a)

Ring ==
    \A w \in Workers : locals[w] # <<>> => Len(locals[w]) = 1 /\ pc[w] = "popFront"

TicketScheduled ==
    /\ \A i \in DOMAIN global : schedState[global[i]] = "Scheduled"
    /\ \A a \in Actors, w \in Workers : WorkerTicket(w, a) => schedState[a] = "Scheduled"
    /\ \A a \in Actors, c \in Callers : Pushes(c, a) => schedState[a] = "Scheduled"

TicketUnique ==
    /\ \A i, j \in DOMAIN global : global[i] = global[j] => i = j
    /\ \A a \in Actors, v, w \in Workers : WorkerTicket(v, a) /\ WorkerTicket(w, a) => v = w
    /\ \A a \in Actors, c, d \in Callers : Pushes(c, a) /\ Pushes(d, a) => c = d
    /\ \A w \in Workers, i \in DOMAIN global : ~ WorkerTicket(w, global[i])
    /\ \A c \in Callers, i \in DOMAIN global : ~ Pushes(c, global[i])
    /\ \A a \in Actors, w \in Workers, c \in Callers : ~ (WorkerTicket(w, a) /\ Pushes(c, a))

TicketExists ==
    \A a \in Actors : schedState[a] = "Scheduled" =>
        \/ \E i \in DOMAIN global : global[i] = a
        \/ \E w \in Workers : WorkerTicket(w, a)
        \/ \E c \in Callers : Pushes(c, a)

Tickets == TicketScheduled /\ TicketUnique /\ TicketExists /\ SingleOwner

IInv == TypeOK /\ Ring /\ Tickets

\* A ring of one actor: its head, and what is left without it.
LEMMA SingletonSeq ==
  ASSUME NEW S, NEW s \in Seq(S), Len(s) = 1
  PROVE  s # <<>> /\ Head(s) = s[1] /\ s[1] \in S /\ Tail(s) = <<>>
<1>1. s # <<>> BY EmptySeq
<1>2. Tail(s) \in Seq(S) /\ Len(Tail(s)) = 0 BY <1>1, HeadTailProperties
<1>3. Tail(s) = <<>> BY <1>2, EmptySeq
<1>4. s[1] \in S BY ElementOfSeq
<1> QED BY <1>1, <1>3, <1>4

-----------------------------------------------------------------------------
(* How tickets move.  Each lemma is one kind of step, stated without the    *)
(* program counters that produce it.                                        *)

\* No ticket moves and no turn starts or ends.
LEMMA TicketsStay ==
  ASSUME Tickets, UNCHANGED <<schedState, global>>,
         \A a \in Actors, w \in Workers : WorkerTicket(w, a)' <=> WorkerTicket(w, a),
         \A a \in Actors, c \in Callers : Pushes(c, a)' <=> Pushes(c, a),
         \A a \in Actors, w \in Workers : Owns(w, a)' <=> Owns(w, a),
         global \in Seq(Actors)
  PROVE  Tickets'
<1>1. TicketScheduled' BY DEF Tickets, TicketScheduled
<1>2. TicketUnique'
  <2>1. \A i \in DOMAIN global : global[i] \in Actors
    BY ElementOfSeq, LenProperties
  <2>2. QED BY <2>1 DEF Tickets, TicketUnique
<1>3. TicketExists' BY DEF Tickets, TicketExists
<1>4. SingleOwner' BY DEF Tickets, SingleOwner
<1> QED BY <1>1, <1>2, <1>3, <1>4 DEF Tickets

\* Worker w pops the head of the global queue.
LEMMA TicketPopped ==
  ASSUME Tickets, global \in Seq(Actors), global # <<>>, NEW w \in Workers,
         UNCHANGED schedState, global' = Tail(global),
         \A a \in Actors, v \in Workers :
            WorkerTicket(v, a)' <=> WorkerTicket(v, a) \/ (v = w /\ a = Head(global)),
         \A a \in Actors, c \in Callers : Pushes(c, a)' <=> Pushes(c, a),
         \A a \in Actors, v \in Workers : Owns(v, a)' <=> Owns(v, a)
  PROVE  Tickets'
<1> DEFINE h == Head(global)
<1>1. /\ h = global[1] /\ h \in Actors /\ Len(global) \in Nat \ {0}
      /\ DOMAIN global = 1 .. Len(global)
      /\ DOMAIN global' = 1 .. Len(global) - 1
      /\ \A i \in DOMAIN global' : i + 1 \in DOMAIN global /\ global'[i] = global[i + 1]
      /\ \A i \in DOMAIN global : global[i] \in Actors
  BY HeadTailProperties, LenProperties, EmptySeq, ElementOfSeq
<1>2. TicketScheduled' BY <1>1 DEF Tickets, TicketScheduled
<1>3. TicketUnique'
  <2>1. \A i, j \in DOMAIN global' : global'[i] = global'[j] => i = j
    BY <1>1 DEF Tickets, TicketUnique
  <2>2. \A i \in DOMAIN global' : global'[i] # h
    BY <1>1 DEF Tickets, TicketUnique
  <2>3. \A a \in Actors, v \in Workers : WorkerTicket(v, a) => a # h
    BY <1>1 DEF Tickets, TicketUnique
  <2>4. \A a \in Actors, c \in Callers : Pushes(c, a) => a # h
    BY <1>1 DEF Tickets, TicketUnique
  <2>5. \A v \in Workers, i \in DOMAIN global' : ~ WorkerTicket(v, global[i + 1])
    BY <1>1 DEF Tickets, TicketUnique
  <2>6. \A c \in Callers, i \in DOMAIN global' : ~ Pushes(c, global[i + 1])
    BY <1>1 DEF Tickets, TicketUnique
  <2> QED BY <1>1, <2>1, <2>2, <2>3, <2>4, <2>5, <2>6 DEF Tickets, TicketUnique
<1>4. TicketExists'
  <2> SUFFICES ASSUME NEW a \in Actors, schedState[a] = "Scheduled"
               PROVE  \/ \E i \in DOMAIN global' : global'[i] = a
                      \/ \E v \in Workers : WorkerTicket(v, a)'
                      \/ \E c \in Callers : Pushes(c, a)'
    BY DEF TicketExists
  <2>1. CASE \E i \in DOMAIN global : global[i] = a
    <3> PICK i \in DOMAIN global : global[i] = a BY <2>1
    <3>1. CASE i = 1 BY <1>1, <3>1
    <3>2. CASE i # 1
      <4>1. i - 1 \in DOMAIN global' /\ global'[i - 1] = a BY <1>1, <3>2
      <4> QED BY <4>1
    <3> QED BY <3>1, <3>2
  <2>2. CASE \E v \in Workers : WorkerTicket(v, a) BY <2>2
  <2>3. CASE \E c \in Callers : Pushes(c, a) BY <2>3
  <2> QED BY <2>1, <2>2, <2>3 DEF Tickets, TicketExists
<1>5. SingleOwner' BY DEF Tickets, SingleOwner
<1> QED BY <1>2, <1>3, <1>4, <1>5 DEF Tickets

\* Worker w steals the actor in the ring of worker u.
LEMMA TicketStolen ==
  ASSUME Tickets, global \in Seq(Actors), NEW u \in Workers, NEW w \in Workers,
         NEW b \in Actors, WorkerTicket(u, b),
         UNCHANGED <<schedState, global>>,
         \A a \in Actors, v \in Workers :
            WorkerTicket(v, a)' <=>
                (WorkerTicket(v, a) /\ ~ (v = u /\ a = b)) \/ (v = w /\ a = b),
         \A a \in Actors, c \in Callers : Pushes(c, a)' <=> Pushes(c, a),
         \A a \in Actors, v \in Workers : Owns(v, a)' <=> Owns(v, a)
  PROVE  Tickets'
<1>1. TicketScheduled' BY DEF Tickets, TicketScheduled
<1>2. TicketUnique'
  <2>1. \A i \in DOMAIN global : global[i] \in Actors /\ global[i] # b
    BY ElementOfSeq, LenProperties DEF Tickets, TicketUnique
  <2> QED BY <2>1 DEF Tickets, TicketUnique
<1>3. TicketExists' BY DEF Tickets, TicketExists
<1>4. SingleOwner' BY DEF Tickets, SingleOwner
<1> QED BY <1>1, <1>2, <1>3, <1>4 DEF Tickets

\* Worker w turns its ticket for b into a turn: Scheduled -> Processing.
LEMMA TicketToTurn ==
  ASSUME Tickets, global \in Seq(Actors), NEW w \in Workers, NEW b \in Actors,
         WorkerTicket(w, b), schedState \in [Actors -> States],
         schedState' = [schedState EXCEPT ![b] = "Processing"], UNCHANGED global,
         \A a \in Actors, v \in Workers :
            WorkerTicket(v, a)' <=> WorkerTicket(v, a) /\ ~ (v = w /\ a = b),
         \A a \in Actors, c \in Callers : Pushes(c, a)' <=> Pushes(c, a),
         \A a \in Actors, v \in Workers :
            Owns(v, a)' <=> Owns(v, a) \/ (v = w /\ a = b)
  PROVE  Tickets'
<1>1. \A i \in DOMAIN global : global[i] \in Actors /\ global[i] # b
  BY ElementOfSeq, LenProperties DEF Tickets, TicketUnique
<1>2. schedState[b] = "Scheduled" BY DEF Tickets, TicketScheduled
<1>3. TicketScheduled' BY <1>1 DEF Tickets, TicketScheduled, TicketUnique
<1>4. TicketUnique' BY <1>1 DEF Tickets, TicketUnique
<1>5. TicketExists' BY DEF Tickets, TicketExists
<1>6. SingleOwner' BY <1>2 DEF Tickets, SingleOwner
<1> QED BY <1>3, <1>4, <1>5, <1>6 DEF Tickets

\* Worker w ends its turn of b: Processing -> Idle.
LEMMA TurnToIdle ==
  ASSUME Tickets, global \in Seq(Actors), NEW w \in Workers, NEW b \in Actors,
         Owns(w, b), schedState \in [Actors -> States],
         schedState' = [schedState EXCEPT ![b] = "Idle"], UNCHANGED global,
         \A a \in Actors, v \in Workers : WorkerTicket(v, a)' <=> WorkerTicket(v, a),
         \A a \in Actors, c \in Callers : Pushes(c, a)' <=> Pushes(c, a),
         \A a \in Actors, v \in Workers :
            Owns(v, a)' <=> Owns(v, a) /\ ~ (v = w /\ a = b)
  PROVE  Tickets'
<1>1. schedState[b] = "Processing" BY DEF Tickets, SingleOwner
<1>2. \A i \in DOMAIN global : global[i] \in Actors /\ global[i] # b
  BY <1>1, ElementOfSeq, LenProperties DEF Tickets, TicketScheduled
<1>3. TicketScheduled' BY <1>1, <1>2 DEF Tickets, TicketScheduled
<1>4. TicketUnique' BY <1>2 DEF Tickets, TicketUnique
<1>5. TicketExists' BY DEF Tickets, TicketExists
<1>6. SingleOwner' BY <1>1 DEF Tickets, SingleOwner
<1> QED BY <1>3, <1>4, <1>5, <1>6 DEF Tickets

\* Worker w yields its turn of b: Processing -> Scheduled.
YieldMove(w, b) ==
    /\ Owns(w, b)
    /\ schedState' = [schedState EXCEPT ![b] = "Scheduled"]
    /\ UNCHANGED global
    /\ \A a \in Actors, v \in Workers :
          WorkerTicket(v, a)' <=> WorkerTicket(v, a) \/ (v = w /\ a = b)
    /\ \A a \in Actors, c \in Callers : Pushes(c, a)' <=> Pushes(c, a)
    /\ \A a \in Actors, v \in Workers :
          Owns(v, a)' <=> Owns(v, a) /\ ~ (v = w /\ a = b)

\* A yielded turn is a ticket of the worker that yields.
LEMMA TurnToTicket ==
  ASSUME Tickets, global \in Seq(Actors), NEW w \in Workers, NEW b \in Actors,
         schedState \in [Actors -> States], YieldMove(w, b)
  PROVE  Tickets'
<1> USE DEF YieldMove
<1>1. schedState[b] = "Processing" BY DEF Tickets, SingleOwner
<1>2. \A i \in DOMAIN global : global[i] \in Actors /\ global[i] # b
  BY <1>1, ElementOfSeq, LenProperties DEF Tickets, TicketScheduled
<1>3. TicketScheduled' BY <1>1, <1>2 DEF Tickets, TicketScheduled
<1>4. TicketUnique' BY <1>1, <1>2 DEF Tickets, TicketUnique, TicketScheduled
<1>5. TicketExists' BY DEF Tickets, TicketExists
<1>6. SingleOwner' BY <1>1 DEF Tickets, SingleOwner
<1> QED BY <1>3, <1>4, <1>5, <1>6 DEF Tickets

\* Worker w wins TrySchedule of b after its turn: Idle -> Scheduled.
LEMMA IdleToWorker ==
  ASSUME Tickets, global \in Seq(Actors), NEW w \in Workers, NEW b \in Actors,
         schedState[b] = "Idle", schedState \in [Actors -> States],
         schedState' = [schedState EXCEPT ![b] = "Scheduled"], UNCHANGED global,
         \A a \in Actors, v \in Workers :
            WorkerTicket(v, a)' <=> WorkerTicket(v, a) \/ (v = w /\ a = b),
         \A a \in Actors, c \in Callers : Pushes(c, a)' <=> Pushes(c, a),
         \A a \in Actors, v \in Workers : Owns(v, a)' <=> Owns(v, a)
  PROVE  Tickets'
<1>1. \A i \in DOMAIN global : global[i] \in Actors /\ global[i] # b
  BY ElementOfSeq, LenProperties DEF Tickets, TicketScheduled
<1>2. TicketScheduled' BY <1>1 DEF Tickets, TicketScheduled
<1>3. TicketUnique' BY <1>1 DEF Tickets, TicketUnique, TicketScheduled
<1>4. TicketExists' BY DEF Tickets, TicketExists
<1>5. SingleOwner' BY DEF Tickets, SingleOwner
<1> QED BY <1>2, <1>3, <1>4, <1>5 DEF Tickets

\* Caller c wins TrySchedule of b in doReceive: Idle -> Scheduled.
LEMMA IdleToCaller ==
  ASSUME Tickets, global \in Seq(Actors), NEW c \in Callers, NEW b \in Actors,
         schedState[b] = "Idle", schedState \in [Actors -> States],
         schedState' = [schedState EXCEPT ![b] = "Scheduled"], UNCHANGED global,
         \A a \in Actors, v \in Workers : WorkerTicket(v, a)' <=> WorkerTicket(v, a),
         \A a \in Actors, d \in Callers :
            Pushes(d, a)' <=> Pushes(d, a) \/ (d = c /\ a = b),
         \A a \in Actors, v \in Workers : Owns(v, a)' <=> Owns(v, a)
  PROVE  Tickets'
<1>1. \A i \in DOMAIN global : global[i] \in Actors /\ global[i] # b
  BY ElementOfSeq, LenProperties DEF Tickets, TicketScheduled
<1>2. TicketScheduled' BY <1>1 DEF Tickets, TicketScheduled
<1>3. TicketUnique' BY <1>1 DEF Tickets, TicketUnique, TicketScheduled
<1>4. TicketExists' BY DEF Tickets, TicketExists
<1>5. SingleOwner' BY DEF Tickets, SingleOwner
<1> QED BY <1>2, <1>3, <1>4, <1>5 DEF Tickets

\* Caller c pushes b onto the global queue.
LEMMA CallerToGlobal ==
  ASSUME Tickets, global \in Seq(Actors), NEW c \in Callers, NEW b \in Actors,
         Pushes(c, b), UNCHANGED schedState, global' = Append(global, b),
         \A a \in Actors, v \in Workers : WorkerTicket(v, a)' <=> WorkerTicket(v, a),
         \A a \in Actors, d \in Callers :
            Pushes(d, a)' <=> Pushes(d, a) /\ ~ (d = c /\ a = b),
         \A a \in Actors, v \in Workers : Owns(v, a)' <=> Owns(v, a)
  PROVE  Tickets'
<1>1. /\ Len(global) \in Nat
      /\ DOMAIN global = 1 .. Len(global)
      /\ DOMAIN global' = 1 .. Len(global) + 1
      /\ \A i \in DOMAIN global : global'[i] = global[i] /\ i \in DOMAIN global'
      /\ global'[Len(global) + 1] = b
      /\ Len(global) + 1 \in DOMAIN global'
      /\ \A i \in DOMAIN global' : i = Len(global) + 1 \/ i \in DOMAIN global
      /\ \A i \in DOMAIN global : global[i] \in Actors
  BY LenProperties, ElementOfSeq
<1>2. \A i \in DOMAIN global : global[i] # b BY <1>1 DEF Tickets, TicketUnique
<1>3. TicketScheduled' BY <1>1 DEF Tickets, TicketScheduled
<1>4. TicketUnique'
  <2>1. \A i, j \in DOMAIN global' : global'[i] = global'[j] => i = j
    BY <1>1, <1>2 DEF Tickets, TicketUnique
  <2>2. \A v \in Workers, i \in DOMAIN global' : ~ WorkerTicket(v, global'[i])
    BY <1>1 DEF Tickets, TicketUnique
  <2>3. \A d \in Callers, i \in DOMAIN global' : ~ (Pushes(d, global'[i]) /\ ~ (d = c /\ global'[i] = b))
    BY <1>1, <1>2 DEF Tickets, TicketUnique
  <2> QED BY <1>1, <2>1, <2>2, <2>3 DEF Tickets, TicketUnique
<1>5. TicketExists' BY <1>1 DEF Tickets, TicketExists
<1>6. SingleOwner' BY DEF Tickets, SingleOwner
<1> QED BY <1>3, <1>4, <1>5, <1>6 DEF Tickets

-----------------------------------------------------------------------------
(* One lemma per action.                                                    *)

\* A freshly started pool: no tickets, no turns.
LEMMA InitIInv == Init => IInv
<1> SUFFICES ASSUME Init PROVE IInv OBVIOUS
<1> USE DispatcherAssumption, NoneAssumption
<1>1. TypeOK
  <2>1. BoxesOK BY EmptySeq DEF Init, BoxesOK
  <2>2. QueuesOK BY EmptySeq DEF Init, QueuesOK
  <2>3. WorkersOK BY DEF Init, WorkersOK, Owning, Carrying, Released, Searching, Holding, InLoop, WorkerPcs
  <2>4. CallersOK BY DEF Init, CallersOK, CallPcs
  <2> QED BY <2>1, <2>2, <2>3, <2>4 DEF Init, TypeOK, States
<1>2. Ring BY DEF Init, Ring
<1>3. /\ \A w \in Workers : \A a : ~ WorkerTicket(w, a) /\ ~ Owns(w, a)
      /\ \A c \in Callers : \A a : ~ Pushes(c, a)
      /\ DOMAIN global = {}
  BY DEF Init, WorkerTicket, Carries, InRing, Owns, Pushes, Carrying, Owning
<1>4. Tickets
  BY <1>3 DEF Init, Tickets, TicketScheduled, TicketUnique, TicketExists, SingleOwner
<1> QED BY <1>1, <1>2, <1>4 DEF IInv

\* Worker w moves within its search, its turn or its release of an actor.
LEMMA QuietStep ==
  ASSUME IInv, NEW w \in Workers, NEW p,
         UNCHANGED <<schedState, global, locals, call, sending>>,
         pc' = [pc EXCEPT ![w] = p],
         \A v \in Workers \ {w} : held'[v] = held[v],
         p \in Owning <=> pc[w] \in Owning,
         p \in Carrying <=> pc[w] \in Carrying,
         p \in Owning \cup Carrying => held'[w] = held[w],
         locals[w] = <<>> \/ p = "popFront"
  PROVE  Ring' /\ Tickets'
<1>1. pc'[w] = p /\ \A v \in Workers \ {w} : pc'[v] = pc[v]
  BY DEF IInv, TypeOK, WorkersOK
<1>2. Ring' BY <1>1 DEF IInv, Ring
<1>3. \A a \in Actors, v \in Workers : WorkerTicket(v, a)' <=> WorkerTicket(v, a)
  BY <1>1 DEF WorkerTicket, Carries, InRing
<1>4. \A a \in Actors, v \in Workers : Owns(v, a)' <=> Owns(v, a)
  BY <1>1 DEF Owns
<1>5. \A a \in Actors, c \in Callers : Pushes(c, a)' <=> Pushes(c, a)
  BY DEF Pushes
<1>6. Tickets' BY <1>3, <1>4, <1>5, TicketsStay DEF IInv, TypeOK, QueuesOK
<1> QED BY <1>2, <1>6

\* Only the worker's own variables change.
LEMMA TypeOfWorkerStep ==
  ASSUME TypeOK, WorkersOK',
         UNCHANGED <<schedState, queueVars, boxVars, callerVars>>
  PROVE  TypeOK'
BY DEF TypeOK, BoxesOK, QueuesOK, CallersOK, queueVars, boxVars, callerVars

\* popFront: the worker's ticket goes from its ring to its hands.
LEMMA PopFrontStep ==
  ASSUME IInv, NEW w \in Workers, PopFront(w)
  PROVE  IInv'
<1> USE DispatcherAssumption, NoneAssumption
<1>u. /\ UNCHANGED <<schedState, global, sys, boxVars, budget, victim, current, callerVars>>
      /\ pc[w] = "popFront"
  BY DEF PopFront
<1>1. CASE locals[w] = <<>>
  <2>1. UNCHANGED <<held, locals>> /\ pc' = [pc EXCEPT ![w] = "popGlobal"]
    BY <1>1 DEF PopFront
  <2>2. WorkersOK' BY <1>u, <2>1 DEF IInv, TypeOK, WorkersOK, Owning, Carrying, Released, Searching, Holding, InLoop, WorkerPcs
  <2>3. TypeOK' BY <1>u, <2>1, <2>2, TypeOfWorkerStep DEF IInv, queueVars
  <2>4. Ring' /\ Tickets'
    BY <1>u, <1>1, <2>1, QuietStep DEF callerVars, Owning, Carrying
  <2> QED BY <2>3, <2>4 DEF IInv
<1>2. CASE locals[w] # <<>>
  <2>1. /\ held' = [held EXCEPT ![w] = Head(locals[w])]
        /\ locals' = [locals EXCEPT ![w] = Tail(locals[w])]
        /\ pc' = [pc EXCEPT ![w] = "taken"]
    BY <1>2 DEF PopFront
  <2>2. Head(locals[w]) \in Actors /\ Head(locals[w]) = locals[w][1] /\ Tail(locals[w]) = <<>>
    BY <1>2, SingletonSeq DEF IInv, TypeOK, QueuesOK, Ring
  <2>3. TypeOK'
    <3>1. WorkersOK' BY <1>u, <2>1, <2>2 DEF IInv, TypeOK, WorkersOK, Owning, Carrying, Released, Searching, Holding, InLoop, WorkerPcs
    <3>2. QueuesOK' BY <1>u, <2>1, <2>2, EmptySeq DEF IInv, TypeOK, QueuesOK
    <3> QED BY <1>u, <3>1, <3>2 DEF IInv, TypeOK, BoxesOK, CallersOK, boxVars, callerVars
  <2>4. Ring' BY <2>1, <2>2 DEF IInv, Ring, TypeOK, WorkersOK, QueuesOK
  <2>5. Tickets'
    <3>1. \A a \in Actors, v \in Workers : WorkerTicket(v, a)' <=> WorkerTicket(v, a)
      BY <1>u, <1>2, <2>1, <2>2
      DEF IInv, TypeOK, WorkersOK, QueuesOK, WorkerTicket, Carries, InRing, Carrying
    <3>2. \A a \in Actors, v \in Workers : Owns(v, a)' <=> Owns(v, a)
      BY <1>u, <2>1 DEF IInv, TypeOK, WorkersOK, Owns, Owning
    <3>3. \A a \in Actors, c \in Callers : Pushes(c, a)' <=> Pushes(c, a)
      BY <1>u DEF Pushes, callerVars
    <3> QED BY <1>u, <3>1, <3>2, <3>3, TicketsStay DEF IInv, TypeOK, QueuesOK
  <2> QED BY <2>3, <2>4, <2>5 DEF IInv
<1> QED BY <1>1, <1>2

\* The worker pops the head of the global queue, from popGlobal or from
\* parkAndTake.
LEMMA PopStep ==
  ASSUME IInv, NEW w \in Workers, global # <<>>,
         pc[w] \in {"popGlobal", "park", "woken"},
         held' = [held EXCEPT ![w] = Head(global)], global' = Tail(global),
         pc' = [pc EXCEPT ![w] = "taken"],
         UNCHANGED <<schedState, locals, sys, boxVars, budget, victim, current, callerVars>>
  PROVE  IInv'
<1> USE DispatcherAssumption, NoneAssumption
<1>1. Head(global) \in Actors /\ Tail(global) \in Seq(Actors)
  BY HeadTailProperties DEF IInv, TypeOK, QueuesOK
<1>2. TypeOK'
  <2>1. WorkersOK' BY <1>1 DEF IInv, TypeOK, WorkersOK, Owning, Carrying, Released, Searching, Holding, InLoop, WorkerPcs
  <2>2. QueuesOK' BY <1>1 DEF IInv, TypeOK, QueuesOK
  <2> QED BY <2>1, <2>2 DEF IInv, TypeOK, BoxesOK, CallersOK, boxVars, callerVars
<1>3. locals[w] = <<>> BY DEF IInv, Ring
<1>4. Ring' BY <1>3 DEF IInv, Ring, TypeOK, WorkersOK
<1>5. Tickets'
  <2>1. \A a \in Actors, v \in Workers :
           WorkerTicket(v, a)' <=> WorkerTicket(v, a) \/ (v = w /\ a = Head(global))
    BY <1>1, <1>3 DEF IInv, TypeOK, WorkersOK, WorkerTicket, Carries, InRing, Carrying
  <2>2. \A a \in Actors, v \in Workers : Owns(v, a)' <=> Owns(v, a)
    BY DEF IInv, TypeOK, WorkersOK, Owns, Owning
  <2>3. \A a \in Actors, c \in Callers : Pushes(c, a)' <=> Pushes(c, a)
    BY DEF Pushes, callerVars
  <2> QED BY <2>1, <2>2, <2>3, TicketPopped DEF IInv, TypeOK, QueuesOK
<1> QED BY <1>2, <1>4, <1>5 DEF IInv

\* popGlobal.
LEMMA PopGlobalStep ==
  ASSUME IInv, NEW w \in Workers, PopGlobal(w)
  PROVE  IInv'
<1> USE DispatcherAssumption, NoneAssumption
<1>u. /\ UNCHANGED <<schedState, locals, sys, boxVars, budget, victim, current, callerVars>>
      /\ pc[w] = "popGlobal"
  BY DEF PopGlobal
<1>1. CASE global = <<>>
  <2>1. UNCHANGED <<held, global>> /\ pc' = [pc EXCEPT ![w] = "steal"]
    BY <1>1 DEF PopGlobal
  <2>2. WorkersOK' BY <1>u, <2>1 DEF IInv, TypeOK, WorkersOK, Owning, Carrying, Released, Searching, Holding, InLoop, WorkerPcs
  <2>3. TypeOK' BY <1>u, <2>1, <2>2, TypeOfWorkerStep DEF IInv, queueVars
  <2>4. locals[w] = <<>> BY <1>u DEF IInv, Ring
  <2>5. Ring' /\ Tickets' BY <1>u, <2>1, <2>4, QuietStep DEF callerVars, Owning, Carrying
  <2> QED BY <2>3, <2>5 DEF IInv
<1>2. CASE global # <<>> BY <1>u, <1>2, PopStep DEF PopGlobal
<1> QED BY <1>1, <1>2

\* parkAndTake: exit, pop, or wait.
LEMMA ParkAndTakeStep ==
  ASSUME IInv, NEW w \in Workers, ParkAndTake(w)
  PROVE  IInv'
<1> USE DispatcherAssumption, NoneAssumption
<1>u. /\ UNCHANGED <<schedState, locals, sys, boxVars, budget, victim, current, callerVars>>
      /\ pc[w] \in {"park", "woken"}
  BY DEF ParkAndTake
<1>1. CASE sys = "closed" \/ global = <<>>
  <2>1. /\ UNCHANGED <<held, global>>
        /\ pc' = [pc EXCEPT ![w] = "exited"] \/ pc' = [pc EXCEPT ![w] = "parked"]
    BY <1>1 DEF ParkAndTake
  <2>2. WorkersOK' BY <1>u, <2>1 DEF IInv, TypeOK, WorkersOK, Owning, Carrying, Released, Searching, Holding, InLoop, WorkerPcs
  <2>3. TypeOK' BY <1>u, <2>1, <2>2, TypeOfWorkerStep DEF IInv, queueVars
  <2>4. locals[w] = <<>> BY <1>u DEF IInv, Ring
  <2>5. Ring' /\ Tickets' BY <1>u, <2>1, <2>4, QuietStep DEF callerVars, Owning, Carrying
  <2> QED BY <2>3, <2>5 DEF IInv
<1>2. CASE sys # "closed" /\ global # <<>> BY <1>u, <1>2, PopStep DEF ParkAndTake
<1> QED BY <1>1, <1>2

\* trySteal: a ring holds one actor at most, so stealHalf moves no extras.
LEMMA TryStealStep ==
  ASSUME IInv, NEW w \in Workers, TrySteal(w)
  PROVE  IInv'
<1> USE DispatcherAssumption, NoneAssumption
<1> DEFINE u == (w + victim[w]) % NumWorkers
<1>u. /\ UNCHANGED <<schedState, global, sys, boxVars, budget, current, callerVars>>
      /\ pc[w] = "steal"
  BY DEF TrySteal
<1> HIDE DEF u
<1>e. locals[w] = <<>> BY <1>u DEF IInv, Ring
<1>v. victim[w] \in 1 .. NumWorkers BY DEF IInv, TypeOK, WorkersOK
<1>1. CASE victim[w] >= NumWorkers \/ locals[u] = <<>>
  <2>1. /\ UNCHANGED <<held, locals>>
        /\ pc' = [pc EXCEPT ![w] = "park"] \/ pc' = [pc EXCEPT ![w] = "steal"]
        /\ \/ victim' = [victim EXCEPT ![w] = 1]
           \/ victim[w] < NumWorkers /\ victim' = [victim EXCEPT ![w] = victim[w] + 1]
    <3>1. pc = [pc EXCEPT ![w] = "steal"] BY <1>u DEF IInv, TypeOK, WorkersOK
    <3>2. CASE victim[w] >= NumWorkers
      <4>1. ~ (victim[w] < NumWorkers) BY <1>v, <3>2
      <4> QED BY <4>1 DEF TrySteal
    <3>3. CASE victim[w] < NumWorkers /\ locals[u] = <<>>
      <4>1. ~ (victim[w] >= NumWorkers) BY <1>v, <3>3
      <4> QED BY <3>1, <3>3, <4>1 DEF TrySteal, u
    <3> QED BY <1>1, <1>v, <3>2, <3>3
  <2>2. WorkersOK' BY <1>u, <1>v, <2>1 DEF IInv, TypeOK, WorkersOK, Owning, Carrying, Released, Searching, Holding, InLoop, WorkerPcs
  <2>3. TypeOK' BY <1>u, <2>1, <2>2, TypeOfWorkerStep DEF IInv, queueVars
  <2>4. Ring' /\ Tickets' BY <1>u, <1>e, <2>1, QuietStep DEF callerVars, Owning, Carrying
  <2> QED BY <2>3, <2>4 DEF IInv
<1>2. CASE victim[w] < NumWorkers /\ locals[u] # <<>>
  <2>1. u \in Workers BY <1>v DEF Workers, u
  <2>2. u # w BY <1>e, <1>2
  <2>3. Len(locals[u]) = 1 /\ pc[u] = "popFront" BY <1>2, <2>1 DEF IInv, Ring
  <2>4. locals[u] \in Seq(Actors) BY <2>1 DEF IInv, TypeOK, QueuesOK
  <2>5. Head(locals[u]) = locals[u][1] /\ Head(locals[u]) \in Actors
    BY <2>3, <2>4, SingletonSeq
  <2>6. Moved(locals[u], locals[w]) = 0
    <3>1. Len(locals[w]) = 0 BY <1>e
    <3>2. (Len(locals[u]) + 1) \div 2 - 1 = 0 BY <2>3
    <3>3. 0 < LocalCap - Len(locals[w]) BY <3>1
    <3> QED BY <3>2, <3>3, Zenon DEF Moved
  <2>7. /\ SubSeq(locals[u], 2, Len(locals[u])) = <<>>
        /\ <<>> \o SubSeq(locals[u], 2, 1) = <<>>
    BY <2>3, SubSeqEmpty, ConcatEmptySeq, EmptySeq
  <2>8. /\ held' = [held EXCEPT ![w] = Head(locals[u])]
        /\ locals' = [locals EXCEPT ![u] = <<>>, ![w] = <<>>]
        /\ pc' = [pc EXCEPT ![w] = "taken"]
        /\ victim' = [victim EXCEPT ![w] = 1]
    <3>1. /\ held' = [held EXCEPT ![w] = Head(locals[u])]
          /\ locals' = [locals EXCEPT
                          ![u] = SubSeq(locals[u], 2, Len(locals[u])),
                          ![w] = locals[w] \o SubSeq(locals[u], 2, 1)]
          /\ pc' = [pc EXCEPT ![w] = "taken"]
          /\ victim' = [victim EXCEPT ![w] = 1]
      <4>1. ~ (victim[w] >= NumWorkers) BY <1>2, <1>v
      <4>2. 0 + 2 = 2 /\ 0 + 1 = 1 OBVIOUS
      <4> QED BY <1>2, <2>6, <4>1, <4>2 DEF TrySteal, u
    <3> QED BY <1>e, <2>7, <3>1
  <2>9. TypeOK'
    <3>1. WorkersOK' BY <1>u, <2>5, <2>8 DEF IInv, TypeOK, WorkersOK, Owning, Carrying, Released, Searching, Holding, InLoop, WorkerPcs
    <3>2. QueuesOK' BY <1>u, <2>8, EmptySeq DEF IInv, TypeOK, QueuesOK
    <3> QED BY <1>u, <3>1, <3>2 DEF IInv, TypeOK, BoxesOK, CallersOK, boxVars, callerVars
  <2>10. Ring' BY <2>1, <2>8 DEF IInv, Ring, TypeOK, WorkersOK, QueuesOK
  <2>11. Tickets'
    <3> DEFINE b == Head(locals[u])
    <3>1. WorkerTicket(u, b) BY <1>2, <2>5 DEF WorkerTicket, InRing
    <3>2. \A a \in Actors, v \in Workers :
             WorkerTicket(v, a)' <=>
                (WorkerTicket(v, a) /\ ~ (v = u /\ a = b)) \/ (v = w /\ a = b)
      BY <1>u, <1>e, <2>1, <2>2, <2>3, <2>5, <2>8
      DEF IInv, TypeOK, WorkersOK, QueuesOK, WorkerTicket, Carries, InRing, Carrying
    <3>3. \A a \in Actors, v \in Workers : Owns(v, a)' <=> Owns(v, a)
      BY <1>u, <2>8 DEF IInv, TypeOK, WorkersOK, Owns, Owning
    <3>4. \A a \in Actors, c \in Callers : Pushes(c, a)' <=> Pushes(c, a)
      BY <1>u DEF Pushes, callerVars
    <3>5. b \in Actors /\ Tickets /\ global \in Seq(Actors) /\ UNCHANGED <<schedState, global>>
      BY <1>u, <2>5 DEF IInv, TypeOK, QueuesOK
    <3> HIDE DEF b
    <3> QED BY <2>1, <3>1, <3>2, <3>3, <3>4, <3>5, TicketStolen
  <2> QED BY <2>9, <2>10, <2>11 DEF IInv
<1> QED BY <1>1, <1>2, <1>v

\* A worker with the ticket of the actor in its hands starts a turn of it:
\* TakeForProcessing on a taken actor, and in finishOrReclaim.
LEMMA StartTurn ==
  ASSUME IInv, NEW w \in Workers, pc[w] \in {"taken", "reclaim"},
         schedState' = [schedState EXCEPT ![held[w]] = "Processing"],
         NEW p \in {"system", "yield"}, pc' = [pc EXCEPT ![w] = p],
         WorkersOK',
         UNCHANGED <<queueVars, boxVars, held, victim, current, callerVars>>
  PROVE  IInv'
<1> DEFINE b == held[w]
<1>1. b \in Actors BY DEF IInv, TypeOK, WorkersOK, Owning, Carrying, Released, Searching, Holding, InLoop, WorkerPcs
<1>2. TypeOK'
  BY <1>1 DEF IInv, TypeOK, BoxesOK, QueuesOK, CallersOK, States, queueVars, boxVars, callerVars
<1>3. locals[w] = <<>> BY DEF IInv, Ring
<1>4. pc'[w] = p /\ \A v \in Workers \ {w} : pc'[v] = pc[v]
  BY DEF IInv, TypeOK, WorkersOK
<1>5. Ring' BY <1>3, <1>4 DEF IInv, Ring, queueVars
<1>6. Tickets'
  <2>1. WorkerTicket(w, b) BY DEF WorkerTicket, Carries, Carrying
  <2>2. \A a \in Actors, v \in Workers :
           WorkerTicket(v, a)' <=> WorkerTicket(v, a) /\ ~ (v = w /\ a = b)
    BY <1>3, <1>4 DEF WorkerTicket, Carries, InRing, Carrying, queueVars
  <2>3. \A a \in Actors, v \in Workers : Owns(v, a)' <=> Owns(v, a) \/ (v = w /\ a = b)
    BY <1>4 DEF Owns, Owning
  <2>4. \A a \in Actors, c \in Callers : Pushes(c, a)' <=> Pushes(c, a)
    BY DEF Pushes, callerVars
  <2>5. /\ Tickets /\ global \in Seq(Actors) /\ UNCHANGED global
        /\ schedState \in [Actors -> States]
    BY DEF IInv, TypeOK, QueuesOK, queueVars
  <2> HIDE DEF b
  <2> QED BY <1>1, <2>1, <2>2, <2>3, <2>4, <2>5, TicketToTurn DEF b
<1> QED BY <1>2, <1>5, <1>6 DEF IInv

\* TakeForProcessing, at the start of a turn or from finishOrReclaim.
LEMMA TakeForProcessingStep ==
  ASSUME IInv, NEW w \in Workers, TakeForProcessing(w) \/ Reclaim(w)
  PROVE  IInv'
<1> USE DispatcherAssumption, NoneAssumption
<1>1. pc[w] \in {"taken", "reclaim"} BY DEF TakeForProcessing, Reclaim
<1>2. held[w] \in Actors BY <1>1 DEF IInv, TypeOK, WorkersOK, Owning, Carrying, Released, Searching, Holding, InLoop, WorkerPcs
<1>3. schedState[held[w]] = "Scheduled"
  <2>1. WorkerTicket(w, held[w]) BY <1>1 DEF WorkerTicket, Carries, Carrying
  <2> QED BY <1>2, <2>1 DEF IInv, Tickets, TicketScheduled
<1>4. /\ schedState' = [schedState EXCEPT ![held[w]] = "Processing"]
      /\ UNCHANGED <<queueVars, boxVars, held, victim, current, callerVars>>
  BY <1>3 DEF TakeForProcessing, Reclaim
<1>5. CASE TakeForProcessing(w)
  <2>1. pc' = [pc EXCEPT ![w] = "system"] /\ budget' = [budget EXCEPT ![w] = Throughput]
    BY <1>3, <1>5 DEF TakeForProcessing
  <2>2. WorkersOK' BY <1>1, <1>2, <1>4, <2>1 DEF IInv, TypeOK, WorkersOK, Owning, Carrying, Released, Searching, Holding, InLoop, WorkerPcs
  <2> QED BY <1>1, <1>4, <2>1, <2>2, StartTurn
<1>6. CASE Reclaim(w)
  <2>1. /\ pc' = [pc EXCEPT ![w] = IF budget[w] = 1 THEN "yield" ELSE "system"]
        /\ budget' = [budget EXCEPT ![w] = budget[w] - 1]
        /\ pc[w] = "reclaim"
    BY <1>3, <1>6 DEF Reclaim, Continue
  <2>2. WorkersOK' BY <1>2, <1>4, <2>1 DEF IInv, TypeOK, WorkersOK, Owning, Carrying, Released, Searching, Holding, InLoop, WorkerPcs
  <2> QED BY <1>1, <1>4, <2>1, <2>2, StartTurn
<1> QED BY <1>5, <1>6

\* Dequeue of either mailbox.
LEMMA DequeueStep ==
  ASSUME IInv, NEW w \in Workers, DequeueSystem(w) \/ DequeueUser(w)
  PROVE  IInv'
<1> USE DispatcherAssumption, NoneAssumption
<1>u. /\ UNCHANGED <<schedState, queueVars, held, budget, victim, callerVars>>
      /\ pc[w] \in {"system", "user"}
  BY DEF DequeueSystem, DequeueUser
<1>1. held[w] \in Actors BY <1>u DEF IInv, TypeOK, WorkersOK, Owning, Carrying, Released, Searching, Holding, InLoop, WorkerPcs
<1>2. PICK p \in {"user", "reset", "handle"} : pc' = [pc EXCEPT ![w] = p]
  BY DEF DequeueSystem, DequeueUser
<1>3. \A box \in Seq(Entries) : ~ IsEmpty(box) => Head(box).msg \in Messages /\ Tail(box) \in Seq(Entries)
  <2> SUFFICES ASSUME NEW box \in Seq(Entries), ~ IsEmpty(box)
               PROVE  Head(box).msg \in Messages /\ Tail(box) \in Seq(Entries)
    OBVIOUS
  <2>1. box # <<>> BY DEF IsEmpty
  <2>2. Head(box) \in Entries /\ Tail(box) \in Seq(Entries) BY <2>1, HeadTailProperties
  <2> QED BY <2>2 DEF Entries
<1>4. BoxesOK'
  <2>1. \/ UNCHANGED boxVars
        \/ /\ systemMailbox' = [systemMailbox EXCEPT ![held[w]] = Tail(systemMailbox[held[w]])]
           /\ ~ IsEmpty(systemMailbox[held[w]])
           /\ UNCHANGED mailbox
        \/ /\ mailbox' = [mailbox EXCEPT ![held[w]] = Tail(mailbox[held[w]])]
           /\ ~ IsEmpty(mailbox[held[w]])
           /\ UNCHANGED systemMailbox
    BY DEF DequeueSystem, DequeueUser, boxVars
  <2>2. /\ systemMailbox \in [Actors -> Seq(Entries)] /\ mailbox \in [Actors -> Seq(Entries)]
    BY DEF IInv, TypeOK, BoxesOK
  <2>3. /\ systemMailbox[held[w]] \in Seq(Entries) /\ mailbox[held[w]] \in Seq(Entries)
    BY <1>1, <2>2
  <2> QED BY <1>1, <1>3, <2>1, <2>2, <2>3 DEF BoxesOK, boxVars
<1>5. current' \in [Workers -> Messages \cup {None}]
  <2>1. \/ UNCHANGED current
        \/ /\ current' = [current EXCEPT ![w] = Head(systemMailbox[held[w]]).msg]
           /\ ~ IsEmpty(systemMailbox[held[w]])
        \/ /\ current' = [current EXCEPT ![w] = Head(mailbox[held[w]]).msg]
           /\ ~ IsEmpty(mailbox[held[w]])
    BY DEF DequeueSystem, DequeueUser
  <2>2. /\ systemMailbox[held[w]] \in Seq(Entries) /\ mailbox[held[w]] \in Seq(Entries)
        /\ current \in [Workers -> Messages \cup {None}]
    BY <1>1 DEF IInv, TypeOK, BoxesOK, WorkersOK
  <2> QED BY <1>3, <2>1, <2>2
<1>6. WorkersOK' BY <1>u, <1>2, <1>5 DEF IInv, TypeOK, WorkersOK, Owning, Carrying, Released, Searching, Holding, InLoop, WorkerPcs
<1>7. TypeOK'
  BY <1>u, <1>4, <1>6 DEF IInv, TypeOK, QueuesOK, CallersOK, queueVars, callerVars
<1>8. locals[w] = <<>> BY <1>u DEF IInv, Ring
<1>9. Ring' /\ Tickets'
  BY <1>u, <1>2, <1>8, QuietStep DEF callerVars, queueVars, Owning, Carrying
<1> QED BY <1>7, <1>9 DEF IInv

\* dispatchOne returns and the loop goes on or yields.
LEMMA EndHandleStep ==
  ASSUME IInv, NEW w \in Workers, EndHandle(w)
  PROVE  IInv'
<1> USE DispatcherAssumption, NoneAssumption
<1>u. /\ UNCHANGED <<schedState, queueVars, boxVars, held, victim, callerVars>>
      /\ pc[w] \in {"handle", "telling"}
      /\ current' = [current EXCEPT ![w] = None]
      /\ budget' = [budget EXCEPT ![w] = budget[w] - 1]
  BY DEF EndHandle, Continue
<1>1. pc' = [pc EXCEPT ![w] = IF budget[w] = 1 THEN "yield" ELSE "system"]
  BY DEF EndHandle, Continue
<1>2. WorkersOK' BY <1>u, <1>1 DEF IInv, TypeOK, WorkersOK, Owning, Carrying, Released, Searching, Holding, InLoop, WorkerPcs
<1>3. TypeOK' BY <1>u, <1>2, TypeOfWorkerStep DEF IInv
<1>4. locals[w] = <<>> BY <1>u DEF IInv, Ring
<1>5. Ring' /\ Tickets'
  BY <1>u, <1>1, <1>4, QuietStep DEF callerVars, queueVars, Owning, Carrying
<1> QED BY <1>3, <1>5 DEF IInv

\* reset: the turn is over.
LEMMA ResetStep ==
  ASSUME IInv, NEW w \in Workers, Reset(w)
  PROVE  IInv'
<1> USE DispatcherAssumption, NoneAssumption
<1> DEFINE b == held[w]
<1>u. /\ UNCHANGED <<queueVars, boxVars, held, budget, victim, current, callerVars>>
      /\ pc[w] = "reset" /\ pc' = [pc EXCEPT ![w] = "checkUser"]
      /\ schedState' = [schedState EXCEPT ![b] = "Idle"]
  BY DEF Reset
<1>1. b \in Actors BY <1>u DEF IInv, TypeOK, WorkersOK, Owning, Carrying, Released, Searching, Holding, InLoop, WorkerPcs
<1>2. WorkersOK' BY <1>u DEF IInv, TypeOK, WorkersOK, Owning, Carrying, Released, Searching, Holding, InLoop, WorkerPcs
<1>3. TypeOK'
  BY <1>u, <1>1, <1>2
  DEF IInv, TypeOK, BoxesOK, QueuesOK, CallersOK, States, queueVars, boxVars, callerVars
<1>4. pc'[w] = "checkUser" /\ \A v \in Workers \ {w} : pc'[v] = pc[v]
  BY <1>u DEF IInv, TypeOK, WorkersOK
<1>5. Ring' BY <1>u, <1>4 DEF IInv, Ring, queueVars
<1>6. Tickets'
  <2>1. Owns(w, b) BY <1>u DEF Owns, Owning
  <2>2. \A a \in Actors, v \in Workers : WorkerTicket(v, a)' <=> WorkerTicket(v, a)
    BY <1>u, <1>4 DEF WorkerTicket, Carries, InRing, Carrying, queueVars
  <2>3. \A a \in Actors, v \in Workers : Owns(v, a)' <=> Owns(v, a) /\ ~ (v = w /\ a = b)
    BY <1>u, <1>4 DEF Owns, Owning
  <2>4. \A a \in Actors, c \in Callers : Pushes(c, a)' <=> Pushes(c, a)
    BY <1>u DEF Pushes, callerVars
  <2>5. /\ Tickets /\ global \in Seq(Actors) /\ UNCHANGED global
        /\ schedState \in [Actors -> States]
    BY <1>u DEF IInv, TypeOK, QueuesOK, queueVars
  <2> HIDE DEF b
  <2> QED BY <1>u, <1>1, <2>1, <2>2, <2>3, <2>4, <2>5, TurnToIdle
<1> QED BY <1>3, <1>5, <1>6 DEF IInv

\* The emptiness checks of finishOrReclaim.
LEMMA CheckStep ==
  ASSUME IInv, NEW w \in Workers, CheckUser(w) \/ CheckSystem(w)
  PROVE  IInv'
<1> USE DispatcherAssumption, NoneAssumption
<1>u. /\ UNCHANGED <<schedState, queueVars, boxVars, victim, current, callerVars>>
      /\ pc[w] \in {"checkUser", "checkSystem"}
  BY DEF CheckUser, CheckSystem
<1>1. \/ /\ UNCHANGED <<held, budget>>
         /\ \E p \in {"checkSystem", "reschedule"} : pc' = [pc EXCEPT ![w] = p]
      \/ LeaveTurn(w)
  BY DEF CheckUser, CheckSystem
<1>2. WorkersOK' BY <1>u, <1>1 DEF LeaveTurn, IInv, TypeOK, WorkersOK, Owning, Carrying, Released, Searching, Holding, InLoop, WorkerPcs
<1>3. TypeOK' BY <1>u, <1>2, TypeOfWorkerStep DEF IInv
<1>4. locals[w] = <<>> BY <1>u DEF IInv, Ring
<1>5. PICK p \in {"checkSystem", "reschedule", "popFront"} : pc' = [pc EXCEPT ![w] = p]
  BY <1>1 DEF LeaveTurn
<1>6. \A v \in Workers \ {w} : held'[v] = held[v]
  BY <1>1 DEF LeaveTurn, IInv, TypeOK, WorkersOK
<1>7. Ring' /\ Tickets'
  BY <1>u, <1>4, <1>5, <1>6, QuietStep DEF callerVars, queueVars, Owning, Carrying
<1> QED BY <1>3, <1>7 DEF IInv

\* TrySchedule from finishOrReclaim.
LEMMA RescheduleStep ==
  ASSUME IInv, NEW w \in Workers, Reschedule(w)
  PROVE  IInv'
<1> USE DispatcherAssumption, NoneAssumption
<1> DEFINE b == held[w]
<1>u. /\ UNCHANGED <<queueVars, boxVars, victim, current, callerVars>>
      /\ pc[w] = "reschedule"
  BY DEF Reschedule
<1>1. b \in Actors BY <1>u DEF IInv, TypeOK, WorkersOK, Owning, Carrying, Released, Searching, Holding, InLoop, WorkerPcs
<1>2. locals[w] = <<>> BY <1>u DEF IInv, Ring
<1>3. CASE ~ TryScheduleWins(b)
  <2>1. /\ pc' = [pc EXCEPT ![w] = "popFront"] /\ held' = [held EXCEPT ![w] = None]
        /\ budget' = [budget EXCEPT ![w] = 0] /\ UNCHANGED schedState
    BY <1>3 DEF Reschedule, LeaveTurn
  <2>2. WorkersOK' BY <1>u, <2>1 DEF IInv, TypeOK, WorkersOK, Owning, Carrying, Released, Searching, Holding, InLoop, WorkerPcs
  <2>3. TypeOK' BY <1>u, <2>1, <2>2, TypeOfWorkerStep DEF IInv
  <2>4. \A v \in Workers \ {w} : held'[v] = held[v]
    BY <2>1 DEF IInv, TypeOK, WorkersOK
  <2>5. Ring' /\ Tickets'
    BY <1>u, <1>2, <2>1, <2>4, QuietStep DEF callerVars, queueVars, Owning, Carrying
  <2> QED BY <2>3, <2>5 DEF IInv
<1>4. CASE TryScheduleWins(b)
  <2>1. /\ pc' = [pc EXCEPT ![w] = "reclaim"] /\ UNCHANGED <<held, budget>>
        /\ schedState' = [schedState EXCEPT ![b] = "Scheduled"]
    BY <1>4 DEF Reschedule
  <2>2. WorkersOK' BY <1>u, <2>1 DEF IInv, TypeOK, WorkersOK, Owning, Carrying, Released, Searching, Holding, InLoop, WorkerPcs
  <2>3. TypeOK'
    BY <1>u, <1>1, <2>1, <2>2
    DEF IInv, TypeOK, BoxesOK, QueuesOK, CallersOK, States, queueVars, boxVars, callerVars
  <2>4. pc'[w] = "reclaim" /\ \A v \in Workers \ {w} : pc'[v] = pc[v]
    BY <2>1 DEF IInv, TypeOK, WorkersOK
  <2>5. Ring' BY <1>u, <1>2, <2>4 DEF IInv, Ring, queueVars
  <2>6. Tickets'
    <3>1. schedState[b] = "Idle" BY <1>4 DEF TryScheduleWins
    <3>2. \A a \in Actors, v \in Workers :
             WorkerTicket(v, a)' <=> WorkerTicket(v, a) \/ (v = w /\ a = b)
      BY <1>u, <1>2, <2>1, <2>4 DEF WorkerTicket, Carries, InRing, Carrying, queueVars
    <3>3. \A a \in Actors, v \in Workers : Owns(v, a)' <=> Owns(v, a)
      BY <1>u, <2>1, <2>4 DEF Owns, Owning
    <3>4. \A a \in Actors, c \in Callers : Pushes(c, a)' <=> Pushes(c, a)
      BY <1>u DEF Pushes, callerVars
    <3>5. /\ Tickets /\ global \in Seq(Actors) /\ UNCHANGED global
          /\ schedState \in [Actors -> States]
      BY <1>u DEF IInv, TypeOK, QueuesOK, queueVars
    <3> HIDE DEF b
    <3> QED BY <1>1, <2>1, <3>1, <3>2, <3>3, <3>4, <3>5, IdleToWorker
  <2> QED BY <2>3, <2>5, <2>6 DEF IInv
<1> QED BY <1>3, <1>4

\* YieldToScheduled: the turn becomes a ticket.
LEMMA YieldStep ==
  ASSUME IInv, NEW w \in Workers, Yield(w)
  PROVE  IInv'
<1> USE DispatcherAssumption, NoneAssumption
<1> DEFINE b == held[w]
<1>u. /\ UNCHANGED <<queueVars, boxVars, held, budget, victim, current, callerVars>>
      /\ pc[w] = "yield" /\ pc' = [pc EXCEPT ![w] = "pushLocal"]
      /\ schedState' = [schedState EXCEPT ![b] = "Scheduled"]
  BY DEF Yield
<1>1. b \in Actors BY <1>u DEF IInv, TypeOK, WorkersOK, Owning, Carrying, Released, Searching, Holding, InLoop, WorkerPcs
<1>2. WorkersOK' BY <1>u DEF IInv, TypeOK, WorkersOK, Owning, Carrying, Released, Searching, Holding, InLoop, WorkerPcs
<1>3. TypeOK'
  BY <1>u, <1>1, <1>2
  DEF IInv, TypeOK, BoxesOK, QueuesOK, CallersOK, States, queueVars, boxVars, callerVars
<1>4. pc'[w] = "pushLocal" /\ \A v \in Workers \ {w} : pc'[v] = pc[v]
  BY <1>u DEF IInv, TypeOK, WorkersOK
<1>5. locals[w] = <<>> BY <1>u DEF IInv, Ring
<1>6. Ring' BY <1>u, <1>4 DEF IInv, Ring, queueVars
<1>7. Tickets'
  <2>1. Owns(w, b) BY <1>u DEF Owns, Owning
  <2>2. \A a \in Actors, v \in Workers :
           WorkerTicket(v, a)' <=> WorkerTicket(v, a) \/ (v = w /\ a = b)
    BY <1>u, <1>4, <1>5 DEF WorkerTicket, Carries, InRing, Carrying, queueVars
  <2>3. \A a \in Actors, v \in Workers : Owns(v, a)' <=> Owns(v, a) /\ ~ (v = w /\ a = b)
    BY <1>u, <1>4 DEF Owns, Owning
  <2>4. \A a \in Actors, c \in Callers : Pushes(c, a)' <=> Pushes(c, a)
    BY <1>u DEF Pushes, callerVars
  <2>5. /\ Tickets /\ global \in Seq(Actors) /\ UNCHANGED global
        /\ schedState \in [Actors -> States]
    BY <1>u DEF IInv, TypeOK, QueuesOK, queueVars
  <2>6. schedState' = [schedState EXCEPT ![b] = "Scheduled"] BY <1>u
  <2>7. YieldMove(w, b) BY <2>1, <2>2, <2>3, <2>4, <2>5, <2>6 DEF YieldMove
  <2> HIDE DEF b
  <2> QED BY <1>1, <2>5, <2>7, TurnToTicket
<1> QED BY <1>3, <1>6, <1>7 DEF IInv

\* The ring of a worker that holds an actor is empty, so pushLocal never
\* spills to the global queue.
LEMMA PushLocalStep ==
  ASSUME IInv, NEW w \in Workers, PushLocal(w)
  PROVE  IInv'
<1> USE DispatcherAssumption, NoneAssumption
<1> DEFINE b == held[w]
<1>u. /\ UNCHANGED <<schedState, sys, boxVars, budget, victim, current, callerVars>>
      /\ pc[w] = "pushLocal" /\ held' = [held EXCEPT ![w] = None]
  BY DEF PushLocal
<1>1. b \in Actors BY <1>u DEF IInv, TypeOK, WorkersOK, Owning, Carrying, Released, Searching, Holding, InLoop, WorkerPcs
<1>2. locals[w] = <<>> BY <1>u DEF IInv, Ring
<1>3. Append(locals[w], b) = <<b>> BY <1>2
<1>4. /\ locals' = [locals EXCEPT ![w] = <<b>>]
      /\ pc' = [pc EXCEPT ![w] = "popFront"]
      /\ UNCHANGED global
  <2>1. Len(locals[w]) # LocalCap BY <1>2
  <2>2. locals' = [locals EXCEPT ![w] = Append(locals[w], b)]
        /\ pc' = [pc EXCEPT ![w] = "popFront"] /\ UNCHANGED global
    BY <2>1 DEF PushLocal
  <2> QED BY <1>3, <2>2
<1>5. <<b>> \in Seq(Actors) /\ Len(<<b>>) = 1 /\ <<b>> # <<>> /\ <<b>>[1] = b BY <1>1
<1>6. TypeOK'
  <2>1. WorkersOK' BY <1>u, <1>4 DEF IInv, TypeOK, WorkersOK, Owning, Carrying, Released, Searching, Holding, InLoop, WorkerPcs
  <2>2. QueuesOK' BY <1>u, <1>4, <1>5 DEF IInv, TypeOK, QueuesOK
  <2> QED BY <1>u, <2>1, <2>2 DEF IInv, TypeOK, BoxesOK, CallersOK, boxVars, callerVars
<1>7. Ring'
  <2>1. pc'[w] = "popFront" /\ \A v \in Workers \ {w} : pc'[v] = pc[v]
    BY <1>4 DEF IInv, TypeOK, WorkersOK
  <2>2. locals'[w] = <<b>> /\ \A v \in Workers \ {w} : locals'[v] = locals[v]
    BY <1>4 DEF IInv, TypeOK, QueuesOK
  <2> QED BY <1>5, <2>1, <2>2 DEF IInv, Ring
<1>8. Tickets'
  <2>1. \A a \in Actors, v \in Workers : WorkerTicket(v, a)' <=> WorkerTicket(v, a)
    <3>1. /\ pc'[w] = "popFront" /\ locals'[w] = <<b>>
          /\ \A v \in Workers \ {w} :
                pc'[v] = pc[v] /\ held'[v] = held[v] /\ locals'[v] = locals[v]
      BY <1>u, <1>4 DEF IInv, TypeOK, WorkersOK, QueuesOK
    <3> QED BY <1>u, <1>2, <1>5, <3>1 DEF WorkerTicket, Carries, InRing, Carrying
  <2>2. \A a \in Actors, v \in Workers : Owns(v, a)' <=> Owns(v, a)
    BY <1>u, <1>4 DEF IInv, TypeOK, WorkersOK, Owns, Owning
  <2>3. \A a \in Actors, c \in Callers : Pushes(c, a)' <=> Pushes(c, a)
    BY <1>u DEF Pushes, callerVars
  <2> QED BY <1>u, <1>4, <2>1, <2>2, <2>3, TicketsStay DEF IInv, TypeOK, QueuesOK
<1> QED BY <1>6, <1>7, <1>8 DEF IInv

\* Worker v neither starts nor ends a turn, and gains or loses no ticket.
WorkerQuiet(v) ==
    \/ pc'[v] = pc[v]
    \/ /\ pc[v] \notin Owning \cup Carrying \cup {"popFront"}
       /\ pc'[v] \notin Owning \cup Carrying
    \/ pc[v] \in Owning /\ pc'[v] \in Owning

\* Caller c neither wins nor pushes an actor.
CallerQuiet(c) ==
    /\ call'[c] = "push" <=> call[c] = "push"
    /\ call[c] = "push" => sending'[c] = sending[c]

\* Steps of doReceive and of the system that move no ticket.
LEMMA CallStepQuiet ==
  ASSUME IInv, TypeOK', UNCHANGED <<schedState, global, locals, held>>,
         \A v \in Workers : WorkerQuiet(v),
         \A c \in Callers : CallerQuiet(c)
  PROVE  IInv'
<1> USE DEF WorkerQuiet, CallerQuiet
<1>1. Ring' BY DEF IInv, Ring, Owning
<1>2. \A a \in Actors, v \in Workers : WorkerTicket(v, a)' <=> WorkerTicket(v, a)
  BY DEF WorkerTicket, Carries, InRing, Carrying, Owning
<1>3. \A a \in Actors, v \in Workers : Owns(v, a)' <=> Owns(v, a)
  BY DEF Owns, Carrying, Owning
<1>4. \A a \in Actors, c \in Callers : Pushes(c, a)' <=> Pushes(c, a)
  BY DEF Pushes
<1>5. Tickets' BY <1>2, <1>3, <1>4, TicketsStay DEF IInv, TypeOK, QueuesOK
<1> QED BY <1>1, <1>5 DEF IInv

\* The entry of doReceive.
LEMMA ReceiveStep ==
  ASSUME IInv, NEW c \in Callers, NEW m \in Messages, Receive(c, m)
  PROVE  /\ call' \in [Callers -> CallPcs]
         /\ sending' \in [Callers -> Messages \cup {None}]
         /\ \A d \in Callers : sending'[d] \in Messages <=> call'[d] # "ready"
         /\ \A d \in Callers : CallerQuiet(d)
<1>1. call[c] = "ready" BY DEF Receive
<1>2. \/ UNCHANGED <<call, sending>>
      \/ /\ call' = [call EXCEPT ![c] = "enqueue"]
         /\ sending' = [sending EXCEPT ![c] = m]
  BY DEF Receive
<1>3. /\ call \in [Callers -> CallPcs]
      /\ sending \in [Callers -> Messages \cup {None}]
      /\ \A d \in Callers : sending[d] \in Messages <=> call[d] # "ready"
  BY DEF IInv, TypeOK, CallersOK
<1> QED BY <1>1, <1>2, <1>3 DEF CallPcs, CallerQuiet

\* A producer sends.
LEMMA ProducerTellStep ==
  ASSUME IInv, NEW p \in Producers, ProducerTell(p)
  PROVE  IInv'
<1> USE DispatcherAssumption, NoneAssumption
<1>1. PICK k \in Kinds, a \in Actors :
         Receive(p, [from |-> p, num |-> sent[p] + 1, kind |-> k, to |-> a])
  BY DEF ProducerTell
<1> DEFINE m == [from |-> p, num |-> sent[p] + 1, kind |-> k, to |-> a]
<1>2. p \in Callers BY DEF Callers
<1>3. sent[p] \in 0 .. MaxSend /\ sent[p] < MaxSend
  BY DEF ProducerTell, IInv, TypeOK, CallersOK
<1>4. m \in Messages
  <2>1. sent[p] + 1 \in 0 .. MaxSend BY <1>3
  <2>2. k \in {"control", "async", "user"} OBVIOUS
  <2> QED BY <1>2, <2>1, <2>2 DEF Messages
<1>5. UNCHANGED <<schedState, queueVars, boxVars, workerVars>>
      /\ sent' = [sent EXCEPT ![p] = sent[p] + 1]
  BY DEF ProducerTell
<1>6. Receive(p, m) BY <1>1
<1> HIDE DEF m
<1>7. /\ call' \in [Callers -> CallPcs]
      /\ sending' \in [Callers -> Messages \cup {None}]
      /\ \A d \in Callers : sending'[d] \in Messages <=> call'[d] # "ready"
      /\ \A d \in Callers : CallerQuiet(d)
  BY <1>2, <1>4, <1>6, ReceiveStep
<1>8. CallersOK'
  <2>1. sent' \in [Producers -> 0 .. MaxSend]
    BY <1>3, <1>5 DEF IInv, TypeOK, CallersOK
  <2> QED BY <1>7, <2>1 DEF CallersOK
<1>9. TypeOK'
  BY <1>5, <1>8 DEF IInv, TypeOK, BoxesOK, QueuesOK, WorkersOK, queueVars, boxVars, workerVars
<1>10. UNCHANGED <<schedState, global, locals, held>> /\ \A v \in Workers : WorkerQuiet(v)
  BY <1>5 DEF queueVars, workerVars, WorkerQuiet
<1> QED BY <1>7, <1>9, <1>10, CallStepQuiet

\* A handler sends to its own actor.
LEMMA HandlerTellStep ==
  ASSUME IInv, NEW w \in Workers, HandlerTell(w)
  PROVE  IInv'
<1> USE DispatcherAssumption, NoneAssumption
<1> DEFINE m == [from |-> w, num |-> 0, kind |-> "user", to |-> held[w]]
<1>1. /\ pc[w] = "handle" /\ pc' = [pc EXCEPT ![w] = "telling"]
      /\ UNCHANGED <<schedState, queueVars, boxVars, held, budget, victim, current, sent>>
      /\ Receive(w, m)
  BY DEF HandlerTell
<1>2. w \in Callers BY DEF Callers
<1>3. held[w] \in Actors BY <1>1 DEF IInv, TypeOK, WorkersOK, Owning, Carrying, Released, Searching, Holding, InLoop, WorkerPcs
<1>4. m \in Messages BY <1>2, <1>3 DEF Messages
<1> HIDE DEF m
<1>5. /\ call' \in [Callers -> CallPcs]
      /\ sending' \in [Callers -> Messages \cup {None}]
      /\ \A d \in Callers : sending'[d] \in Messages <=> call'[d] # "ready"
      /\ \A d \in Callers : CallerQuiet(d)
  BY <1>1, <1>2, <1>4, ReceiveStep
<1>6. CallersOK' BY <1>1, <1>5 DEF IInv, TypeOK, CallersOK
<1>7. WorkersOK' BY <1>1 DEF IInv, TypeOK, WorkersOK, Owning, Carrying, Released, Searching, Holding, InLoop, WorkerPcs
<1>8. TypeOK'
  BY <1>1, <1>6, <1>7 DEF IInv, TypeOK, BoxesOK, QueuesOK, queueVars, boxVars
<1>9. pc'[w] = "telling" /\ \A v \in Workers \ {w} : pc'[v] = pc[v]
  BY <1>1 DEF IInv, TypeOK, WorkersOK
<1>10. /\ UNCHANGED <<schedState, global, locals, held>>
       /\ \A v \in Workers : WorkerQuiet(v)
  BY <1>1, <1>9 DEF queueVars, Owning, WorkerQuiet
<1> QED BY <1>5, <1>8, <1>10, CallStepQuiet

\* Both halves of Enqueue keep a mailbox a sequence of entries.
LEMMA BoxTypes ==
  ASSUME NEW box \in Seq(Entries), NEW m \in Messages
  PROVE  Swap(box, m) \in Seq(Entries) /\ Link(box, m) \in Seq(Entries)
<1>1. [msg |-> m, linked |-> FALSE] \in Entries BY DEF Entries
<1>2. Swap(box, m) \in Seq(Entries) BY <1>1 DEF Swap
<1>3. \A i \in 1 .. Len(box) :
         (IF box[i].msg = m THEN [box[i] EXCEPT !.linked = TRUE] ELSE box[i]) \in Entries
  <2> SUFFICES ASSUME NEW i \in 1 .. Len(box)
               PROVE  /\ [box[i] EXCEPT !.linked = TRUE] \in Entries
                      /\ box[i] \in Entries
    OBVIOUS
  <2>1. box[i] \in Entries BY ElementOfSeq
  <2> QED BY <2>1 DEF Entries
<1>4. Len(box) \in Nat /\ DOMAIN box = 1 .. Len(box) BY LenProperties
<1>5. Link(box, m) \in [1 .. Len(box) -> Entries] BY <1>3, <1>4 DEF Link
<1>6. Link(box, m) \in Seq(Entries) BY <1>4, <1>5, SeqDef
<1> QED BY <1>2, <1>6

\* Both halves of Enqueue: one mailbox of the target gets a new value.
LEMMA EnqueueStep ==
  ASSUME IInv, NEW c \in Callers, EnqueueSwap(c) \/ EnqueueLink(c)
  PROVE  IInv'
<1> USE DispatcherAssumption, NoneAssumption
<1> DEFINE b == sending[c].to
<1>1. /\ UNCHANGED <<schedState, queueVars, workerVars, sending, sent>>
      /\ call[c] \in {"enqueue", "link"}
      /\ \E q \in {"link", "trySchedule"} : call' = [call EXCEPT ![c] = q]
  BY DEF EnqueueSwap, EnqueueLink
<1>2. sending[c] \in Messages BY <1>1 DEF IInv, TypeOK, CallersOK
<1>3. b \in Actors BY <1>2 DEF Messages
<1>4. BoxesOK'
  <2>1. \A box \in Seq(Entries) :
           Swap(box, sending[c]) \in Seq(Entries) /\ Link(box, sending[c]) \in Seq(Entries)
    BY <1>2, BoxTypes
  <2>2. systemMailbox \in [Actors -> Seq(Entries)] /\ mailbox \in [Actors -> Seq(Entries)]
    BY DEF IInv, TypeOK, BoxesOK
  <2>3. \E v \in Seq(Entries) :
           \/ systemMailbox' = [systemMailbox EXCEPT ![b] = v] /\ UNCHANGED mailbox
           \/ mailbox' = [mailbox EXCEPT ![b] = v] /\ UNCHANGED systemMailbox
    <3>1. systemMailbox[b] \in Seq(Entries) /\ mailbox[b] \in Seq(Entries)
      BY <1>3, <2>2
    <3>2. CASE EnqueueSwap(c)
      <4>1. \/ /\ systemMailbox' = [systemMailbox EXCEPT ![b] = Swap(systemMailbox[b], sending[c])]
               /\ UNCHANGED mailbox
            \/ /\ mailbox' = [mailbox EXCEPT ![b] = Swap(mailbox[b], sending[c])]
               /\ UNCHANGED systemMailbox
        BY <3>2 DEF EnqueueSwap
      <4> QED BY <2>1, <3>1, <4>1
    <3>3. CASE EnqueueLink(c)
      <4>1. \/ /\ systemMailbox' = [systemMailbox EXCEPT ![b] = Link(systemMailbox[b], sending[c])]
               /\ UNCHANGED mailbox
            \/ /\ mailbox' = [mailbox EXCEPT ![b] = Link(mailbox[b], sending[c])]
               /\ UNCHANGED systemMailbox
        BY <3>3 DEF EnqueueLink
      <4> QED BY <2>1, <3>1, <4>1
    <3> QED BY <3>2, <3>3
  <2> QED BY <1>3, <2>2, <2>3 DEF BoxesOK
<1>5. CallersOK' BY <1>1 DEF IInv, TypeOK, CallersOK, CallPcs
<1>6. TypeOK'
  BY <1>1, <1>4, <1>5 DEF IInv, TypeOK, QueuesOK, WorkersOK, queueVars, workerVars
<1>7. \A d \in Callers : CallerQuiet(d)
  BY <1>1 DEF IInv, TypeOK, CallersOK, CallerQuiet
<1>8. UNCHANGED <<schedState, global, locals, held>> /\ \A v \in Workers : WorkerQuiet(v)
  BY <1>1 DEF queueVars, workerVars, WorkerQuiet
<1> QED BY <1>6, <1>7, <1>8, CallStepQuiet

\* TrySchedule from doReceive.
LEMMA TryScheduleStep ==
  ASSUME IInv, NEW c \in Callers, TrySchedule(c)
  PROVE  IInv'
<1> USE DispatcherAssumption, NoneAssumption
<1> DEFINE b == sending[c].to
<1>1. UNCHANGED <<queueVars, boxVars, workerVars, sent>> /\ call[c] = "trySchedule"
  BY DEF TrySchedule
<1>2. sending[c] \in Messages BY <1>1 DEF IInv, TypeOK, CallersOK
<1>3. b \in Actors BY <1>2 DEF Messages
<1>4. CASE TryScheduleWins(b)
  <2>1. /\ schedState' = [schedState EXCEPT ![b] = "Scheduled"]
        /\ call' = [call EXCEPT ![c] = "push"] /\ UNCHANGED sending
    BY <1>4 DEF TrySchedule
  <2>2. CallersOK' BY <1>1, <2>1 DEF IInv, TypeOK, CallersOK, CallPcs
  <2>3. TypeOK'
    BY <1>1, <1>3, <2>1, <2>2
    DEF IInv, TypeOK, BoxesOK, QueuesOK, WorkersOK, States, queueVars, boxVars, workerVars
  <2>4. Ring' BY <1>1 DEF IInv, Ring, queueVars, workerVars
  <2>5. \A a \in Actors, v \in Workers : WorkerTicket(v, a)' <=> WorkerTicket(v, a)
    BY <1>1 DEF WorkerTicket, Carries, InRing, queueVars, workerVars
  <2>6. \A a \in Actors, v \in Workers : Owns(v, a)' <=> Owns(v, a)
    BY <1>1 DEF Owns, workerVars
  <2>7. \A a \in Actors, d \in Callers :
           Pushes(d, a)' <=> Pushes(d, a) \/ (d = c /\ a = b)
    BY <1>1, <2>1 DEF Pushes, IInv, TypeOK, CallersOK
  <2>8. /\ Tickets /\ global \in Seq(Actors) /\ UNCHANGED global
        /\ schedState \in [Actors -> States] /\ schedState[b] = "Idle"
    BY <1>1, <1>4 DEF IInv, TypeOK, QueuesOK, queueVars, TryScheduleWins
  <2>9. Tickets'
    <3> HIDE DEF b
    <3> QED BY <1>3, <2>1, <2>5, <2>6, <2>7, <2>8, IdleToCaller
  <2> QED BY <2>3, <2>4, <2>9 DEF IInv
<1>5. CASE ~ TryScheduleWins(b)
  <2>1. /\ UNCHANGED schedState /\ call' = [call EXCEPT ![c] = "ready"]
        /\ sending' = [sending EXCEPT ![c] = None]
    BY <1>5 DEF TrySchedule
  <2>2. CallersOK' BY <1>1, <2>1 DEF IInv, TypeOK, CallersOK, CallPcs
  <2>3. TypeOK'
    BY <1>1, <2>1, <2>2
    DEF IInv, TypeOK, BoxesOK, QueuesOK, WorkersOK, queueVars, boxVars, workerVars
  <2>4. \A d \in Callers : CallerQuiet(d)
    BY <1>1, <2>1 DEF IInv, TypeOK, CallersOK, CallerQuiet
  <2>5. UNCHANGED <<schedState, global, locals, held>> /\ \A v \in Workers : WorkerQuiet(v)
    BY <1>1, <2>1 DEF queueVars, workerVars, WorkerQuiet
  <2> QED BY <2>3, <2>4, <2>5, CallStepQuiet
<1> QED BY <1>4, <1>5

\* cond.Signal changes a parked worker to a woken one, and nothing else.
LEMMA SignalWakes ==
  ASSUME NEW pcs \in [Workers -> WorkerPcs], NEW r \in Signal(pcs)
  PROVE  /\ r \in [Workers -> WorkerPcs]
         /\ \A v \in Workers : r[v] = pcs[v] \/ (pcs[v] = "parked" /\ r[v] = "woken")
BY DEF Signal, WorkerPcs, Searching

\* dispatcher.schedule: the caller's ticket goes to the global queue.
LEMMA ScheduleStep ==
  ASSUME IInv, NEW c \in Callers, Schedule(c)
  PROVE  IInv'
<1> USE DispatcherAssumption, NoneAssumption
<1> DEFINE b == sending[c].to
<1>1. /\ UNCHANGED <<schedState, locals, sys, boxVars, held, budget, victim, current, sent>>
      /\ call[c] = "push" /\ call' = [call EXCEPT ![c] = "ready"]
      /\ sending' = [sending EXCEPT ![c] = None]
      /\ global' = Append(global, b) /\ pc' \in Signal(pc)
  BY DEF Schedule, Push
<1>2. sending[c] \in Messages BY <1>1 DEF IInv, TypeOK, CallersOK
<1>3. b \in Actors BY <1>2 DEF Messages
<1>4. /\ pc' \in [Workers -> WorkerPcs]
      /\ \A v \in Workers : pc'[v] = pc[v] \/ (pc[v] = "parked" /\ pc'[v] = "woken")
  BY <1>1, SignalWakes DEF IInv, TypeOK, WorkersOK
<1>5. TypeOK'
  <2>1. CallersOK' BY <1>1 DEF IInv, TypeOK, CallersOK, CallPcs
  <2>2. WorkersOK'
    BY <1>1, <1>4 DEF IInv, TypeOK, WorkersOK, Owning, Carrying, Released, Holding, InLoop
  <2>3. QueuesOK'
    <3>1. global \in Seq(Actors) BY DEF IInv, TypeOK, QueuesOK
    <3>2. Append(global, b) \in Seq(Actors) BY <1>3, <3>1, AppendProperties
    <3> QED BY <1>1, <3>2 DEF IInv, TypeOK, QueuesOK
  <2> QED BY <1>1, <2>1, <2>2, <2>3 DEF IInv, TypeOK, BoxesOK, boxVars
<1>6. Ring' BY <1>1, <1>4 DEF IInv, Ring
<1>7. Tickets'
  <2>1. \A a \in Actors, v \in Workers : WorkerTicket(v, a)' <=> WorkerTicket(v, a)
    BY <1>1, <1>4 DEF WorkerTicket, Carries, InRing, Carrying
  <2>2. \A a \in Actors, v \in Workers : Owns(v, a)' <=> Owns(v, a)
    BY <1>1, <1>4 DEF Owns, Owning
  <2>3. \A a \in Actors, d \in Callers :
           Pushes(d, a)' <=> Pushes(d, a) /\ ~ (d = c /\ a = b)
    BY <1>1 DEF Pushes, IInv, TypeOK, CallersOK
  <2>4. Pushes(c, b) BY <1>1 DEF Pushes
  <2>5. Tickets /\ global \in Seq(Actors) BY DEF IInv, TypeOK, QueuesOK
  <2> HIDE DEF b
  <2> QED BY <1>1, <1>3, <2>1, <2>2, <2>3, <2>4, <2>5, CallerToGlobal
<1> QED BY <1>5, <1>6, <1>7 DEF IInv

\* The steps of the shutdown move no ticket; close wakes the parked.
LEMMA ShutdownStep ==
  ASSUME IInv, Shutdown
  PROVE  IInv'
<1>1. /\ UNCHANGED <<schedState, global, locals, boxVars, held, budget, victim,
                     current, callerVars>>
      /\ sys' \in {"stopping", "reset", "closed"}
      /\ UNCHANGED pc
         \/ pc' = [w \in Workers |-> IF pc[w] = "parked" THEN "woken" ELSE pc[w]]
  BY DEF Shutdown, BeginShutdown, ResetSystem, SignalStop, workerVars
<1>2. /\ pc' \in [Workers -> WorkerPcs]
      /\ \A v \in Workers : pc'[v] = pc[v] \/ (pc[v] = "parked" /\ pc'[v] = "woken")
  BY <1>1 DEF IInv, TypeOK, WorkersOK, WorkerPcs, Searching
<1>3. WorkersOK'
  BY <1>1, <1>2 DEF IInv, TypeOK, WorkersOK, Owning, Carrying, Released, Holding, InLoop
<1>4. TypeOK'
  BY <1>1, <1>3 DEF IInv, TypeOK, BoxesOK, QueuesOK, CallersOK, boxVars, callerVars
<1>5. \A v \in Workers : WorkerQuiet(v)
  BY <1>2 DEF WorkerQuiet, Owning, Carrying
<1>6. \A c \in Callers : CallerQuiet(c) BY <1>1 DEF CallerQuiet, callerVars
<1>7. UNCHANGED <<schedState, global, locals, held>> BY <1>1
<1> QED BY <1>4, <1>5, <1>6, <1>7, CallStepQuiet

-----------------------------------------------------------------------------
(* The invariant and its consequences.                                      *)

\* IInv is inductive.
LEMMA NextIInv == IInv /\ [Next]_vars => IInv'
<1> SUFFICES ASSUME IInv, [Next]_vars PROVE IInv' OBVIOUS
<1>1. ASSUME NEW w \in Workers, WorkerStep(w) PROVE IInv'
  BY <1>1, PopFrontStep, PopGlobalStep, TryStealStep, ParkAndTakeStep,
     TakeForProcessingStep, DequeueStep, EndHandleStep, ResetStep, CheckStep,
     RescheduleStep, YieldStep, PushLocalStep
  DEF WorkerStep
<1>2. ASSUME NEW w \in Workers, HandlerTell(w) PROVE IInv' BY <1>2, HandlerTellStep
<1>3. ASSUME NEW p \in Producers, ProducerTell(p) PROVE IInv' BY <1>3, ProducerTellStep
<1>4. ASSUME NEW c \in Callers, CallStep(c) PROVE IInv'
  BY <1>4, EnqueueStep, TryScheduleStep, ScheduleStep DEF CallStep
<1>5. CASE Shutdown BY <1>5, ShutdownStep
<1>6. CASE UNCHANGED vars
  <2>1. UNCHANGED <<schedState, queueVars, boxVars, workerVars, callerVars>>
    BY <1>6 DEF vars
  <2>2. TypeOK'
    BY <2>1 DEF IInv, TypeOK, BoxesOK, QueuesOK, WorkersOK, CallersOK,
                queueVars, boxVars, workerVars, callerVars
  <2>3. \A v \in Workers : WorkerQuiet(v) BY <2>1 DEF workerVars, WorkerQuiet
  <2>4. \A c \in Callers : CallerQuiet(c) BY <2>1 DEF callerVars, CallerQuiet
  <2>5. UNCHANGED <<schedState, global, locals, held>> BY <2>1 DEF queueVars, workerVars
  <2> QED BY <2>2, <2>3, <2>4, <2>5, CallStepQuiet
<1> QED BY <1>1, <1>2, <1>3, <1>4, <1>5, <1>6 DEF Next

\* IInv holds in every reachable state.
LEMMA Invariance == Spec => []IInv
BY InitIInv, NextIInv, PTL DEF Spec

\* The variables keep their ranges, a worker holds an actor exactly between
\* take and the end of its turn, and the turn stays inside its budget.
THEOREM TypeCorrect == Spec => []TypeOK
BY Invariance, PTL DEF IInv

\* Single-threaded execution: whatever the interleaving of senders, workers
\* and steals, at most one worker is inside runTurn's loop for an actor, and
\* an actor is Processing exactly then.
THEOREM SingleThreaded == Spec => []SingleOwner
<1>1. IInv => SingleOwner BY DEF IInv, Tickets
<1> QED BY <1>1, Invariance, PTL

\* The places of an actor are its tickets.
LEMMA PlacesAreTickets ==
  ASSUME IInv, NEW a \in Actors, NEW x
  PROVE  x \in Places(a) <=>
           \/ \E i \in DOMAIN global : global[i] = a /\ x = <<"global", 0, i>>
           \/ \E w \in Workers : InRing(w, a) /\ x = <<"local", w, 1>>
           \/ \E w \in Workers : Carries(w, a) /\ x = <<"worker", w, 0>>
           \/ \E c \in Callers : Pushes(c, a) /\ x = <<"caller", c, 0>>
<1>1. ASSUME NEW w \in Workers
      PROVE  {j \in DOMAIN locals[w] : locals[w][j] = a} = IF InRing(w, a) THEN {1} ELSE {}
  <2>1. locals[w] \in Seq(Actors) BY DEF IInv, TypeOK, QueuesOK
  <2>2. locals[w] # <<>> => DOMAIN locals[w] = {1} BY <2>1, LenProperties DEF IInv, Ring
  <2>3. locals[w] = <<>> => DOMAIN locals[w] = {} BY <2>1, LenProperties
  <2> QED BY <2>2, <2>3 DEF InRing
<1> DEFINE G == {<<"global", 0, i>> : i \in {j \in DOMAIN global : global[j] = a}}
           L == UNION {{<<"local", w, i>> : i \in {j \in DOMAIN locals[w] : locals[w][j] = a}}
                         : w \in Workers}
           W == {<<"worker", w, 0>> : w \in {v \in Workers : Carries(v, a)}}
           C == {<<"caller", c, 0>> : c \in {d \in Callers : Pushes(d, a)}}
<1>2. x \in L <=> \E w \in Workers : InRing(w, a) /\ x = <<"local", w, 1>> BY <1>1
<1>3. x \in G <=> \E i \in DOMAIN global : global[i] = a /\ x = <<"global", 0, i>> OBVIOUS
<1>4. x \in W <=> \E w \in Workers : Carries(w, a) /\ x = <<"worker", w, 0>> OBVIOUS
<1>5. x \in C <=> \E c \in Callers : Pushes(c, a) /\ x = <<"caller", c, 0>> OBVIOUS
<1>6. Places(a) = G \cup L \cup W \cup C BY DEF Places
<1> HIDE DEF G, L, W, C
<1>7. x \in Places(a) <=> x \in L \/ x \in G \/ x \in W \/ x \in C BY <1>6
<1> QED BY <1>2, <1>3, <1>4, <1>5, <1>7

\* The tickets of the invariant are the places of ScheduledOnce.
LEMMA TicketsScheduledOnce == IInv => ScheduledOnce
<1> SUFFICES ASSUME IInv, NEW a \in Actors
             PROVE  /\ schedState[a] = "Scheduled" <=> Places(a) # {}
                    /\ \A x, y \in Places(a) : x = y
  BY DEF ScheduledOnce
<1>1. \A w \in Workers : WorkerTicket(w, a) <=> Carries(w, a) \/ InRing(w, a)
  BY DEF WorkerTicket
<1>2. \A w \in Workers : ~ (Carries(w, a) /\ InRing(w, a))
  BY DEF IInv, Ring, Carries, InRing, Carrying
<1>3. TicketScheduled /\ TicketUnique /\ TicketExists BY DEF IInv, Tickets
<1>4. schedState[a] = "Scheduled" => Places(a) # {}
  <2> SUFFICES ASSUME schedState[a] = "Scheduled" PROVE \E x : x \in Places(a) OBVIOUS
  <2>1. \/ \E i \in DOMAIN global : global[i] = a
        \/ \E w \in Workers : InRing(w, a)
        \/ \E w \in Workers : Carries(w, a)
        \/ \E c \in Callers : Pushes(c, a)
    BY <1>1, <1>3 DEF TicketExists
  <2>2. ASSUME NEW i \in DOMAIN global, global[i] = a PROVE <<"global", 0, i>> \in Places(a)
    BY <2>2, PlacesAreTickets
  <2>3. ASSUME NEW w \in Workers, InRing(w, a) PROVE <<"local", w, 1>> \in Places(a)
    BY <2>3, PlacesAreTickets
  <2>4. ASSUME NEW w \in Workers, Carries(w, a) PROVE <<"worker", w, 0>> \in Places(a)
    BY <2>4, PlacesAreTickets
  <2>5. ASSUME NEW c \in Callers, Pushes(c, a) PROVE <<"caller", c, 0>> \in Places(a)
    BY <2>5, PlacesAreTickets
  <2> QED BY <2>1, <2>2, <2>3, <2>4, <2>5
<1>5. ASSUME NEW x \in Places(a) PROVE schedState[a] = "Scheduled"
  BY <1>1, <1>3, PlacesAreTickets DEF TicketScheduled
<1>6. ASSUME NEW x \in Places(a), NEW y \in Places(a) PROVE x = y
  <2> DEFINE G(z) == \E i \in DOMAIN global : global[i] = a /\ z = <<"global", 0, i>>
             L(z) == \E w \in Workers : InRing(w, a) /\ z = <<"local", w, 1>>
             W(z) == \E w \in Workers : Carries(w, a) /\ z = <<"worker", w, 0>>
             C(z) == \E c \in Callers : Pushes(c, a) /\ z = <<"caller", c, 0>>
  <2>1. (G(x) \/ L(x) \/ W(x) \/ C(x)) /\ (G(y) \/ L(y) \/ W(y) \/ C(y))
    BY PlacesAreTickets
  <2>2. G(x) /\ G(y) => x = y BY <1>3 DEF TicketUnique
  <2>3. ~ (G(x) /\ (L(y) \/ W(y) \/ C(y))) /\ ~ (G(y) /\ (L(x) \/ W(x) \/ C(x)))
    BY <1>1, <1>3 DEF TicketUnique
  <2>4. ~ (C(x) /\ (L(y) \/ W(y))) /\ ~ (C(y) /\ (L(x) \/ W(x)))
    BY <1>1, <1>3 DEF TicketUnique
  <2>5. C(x) /\ C(y) => x = y BY <1>3 DEF TicketUnique
  <2>6. ~ (L(x) /\ W(y)) /\ ~ (L(y) /\ W(x)) BY <1>1, <1>2, <1>3 DEF TicketUnique
  <2>7. (L(x) /\ L(y) => x = y) /\ (W(x) /\ W(y) => x = y)
    BY <1>1, <1>3 DEF TicketUnique
  <2> QED BY <2>1, <2>2, <2>3, <2>4, <2>5, <2>6, <2>7
<1> QED BY <1>4, <1>5, <1>6

\* The ready queue neither duplicates nor drops an actor: through push,
\* pushLocal, take, stealHalf and reclaim, a Scheduled actor is in exactly
\* one place and any other actor is in none.
THEOREM QueueExact == Spec => []ScheduledOnce
BY TicketsScheduledOnce, Invariance, PTL

-----------------------------------------------------------------------------
(* Parking: inductive together with IInv.                                   *)

Awake == global # <<>> /\ sys # "closed" => \E w \in Workers : pc[w] # "parked"

\* A worker's step leaves it unparked, or parks it on an empty global queue.
LEMMA WorkerAwake ==
  ASSUME IInv, NEW w \in Workers, WorkerStep(w)
  PROVE  Awake'
<1> USE DEF IInv, TypeOK, WorkersOK
<1>1. CASE PopFront(w) BY <1>1 DEF PopFront, Awake
<1>2. CASE PopGlobal(w) BY <1>2 DEF PopGlobal, Awake
<1>3. CASE TrySteal(w) BY <1>3 DEF TrySteal, Awake
<1>4. CASE ParkAndTake(w) BY <1>4 DEF ParkAndTake, Awake
<1>5. CASE TakeForProcessing(w) BY <1>5 DEF TakeForProcessing, LeaveTurn, Awake
<1>6. CASE DequeueSystem(w) BY <1>6 DEF DequeueSystem, Awake
<1>7. CASE DequeueUser(w) BY <1>7 DEF DequeueUser, Awake
<1>8. CASE EndHandle(w) BY <1>8 DEF EndHandle, Continue, Awake
<1>9. CASE Reset(w) BY <1>9 DEF Reset, Awake
<1>10. CASE CheckUser(w) BY <1>10 DEF CheckUser, Awake
<1>11. CASE CheckSystem(w) BY <1>11 DEF CheckSystem, LeaveTurn, Awake
<1>12. CASE Reschedule(w) BY <1>12 DEF Reschedule, LeaveTurn, Awake
<1>13. CASE Reclaim(w) BY <1>13 DEF Reclaim, Continue, LeaveTurn, Awake
<1>14. CASE Yield(w) BY <1>14 DEF Yield, Awake
<1>15. CASE PushLocal(w)
  <2> DEFINE pcs == [pc EXCEPT ![w] = "popFront"]
  <2>1. pc' = pcs \/ pc' \in Signal(pcs) BY <1>15 DEF PushLocal, Push
  <2>2. pcs \in [Workers -> WorkerPcs] /\ pcs[w] = "popFront" BY DEF WorkerPcs
  <2> HIDE DEF pcs
  <2>3. pc'[w] = "popFront" BY <2>1, <2>2, SignalWakes
  <2> QED BY <2>3 DEF Awake
<1> QED BY <1>1, <1>2, <1>3, <1>4, <1>5, <1>6, <1>7, <1>8, <1>9, <1>10, <1>11,
           <1>12, <1>13, <1>14, <1>15 DEF WorkerStep

\* Awake is preserved by every step.
LEMMA NextAwake == IInv /\ Awake /\ [Next]_vars => Awake'
<1> SUFFICES ASSUME IInv, Awake, [Next]_vars PROVE Awake' OBVIOUS
<1>1. ASSUME NEW w \in Workers, WorkerStep(w) PROVE Awake' BY <1>1, WorkerAwake
<1>2. ASSUME NEW w \in Workers, HandlerTell(w) PROVE Awake'
  BY <1>2 DEF HandlerTell, Awake, IInv, TypeOK, WorkersOK
<1>3. ASSUME NEW p \in Producers, ProducerTell(p) PROVE Awake'
  BY <1>3 DEF ProducerTell, Awake, queueVars, workerVars
<1>4. ASSUME NEW c \in Callers, EnqueueSwap(c) \/ EnqueueLink(c) \/ TrySchedule(c)
      PROVE  Awake'
  BY <1>4 DEF EnqueueSwap, EnqueueLink, TrySchedule, Awake, queueVars, workerVars
<1>5. ASSUME NEW c \in Callers, Schedule(c) PROVE Awake'
  <2>1. pc' \in Signal(pc) BY <1>5 DEF Schedule, Push
  <2>2. CASE \E v \in Workers : pc[v] # "parked"
    <3>1. PICK v \in Workers : pc[v] # "parked" BY <2>2
    <3>2. pc'[v] # "parked" BY <2>1, <3>1, SignalWakes DEF IInv, TypeOK, WorkersOK
    <3> QED BY <3>2 DEF Awake
  <2>3. CASE \A v \in Workers : pc[v] = "parked"
    <3>1. 0 \in Workers BY DispatcherAssumption DEF Workers
    <3>2. {v \in Workers : pc[v] = "parked"} # {} BY <2>3, <3>1
    <3>3. \E v \in Workers : pc' = [pc EXCEPT ![v] = "woken"]
      BY <2>1, <3>2 DEF Signal
    <3> QED BY <3>3 DEF Awake, IInv, TypeOK, WorkersOK
  <2> QED BY <2>2, <2>3
<1>6. CASE Shutdown
  BY <1>6 DEF Shutdown, BeginShutdown, ResetSystem, SignalStop, Awake, workerVars
<1>7. CASE UNCHANGED vars BY <1>7 DEF vars, queueVars, workerVars, Awake
<1> QED BY <1>1, <1>2, <1>3, <1>4, <1>5, <1>6, <1>7 DEF Next, CallStep

\* parkAndTake never sleeps through a push: while the pool is open, work in
\* the global queue keeps a worker awake; and a local ring holds at most the
\* actor its owner is about to pop.
THEOREM Parking == Spec => []NoStrandedWork
<1>1. Init => Awake BY DEF Init, Awake
<1>2. IInv /\ Awake => NoStrandedWork BY DEF IInv, Ring, Awake, NoStrandedWork
<1> QED BY <1>1, <1>2, NextAwake, Invariance, PTL DEF Spec

-----------------------------------------------------------------------------
(* Wake-ups: NoLostWakeup is inductive together with IInv.                  *)

\* The goroutines that will see a's message still will after the step.
PromisesFor(a) ==
    /\ \A c \in Callers : SenderWillSchedule(c, a) => SenderWillSchedule(c, a)'
    /\ \A v \in Workers : WorkerWillSee(v, a) => WorkerWillSee(v, a)'

\* After a step every actor is not Idle, or has no visible message, or keeps
\* the promises it had, or has a new one.
LEMMA PromisesKept ==
  ASSUME NoLostWakeup,
         \A a \in Actors :
            \/ schedState'[a] # "Idle"
            \/ ~ Visible(a)'
            \/ schedState[a] = "Idle" /\ Visible(a) /\ PromisesFor(a)
            \/ \E c \in Callers : SenderWillSchedule(c, a)'
            \/ \E v \in Workers : WorkerWillSee(v, a)'
  PROVE  NoLostWakeup'
<1> SUFFICES ASSUME NEW a \in Actors, schedState'[a] = "Idle", Visible(a)'
             PROVE  \/ \E c \in Callers : SenderWillSchedule(c, a)'
                    \/ \E v \in Workers : WorkerWillSee(v, a)'
  BY DEF NoLostWakeup
<1>1. CASE schedState[a] = "Idle" /\ Visible(a) /\ PromisesFor(a)
  BY <1>1 DEF NoLostWakeup, PromisesFor
<1> QED BY <1>1

\* The mailboxes of a, and its dispatch state, are what they were.
Untouched(a) ==
    /\ mailbox'[a] = mailbox[a] /\ systemMailbox'[a] = systemMailbox[a]
    /\ schedState'[a] = "Idle" => schedState[a] = "Idle"

\* An untouched actor keeps its promises if the goroutines that made them
\* do not move.
LEMMA QuietPromises ==
  ASSUME NEW a \in Actors, Untouched(a),
         \A c \in Callers : SenderWillSchedule(c, a) =>
            call'[c] = call[c] /\ sending'[c] = sending[c],
         \A v \in Workers : WorkerWillSee(v, a) =>
            pc'[v] = pc[v] /\ held'[v] = held[v]
  PROVE  \/ schedState'[a] # "Idle"
         \/ ~ Visible(a)'
         \/ schedState[a] = "Idle" /\ Visible(a) /\ PromisesFor(a)
<1>1. IsEmpty(mailbox[a])' <=> IsEmpty(mailbox[a]) BY DEF Untouched, IsEmpty
<1>2. IsEmpty(systemMailbox[a])' <=> IsEmpty(systemMailbox[a]) BY DEF Untouched, IsEmpty
<1>3. Visible(a)' <=> Visible(a) BY <1>1, <1>2 DEF Visible
<1>4. \A c \in Callers : SenderWillSchedule(c, a) => SenderWillSchedule(c, a)'
  BY DEF SenderWillSchedule
<1>5. \A v \in Workers : WorkerWillSee(v, a) => WorkerWillSee(v, a)'
  BY <1>2 DEF WorkerWillSee
<1> QED BY <1>3, <1>4, <1>5 DEF PromisesFor, Untouched

\* Steps that touch no mailbox, make no actor Idle and move no goroutine that
\* made a promise.
LEMMA QuietStepKeepsPromises ==
  ASSUME NoLostWakeup, UNCHANGED boxVars,
         \A a \in Actors : schedState'[a] = "Idle" => schedState[a] = "Idle",
         \A c \in Callers : call[c] = "trySchedule" =>
            call'[c] = call[c] /\ sending'[c] = sending[c],
         \A v \in Workers : pc[v] \in Released => pc'[v] = pc[v] /\ held'[v] = held[v]
  PROVE  NoLostWakeup'
<1>1. \A a \in Actors : Untouched(a) BY DEF Untouched, boxVars
<1>2. \A a \in Actors, c \in Callers : SenderWillSchedule(c, a) =>
         call'[c] = call[c] /\ sending'[c] = sending[c]
  BY DEF SenderWillSchedule
<1>3. \A a \in Actors, v \in Workers : WorkerWillSee(v, a) =>
         pc'[v] = pc[v] /\ held'[v] = held[v]
  BY DEF WorkerWillSee, Released
<1> QED BY <1>1, <1>2, <1>3, QuietPromises, PromisesKept

\* The steps of a worker outside Dequeue and finishOrReclaim.
LEMMA WorkerKeepsPromises ==
  ASSUME IInv, NoLostWakeup, NEW w \in Workers,
         \/ PopFront(w) \/ PopGlobal(w) \/ TrySteal(w) \/ ParkAndTake(w)
         \/ TakeForProcessing(w) \/ EndHandle(w) \/ Reclaim(w) \/ Yield(w) \/ PushLocal(w)
  PROVE  NoLostWakeup'
<1>1. UNCHANGED <<boxVars, callerVars>>
  BY DEF PopFront, PopGlobal, TrySteal, ParkAndTake, TakeForProcessing, EndHandle,
         Reclaim, Yield, PushLocal
<1>2. /\ schedState \in [Actors -> States] /\ pc \in [Workers -> WorkerPcs]
      /\ held \in [Workers -> Actors \cup {None}]
      /\ \A v \in Workers : held[v] \in Actors <=> pc[v] \in Holding
  BY DEF IInv, TypeOK, WorkersOK
<1>3. pc[w] \notin Released
  BY DEF PopFront, PopGlobal, TrySteal, ParkAndTake, TakeForProcessing, EndHandle,
         Reclaim, Yield, PushLocal, Released
<1>4. \/ UNCHANGED schedState
      \/ \E q \in {"Scheduled", "Processing"} : schedState' = [schedState EXCEPT ![held[w]] = q]
  BY DEF PopFront, PopGlobal, TrySteal, ParkAndTake, TakeForProcessing, EndHandle,
         Reclaim, Yield, PushLocal
<1>5. UNCHANGED held \/ \E h : held' = [held EXCEPT ![w] = h]
  BY DEF PopFront, PopGlobal, TrySteal, ParkAndTake, TakeForProcessing, EndHandle,
         Reclaim, Yield, PushLocal, LeaveTurn, Continue
<1>6. \A v \in Workers \ {w} : held'[v] = held[v] BY <1>2, <1>5
<1>7. \A v \in Workers \ {w} : pc[v] \in Released => pc'[v] = pc[v]
  <2>1. CASE PushLocal(w)
    <3> DEFINE pcs == [pc EXCEPT ![w] = "popFront"]
    <3>1. pc' = pcs \/ pc' \in Signal(pcs) BY <2>1 DEF PushLocal, Push
    <3>2. pcs \in [Workers -> WorkerPcs] /\ \A v \in Workers \ {w} : pcs[v] = pc[v]
      BY <1>2 DEF WorkerPcs
    <3> HIDE DEF pcs
    <3> QED BY <3>1, <3>2, SignalWakes DEF Released
  <2>2. CASE ~ PushLocal(w)
    <3>1. UNCHANGED pc \/ \E q : pc' = [pc EXCEPT ![w] = q]
      BY <2>2 DEF PopFront, PopGlobal, TrySteal, ParkAndTake, TakeForProcessing,
                  EndHandle, Reclaim, Yield, LeaveTurn, Continue
    <3> QED BY <1>2, <3>1
  <2> QED BY <2>1, <2>2
<1>8. \A a \in Actors : schedState'[a] = "Idle" => schedState[a] = "Idle"
  BY <1>2, <1>4
<1> QED BY <1>1, <1>3, <1>6, <1>7, <1>8, QuietStepKeepsPromises DEF callerVars

\* Only the mailboxes of an actor that is being processed lose messages.
LEMMA DequeueKeepsPromises ==
  ASSUME IInv, NoLostWakeup, NEW w \in Workers, DequeueSystem(w) \/ DequeueUser(w)
  PROVE  NoLostWakeup'
<1>1. /\ UNCHANGED <<schedState, held, callerVars>> /\ pc[w] \in {"system", "user"}
      /\ \E q : pc' = [pc EXCEPT ![w] = q]
      /\ \A a \in Actors : a # held[w] =>
            mailbox'[a] = mailbox[a] /\ systemMailbox'[a] = systemMailbox[a]
  BY DEF DequeueSystem, DequeueUser, IInv, TypeOK, BoxesOK
<1>2. held[w] \in Actors BY <1>1 DEF IInv, TypeOK, WorkersOK, Holding, Owning
<1>3. Owns(w, held[w]) BY <1>1 DEF Owns, Owning
<1>4. schedState[held[w]] = "Processing" BY <1>2, <1>3 DEF IInv, Tickets, SingleOwner
<1>5. \A v \in Workers : pc[v] \in Released => pc'[v] = pc[v]
  BY <1>1 DEF Released, IInv, TypeOK, WorkersOK
<1> SUFFICES ASSUME NEW a \in Actors, a # held[w]
             PROVE  \/ schedState'[a] # "Idle"
                    \/ ~ Visible(a)'
                    \/ schedState[a] = "Idle" /\ Visible(a) /\ PromisesFor(a)
  BY <1>1, <1>4, PromisesKept
<1>6. Untouched(a) BY <1>1 DEF Untouched
<1>7. \A v \in Workers : WorkerWillSee(v, a) => pc'[v] = pc[v] /\ held'[v] = held[v]
  BY <1>1, <1>5 DEF WorkerWillSee, Released
<1>8. \A c \in Callers : call'[c] = call[c] /\ sending'[c] = sending[c]
  BY <1>1 DEF callerVars
<1> QED BY <1>6, <1>7, <1>8, QuietPromises

\* finishOrReclaim: the worker promises to look at both mailboxes after it
\* made the actor Idle, and gives its promise up when it saw them empty or
\* when somebody else scheduled the actor.
LEMMA FinishKeepsPromises ==
  ASSUME IInv, NoLostWakeup, NEW w \in Workers,
         Reset(w) \/ CheckUser(w) \/ CheckSystem(w) \/ Reschedule(w)
  PROVE  NoLostWakeup'
<1> DEFINE b == held[w]
<1>1. UNCHANGED <<boxVars, callerVars>>
  BY DEF Reset, CheckUser, CheckSystem, Reschedule
<1>2. /\ schedState \in [Actors -> States] /\ pc \in [Workers -> WorkerPcs]
      /\ held \in [Workers -> Actors \cup {None}]
  BY DEF IInv, TypeOK, WorkersOK
<1>3. \A v \in Workers \ {w} : pc'[v] = pc[v] /\ held'[v] = held[v]
  BY <1>2 DEF Reset, CheckUser, CheckSystem, Reschedule, LeaveTurn
<1>4. \A a \in Actors : a # b => schedState'[a] = schedState[a]
  BY <1>2 DEF Reset, CheckUser, CheckSystem, Reschedule
<1>5. \A c \in Callers : call'[c] = call[c] /\ sending'[c] = sending[c]
  BY <1>1 DEF callerVars
<1>6. ASSUME NEW a \in Actors, a # b
      PROVE  \/ schedState'[a] # "Idle"
             \/ ~ Visible(a)'
             \/ schedState[a] = "Idle" /\ Visible(a) /\ PromisesFor(a)
  <2>1. Untouched(a) BY <1>1, <1>4, <1>6 DEF Untouched, boxVars
  <2>2. \A v \in Workers : WorkerWillSee(v, a) => pc'[v] = pc[v] /\ held'[v] = held[v]
    BY <1>3, <1>6 DEF WorkerWillSee
  <2> QED BY <1>5, <2>1, <2>2, QuietPromises
<1>7. ASSUME b \in Actors
      PROVE  \/ schedState'[b] # "Idle"
             \/ ~ Visible(b)
             \/ held'[w] = b /\ pc'[w] \in {"checkUser", "reschedule"}
             \/ held'[w] = b /\ pc'[w] = "checkSystem" /\ ~ IsEmpty(systemMailbox[b])
             \/ /\ pc[w] = "checkSystem" /\ IsEmpty(systemMailbox[b])
                /\ UNCHANGED schedState
  <2>1. CASE Reset(w) BY <1>2, <2>1 DEF Reset
  <2>2. CASE CheckUser(w) BY <1>2, <2>2 DEF CheckUser, Visible
  <2>3. CASE CheckSystem(w) BY <1>2, <2>3 DEF CheckSystem
  <2>4. CASE Reschedule(w) BY <1>2, <1>7, <2>4 DEF Reschedule, TryScheduleWins
  <2> QED BY <2>1, <2>2, <2>3, <2>4
<1>8. ASSUME NEW a \in Actors, a = held[w]
      PROVE  \/ schedState'[a] # "Idle"
             \/ ~ Visible(a)'
             \/ schedState[a] = "Idle" /\ Visible(a) /\ PromisesFor(a)
             \/ WorkerWillSee(w, a)'
  <2>1. CASE schedState'[a] # "Idle" BY <2>1
  <2>2. /\ IsEmpty(systemMailbox[a])' <=> IsEmpty(systemMailbox[a])
        /\ Visible(a)' <=> Visible(a)
    BY <1>1 DEF Visible, IsEmpty, boxVars
  <2>3. CASE /\ held'[w] = a
             /\ \/ pc'[w] \in {"checkUser", "reschedule"}
                \/ pc'[w] = "checkSystem" /\ ~ IsEmpty(systemMailbox[a])
    BY <2>2, <2>3 DEF WorkerWillSee
  <2>4. CASE pc[w] = "checkSystem" /\ IsEmpty(systemMailbox[a]) /\ UNCHANGED schedState
    <3>1. ~ WorkerWillSee(w, a) BY <2>4 DEF WorkerWillSee
    <3>2. \A v \in Workers : WorkerWillSee(v, a) => pc'[v] = pc[v] /\ held'[v] = held[v]
      BY <1>3, <3>1
    <3>3. Untouched(a) BY <1>1, <2>4 DEF Untouched, boxVars
    <3> QED BY <1>5, <3>2, <3>3, QuietPromises
  <2> QED BY <1>7, <1>8, <2>1, <2>2, <2>3, <2>4
<1>9. ASSUME NEW a \in Actors
       PROVE  \/ schedState'[a] # "Idle"
              \/ ~ Visible(a)'
              \/ schedState[a] = "Idle" /\ Visible(a) /\ PromisesFor(a)
              \/ WorkerWillSee(w, a)'
  <2>1. CASE a = held[w] BY <1>8, <2>1
  <2>2. CASE a # held[w] BY <1>6, <2>2
  <2> QED BY <2>1, <2>2
<1> QED BY <1>9, PromisesKept

\* A swapped entry is invisible until it is linked.
LEMMA SwapInvisible ==
  ASSUME NEW box \in Seq(Entries), NEW m \in Messages
  PROVE  IsEmpty(Swap(box, m)) <=> IsEmpty(box)
<1> DEFINE e == [msg |-> m, linked |-> FALSE]
<1>1. e \in Entries /\ e.linked = FALSE BY DEF Entries
<1> HIDE DEF e
<1>2. Append(box, e) # <<>> BY <1>1
<1>3. CASE box = <<>>
  <2>1. Head(Append(box, e)) = e BY <1>1, <1>3
  <2> QED BY <1>1, <1>3, <2>1 DEF IsEmpty, Swap, e
<1>4. CASE box # <<>>
  <2>1. Head(Append(box, e)) = Head(box) BY <1>1, <1>4
  <2> QED BY <1>2, <1>4, <2>1 DEF IsEmpty, Swap, e
<1> QED BY <1>3, <1>4

\* doReceive: a message is visible only from the link on, and from then on
\* its sender promises to TrySchedule.
LEMMA CallKeepsPromises ==
  ASSUME IInv, NoLostWakeup, NEW c \in Callers, CallStep(c)
  PROVE  NoLostWakeup'
<1>1. call \in [Callers -> CallPcs] /\ sending \in [Callers -> Messages \cup {None}]
  BY DEF IInv, TypeOK, CallersOK
<1>2. sending[c] \in Messages
  BY NoneAssumption
  DEF CallStep, EnqueueSwap, EnqueueLink, TrySchedule, Schedule, IInv, TypeOK, CallersOK
<1>3. PICK b \in Actors : b = sending[c].to BY <1>2 DEF Messages
<1>4. CASE EnqueueSwap(c)
  <2>1. /\ UNCHANGED <<schedState, workerVars, sending>>
        /\ call[c] = "enqueue" /\ call' = [call EXCEPT ![c] = "link"]
    BY <1>4 DEF EnqueueSwap
  <2>2. ASSUME NEW a \in Actors
        PROVE  /\ IsEmpty(mailbox'[a]) <=> IsEmpty(mailbox[a])
               /\ IsEmpty(systemMailbox'[a]) <=> IsEmpty(systemMailbox[a])
    <3>1. mailbox[a] \in Seq(Entries) /\ systemMailbox[a] \in Seq(Entries)
      BY DEF IInv, TypeOK, BoxesOK
    <3>2. /\ IsEmpty(Swap(mailbox[a], sending[c])) <=> IsEmpty(mailbox[a])
          /\ IsEmpty(Swap(systemMailbox[a], sending[c])) <=> IsEmpty(systemMailbox[a])
      BY <1>2, <3>1, SwapInvisible
    <3>3. /\ mailbox'[a] = mailbox[a] \/ mailbox'[a] = Swap(mailbox[a], sending[c])
          /\ \/ systemMailbox'[a] = systemMailbox[a]
             \/ systemMailbox'[a] = Swap(systemMailbox[a], sending[c])
      BY <1>3, <1>4 DEF EnqueueSwap, IInv, TypeOK, BoxesOK
    <3> QED BY <3>2, <3>3
  <2>3. ASSUME NEW a \in Actors
        PROVE  (Visible(a)' <=> Visible(a)) /\ PromisesFor(a)
    <3>1. /\ IsEmpty(mailbox[a])' <=> IsEmpty(mailbox[a])
          /\ IsEmpty(systemMailbox[a])' <=> IsEmpty(systemMailbox[a])
      BY <2>2 DEF IsEmpty
    <3>2. \A d \in Callers : SenderWillSchedule(d, a) => SenderWillSchedule(d, a)'
      BY <1>1, <2>1 DEF SenderWillSchedule
    <3>3. \A v \in Workers : WorkerWillSee(v, a) => WorkerWillSee(v, a)'
      BY <2>1, <3>1 DEF WorkerWillSee, workerVars
    <3> QED BY <3>1, <3>2, <3>3 DEF Visible, PromisesFor
  <2> QED BY <2>1, <2>3, PromisesKept
<1>5. CASE EnqueueLink(c)
  <2>1. /\ UNCHANGED <<schedState, workerVars, sending>>
        /\ call[c] = "link" /\ call' = [call EXCEPT ![c] = "trySchedule"]
        /\ \A a \in Actors : a # b =>
              mailbox'[a] = mailbox[a] /\ systemMailbox'[a] = systemMailbox[a]
    BY <1>3, <1>5 DEF EnqueueLink, IInv, TypeOK, BoxesOK
  <2>2. call'[c] = "trySchedule" /\ \A d \in Callers \ {c} : call'[d] = call[d]
    BY <1>1, <2>1
  <2>3. SenderWillSchedule(c, b)' BY <1>3, <2>1, <2>2 DEF SenderWillSchedule
  <2>4. ASSUME NEW a \in Actors, a # b
        PROVE  \/ schedState'[a] # "Idle"
               \/ ~ Visible(a)'
               \/ schedState[a] = "Idle" /\ Visible(a) /\ PromisesFor(a)
    <3>1. Untouched(a) BY <2>1, <2>4 DEF Untouched
    <3>2. \A d \in Callers : SenderWillSchedule(d, a) =>
             call'[d] = call[d] /\ sending'[d] = sending[d]
      BY <2>1, <2>2 DEF SenderWillSchedule
    <3>3. \A v \in Workers : pc'[v] = pc[v] /\ held'[v] = held[v]
      BY <2>1 DEF workerVars
    <3> QED BY <3>1, <3>2, <3>3, QuietPromises
  <2> QED BY <2>3, <2>4, PromisesKept
<1>6. CASE TrySchedule(c)
  <2>1. /\ UNCHANGED <<boxVars, workerVars>>
        /\ \A d \in Callers \ {c} : call'[d] = call[d] /\ sending'[d] = sending[d]
        /\ schedState'[b] # "Idle"
        /\ \A a \in Actors : a # b => schedState'[a] = schedState[a]
    BY <1>1, <1>3, <1>6 DEF TrySchedule, TryScheduleWins, IInv, TypeOK
  <2>2. ASSUME NEW a \in Actors, a # b
        PROVE  \/ schedState'[a] # "Idle"
               \/ ~ Visible(a)'
               \/ schedState[a] = "Idle" /\ Visible(a) /\ PromisesFor(a)
    <3>1. Untouched(a) BY <2>1, <2>2 DEF Untouched, boxVars
    <3>2. \A d \in Callers : SenderWillSchedule(d, a) =>
             call'[d] = call[d] /\ sending'[d] = sending[d]
      BY <1>3, <2>1, <2>2 DEF SenderWillSchedule
    <3>3. \A v \in Workers : pc'[v] = pc[v] /\ held'[v] = held[v]
      BY <2>1 DEF workerVars
    <3> QED BY <3>1, <3>2, <3>3, QuietPromises
  <2> QED BY <2>1, <2>2, PromisesKept
<1>7. CASE Schedule(c)
  <2>1. /\ UNCHANGED <<schedState, boxVars, held>> /\ pc' \in Signal(pc)
        /\ call[c] = "push" /\ call' = [call EXCEPT ![c] = "ready"]
        /\ sending' = [sending EXCEPT ![c] = None]
    BY <1>7 DEF Schedule, Push
  <2>2. \A v \in Workers : pc[v] \in Released => pc'[v] = pc[v]
    BY <2>1, SignalWakes DEF Released, IInv, TypeOK, WorkersOK
  <2>3. \A d \in Callers : call[d] = "trySchedule" =>
           call'[d] = call[d] /\ sending'[d] = sending[d]
    BY <1>1, <2>1
  <2> QED BY <2>1, <2>2, <2>3, QuietStepKeepsPromises
<1> QED BY <1>4, <1>5, <1>6, <1>7 DEF CallStep

\* NoLostWakeup is preserved by every step.
LEMMA NextNoLostWakeup == IInv /\ NoLostWakeup /\ [Next]_vars => NoLostWakeup'
<1> SUFFICES ASSUME IInv, NoLostWakeup, [Next]_vars PROVE NoLostWakeup' OBVIOUS
<1>1. ASSUME NEW w \in Workers, WorkerStep(w) PROVE NoLostWakeup'
  BY <1>1, WorkerKeepsPromises, DequeueKeepsPromises, FinishKeepsPromises DEF WorkerStep
<1>2. ASSUME NEW w \in Workers, HandlerTell(w) PROVE NoLostWakeup'
  <2>1. /\ UNCHANGED <<schedState, boxVars, held>>
        /\ pc[w] = "handle" /\ pc' = [pc EXCEPT ![w] = "telling"]
    BY <1>2 DEF HandlerTell
  <2>2. \A v \in Workers : pc[v] \in Released => pc'[v] = pc[v]
    BY <2>1 DEF Released, IInv, TypeOK, WorkersOK
  <2>3. call[w] = "ready" /\ \A d \in Callers \ {w} : call'[d] = call[d] /\ sending'[d] = sending[d]
    BY <1>2 DEF HandlerTell, Receive, IInv, TypeOK, CallersOK
  <2> QED BY <2>1, <2>2, <2>3, QuietStepKeepsPromises
<1>3. ASSUME NEW p \in Producers, ProducerTell(p) PROVE NoLostWakeup'
  <2>1. UNCHANGED <<schedState, boxVars, workerVars>> BY <1>3 DEF ProducerTell
  <2>2. call[p] = "ready" /\ \A d \in Callers \ {p} : call'[d] = call[d] /\ sending'[d] = sending[d]
    BY <1>3 DEF ProducerTell, Receive, IInv, TypeOK, CallersOK
  <2> QED BY <2>1, <2>2, QuietStepKeepsPromises DEF workerVars
<1>4. ASSUME NEW c \in Callers, CallStep(c) PROVE NoLostWakeup' BY <1>4, CallKeepsPromises
<1>5. CASE Shutdown
  <2>1. UNCHANGED <<schedState, boxVars, held, callerVars>>
    BY <1>5 DEF Shutdown, BeginShutdown, ResetSystem, SignalStop, workerVars
  <2>2. \A v \in Workers : pc[v] \in Released => pc'[v] = pc[v]
    BY <1>5 DEF Shutdown, BeginShutdown, ResetSystem, SignalStop, workerVars, Released
  <2> QED BY <2>1, <2>2, QuietStepKeepsPromises DEF callerVars
<1>6. CASE UNCHANGED vars
  <2>1. UNCHANGED <<schedState, boxVars, pc, held, call, sending>>
    BY <1>6 DEF vars, workerVars, callerVars
  <2> QED BY <2>1, QuietStepKeepsPromises
<1> QED BY <1>1, <1>2, <1>3, <1>4, <1>5, <1>6 DEF Next

\* No message is left in a mailbox nobody will look at: the re-check of
\* finishOrReclaim and the TrySchedule of doReceive close every window
\* between an enqueue and the end of a turn.
THEOREM WakeupsKept == Spec => []NoLostWakeup
<1>1. Init => NoLostWakeup BY DEF Init, NoLostWakeup, Visible, IsEmpty
<1> QED BY <1>1, NextNoLostWakeup, Invariance, PTL DEF Spec
=============================================================================
