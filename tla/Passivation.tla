----------------------------- MODULE Passivation -----------------------------
(***************************************************************************)
(* The passivation manager: one goroutine that stops idle actors.  Time    *)
(* based participants wait in a heap ordered by deadline, message-count    *)
(* based ones come through a channel of triggers.  Actors touch, pause,    *)
(* resume and leave the manager from their own goroutines while it calls   *)
(* tryPassivation without its lock.  A critical section is one step.       *)
(***************************************************************************)
EXTENDS Integers, Sequences, SequencesExt

CONSTANTS
  Actors,
  Confs,          \* [kind, script : per actor, timeout, max, time, stops, restarts, faults]
  TouchInterval,  \* Touch calls of one actor are at least this far apart
  TriggerSize     \* capacity of messageTriggers

VARIABLES
  conf, now,
  pm,     \* the manager's fields
  ent,    \* the entries ever made
  m,      \* the manager's goroutine
  actor,  \* per actor: what tryPassivation, markActivity and the counters use
  sys,    \* the actor system's shutdown
  raced   \* an entry was queued by Resume or Register while the manager held it

vars == <<conf, now, pm, ent, m, actor, sys, raced>>

Fault(f) == f \in conf.faults
Timed(x) == conf.kind[x] = "time"

(* ---- container/heap over entries; index 0 is the code's -1 ---- *)

Less(h, i, j) == h.ent[h.q[i]].deadline < h.ent[h.q[j]].deadline

Swap(h, i, j) ==
  LET q == [h.q EXCEPT ![i] = h.q[j], ![j] = h.q[i]]
  IN  [q |-> q, ent |-> [[h.ent EXCEPT ![q[i]].index = i] EXCEPT ![q[j]].index = j]]

SmallerChild(h, i, n) == IF 2 * i + 1 <= n /\ Less(h, 2 * i + 1, 2 * i) THEN 2 * i + 1 ELSE 2 * i
NeedsDown(h, i, n) == 2 * i <= n /\ Less(h, SmallerChild(h, i, n), i)

RECURSIVE Up(_, _)
Up(h, j) == IF j > 1 /\ Less(h, j, j \div 2) THEN Up(Swap(h, j \div 2, j), j \div 2) ELSE h

RECURSIVE Down(_, _, _)
Down(h, i, n) ==
  IF NeedsDown(h, i, n) THEN LET c == SmallerChild(h, i, n) IN Down(Swap(h, i, c), c, n) ELSE h

FixAt(h, i, n) == IF NeedsDown(h, i, n) THEN Down(h, i, n) ELSE IF i <= n THEN Up(h, i) ELSE h

HeapPush(h, e) ==
  LET n == Len(h.q) + 1
  IN  Up([q |-> Append(h.q, e), ent |-> [h.ent EXCEPT ![e].index = n]], n)

HeapRemove(h, i) ==
  LET n == Len(h.q)
      g == IF i = n THEN h ELSE FixAt(Swap(h, i, n), i, n - 1)
  IN  [q |-> Front(g.q), ent |-> [g.ent EXCEPT ![Last(g.q)].index = 0]]

HeapFix(h, i) == FixAt(h, i, Len(h.q))

Heap == [q |-> pm.q, ent |-> ent]
\* The entry leaves the heap if its index says that it is there.
Dequeued(h, e) == IF h.ent[e].index > 0 THEN HeapRemove(h, h.ent[e].index) ELSE h

(* ---- the critical sections of the manager ---- *)

refreshDeadline(h, e) ==
  LET x == h.ent[e].id
      last == IF actor[x].latest = 0 THEN now ELSE actor[x].latest
  IN  [h EXCEPT !.ent[e].deadline = last + conf.timeout]

Held(e) == m.e = e /\ m.by = "timer" /\ m.pc \in {"check", "stop", "lock"}

Requeued(h, e) == HeapPush(refreshDeadline(h, e), e)

NewEntry(x) ==
  [id |-> x, deadline |-> 0, baseline |-> 0, index |-> 0, paused |-> FALSE, pending |-> FALSE, enqueued |-> FALSE]

Register(x) ==
  IF ~pm.started THEN UNCHANGED <<pm, ent, raced>>
  ELSE LET e == IF pm.entries[x] = 0 THEN Len(ent) + 1 ELSE pm.entries[x]
           known == IF pm.entries[x] = 0 THEN [Heap EXCEPT !.ent = Append(ent, NewEntry(x))] ELSE Dequeued(Heap, e)
           reset == [known EXCEPT !.ent[e] = [@ EXCEPT !.paused = FALSE, !.pending = FALSE, !.enqueued = FALSE,
                       !.baseline = IF Timed(x) THEN @ ELSE actor[x].processed + 1]]
           h == IF Timed(x) THEN Requeued(reset, e) ELSE reset
       IN  /\ pm' = [pm EXCEPT !.entries[x] = e, !.q = h.q, !.wake = @ \/ Timed(x)]
           /\ ent' = h.ent
           /\ raced' = (raced \/ Held(e))

\* Unregister of x on the manager's fields p and the entries.
Unregistered(x) ==
  LET h == IF pm.entries[x] = 0 THEN Heap ELSE Dequeued(Heap, pm.entries[x])
  IN  [pm |-> [pm EXCEPT !.entries[x] = 0, !.q = h.q], ent |-> h.ent]

Unregister(x) ==
  /\ pm' = Unregistered(x).pm
  /\ ent' = Unregistered(x).ent

\* As if a paused actor stayed in the heap.
PauseKeeps(x) ==
  LET e == pm.entries[x]
  IN  UNCHANGED pm /\ ent' = IF e = 0 THEN ent ELSE [ent EXCEPT ![e].paused = TRUE]
Pause(x) ==
  LET e == pm.entries[x]
  IN  IF e = 0 \/ (e # 0 /\ ent[e].paused) THEN UNCHANGED <<pm, ent>>
      ELSE LET h == Dequeued([Heap EXCEPT !.ent[e].paused = TRUE], e)
           IN  pm' = [pm EXCEPT !.q = h.q] /\ ent' = h.ent

\* What is left to do after Resume: signal the entry, or register anew.
ResumeThen(x) ==
  LET e == pm.entries[x]
  IN  IF e = 0 THEN <<"register">>
      ELSE IF ent[e].paused /\ ~Timed(x) /\ ent[e].pending /\ ~ent[e].enqueued THEN <<"signal">> ELSE <<>>

Resume(x) ==
  LET e == pm.entries[x]
  IN  IF e = 0 \/ (e # 0 /\ ~ent[e].paused) THEN UNCHANGED <<pm, ent, raced>>
      ELSE LET on == [Heap EXCEPT !.ent[e].paused = FALSE]
               h == IF Timed(x) THEN Requeued(on, e)
                    ELSE [on EXCEPT !.ent[e].enqueued = @ \/ on.ent[e].pending]
           IN  /\ pm' = [pm EXCEPT !.q = h.q, !.wake = @ \/ Timed(x)]
               /\ ent' = h.ent
               /\ raced' = (raced \/ Held(e))

Touch(x) ==
  LET e == pm.entries[x]
  IN  IF e = 0 \/ (e # 0 /\ (ent[e].paused \/ ~Timed(x) \/ ent[e].index = 0)) THEN UNCHANGED <<pm, ent>>
      ELSE LET h == HeapFix(refreshDeadline(Heap, e), ent[e].index)
           IN  pm' = [pm EXCEPT !.q = h.q, !.wake = TRUE] /\ ent' = h.ent

Crossed(x, processed) ==
  /\ ~Timed(x) /\ pm.started /\ pm.entries[x] # 0
  /\ processed >= ent[pm.entries[x]].baseline + conf.max

MessageProcessed(x, processed) ==
  LET e == pm.entries[x]
  IN  ent' = IF Crossed(x, processed)
             THEN [ent EXCEPT ![e].pending = TRUE, ![e].enqueued = @ \/ ~ent[e].paused] ELSE ent

Signals(x, processed) ==
  Crossed(x, processed) /\ ~ent[pm.entries[x]].paused /\ ~ent[pm.entries[x]].enqueued

\* The buffered channel, or a goroutine of its own when that is full.
Signalled(p, e) ==
  IF ~p.started THEN p
  ELSE IF Len(p.triggers) < TriggerSize THEN [p EXCEPT !.triggers = Append(@, e)]
  ELSE [p EXCEPT !.spill = Append(@, e)]

(* ---- the actors' side ---- *)

Ops == [msg |-> <<"mark", "touch", "count">>, pause |-> <<"pause", "flag">>,
        suspend |-> <<"suspend", "pause", "flag">>, resume |-> <<"unflag">>,
        reinstate |-> <<"reinstate", "mark", "touch", "unflag">>,
        shutdown |-> <<"shutdown">>, spawn |-> <<"register">>]

\* The actor takes its next operation; one that stopped can only be spawned,
\* and reinstating is for the suspended.
Begin(x) ==
  LET op == Head(actor[x].script)
  IN  /\ actor[x].todo = <<>> /\ actor[x].script # <<>>
      /\ actor' = [actor EXCEPT ![x].script = Tail(@),
           ![x].life = IF op = "spawn" THEN "running" ELSE @,
           ![x].todo = IF (op = "spawn") # (actor[x].life = "running") /\ (op = "reinstate" => actor[x].suspended)
                       THEN Ops[op] ELSE <<>>]
      /\ UNCHANGED <<conf, now, pm, ent, m, sys, raced>>

At(x, step) == actor[x].todo # <<>> /\ Head(actor[x].todo) = step
Goes(x, rest) == [actor EXCEPT ![x].todo = rest]
Next1(x) == Tail(actor[x].todo)

markActivity(x) ==
  \/ /\ At(x, "mark")
     /\ actor' = [Goes(x, Next1(x)) EXCEPT ![x].latest = now]
     /\ UNCHANGED <<pm, ent>>
  \/ /\ At(x, "touch")
     /\ IF actor[x].latest - actor[x].touched >= TouchInterval
        THEN Touch(x) /\ actor' = [Goes(x, Next1(x)) EXCEPT ![x].touched = actor[x].latest]
        ELSE UNCHANGED <<pm, ent>> /\ actor' = Goes(x, Next1(x))

recordProcessedMessage(x) ==
  LET processed == actor[x].processed + 1
  IN  /\ At(x, "count")
      /\ MessageProcessed(x, processed)
      /\ actor' = [Goes(x, IF Signals(x, processed) THEN <<"signal">> ELSE <<>>) EXCEPT
                     ![x].processed = processed, ![x].entry = pm.entries[x]]
      /\ UNCHANGED pm

signalMessageEntry(x) ==
  /\ At(x, "signal")
  /\ pm' = Signalled(pm, actor[x].entry)
  /\ actor' = [Goes(x, <<>>) EXCEPT ![x].entry = 0]
  /\ UNCHANGED ent

suspend(x) ==
  /\ At(x, "suspend")
  /\ actor' = [Goes(x, Next1(x)) EXCEPT ![x].suspended = TRUE]
  /\ UNCHANGED <<pm, ent>>

pausePassivation(x) ==
  \/ At(x, "pause") /\ Pause(x) /\ actor' = Goes(x, Next1(x))
  \/ At(x, "flag") /\ actor' = [Goes(x, <<>>) EXCEPT ![x].paused = TRUE] /\ UNCHANGED <<pm, ent>>

doReinstate(x) ==
  /\ At(x, "reinstate")
  /\ actor' = [Goes(x, Next1(x)) EXCEPT ![x].suspended = FALSE, ![x].skipNext = TRUE]
  /\ UNCHANGED <<pm, ent>>

resumePassivation(x) ==
  \/ /\ At(x, "unflag")
     /\ actor' = [Goes(x, IF actor[x].paused THEN <<"resume">> ELSE <<"register">>) EXCEPT ![x].paused = FALSE]
     /\ UNCHANGED <<pm, ent, raced>>
  \/ At(x, "resume") /\ Resume(x) /\ actor' = [Goes(x, ResumeThen(x)) EXCEPT ![x].entry = pm.entries[x]]

startPassivation(x) == At(x, "register") /\ Register(x) /\ actor' = Goes(x, <<>>)

\* pid.reset at the end of a stop.
ResetFlags(a) == [a EXCEPT !.life = "stopped", !.suspended = FALSE, !.paused = FALSE, !.skipNext = FALSE,
                           !.latest = 0, !.processed = 0]

Shutdown(x) ==
  /\ At(x, "shutdown")
  /\ IF actor[x].life = "running"
     THEN Unregister(x) /\ actor' = [actor EXCEPT ![x] = [ResetFlags(@) EXCEPT !.todo = <<>>]]
     ELSE UNCHANGED <<pm, ent>> /\ actor' = Goes(x, <<>>)

ActorStep(x) ==
  \/ Begin(x)
  \/ /\ \/ (markActivity(x) \/ recordProcessedMessage(x) \/ signalMessageEntry(x) \/ suspend(x)
            \/ pausePassivation(x) \/ doReinstate(x) \/ Shutdown(x)) /\ UNCHANGED raced
        \/ resumePassivation(x) \/ startPassivation(x)
     /\ UNCHANGED <<conf, now, m, sys>>

(* ---- the manager's goroutine ---- *)

MGoes(pc) == m' = [m EXCEPT !.pc = pc]

\* The loop of nextEntry: paused entries at the head are removed by index,
\* and an index of -1 makes heap.Remove panic.
RECURSIVE DropPaused(_)
DropPaused(h) ==
  IF h.q = <<>> THEN h
  ELSE LET e == Head(h.q)
       IN  IF h.ent[e].paused /\ h.ent[e].index > 0 THEN DropPaused(HeapRemove(h, h.ent[e].index)) ELSE h

nextEntry ==
  LET h == DropPaused(Heap)
      e == IF h.q = <<>> THEN 0 ELSE Head(h.q)
  IN  /\ m.pc = "next"
      /\ pm' = [pm EXCEPT !.q = h.q] /\ ent' = h.ent
      /\ m' = IF e = 0 THEN [m EXCEPT !.pc = "select", !.e = 0]
              ELSE IF h.ent[e].paused THEN [m EXCEPT !.pc = "panicked"]
              ELSE [m EXCEPT !.e = e, !.fires = h.ent[e].deadline,
                             !.pc = IF h.ent[e].deadline <= now THEN "trigger" ELSE "select"]
      /\ UNCHANGED actor

run ==
  /\ m.pc = "select"
  /\ \/ m.e # 0 /\ now >= m.fires /\ MGoes("trigger") /\ UNCHANGED pm
     \/ pm.wake /\ pm' = [pm EXCEPT !.wake = FALSE] /\ MGoes("next")
     \/ /\ pm.triggers # <<>>
        /\ pm' = [pm EXCEPT !.triggers = Tail(@)]
        /\ m' = [m EXCEPT !.pc = "process", !.e = Head(pm.triggers)]
     \/ pm.stop /\ MGoes(IF pm.done THEN "panicked" ELSE "off") /\ pm' = [pm EXCEPT !.done = TRUE]
  /\ UNCHANGED <<ent, actor>>

InMark(x) == At(x, "touch")

trigger ==
  LET h == HeapRemove(Heap, 1)
      x == ent[m.e].id
  IN  /\ m.pc = "trigger"
      /\ IF pm.q = <<>> \/ Head(pm.q) # m.e \/ ent[m.e].deadline > now
         THEN MGoes("next") /\ UNCHANGED <<pm, ent>>
         ELSE /\ pm' = [pm EXCEPT !.q = h.q] /\ ent' = h.ent
              /\ m' = [m EXCEPT !.pc = "check", !.by = "timer",
                         !.due = InMark(x) \/ actor[x].latest = 0 \/ now - actor[x].latest >= conf.timeout - TouchInterval]
      /\ UNCHANGED actor

processMessageEntry ==
  LET e == m.e
  IN  /\ m.pc = "process"
      /\ IF pm.entries[ent[e].id] # e THEN MGoes("next") /\ UNCHANGED ent
         ELSE IF ent[e].paused THEN MGoes("next") /\ ent' = [ent EXCEPT ![e].enqueued = FALSE]
         ELSE UNCHANGED ent /\ m' = [m EXCEPT !.pc = "check", !.by = "trigger", !.due = actor[ent[e].id].processed > conf.max]
      /\ UNCHANGED <<pm, actor>>

\* tryPassivation before and after it takes the stop lock.
TryCheck ==
  LET x == ent[m.e].id
  IN  /\ m.pc = "check"
      /\ IF sys.stopping \/ actor[x].skipNext \/ actor[x].suspended \/ actor[x].paused
         THEN /\ m' = [m EXCEPT !.pc = "lock", !.passivated = FALSE]
              /\ actor' = IF sys.stopping THEN actor ELSE [actor EXCEPT ![x].skipNext = FALSE]
         ELSE MGoes("stop") /\ UNCHANGED actor
      /\ UNCHANGED <<pm, ent>>

TryStop ==
  LET x == ent[m.e].id
  IN  /\ m.pc = "stop"
      /\ IF actor[x].skipNext
         THEN /\ actor' = [actor EXCEPT ![x].skipNext = FALSE]
              /\ m' = [m EXCEPT !.pc = "lock", !.passivated = FALSE]
              /\ UNCHANGED <<pm, ent>>
         ELSE /\ Unregister(x)
              /\ actor' = [actor EXCEPT ![x] = ResetFlags(@)]
              /\ \E ok \in {TRUE} \cup {~Fault("postStop")} : m' = [m EXCEPT !.pc = "lock", !.passivated = ok]

\* The second critical section of trigger; after a push it notifies and
\* looks at the head of the heap again.
TriggerEnds ==
  LET e == m.e
      x == ent[e].id
      h == Requeued(Heap, e)
  IN  /\ m.pc = "lock" /\ m.by = "timer"
      /\ IF pm.entries[x] # e \/ ent[e].paused THEN MGoes("next") /\ UNCHANGED <<pm, ent>>
         ELSE IF m.passivated THEN MGoes("next") /\ pm' = [pm EXCEPT !.entries[x] = 0] /\ UNCHANGED ent
         ELSE MGoes("trigger") /\ pm' = [pm EXCEPT !.q = h.q, !.wake = TRUE] /\ ent' = h.ent
      /\ UNCHANGED actor

ProcessEnds ==
  LET e == m.e
      x == ent[e].id
      again == ~m.passivated /\ ~ent[e].paused /\ ent[e].pending
  IN  /\ m.pc = "lock" /\ m.by = "trigger"
      /\ MGoes("next")
      /\ IF pm.entries[x] # e THEN ent' = [ent EXCEPT ![e].enqueued = FALSE] /\ UNCHANGED pm
         ELSE /\ ent' = [ent EXCEPT ![e].enqueued = again, ![e].pending = @ /\ ~m.passivated]
              /\ pm' = IF again THEN Signalled(pm, e)
                       ELSE IF m.passivated THEN [pm EXCEPT !.entries[x] = 0] ELSE pm
      /\ UNCHANGED actor

Manager ==
  /\ nextEntry \/ run \/ trigger \/ processMessageEntry \/ TryCheck \/ TryStop \/ TriggerEnds \/ ProcessEnds
  /\ UNCHANGED <<conf, now, sys, raced>>

\* The goroutine made for a full channel.
Spilled ==
  /\ pm.spill # <<>> /\ Len(pm.triggers) < TriggerSize
  /\ pm' = [pm EXCEPT !.triggers = Append(@, Head(pm.spill)), !.spill = Tail(@)]
  /\ UNCHANGED <<conf, now, ent, m, actor, sys, raced>>

(* ---- the actor system ---- *)

Start ==
  /\ sys.pc = "stopped" /\ conf.restarts /\ sys.starts = 1
  /\ pm' = [pm EXCEPT !.started = TRUE]
  /\ MGoes("next")
  /\ sys' = [sys EXCEPT !.pc = "running", !.stopping = FALSE, !.starts = 2]
  /\ UNCHANGED <<conf, now, ent, actor, raced>>

Stop ==
  /\ \/ /\ sys.pc = "running" /\ sys.starts = 1 /\ conf.stops
        /\ sys' = [sys EXCEPT !.pc = "stopping", !.stopping = TRUE] /\ UNCHANGED pm
     \/ /\ sys.pc = "stopping"
        /\ sys' = [sys EXCEPT !.pc = "waiting"] /\ pm' = [pm EXCEPT !.stop = TRUE]
     \/ /\ sys.pc = "waiting" /\ pm.done
        /\ sys' = [sys EXCEPT !.pc = "stopped"] /\ pm' = [pm EXCEPT !.started = FALSE]
  /\ UNCHANGED <<conf, now, ent, m, actor, raced>>

Tick ==
  /\ now < conf.time
  /\ now' = now + 1
  /\ UNCHANGED <<conf, pm, ent, m, actor, sys, raced>>

PvInit ==
  /\ conf \in Confs /\ now = 1 /\ ent = <<>> /\ raced = FALSE
  /\ pm = [entries |-> [x \in Actors |-> 0], q |-> <<>>, wake |-> FALSE, triggers |-> <<>>, spill |-> <<>>,
           started |-> TRUE, stop |-> FALSE, done |-> FALSE]
  /\ m = [pc |-> "next", e |-> 0, by |-> "timer", fires |-> 0, due |-> TRUE, passivated |-> FALSE]
  /\ actor = [x \in Actors |-> [script |-> conf.script[x], todo |-> <<>>, life |-> "none", latest |-> 0, touched |-> 0,
                processed |-> 0, entry |-> 0, suspended |-> FALSE, paused |-> FALSE, skipNext |-> FALSE]]
  /\ sys = [pc |-> "running", stopping |-> FALSE, starts |-> 1]

\* Everything but the manager's loop, which may spin; these end.
Others == Spilled \/ Start \/ Stop \/ Tick \/ \E x \in Actors : ActorStep(x)
PvNext == Manager \/ Others
PvSpec == PvInit /\ [][PvNext]_vars /\ WF_vars(Manager) /\ WF_vars(Others)

-----------------------------------------------------------------------------

\* An actor is passivated only after its timeout without a message, less the
\* interval in which touches are coalesced, or after the configured number of
\* messages since it was started.
PassivationDue == m.pc = "check" => m.due

\* The heap holds each registered time-based participant that is not paused,
\* once and at the index its entry records, except the one the manager is
\* trying to passivate, as long as nothing queued that one meanwhile.
HeapExact ==
  ~raced =>
    /\ \A i \in DOMAIN pm.q : ent[pm.q[i]].index = i /\ pm.entries[ent[pm.q[i]].id] = pm.q[i]
    /\ \A x \in Actors : LET e == pm.entries[x] IN
         e # 0 /\ Timed(x) => (ent[e].index = 0 <=> ent[e].paused \/ Held(e))

\* A paused participant is not scheduled.
\* Does not hold: Resume and the trigger that holds the entry both push it, and
\* a pause takes one of the two away.
PausedUnscheduled == \A i \in DOMAIN pm.q : ~ent[pm.q[i]].paused

\* Nobody is left waiting: due participants were tried, crossed thresholds
\* were acted on, and Stop returned.  A manager that is started again after
\* Stop is outside the claim.
PassivationRested ==
  \/ sys.starts = 2
  \/ /\ m.pc \in {"select", "off"} /\ (conf.stops => sys.pc = "stopped")
     /\ \A x \in Actors : LET e == pm.entries[x] IN
          /\ actor[x].todo = <<>> /\ actor[x].script = <<>>
          /\ ~conf.stops /\ e # 0 => \/ ent[e].paused
                                     \/ IF Timed(x) THEN ent[e].deadline > now ELSE ~ent[e].pending

=============================================================================
