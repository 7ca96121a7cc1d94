-------------------------------- MODULE Breaker --------------------------------
(***************************************************************************)
(* The circuit breaker that guards piped work (breaker/): concurrent calls  *)
(* of Execute over an atomic state word, a mutex that only the transitions  *)
(* take, a half-open semaphore read without it, and a rolling window of     *)
(* buckets.  The clock is read by the code at several places of a call.     *)
(***************************************************************************)
EXTENDS Integers, Sequences, FiniteSets, SequencesExt

CONSTANTS Confs

VARIABLES conf,    \* the options as given, the calls of every caller, the end of time
          now,     \* the clock
          state,   \* Closed, Open or HalfOpen
          openUntil,
          sem,     \* the permits in use of the semaphore; -1: no semaphore
          win,     \* the bucketWindow
          caller,  \* per caller: where its call is
          log      \* history: the outcomes since the last reset, with their times

vars == <<conf, now, state, openUntil, sem, win, caller, log>>

Callers == DOMAIN conf.calls

\* The options; failureRate in tenths.
Sanitize(o) ==
    [o EXCEPT !.buckets = IF @ <= 0 THEN 1 ELSE @, !.window = IF @ <= 0 THEN 1 ELSE @,
              !.failureRate = IF @ < 0 \/ @ > 10 THEN 5 ELSE @, !.minRequests = IF @ < 1 THEN 1 ELSE @,
              !.openTimeout = IF @ <= 0 THEN 30 ELSE @, !.halfOpenMaxCalls = IF @ < 1 THEN 1 ELSE @]
opts == Sanitize(conf.options)

---------------------------------------------------------------------------
\* The window: one count of outcomes per bucket.
bucketDur == IF opts.window \div opts.buckets > 0 THEN opts.window \div opts.buckets ELSE 1
Empty == [succ |-> 0, fail |-> 0]
newBuckets(t) == [buf |-> [i \in 0..(opts.buckets - 1) |-> Empty], cursor |-> 0, lastUpdate |-> t]

hardResetLocked(t) == newBuckets(t)

advanceLocked(w, t) ==
    LET elapsed == t - w.lastUpdate
        steps == IF elapsed \div bucketDur < opts.buckets - 1 THEN elapsed \div bucketDur ELSE opts.buckets - 1
        passed == {(w.cursor + i) % opts.buckets : i \in 1..steps} IN
    IF elapsed < bucketDur THEN w
    ELSE IF elapsed >= opts.window THEN hardResetLocked(t)
    ELSE [buf |-> [i \in DOMAIN w.buf |-> IF i \in passed THEN Empty ELSE w.buf[i]],
          cursor |-> (w.cursor + steps) % opts.buckets, lastUpdate |-> t]

add(w, t, ok) ==
    LET a == advanceLocked(w, t) IN
    IF ok THEN [a EXCEPT !.buf[a.cursor].succ = @ + 1] ELSE [a EXCEPT !.buf[a.cursor].fail = @ + 1]

\* reset leaves lastUpdate as it is.
reset(w) == [w EXCEPT !.buf = [i \in DOMAIN w.buf |-> Empty], !.cursor = 0]

totals(w) ==
    LET Count(f) == FoldFunction(LAMBDA b, s : b[f] + s, 0, w.buf) IN
    [succ |-> Count("succ"), fail |-> Count("fail")]

---------------------------------------------------------------------------
BInit ==
    /\ conf \in Confs
    /\ now = 0 /\ state = "Closed" /\ openUntil = 0 /\ sem = -1
    /\ win = newBuckets(0)
    /\ caller = [c \in Callers |-> [at |-> "idle", left |-> conf.calls[c], clock |-> 0, ok |-> FALSE, held |-> FALSE]]
    /\ log = <<>>

Tick == now < conf.time /\ now' = now + 1 /\ UNCHANGED <<conf, state, openUntil, sem, win, caller, log>>

Go(c, pc) == caller' = [caller EXCEPT ![c].at = pc]
Returns(c) == caller' = [caller EXCEPT ![c].at = "idle", ![c].left = @ - 1, ![c].clock = 0, ![c].held = FALSE]

\* Execute, tryAllow: the clock, the state, then the end of Open.
tryAllow(c) ==
    /\ caller[c].at = "idle" /\ caller[c].left > 0
    /\ caller' = [caller EXCEPT ![c].at = "state", ![c].clock = now]
    /\ UNCHANGED <<conf, now, state, openUntil, sem, win, log>>

ReadState(c) ==
    /\ caller[c].at = "state"
    /\ caller' = [caller EXCEPT ![c].at = CASE state = "Closed" -> "run" [] state = "Open" -> "open" [] OTHER -> "ensureSem",
                               ![c].clock = IF state = "Open" THEN @ ELSE 0]
    /\ UNCHANGED <<conf, now, state, openUntil, sem, win, log>>

\* Rejected with ErrOpen before the end of Open (handleRejection).
ReadOpenUntil(c) ==
    /\ caller[c].at = "open"
    /\ IF caller[c].clock >= openUntil
       THEN caller' = [caller EXCEPT ![c].at = "toHalfOpen", ![c].clock = 0] ELSE Returns(c)
    /\ UNCHANGED <<conf, now, state, openUntil, sem, win, log>>

\* ensureSem, with its check before the lock.
ensureSem(c) ==
    /\ caller[c].at = "ensureSem"
    /\ Go(c, IF sem = -1 THEN "makeSem" ELSE "acquire")
    /\ UNCHANGED <<conf, now, state, openUntil, sem, win, log>>
makeSem(c) ==
    /\ caller[c].at = "makeSem"
    /\ sem' = 0 /\ Go(c, "acquire")
    /\ UNCHANGED <<conf, now, state, openUntil, win, log>>

\* The send that does not block: refused by a full semaphore, and by none.
Acquire(c) ==
    /\ caller[c].at = "acquire"
    /\ IF sem >= 0 /\ sem < opts.halfOpenMaxCalls
       THEN sem' = sem + 1 /\ caller' = [caller EXCEPT ![c].at = "run", ![c].held = TRUE]
       ELSE UNCHANGED sem /\ Returns(c)
    /\ UNCHANGED <<conf, now, state, openUntil, win, log>>

\* executeWithTimeout: an error, a panic and a context that is done are failures.
executeWithTimeout(c) ==
    /\ caller[c].at = "run"
    /\ \E ok \in conf.outcomes : caller' = [caller EXCEPT ![c].at = "record", ![c].ok = ok]
    /\ UNCHANGED <<conf, now, state, openUntil, sem, win, log>>

\* onSuccess and onFailure: count the outcome, then read the state to see which
\* rule applies; Metrics advances the window twice.
Record(c) ==
    /\ caller[c].at = "record"
    /\ win' = add(win, now, caller[c].ok)
    /\ log' = Append(log, now)
    /\ caller' = [caller EXCEPT ![c].at = "judge", ![c].ok = FALSE]
    /\ UNCHANGED <<conf, now, state, openUntil, sem>>

Judge(c) ==
    /\ caller[c].at = "judge"
    /\ win' = advanceLocked(win, now)
    /\ Go(c, IF state = "HalfOpen" THEN "evaluateHalfOpen" ELSE "evaluate")
    /\ UNCHANGED <<conf, now, state, openUntil, sem, log>>

Sampled(w) == totals(w).succ + totals(w).fail >= opts.minRequests
Failing(w) == totals(w).fail * 10 >= opts.failureRate * (totals(w).succ + totals(w).fail)

evaluate(c) ==
    /\ caller[c].at = "evaluate"
    /\ win' = advanceLocked(win, now)
    /\ Go(c, IF Sampled(win') /\ Failing(win') THEN "toOpen" ELSE "release")
    /\ UNCHANGED <<conf, now, state, openUntil, sem, log>>

evaluateHalfOpen(c) ==
    /\ caller[c].at = "evaluateHalfOpen"
    /\ win' = advanceLocked(win, now)
    /\ Go(c, CASE ~Sampled(win') -> "release" [] Failing(win') -> "toOpen" [] OTHER -> "toClosed")
    /\ UNCHANGED <<conf, now, state, openUntil, sem, log>>

\* transitionTo under the mutex: from any other state.
transitionToOpenLocked == openUntil' = now + opts.openTimeout /\ sem' = -1 /\ UNCHANGED <<win, log>>
transitionToHalfOpenLocked ==
    /\ win' = reset(win) /\ log' = <<>> /\ sem' = 0
    /\ UNCHANGED openUntil
transitionToClosedLocked == win' = reset(win) /\ log' = <<>> /\ sem' = -1 /\ UNCHANGED openUntil
transitionTo(s) ==
    IF state = s THEN UNCHANGED <<state, openUntil, sem, win, log>>
    ELSE /\ state' = s
         /\ CASE s = "Open" -> transitionToOpenLocked [] s = "HalfOpen" -> transitionToHalfOpenLocked
              [] OTHER -> transitionToClosedLocked

toOpen(c) == caller[c].at = "toOpen" /\ transitionTo("Open") /\ Go(c, "release") /\ UNCHANGED <<conf, now>>
toHalfOpen(c) == caller[c].at = "toHalfOpen" /\ transitionTo("HalfOpen") /\ Go(c, "ensureSem") /\ UNCHANGED <<conf, now>>
toClosed(c) == caller[c].at = "toClosed" /\ transitionTo("Closed") /\ Go(c, "release") /\ UNCHANGED <<conf, now>>

\* acquireRelease, deferred: takes a permit out of whichever semaphore there is,
\* whether or not this call put one in.
acquireRelease(c) ==
    /\ caller[c].at = "release"
    /\ sem' = IF sem > 0 THEN sem - 1 ELSE sem
    /\ Returns(c)
    /\ UNCHANGED <<conf, now, state, openUntil, win, log>>

BSystem ==
    \E c \in Callers :
       \/ tryAllow(c) \/ ReadState(c) \/ ReadOpenUntil(c) \/ ensureSem(c) \/ makeSem(c) \/ Acquire(c)
       \/ executeWithTimeout(c) \/ Record(c) \/ Judge(c) \/ evaluate(c) \/ evaluateHalfOpen(c)
       \/ toOpen(c) \/ toHalfOpen(c) \/ toClosed(c) \/ acquireRelease(c)
BNext == BSystem \/ Tick
BSpec == BInit /\ [][BNext]_vars /\ WF_vars(BSystem)

---------------------------------------------------------------------------
\* A permit in the semaphore belongs to a call that is on its way to release one,
\* so that no sequence of transitions and of calls leaves HalfOpen without a
\* permit to give (acquireRelease releases blindly, the semaphore is replaced
\* under its users).
PermitsBacked == sem <= Cardinality({c \in Callers : caller[c].held})

\* The window counts every outcome since the last reset that is younger than the
\* window less a bucket, and none as old as two windows, however far the clock
\* jumps between two calls (advanceLocked).
InWindow == LET t == totals(advanceLocked(win, now)) IN t.succ + t.fail
Younger(age) == Cardinality({i \in DOMAIN log : now - log[i] < age})
WindowCounts ==
    /\ InWindow >= Younger((opts.buckets - 1) * bucketDur + 1)
    /\ InWindow <= Younger(2 * opts.window)

\* The state HalfOpen has its semaphore: no call is turned away, or let through,
\* for want of one, once it has seen HalfOpen and nothing moves
\* (transitionToHalfOpenLocked before the store).
HalfOpenLimited == state = "HalfOpen" => sem >= 0

BreakerEnded == \A c \in Callers : caller[c].at = "idle" /\ caller[c].left = 0
BreakerEnds == <>BreakerEnded

\* "WithHalfOpenMaxCalls sets the maximum number of concurrent calls permitted
\* when the circuit breaker is in the half-open state" (options.go): of the calls
\* that took a permit of the present semaphore.
\* Does not hold: a call from before the breaker opened releases a permit that it
\* did not take.
HalfOpenMaxCalls ==
    state = "HalfOpen" =>
       Cardinality({c \in Callers : caller[c].at = "run" /\ caller[c].held}) <= opts.halfOpenMaxCalls

\* "WithOpenTimeout sets the duration the circuit breaker remains open before
\* transitioning to the half-open state" (options.go).
\* Does not hold: the deadline is compared before the transition, and the breaker
\* can have been half-open and opened again in between.
RemainsOpen == [][state = "Open" /\ state' = "HalfOpen" => now >= openUntil]_vars
=============================================================================
