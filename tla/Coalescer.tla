------------------------------ MODULE Coalescer ------------------------------
(***************************************************************************)
(* The coalesced path of RemoteTell: submitters put messages for one        *)
(* destination on a bounded channel, one writer sends them in batches       *)
(* (internal/remoteclient/coalescer.go), the batches that fail go to the    *)
(* dead letters through a second bounded queue (actor/remote_server.go), and *)
(* the shutdown of remoting closes the three in order.                      *)
(***************************************************************************)
EXTENDS Integers, Sequences, FiniteSets, SequencesExt

CONSTANTS Confs, MaxBatch, FailureQueueSize

VARIABLES conf,     \* the submitters' messages, the faults
          tell,     \* per submitter: where its RemoteTell is and the results
          in,       \* the channel of the coalescer
          done,     \* close was called
          writer,   \* the writer goroutine and its batch
          failures, \* coalescedFailureQueue
          system,   \* shuttingDown, how far shutdownRemoting is, the drain
          dest,     \* history: the messages the destination received
          dead,     \* history: the messages sent to the dead letters
          dropped   \* history: those given up with a warning

vars == <<conf, tell, in, done, writer, failures, system, dest, dead, dropped>>

Submitters == DOMAIN conf.sends
Capacity == 4 * MaxBatch

CInit ==
    /\ conf \in Confs
    /\ tell = [s \in Submitters |-> [pc |-> "check", n |-> 1, ok |-> {}]]
    /\ in = <<>>
    /\ done = FALSE
    /\ writer = [pc |-> "wait", batch |-> <<>>, last |-> FALSE]
    /\ failures = <<>>
    /\ system = [down |-> FALSE, at |-> "up", queue |-> "open", drain |-> "run"]
    /\ dest = <<>> /\ dead = {} /\ dropped = {}

---------------------------------------------------------------------------
\* RemoteTell of the submitter's next message ends: accepted or an error.
Ends(s, accepted) ==
    tell' = [tell EXCEPT ![s] = [pc |-> IF tell[s].n = conf.sends[s] THEN "end" ELSE "check", n |-> tell[s].n + 1,
                                 ok |-> IF accepted THEN tell[s].ok \cup {<<s, tell[s].n>>} ELSE tell[s].ok]]

\* submit: refused when closed; then the channel without waiting;
submit(s) ==
    /\ tell[s].pc = "check"
    /\ IF done THEN Ends(s, FALSE) ELSE tell' = [tell EXCEPT ![s].pc = "fast"]
    /\ UNCHANGED <<conf, in, done, writer, failures, system, dest, dead, dropped>>

submitFast(s) ==
    /\ tell[s].pc = "fast"
    /\ IF Len(in) < Capacity
       THEN in' = Append(in, <<s, tell[s].n>>) /\ Ends(s, TRUE)
       ELSE tell' = [tell EXCEPT ![s].pc = "slow"] /\ UNCHANGED in
    /\ UNCHANGED <<conf, done, writer, failures, system, dest, dead, dropped>>

\* otherwise whichever comes first of room, the caller's deadline and close.
submitSlow(s) ==
    /\ tell[s].pc = "slow"
    /\ \/ Len(in) < Capacity /\ in' = Append(in, <<s, tell[s].n>>) /\ Ends(s, TRUE)
       \/ ("deadline" \in conf.faults \/ done) /\ Ends(s, FALSE) /\ UNCHANGED in
    /\ UNCHANGED <<conf, done, writer, failures, system, dest, dead, dropped>>

---------------------------------------------------------------------------
MinOf(a, b) == IF a < b THEN a ELSE b

\* run: it wakes for a message or for close (either, when both are ready), and
\* takes what is buffered up to MaxBatch; nothing buffered at close, and it ends.
drainReady(last) ==
    LET n == MinOf(Len(in), MaxBatch) IN
    /\ writer' = [pc |-> IF n = 0 THEN "ended" ELSE "send", batch |-> SubSeq(in, 1, n), last |-> last]
    /\ in' = SubSeq(in, n + 1, Len(in))

run ==
    /\ writer.pc = "wait"
    /\ \/ in # <<>> /\ drainReady(FALSE)
       \/ done /\ drainReady(TRUE)
    /\ UNCHANGED <<conf, tell, done, failures, system, dest, dead, dropped>>

\* As if a failed call were repeated with the same batch.
FlushRetries ==
    /\ writer.pc = "send"
    /\ \/ dest' = dest \o writer.batch /\ writer' = [writer EXCEPT !.pc = "next"]
       \/ "net" \in conf.faults /\ dest' = dest \o writer.batch /\ UNCHANGED writer
    /\ UNCHANGED <<conf, tell, in, done, failures, system, dead, dropped>>

\* flush: one call of the transport; when it fails the batch may have arrived or not.
flush ==
    /\ writer.pc = "send"
    /\ \/ dest' = dest \o writer.batch /\ writer' = [writer EXCEPT !.pc = "next"]
       \/ "net" \in conf.faults /\ dest' = dest /\ writer' = [writer EXCEPT !.pc = "failed"]
       \/ "net" \in conf.faults /\ dest' = dest \o writer.batch /\ writer' = [writer EXCEPT !.pc = "failed"]
    /\ UNCHANGED <<conf, tell, in, done, failures, system, dead, dropped>>

\* enqueueCoalescedFailure, the error handler: nothing during shutdown, and
\* never waiting for room.
enqueueCoalescedFailure ==
    /\ \/ /\ writer.pc = "failed"
          /\ writer' = [writer EXCEPT !.pc = IF system.down THEN "next" ELSE "enqueue"]
          /\ dropped' = IF system.down THEN dropped \cup ToSet(writer.batch) ELSE dropped
          /\ UNCHANGED failures
       \/ /\ writer.pc = "enqueue"
          /\ writer' = [writer EXCEPT !.pc = IF system.queue = "closed" THEN "panic" ELSE "next"]
          /\ IF Len(failures) < FailureQueueSize
             THEN failures' = Append(failures, writer.batch) /\ UNCHANGED dropped
             ELSE dropped' = dropped \cup ToSet(writer.batch) /\ UNCHANGED failures
    /\ UNCHANGED <<conf, tell, in, done, system, dest, dead>>

flushed ==
    /\ writer.pc = "next"
    /\ writer' = [writer EXCEPT !.pc = IF writer.last THEN "ended" ELSE "wait", !.batch = <<>>]
    /\ UNCHANGED <<conf, tell, in, done, failures, system, dest, dead, dropped>>

\* drainCoalescedFailures with deadLetterRemoteMessage, until the queue is
\* closed and empty.
drainCoalescedFailures ==
    /\ system.drain = "run"
    /\ \/ /\ failures # <<>>
          /\ failures' = Tail(failures) /\ dead' = dead \cup ToSet(Head(failures)) /\ UNCHANGED system
       \/ /\ failures = <<>> /\ system.queue = "closed"
          /\ system' = [system EXCEPT !.drain = "ended"] /\ UNCHANGED <<failures, dead>>
    /\ UNCHANGED <<conf, tell, in, done, writer, dest, dropped>>

---------------------------------------------------------------------------
\* shutdownRemoting: shuttingDown was set long before; the client's Close closes
\* the coalescer and waits for its writer, then stopCoalescedFailureDrain closes
\* the queue and waits for its reader.
shutdownRemoting ==
    /\ "shutdown" \in conf.faults
    /\ \/ system.at = "up" /\ system' = [system EXCEPT !.at = "down", !.down = TRUE] /\ UNCHANGED done
       \/ system.at = "down" /\ system' = [system EXCEPT !.at = "closing"] /\ done' = TRUE
    /\ UNCHANGED <<conf, tell, in, writer, failures, dest, dead, dropped>>

stopCoalescedFailureDrain ==
    /\ \/ system.at = "closing" /\ writer.pc = "ended" /\ system' = [system EXCEPT !.at = "draining", !.queue = "closed"]
       \/ system.at = "draining" /\ system.drain = "ended" /\ system' = [system EXCEPT !.at = "closed"]
    /\ UNCHANGED <<conf, tell, in, done, writer, failures, dest, dead, dropped>>

CSystem ==
    \/ \E s \in Submitters : submit(s) \/ submitFast(s) \/ submitSlow(s)
    \/ run \/ flush \/ enqueueCoalescedFailure \/ flushed \/ drainCoalescedFailures
    \/ shutdownRemoting \/ stopCoalescedFailureDrain
CNext == CSystem
CSpec == CInit /\ [][CNext]_vars /\ WF_vars(CSystem)

---------------------------------------------------------------------------
Accepted == UNION {tell[s].ok : s \in Submitters}

\* "messages to the same destination remain in submission order": what one
\* submitter sent arrives in its order and at most once, whatever batches
\* failed in between.
SubmissionOrder ==
    /\ Cardinality(ToSet(dest)) = Len(dest)
    /\ \A i, j \in DOMAIN dest : (i < j /\ dest[i][1] = dest[j][1]) => dest[i][2] < dest[j][2]
    /\ ToSet(dest) \subseteq Accepted

Underway == ToSet(in) \cup ToSet(writer.batch) \cup UNION {ToSet(b) : b \in ToSet(failures)}

\* No silent loss: until the writer has ended, a message that RemoteTell
\* accepted is on its way, has arrived, is a dead letter or was given up with a
\* warning.
NoSilentLoss ==
    writer.pc # "ended" => Accepted \subseteq Underway \cup ToSet(dest) \cup dead \cup dropped

\* The error handler never meets a closed failure queue (the send would panic):
\* the queue is closed only after the writer has ended.
FailureQueueOpen == writer.pc # "panic"

\* "Drain anything still buffered and exit" (run, on close): when the writer has
\* ended nothing that was accepted is left on the channel.
\* Does not hold: the writer drains one batch when it ends.
DrainedAtClose == writer.pc = "ended" => in = <<>>

\* Every RemoteTell returns and every accepted message is settled; a shutdown
\* completes.
CoalescerEnded ==
    /\ \A s \in Submitters : tell[s].pc = "end"
    /\ "shutdown" \in conf.faults => system.at = "closed"
    /\ "shutdown" \notin conf.faults => Accepted \subseteq ToSet(dest) \cup dead \cup dropped
=============================================================================
