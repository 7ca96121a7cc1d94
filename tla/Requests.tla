------------------------------- MODULE Requests -------------------------------
(***************************************************************************)
(* What an actor does inside its turns: asynchronous requests with their   *)
(* reentrancy modes, timeouts and cancellations, the stash, behaviours,    *)
(* pipes and forwarding, and the dead letters of what could not be         *)
(* delivered.                                                              *)
(*                                                                         *)
(* One actor is modelled with its mailbox; a peer answers its requests.    *)
(* The actor's turns are sequential, but timers, pipes, the goroutines     *)
(* that hold a RequestCall and whoever stops the actor run beside them.    *)
(***************************************************************************)
EXTENDS Integers, Sequences, FiniteSets, SequencesExt

CONSTANTS None,
          Confs       \* [script, max, peer, faults]

VARIABLES conf,
          told,       \* messages of the script that were sent so far
          a,          \* the actor: mailbox, stash, behaviours, reentrancyState, turn
          req,        \* the requestState of each message that makes a request
          peer,       \* requests and forwarded messages that wait at the peer
          pipe,       \* the tasks of PipeTo
          log,        \* messages handled: [i, beh, open]
          dead        \* the dead letter actor: its counter and counters

qvars == <<conf, told, a, req, peer, pipe, log, dead>>

Fault(f) == f \in conf.faults
Op(i) == conf.script[i]
Ids == DOMAIN conf.script

-----------------------------------------------------------------------------
User(i) == [k |-> "user", i |-> i, r |-> None]
AsyncResponse(i, r) == [k |-> "response", i |-> i, r |-> r]

\* Behaviour stack: the last element is the top.
Become(beh, b) == <<b>>
UnBecome(beh) == Append(beh, "receive")
BecomeStacked(beh, b) == Append(beh, b)
UnBecomeStacked(beh) == IF beh = <<>> THEN beh ELSE Front(beh)

\* handleDeadletter
Deadletter(receiver) == [total |-> dead.total + 1, per |-> [dead.per EXCEPT ![receiver] = @ + 1]]

NoReq == [mode |-> None, completed |-> FALSE, result |-> None, callback |-> FALSE,
          cancelled |-> FALSE, timer |-> "off", ran |-> <<>>]
newRequestState(o) == [NoReq EXCEPT !.mode = o.mode, !.timer = IF o.timeout THEN "armed" ELSE "off"]

\* The four state changes of the requests table, on the actor's record x.
Blocks(i) == req[i].mode = "stash"
registerRequestState(x, i) ==
  LET y == [x EXCEPT !.inFlight = @ + 1, !.table = @ \cup {i}]
  IN IF Op(i).mode = "stash"
     THEN [y EXCEPT !.blocking = @ + 1, !.stash = IF @ = None THEN <<>> ELSE @]
     ELSE y
\* unstashAll puts the stashed messages behind the ones in the mailbox.
unstashAll(x) == IF x.stash = None THEN x ELSE [x EXCEPT !.box = @ \o x.stash, !.stash = <<>>]

\* As if a request that does not block had counted as one that does.
deregisterRequestStateAny(x, i) ==
  LET y == [x EXCEPT !.inFlight = @ - 1, !.table = @ \ {i}, !.blocking = @ - 1]
  IN IF y.blocking = 0 THEN unstashAll(y) ELSE y

deregisterRequestState(x, i) ==
  LET y == [x EXCEPT !.inFlight = @ - 1, !.table = @ \ {i}]
      z == [y EXCEPT !.blocking = @ - 1]
  IN IF ~Blocks(i) THEN y ELSE IF z.blocking = 0 THEN unstashAll(z) ELSE z
reset(x) == [x EXCEPT !.table = {}, !.inFlight = 0, !.blocking = 0, !.beh = <<>>]

stopTimeoutIfSet(s) == [s EXCEPT !.timer = IF @ = "armed" THEN "off" ELSE @]
complete(s, r) == [s EXCEPT !.completed = TRUE, !.result = r]
Running == a.life \in {"running", "restarted"}

-----------------------------------------------------------------------------
QInit ==
  /\ conf \in Confs
  /\ told = 0
  /\ a = [box |-> <<>>, stash |-> IF conf.stashing THEN <<>> ELSE None, beh |-> <<"receive">>,
          table |-> {}, inFlight |-> 0, blocking |-> 0, life |-> "running", pc |-> "idle", cur |-> None]
  /\ req = [i \in DOMAIN conf.script |-> NoReq]
  /\ peer = <<>>
  /\ pipe = [i \in DOMAIN conf.script |-> "none"]
  /\ log = <<>>
  /\ dead = [total |-> 0, per |-> [r \in {"actor", "peer"} |-> 0]]

\* Another actor tells the next message of the script.
Tell ==
  /\ told < Len(conf.script)
  /\ told' = told + 1
  /\ a' = IF Running THEN [a EXCEPT !.box = Append(@, User(told + 1))] ELSE a
  /\ UNCHANGED <<conf, req, peer, pipe, log, dead>>

\* enableReentrancyStash
MustStash(m) == a.blocking > 0 /\ m.k # "response"

Took(x) == [x EXCEPT !.box = Tail(@)]
Handled(i) == log' = Append(log, [i |-> i, beh |-> Last(a.beh), open |-> {j \in a.table : Blocks(j) /\ ~req[j].completed}])

dispatchStash ==
  LET m == Head(a.box) IN
  /\ a.pc = "idle" /\ a.box # <<>> /\ MustStash(m)
  /\ a' = [Took(a) EXCEPT !.stash = Append(@, m)]
  /\ UNCHANGED <<conf, told, req, peer, pipe, log, dead>>

\* handleReceived without a behaviour does nothing.
NoBehavior ==
  /\ a.pc = "idle" /\ a.box # <<>> /\ ~MustStash(Head(a.box)) /\ Head(a.box).k # "response"
  /\ a.beh = <<>>
  /\ a' = Took(a)
  /\ UNCHANGED <<conf, told, req, peer, pipe, log, dead>>

CanHandle(op) ==
  /\ a.pc = "idle" /\ a.box # <<>> /\ ~MustStash(Head(a.box)) /\ a.beh # <<>>
  /\ Head(a.box).k = "user" /\ Op(Head(a.box).i).op = op
  /\ Handled(Head(a.box).i)

PeerRuns == conf.peer # "stopped"

\* The request is registered and sent; Then registers the callback in the
\* same turn or later.
StartRequest(i) ==
  IF Running /\ (conf.max = 0 \/ a.inFlight < conf.max)
  THEN /\ req' = [req EXCEPT ![i] = [newRequestState(Op(i)) EXCEPT !.callback = Op(i).then]]
       /\ a' = registerRequestState(Took(a), i)
       /\ peer' = Append(peer, User(i))
  ELSE a' = Took(a) /\ UNCHANGED <<req, peer>>
request ==
  /\ CanHandle("request")
  /\ IF PeerRuns THEN StartRequest(Head(a.box).i) ELSE a' = Took(a) /\ UNCHANGED <<req, peer>>
  /\ UNCHANGED <<conf, told, pipe, dead>>
\* The peer is looked up first, and may have stopped when the request is told.
requestName ==
  /\ CanHandle("requestName")
  /\ \/ StartRequest(Head(a.box).i)
     \/ a' = Took(a) /\ UNCHANGED <<req, peer>>
  /\ UNCHANGED <<conf, told, pipe, dead>>

PlainMessage ==
  /\ CanHandle("plain") \/ (/\ a.pc = "idle" /\ a.box # <<>> /\ ~MustStash(Head(a.box))
                            /\ a.beh # <<>> /\ Head(a.box).k = "piped" /\ UNCHANGED log)
  /\ a' = Took(a)
  /\ UNCHANGED <<conf, told, req, peer, pipe, dead>>

ChangeBehavior ==
  /\ \/ CanHandle("become") /\ a' = [Took(a) EXCEPT !.beh = Become(@, "other")]
     \/ CanHandle("unbecome") /\ a' = [Took(a) EXCEPT !.beh = UnBecome(@)]
     \/ CanHandle("becomeStacked") /\ a' = [Took(a) EXCEPT !.beh = BecomeStacked(@, "other")]
     \/ CanHandle("unbecomeStacked") /\ a' = [Took(a) EXCEPT !.beh = UnBecomeStacked(@)]
  /\ UNCHANGED <<conf, told, req, peer, pipe, dead>>

\* The handler stashes its message unless it has another behaviour by now.
Stash ==
  /\ CanHandle("stash")
  /\ a' = IF a.stash = None \/ Last(a.beh) # "receive" THEN Took(a)
          ELSE [Took(a) EXCEPT !.stash = Append(@, Head(a.box))]
  /\ UNCHANGED <<conf, told, req, peer, pipe, dead>>
Unstash ==
  /\ CanHandle("unstash")
  /\ a' = IF a.stash \in {None, <<>>} THEN Took(a)
          ELSE [a EXCEPT !.box = Append(Tail(@), Head(a.stash)), !.stash = Tail(@)]
  /\ UNCHANGED <<conf, told, req, peer, pipe, dead>>
UnstashAll ==
  /\ CanHandle("unstashAll")
  /\ a' = unstashAll(Took(a))
  /\ UNCHANGED <<conf, told, req, peer, pipe, dead>>

Forward ==
  /\ CanHandle("forward")
  /\ a' = Took(a)
  /\ peer' = IF PeerRuns THEN Append(peer, [User(Head(a.box).i) EXCEPT !.k = "forwarded"]) ELSE peer
  /\ UNCHANGED <<conf, told, req, pipe, dead>>

\* The actor pipes the result of a task to itself, or to a name that exists.
PipeToName ==
  /\ CanHandle("pipeToName")
  /\ a' = Took(a)
  /\ pipe' = [pipe EXCEPT ![Head(a.box).i] = IF Running /\ PeerRuns THEN "task" ELSE @]
  /\ UNCHANGED <<conf, told, req, peer, dead>>
PipeTo ==
  /\ CanHandle("pipe")
  /\ a' = Took(a)
  /\ pipe' = [pipe EXCEPT ![Head(a.box).i] = IF Running THEN "task" ELSE @]
  /\ UNCHANGED <<conf, told, req, peer, dead>>
\* The future: the task's result, its error, or the end of the context.
Await(i) ==
  /\ pipe[i] = "task"
  /\ pipe' = [pipe EXCEPT ![i] = "result"] \/ pipe' = [pipe EXCEPT ![i] = "error"]
  /\ UNCHANGED <<conf, told, a, req, peer, log, dead>>
handleCompletion(i) ==
  /\ pipe[i] \in {"result", "error"}
  /\ pipe' = [pipe EXCEPT ![i] = "done"]
  /\ IF pipe[i] = "result" /\ Op(i).op = "pipeToName"
     THEN peer' = Append(peer, [User(i) EXCEPT !.k = "piped"]) /\ UNCHANGED <<a, dead>>
     ELSE IF pipe[i] = "result" /\ Running
     THEN a' = [a EXCEPT !.box = Append(@, [User(i) EXCEPT !.k = "piped"])] /\ UNCHANGED <<peer, dead>>
     ELSE dead' = Deadletter("actor") /\ UNCHANGED <<a, peer>>
  /\ UNCHANGED <<conf, told, req, log>>

-----------------------------------------------------------------------------
(* The answer of a request.                                                *)

\* completeRequest up to state.complete
handleAsyncResponse ==
  LET m == Head(a.box) IN
  /\ a.pc = "idle" /\ a.box # <<>> /\ m.k = "response"
  /\ IF m.i \in a.table /\ ~req[m.i].completed
     THEN /\ req' = [req EXCEPT ![m.i] = complete(@, m.r)]
          /\ a' = [Took(a) EXCEPT !.pc = "deregister", !.cur = [i |-> m.i, callback |-> req[m.i].callback]]
     ELSE a' = Took(a) /\ UNCHANGED req
  /\ UNCHANGED <<conf, told, peer, pipe, log, dead>>
\* deregisterRequestState looks the state up, then removes it.
Deregister ==
  /\ a.pc = "deregister"
  /\ a' = [a EXCEPT !.pc = IF a.cur.i \in a.table THEN "remove" ELSE "callback"]
  /\ UNCHANGED <<conf, told, req, peer, pipe, log, dead>>
RemoveState ==
  /\ a.pc = "remove"
  /\ a' = [deregisterRequestState(a, a.cur.i) EXCEPT !.pc = "callback"]
  /\ req' = [req EXCEPT ![a.cur.i] = stopTimeoutIfSet(@)]
  /\ UNCHANGED <<conf, told, peer, pipe, log, dead>>
Callback ==
  /\ a.pc = "callback"
  /\ a' = [a EXCEPT !.pc = "idle", !.cur = None]
  /\ req' = IF a.cur.callback THEN [req EXCEPT ![a.cur.i].ran = Append(@, req[a.cur.i].result)] ELSE req
  /\ UNCHANGED <<conf, told, peer, pipe, log, dead>>

\* As if Then did not look whether a callback is set.
setCallbackAgain(i) ==
  /\ req[i].mode # None
  /\ req' = [req EXCEPT ![i] = IF @.completed THEN [@ EXCEPT !.callback = TRUE, !.ran = Append(@, req[i].result)]
                              ELSE [@ EXCEPT !.callback = TRUE]]
  /\ Len(req[i].ran) < 2
  /\ UNCHANGED <<conf, told, a, peer, pipe, log, dead>>

\* Then on another goroutine: it runs the callback itself after completion.
setCallback(i) ==
  /\ req[i].mode # None /\ ~req[i].callback
  /\ req' = [req EXCEPT ![i] = IF @.completed THEN [@ EXCEPT !.callback = TRUE, !.ran = Append(@, req[i].result)]
                              ELSE [@ EXCEPT !.callback = TRUE]]
  /\ UNCHANGED <<conf, told, a, peer, pipe, log, dead>>
\* enqueueAsyncError
Failed(i, err) == a' = [a EXCEPT !.box = Append(@, AsyncResponse(i, err))]
cancel(i) ==
  /\ Fault("cancel") /\ req[i].mode # None /\ ~req[i].completed /\ ~req[i].cancelled
  /\ req' = [req EXCEPT ![i].cancelled = TRUE]
  /\ Failed(i, "canceled")
  /\ UNCHANGED <<conf, told, peer, pipe, log, dead>>
\* The timer expires; its goroutine may see that even when it is being stopped.
TimerExpires(i) ==
  /\ req[i].timer = "armed" /\ (Fault("slow") \/ conf.peer = "silent")
  /\ req' = [req EXCEPT ![i].timer = "due"]
  /\ UNCHANGED <<conf, told, a, peer, pipe, log, dead>>
startTimeout(i) ==
  /\ req[i].timer = "due"
  /\ req' = [req EXCEPT ![i].timer = "off"]
  /\ Failed(i, "timeout")
  /\ UNCHANGED <<conf, told, peer, pipe, log, dead>>

\* The peer handles a request and answers it once, twice or not at all.
sendAsyncResponse ==
  LET i == Head(peer).i
      answers == CASE conf.peer = "twice" -> 2 [] conf.peer = "silent" -> 0 [] OTHER -> 1
  IN
  /\ peer # <<>>
  /\ peer' = Tail(peer)
  /\ a' = IF Running /\ Head(peer).k = "user"
          THEN [a EXCEPT !.box = @ \o [n \in 1..answers |-> AsyncResponse(i, "reply")]] ELSE a
  /\ UNCHANGED <<conf, told, req, pipe, log, dead>>

-----------------------------------------------------------------------------
(* Somebody stops the actor, beside its turns.                             *)

cancelInFlightRequests ==
  /\ Fault("stop") /\ a.life = "running"
  /\ req' = [i \in Ids |-> IF i \in a.table /\ ~req[i].completed
                           THEN stopTimeoutIfSet(complete(req[i], "canceled")) ELSE req[i]]
  /\ a' = [a EXCEPT !.life = "stopping", !.table = {i \in @ : req[i].completed}, !.inFlight = 0, !.blocking = 0]
  /\ UNCHANGED <<conf, told, peer, pipe, log, dead>>
StopEnds ==
  /\ a.life = "stopping"
  /\ a' = [reset(a) EXCEPT !.life = "stopped"]
  /\ UNCHANGED <<conf, told, req, peer, pipe, log, dead>>
Restart ==
  /\ Fault("restart") /\ a.life = "stopped" /\ a.pc = "idle"
  /\ a' = [a EXCEPT !.life = "restarted", !.beh = <<"receive">>]
  /\ UNCHANGED <<conf, told, req, peer, pipe, log, dead>>

QSystem ==
  \/ Tell \/ dispatchStash \/ NoBehavior \/ request \/ requestName \/ PlainMessage \/ ChangeBehavior
  \/ Stash \/ Unstash \/ UnstashAll \/ Forward \/ PipeTo \/ PipeToName
  \/ handleAsyncResponse \/ Deregister \/ RemoveState \/ Callback \/ sendAsyncResponse
  \/ \E i \in Ids : \/ Await(i) \/ handleCompletion(i) \/ setCallback(i)
                    \/ TimerExpires(i) \/ startTimeout(i)
  \/ StopEnds
QUser == cancelInFlightRequests \/ Restart \/ \E i \in Ids : cancel(i)
QNext == QSystem \/ QUser
QSpec == QInit /\ [][QNext]_qvars /\ WF_qvars(QSystem)

-----------------------------------------------------------------------------
(***************************************************************************)
(* The callback of a request runs at most once, with the result that       *)
(* completed it, however response, timeout, cancellation, a late Then and  *)
(* a stop race; and once the request is done and a callback is set, it has *)
(* run or is about to, unless the actor was stopped.                       *)
(***************************************************************************)
CompletedOnce ==
  \A i \in Ids :
    /\ Len(req[i].ran) <= 1
    /\ req[i].ran # <<>> => req[i].completed /\ req[i].ran[1] = req[i].result
    /\ (req[i].completed /\ req[i].callback /\ ~Fault("stop") /\ (a.pc = "idle" \/ a.cur.i # i)) => req[i].ran # <<>>

(***************************************************************************)
(* Between turns of a running actor the counters are what the table says:  *)
(* the limit on requests in flight is never passed, and the actor does not *)
(* stash for requests that are over.                                       *)
(***************************************************************************)
CountersExact ==
  (Running /\ a.pc = "idle" /\ ~Fault("restart")) =>
    /\ a.inFlight = Cardinality(a.table) /\ a.blocking = Cardinality({i \in a.table : Blocks(i)})
    /\ conf.max > 0 => a.inFlight <= conf.max

(***************************************************************************)
(* No message of a user is handled while a request in stash mode is open.  *)
(***************************************************************************)
StashModeHolds == \A e \in ToSet(log) : e.open = {}

(***************************************************************************)
(* As long as the actor runs, no message is lost or handled twice: each is *)
(* in the mailbox, in the stash, or was handled last.                      *)
(***************************************************************************)
InBox(q, i) == Cardinality({n \in DOMAIN q : q[n].k = "user" /\ q[n].i = i})
MessagesKept ==
  ~Fault("stop") =>
    \A i \in 1..told :
      LET waiting == InBox(a.box, i) + (IF a.stash = None THEN 0 ELSE InBox(a.stash, i))
          handled == Cardinality({n \in DOMAIN log : log[n].i = i})
      IN /\ waiting <= 1 /\ (waiting + handled >= 1 \/ a.beh = <<>>)
         /\ Op(i).op # "stash" => waiting + handled <= 1

(***************************************************************************)
(* "StashNonReentrant favors determinism by stashing user messages until   *)
(* the response arrives, preserving mailbox order" (reentrancy.go).        *)
(***************************************************************************)
\* Does not hold: unstashed messages go behind those that arrived meanwhile.
OrderPreserved == \A m, n \in DOMAIN log : m < n => log[m].i <= log[n].i

(***************************************************************************)
(* "clearing any stacked or currently swapped behavior" (UnBecome,         *)
(* receive_context.go).                                                    *)
(***************************************************************************)
\* Does not hold: UnBecome pushes the default behaviour and keeps the stack.
UnBecomeClears ==
  (log # <<>> /\ Op(Last(log).i).op = "unbecome") => Len(a.beh) = 1

(***************************************************************************)
(* The counters of a restarted actor start at zero.                        *)
(***************************************************************************)
\* Does not hold: requests of the former life that end late count down.
RestartCountsFresh == a.life = "restarted" => a.inFlight >= 0 /\ a.blocking >= 0

DeadLettersAddUp == dead.total = dead.per["actor"] + dead.per["peer"]

\* Everything sent is handled, every request is completed, every pipe ended.
RequestsEnded ==
  /\ told = Len(conf.script) /\ a.box = <<>> /\ a.pc = "idle" /\ peer = <<>>
  /\ \A i \in Ids : pipe[i] \in {"none", "done"} /\ (req[i].mode # None => req[i].completed)
RequestsEnd == <>[]RequestsEnded
=============================================================================
