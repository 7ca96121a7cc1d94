------------------------------ MODULE Remoting ------------------------------
(***************************************************************************)
(* Remote calls: every method of internal/remoteclient/client.go and the    *)
(* handler of actor/remote_server.go that serves it, against actors that    *)
(* start, suspend, stop and disappear meanwhile.                            *)
(*                                                                          *)
(* A call is sent, looked up in the actors tree of the server, handled in   *)
(* the state the actors are in by then, and its reply is turned into a      *)
(* result by the client.  Requests and replies get lost; a caller whose     *)
(* transport fails may call once more.  A handler that uses a pid removed   *)
(* from the tree since the lookup panics: the server closes the connection. *)
(***************************************************************************)
EXTENDS Integers, Sequences, FiniteSets

CONSTANTS Names, None, Confs, Retries

VARIABLES conf,    \* the calls, the server's settings, the faults
          srv,     \* the server node
          call,    \* per caller: its call
          saw      \* history, per caller: the states of its actor while it waited

vars == <<conf, srv, call, saw>>

Callers == DOMAIN conf.calls
Fault(f) == f \in conf.faults

\* "absent": not in the tree; "stopped": in the tree until the death watch acts.
Lives == {"absent", "running", "suspended", "stopped"}

NewCall == [pc |-> "start", there |-> FALSE, next |-> 1, code |-> "none", val |-> None, res |-> "none", try |-> 1]

RInit ==
    /\ conf \in Confs
    /\ srv = [life |-> conf.life, listed |-> {n \in Names : conf.clustered /\ conf.life[n] # "absent"},
              kid |-> None, orphans |-> 0, made |-> [n \in Names |-> 0], seen |-> <<>>, peer |-> None]
    /\ call = [i \in Callers |-> NewCall]
    /\ saw = [i \in Callers |-> {}]

---------------------------------------------------------------------------
\* Replies: the server after the handler, a code, and the value of a read.
Reply(s, code, val) == [srv |-> s, code |-> code, val |-> val]
Ok(s) == Reply(s, "OK", None)
Err(s, code) == Reply(s, code, None)

\* remotingEnabled, the context propagator and validateRemoteHost, in every handler.
Checked(s, r, out) ==
    IF ~conf.enabled THEN Err(s, "FAILED_PRECONDITION")
    ELSE IF r.host # "here" \/ r.meta # "good" THEN Err(s, "INVALID_ARGUMENT")
    ELSE out

\* A name reserved for the system cannot be operated on.
UserActor(s, r, out) == Checked(s, r, IF r.sys THEN Err(s, "FAILED_PRECONDITION") ELSE out)

Running(s, n) == s.life[n] = "running"
Gone(s, n) == s.life[n] = "absent"

\* The pid of a node found before, tested for nil; or used without a test.
Found(s, r, there, out) == IF ~there \/ Gone(s, r.name) THEN Err(s, "NOT_FOUND") ELSE out
Used(s, r, there, out) == IF ~there THEN Err(s, "NOT_FOUND") ELSE IF Gone(s, r.name) THEN Err(s, "PANIC") ELSE out

\* Handlers that only read: the actor must run.
Read(s, r, there, val) ==
    Checked(s, r, Used(s, r, there, IF Running(s, r.name) THEN Reply(s, "OK", val) ELSE Err(s, "NOT_FOUND")))

remoteLookupHandler(s, r, there) ==
    Checked(s, r,
        IF ~r.sys /\ conf.clustered
        THEN IF r.name \in s.listed THEN Reply(s, "OK", "address") ELSE Err(s, "NOT_FOUND")
        ELSE Used(s, r, there, Reply(s, "OK", "address")))

remoteReSpawnHandler(s, r, there) ==
    UserActor(s, r, Found(s, r, there, Ok([s EXCEPT !.life[r.name] = "running", !.made[r.name] = @ + 1])))

\* Shutdown of an actor that does not run is a success.
remoteStopHandler(s, r, there) ==
    UserActor(s, r, Found(s, r, there,
        Ok([s EXCEPT !.life[r.name] = IF @ = "absent" THEN @ ELSE "stopped"])))

remoteReinstateHandler(s, r, there) ==
    UserActor(s, r, Used(s, r, there,
        Ok([s EXCEPT !.life[r.name] = IF @ = "suspended" THEN "running" ELSE @])))

\* Spawn returns the actor of that name when it runs.  A name whose actor is in
\* the tree and does not run gets an actor outside the tree: addNode's error is
\* dropped.  In a cluster a listed name is refused.
remoteSpawnHandler(s, r) ==
    UserActor(s, r,
        IF r.kind = "unknown" THEN Err(s, "FAILED_PRECONDITION")
        ELSE IF conf.clustered /\ r.name \in s.listed THEN Err(s, "ALREADY_EXISTS")
        ELSE IF Running(s, r.name) THEN Ok(s)
        ELSE IF Gone(s, r.name)
             THEN Ok([s EXCEPT !.life[r.name] = "running", !.made[r.name] = @ + 1,
                               !.listed = IF conf.clustered THEN @ \cup {r.name} ELSE @])
        ELSE Ok([s EXCEPT !.orphans = @ + 1, !.made[r.name] = @ + 1]))

\* The parent must run and be of the kind that is asked for.
remoteSpawnChildHandler(s, r, there) ==
    UserActor(s, r, Used(s, r, there,
        IF ~Running(s, r.name) THEN Err(s, "NOT_FOUND")
        ELSE IF r.kind = "unknown" THEN Err(s, "FAILED_PRECONDITION")
        ELSE Ok([s EXCEPT !.kid = r.name])))

\* The only read that answers for an actor that does not run.
remoteStateHandler(s, r, there) ==
    Checked(s, r, Used(s, r, there, Reply(s, "OK", Running(s, r.name))))

remoteChildrenHandler(s, r, there) == Read(s, r, there, s.kid = r.name)
remoteParentHandler(s, r, there) == Read(s, r, there, "guardian")
remoteKindHandler(s, r, there) == Read(s, r, there, "kind")
remoteDependenciesHandler(s, r, there) == Read(s, r, there, {})
remoteMetricHandler(s, r, there) == Read(s, r, there, s.made[r.name])
remoteRoleHandler(s, r, there) == Read(s, r, there, "role")
remoteStashSizeHandler(s, r, there) == Read(s, r, there, 0)
remotePassivationStrategyHandler(s, r, there) == Read(s, r, there, "strategy")

persistPeerStateHandler(s, r) ==
    IF ~conf.enabled \/ ~conf.clustered THEN Err(s, "FAILED_PRECONDITION") ELSE Ok([s EXCEPT !.peer = r.name])
getNodeMetricHandler(s, r) ==
    IF ~conf.clustered THEN Err(s, "FAILED_PRECONDITION")
    ELSE IF r.host # "here" THEN Err(s, "INVALID_ARGUMENT")
    ELSE Reply(s, "OK", Cardinality({n \in Names : s.life[n] # "absent"}))
getKindsHandler(s, r) ==
    IF ~conf.clustered THEN Err(s, "FAILED_PRECONDITION")
    ELSE IF r.host # "here" THEN Err(s, "INVALID_ARGUMENT")
    ELSE Reply(s, "OK", {"kind"})

\* What deliverRemoteTellMessage does with one message: it is handled, or it goes to
\* the dead letters.
deliverRemoteTellMessage(s, i, k, m) ==
    [s EXCEPT !.seen = Append(@, [by |-> i, nr |-> k, how |-> IF m \in Names /\ Running(s, m) THEN "handled" ELSE "dead"])]

---------------------------------------------------------------------------
\* protoServerOptions: the handler of a request.
handler(s, r, there) ==
    CASE r.op = "lookup" -> remoteLookupHandler(s, r, there)
      [] r.op = "respawn" -> remoteReSpawnHandler(s, r, there)
      [] r.op = "stop" -> remoteStopHandler(s, r, there)
      [] r.op = "reinstate" -> remoteReinstateHandler(s, r, there)
      [] r.op = "spawn" -> remoteSpawnHandler(s, r)
      [] r.op = "spawnChild" -> remoteSpawnChildHandler(s, r, there)
      [] r.op = "state" -> remoteStateHandler(s, r, there)
      [] r.op = "children" -> remoteChildrenHandler(s, r, there)
      [] r.op = "parent" -> remoteParentHandler(s, r, there)
      [] r.op = "kind" -> remoteKindHandler(s, r, there)
      [] r.op = "dependencies" -> remoteDependenciesHandler(s, r, there)
      [] r.op = "metric" -> remoteMetricHandler(s, r, there)
      [] r.op = "role" -> remoteRoleHandler(s, r, there)
      [] r.op = "stashSize" -> remoteStashSizeHandler(s, r, there)
      [] r.op = "passivation" -> remotePassivationStrategyHandler(s, r, there)
      [] r.op = "peerState" -> persistPeerStateHandler(s, r)
      [] r.op = "nodeMetric" -> getNodeMetricHandler(s, r)
      [] r.op = "kinds" -> getKindsHandler(s, r)

\* checkProtoError.
checkProtoError(c) ==
    CASE c.code = "OK" -> "ok"
      [] c.code = "NOT_FOUND" -> "addressNotFound"
      [] c.code = "DEADLINE_EXCEEDED" -> "requestTimeout"
      [] c.code = "ALREADY_EXISTS" -> "alreadyExists"
      [] c.code = "FAILED_PRECONDITION" -> "refused"
      [] c.code \in {"INVALID_ARGUMENT", "INTERNAL_ERROR"} -> "error"
      [] c.code \in {"PANIC", "LOST"} -> "transport"

\* Calls for which an actor that is not there is a success without a value.
RemoteStop(c) == IF c.code = "NOT_FOUND" THEN "none" ELSE checkProtoError(c)
RemoteLookup(c) == IF c.code = "NOT_FOUND" THEN "none" ELSE checkProtoError(c)
RemoteReSpawn(c) == IF c.code = "NOT_FOUND" THEN "none" ELSE checkProtoError(c)
RemoteReinstate(c) == IF c.code = "NOT_FOUND" THEN "none" ELSE checkProtoError(c)
RemoteSpawn(c) == checkProtoError(c)
RemoteSpawnChild(c) == checkProtoError(c)
RemoteState(c) == checkProtoError(c)
RemoteChildren(c) == checkProtoError(c)
RemoteParent(c) == checkProtoError(c)
RemoteKind(c) == checkProtoError(c)
RemoteDependencies(c) == checkProtoError(c)
RemoteMetric(c) == checkProtoError(c)
RemoteRole(c) == checkProtoError(c)
RemoteStashSize(c) == checkProtoError(c)
RemotePassivationStrategy(c) == checkProtoError(c)
RemoteBatchAsk(c) == checkProtoError(c)
RemoteBatchTell(c) == checkProtoError(c)

result(op, c) ==
    CASE op = "stop" -> RemoteStop(c)
      [] op = "lookup" -> RemoteLookup(c)
      [] op = "respawn" -> RemoteReSpawn(c)
      [] op = "reinstate" -> RemoteReinstate(c)
      [] op = "spawn" -> RemoteSpawn(c)
      [] op = "spawnChild" -> RemoteSpawnChild(c)
      [] op = "state" -> RemoteState(c)
      [] op = "children" -> RemoteChildren(c)
      [] op = "parent" -> RemoteParent(c)
      [] op = "kind" -> RemoteKind(c)
      [] op = "dependencies" -> RemoteDependencies(c)
      [] op = "metric" -> RemoteMetric(c)
      [] op = "role" -> RemoteRole(c)
      [] op = "stashSize" -> RemoteStashSize(c)
      [] op = "passivation" -> RemotePassivationStrategy(c)
      [] op = "ask" -> RemoteBatchAsk(c)
      [] op = "tell" -> RemoteBatchTell(c)
      [] OTHER -> checkProtoError(c)

---------------------------------------------------------------------------
Req(i) == conf.calls[i]
Observed(s) == [i \in Callers |-> IF call[i].pc \in {"start", "done"} THEN saw[i]
                                  ELSE saw[i] \cup {<<s.life[Req(i).name], Req(i).name \in s.listed, s.kid = Req(i).name>>}]

Send(i) ==
    /\ call[i].pc = "start"
    /\ call' = [call EXCEPT ![i].pc = "sent"]
    /\ saw' = [saw EXCEPT ![i] = @ \cup {<<srv.life[Req(i).name], Req(i).name \in srv.listed, srv.kid = Req(i).name>>}]
    /\ UNCHANGED <<conf, srv>>

\* The handler's x.actors.node(...).
LookUp(i) ==
    /\ call[i].pc = "sent"
    /\ call' = [call EXCEPT ![i].pc = "found", ![i].there = ~Gone(srv, Req(i).name)]
    /\ UNCHANGED <<conf, srv, saw>>

Replied(i, o) ==
    /\ srv' = o.srv
    /\ call' = [call EXCEPT ![i].pc = "replied", ![i].code = o.code, ![i].val = o.val]
    /\ saw' = Observed(o.srv)

Handle(i) ==
    /\ call[i].pc = "found" /\ Req(i).op \notin {"ask", "tell"}
    /\ Replied(i, handler(srv, Req(i), call[i].there))
    /\ UNCHANGED conf

\* remoteTellHandler: every message of the batch, then a success.
remoteTellHandler(i) ==
    LET k == call[i].next IN
    /\ call[i].pc = "found" /\ Req(i).op = "tell"
    /\ IF ~conf.enabled \/ Req(i).meta # "good"
       THEN Replied(i, Err(srv, IF conf.enabled THEN "INVALID_ARGUMENT" ELSE "FAILED_PRECONDITION"))
       ELSE IF k > Len(Req(i).msgs) THEN Replied(i, Ok(srv))
       ELSE /\ srv' = deliverRemoteTellMessage(srv, i, k, Req(i).msgs[k])
            /\ call' = [call EXCEPT ![i].next = k + 1]
            /\ UNCHANGED saw
    /\ UNCHANGED conf

\* remoteAskHandler: one message after the other; the first that fails fails the
\* batch.  The reply carries one answer for each message.
remoteAskHandler(i) ==
    LET k == call[i].next
        m == Req(i).msgs[k]
    IN
    /\ call[i].pc = "found" /\ Req(i).op = "ask"
    /\ IF ~conf.enabled \/ Req(i).meta # "good"
       THEN Replied(i, Err(srv, IF conf.enabled THEN "INVALID_ARGUMENT" ELSE "FAILED_PRECONDITION"))
       ELSE IF k > Len(Req(i).msgs) THEN Replied(i, Reply(srv, "OK", Len(Req(i).msgs)))
       ELSE IF Gone(srv, m) THEN Replied(i, Err(srv, "NOT_FOUND"))
       ELSE IF ~Running(srv, m) THEN Replied(i, Err(srv, "INTERNAL_ERROR"))
       ELSE \/ /\ srv' = deliverRemoteTellMessage(srv, i, k, m)
               /\ call' = [call EXCEPT ![i].next = k + 1]
               /\ UNCHANGED saw
            \/ Fault("slow") /\ Replied(i, Err(deliverRemoteTellMessage(srv, i, k, m), "DEADLINE_EXCEEDED"))
    /\ UNCHANGED conf

\* The client takes the reply.
Return(i) ==
    /\ call[i].pc = "replied"
    /\ call' = [call EXCEPT ![i].pc = "done", ![i].res = result(Req(i).op, call[i])]
    /\ UNCHANGED <<conf, srv, saw>>

\* The transport fails before or after the handler ran.
Lose(i) ==
    /\ Fault("lossy") /\ call[i].pc \in {"sent", "replied"}
    /\ call' = [call EXCEPT ![i].pc = "replied", ![i].code = "LOST"]
    /\ UNCHANGED <<conf, srv, saw>>

\* A caller that saw a transport error calls again.
Again(i) ==
    /\ call[i].pc = "done" /\ call[i].res = "transport" /\ call[i].try <= Retries
    /\ call' = [call EXCEPT ![i] = [NewCall EXCEPT !.try = call[i].try + 1]]
    /\ saw' = [saw EXCEPT ![i] = {}]
    /\ UNCHANGED <<conf, srv>>

\* What actors do meanwhile.
ActorMoves(n, from, to) ==
    /\ conf.moves /\ srv.life[n] = from
    /\ srv' = [srv EXCEPT !.life[n] = to]
    /\ saw' = Observed(srv')
    /\ UNCHANGED <<conf, call>>
Suspends(n) == ActorMoves(n, "running", "suspended")
Stops(n) == ActorMoves(n, "running", "stopped")
Removed(n) ==
    /\ srv.life[n] = "stopped"
    /\ srv' = [srv EXCEPT !.life[n] = "absent", !.listed = @ \ {n}, !.kid = IF @ = n THEN None ELSE @]
    /\ saw' = Observed(srv')
    /\ UNCHANGED <<conf, call>>

---------------------------------------------------------------------------
RSystem ==
    \/ \E i \in Callers : \/ Send(i) \/ LookUp(i) \/ Handle(i) \/ remoteTellHandler(i)
                          \/ remoteAskHandler(i) \/ Return(i) \/ Again(i)
    \/ \E n \in Names : Removed(n)
REnv == \/ \E i \in Callers : Lose(i)
        \/ \E n \in Names : Suspends(n) \/ Stops(n)
RNext == RSystem \/ REnv
RSpec == RInit /\ [][RNext]_vars /\ WF_vars(RSystem)

---------------------------------------------------------------------------
SawLife(i, L) == \E o \in saw[i] : o[1] \in L

\* Every answer was true at some moment of the call, whatever the actors and the
\* other callers did in between: a stop found or left the actor not running, a
\* spawn found or left one, a lookup or a read describes a state the actor was in,
\* and an actor reported missing was not running.
RemoteAnswerTrue ==
    \A i \in Callers : call[i].pc = "done" =>
        LET op == Req(i).op
            res == call[i].res
        IN
        /\ (op = "stop" /\ res \in {"ok", "none"}) => SawLife(i, {"absent", "stopped"})
        /\ (op = "respawn" /\ res = "ok") => SawLife(i, {"running"})
        /\ (op = "reinstate" /\ res = "ok") => SawLife(i, Lives \ {"suspended"})
        /\ (op = "spawn" /\ res = "ok") => srv.made[Req(i).name] > 0 \/ SawLife(i, {"running"})
        /\ (op = "spawn" /\ res = "alreadyExists") => \E o \in saw[i] : o[2]
        /\ (op = "spawnChild" /\ res = "ok") => \E o \in saw[i] : o[3]
        /\ (op = "lookup" /\ res = "ok") => \E o \in saw[i] : IF conf.clustered THEN o[2] ELSE o[1] # "absent"
        /\ (op = "lookup" /\ res = "none") => \E o \in saw[i] : IF conf.clustered THEN ~o[2] ELSE o[1] = "absent"
        /\ (op = "state" /\ res = "ok" /\ call[i].val) => SawLife(i, {"running"})
        /\ (op \in {"children", "kind", "metric", "spawnChild"} /\ res = "addressNotFound") => SawLife(i, Lives \ {"running"})

Batches == {i \in Callers : Req(i).op \in {"ask", "tell"}}
SeenOf(i) == SelectSeq(srv.seen, LAMBDA x : x.by = i)

\* remoteAskHandler, remoteTellHandler: the messages of a batch reach their actors
\* in order and, without a second call, at most once; an answer to a batch of asks
\* means that every message was handled.
BatchInOrder ==
    \A i \in Batches :
        LET s == SeenOf(i) IN
        /\ call[i].try = 1 => \A k \in 1..Len(s) : s[k].nr = k
        /\ (call[i].pc = "done" /\ call[i].res = "ok" /\ Req(i).op = "ask") =>
               /\ call[i].val = Len(Req(i).msgs)
               /\ \A k \in 1..Len(Req(i).msgs) : \E j \in 1..Len(s) : s[j].nr = k /\ s[j].how = "handled"

\* Every call comes back.
RemotingEnded == \A i \in Callers : call[i].pc = "done"
=============================================================================
