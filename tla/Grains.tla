------------------------------- MODULE Grains -------------------------------
(***************************************************************************)
(* One grain (virtual actor) of a cluster: actor/grain_engine.go and        *)
(* actor/grain_pid.go.  Requests on any node find, activate and use the     *)
(* grain; the cluster registry names the node that owns it; a node runs at  *)
(* most one activation attempt at a time (singleflight); a grain goes away  *)
(* by a poison pill, by passivation on the passivation manager's goroutine, *)
(* or with its node.                                                        *)
(*                                                                          *)
(* A request is a thread of control that may move to another node (a remote *)
(* tell, or a remote activation).  `conf.faults' says which faults occur.   *)
(***************************************************************************)
EXTENDS Integers, Sequences, FiniteSets

CONSTANTS Nodes, None, Confs

VARIABLES conf,     \* the requests and the faults of the behaviour
          reg,      \* the owner the cluster registry names, or None
          table,    \* per node: x.grains, the index of a grain process or 0
          pids,     \* the grainPIDs made so far
          flight,   \* per node: the request that leads the activation, or None
          queue,    \* per node: entries waiting in grainsQueue
          up, open, \* per node: running, activation barrier open
          req,      \* per request: its thread
          handled   \* per request: how many times OnReceive saw its message

vars == <<conf, reg, table, pids, flight, queue, up, open, req, handled>>

Reqs == DOMAIN conf.reqs
Fault(f) == f \in conf.faults

NewReq(q) == [kind |-> q.kind, from |-> q.at, at |-> q.at, mode |-> "send", pc |-> "start",
              pid |-> 0, owner |-> None, back |-> "no", claimed |-> FALSE, res |-> "none"]

GInit ==
    /\ conf \in Confs
    /\ reg = None
    /\ table = [n \in Nodes |-> 0]
    /\ pids = <<>>
    /\ flight = [n \in Nodes |-> None]
    /\ queue = [n \in Nodes |-> 0]
    /\ up = [n \in Nodes |-> TRUE]
    /\ open = [n \in Nodes |-> "barrier" \notin conf.faults]
    /\ req = [r \in Reqs |-> NewReq(conf.reqs[r])]
    /\ handled = [r \in Reqs |-> 0]

\* The operations of the registry on the grain.
GrainExists == reg # None
PutGrain(n) == reg' = n
RemoveGrain == reg' = None

isActive(p) == p # 0 /\ pids[p].active
At(r) == req[r].at
Step(r, pc) == req' = [req EXCEPT ![r].pc = pc]
Done(t, res) == [t EXCEPT !.pc = "done", !.res = res]

\* What a caller does with the outcome of runGrainActivation: a pid, the owner that
\* was found instead, or an error.
AfterFlight(t, pid, owner) ==
    CASE pid # 0 -> IF t.mode = "send" THEN [t EXCEPT !.pc = "enqueue", !.pid = pid] ELSE Done(t, "ok")
      [] pid = 0 /\ t.mode = "send" /\ owner # None -> [t EXCEPT !.pc = "hop", !.owner = owner]
      [] pid = 0 /\ t.mode = "local" /\ owner # None -> Done(t, "ok")
      [] pid = 0 /\ t.mode = "recreate" /\ t.back # "no" -> [t EXCEPT !.pc = "refused"]
      [] OTHER -> Done(t, "error")

\* The leader of the flight ends; everyone who joined it shares its outcome.
runGrainActivation(r, pid, owner) ==
    LET n == At(r) IN
    /\ flight' = [flight EXCEPT ![n] = None]
    /\ req' = [s \in Reqs |->
                 IF s = r \/ (req[s].pc = "join" /\ At(s) = n)
                 THEN AfterFlight(req[s], pid, owner) ELSE req[s]]

(* ---- finding the grain ---- *)
\* The node is being shut down: its entry points refuse.
isStopping(n) == \E r \in Reqs : req[r].kind = "shutdown" /\ req[r].from = n /\ req[r].pc # "start"

TellGrain(r) ==
    /\ req[r].pc = "start" /\ req[r].kind \in {"tell", "poison"}
    /\ req' = [req EXCEPT ![r] = IF isStopping(At(r)) THEN Done(@, "error") ELSE [@ EXCEPT !.pc = "send"]]
    /\ UNCHANGED <<conf, reg, table, pids, flight, queue, up, open, handled>>

\* remoteTellGrain, remoteAskGrain: an active local process is used directly.
remoteTellGrain(r) ==
    /\ req[r].pc = "send"
    /\ Step(r, IF isActive(table[At(r)]) THEN "ensure" ELSE "lookup")
    /\ UNCHANGED <<conf, reg, table, pids, flight, queue, up, open, handled>>

\* ... otherwise the registry is asked.
GetGrain(r) ==
    /\ req[r].pc = "lookup"
    /\ req' = [req EXCEPT ![r].owner = reg,
                          ![r].pc = IF reg \in {None, At(r)} THEN "ensure" ELSE "hop"]
    /\ UNCHANGED <<conf, reg, table, pids, flight, queue, up, open, handled>>

\* sendToGrainOwner; remoteTellGrainHandler sends locally on the node it reaches.
sendToGrainOwner(r) ==
    LET o == req[r].owner IN
    /\ req[r].pc = "hop"
    /\ \/ up[o] /\ req' = [req EXCEPT ![r].at = o, ![r].pc = "ensure", ![r].mode = "send"]
       \/ (~up[o] \/ Fault("lossy")) /\ req' = [req EXCEPT ![r] = Done(@, "error")]
    /\ UNCHANGED <<conf, reg, table, pids, flight, queue, up, open, handled>>

(* ---- GrainIdentity: activation on request ---- *)
resolveGrainOwner(r) ==
    /\ req[r].pc = "start" /\ req[r].kind = "activate"
    /\ req' = [req EXCEPT ![r] = IF isStopping(At(r)) THEN Done(@, "error")
                                 ELSE [@ EXCEPT !.owner = reg, !.pc = "tryRemote"]]
    /\ UNCHANGED <<conf, reg, table, pids, flight, queue, up, open, handled>>

\* Any member may be chosen, a crashed one that is still listed included.
findActivationPeer == Nodes

RemoteTo(r, o, back) == [req EXCEPT ![r].owner = o, ![r].back = back, ![r].pc = "remoteActivate"]

tryPeerActivation(r, peer) ==
    IF GrainExists
    THEN req' = [req EXCEPT ![r] = Done(@, "ok")] /\ UNCHANGED reg
    ELSE req' = RemoteTo(r, peer, "peer") /\ PutGrain(peer)

tryRemoteGrainActivation(r) ==
    LET o == req[r].owner
        local == [req EXCEPT ![r].mode = "local", ![r].pc = "ensure"] IN
    /\ req[r].pc = "tryRemote"
    /\ \/ o \notin {None, At(r)} /\ req' = RemoteTo(r, o, "stale") /\ UNCHANGED reg
       \/ o = At(r) /\ req' = local /\ UNCHANGED reg
       \/ o = None /\ \E peer \in findActivationPeer :
             IF peer = At(r) THEN req' = local /\ UNCHANGED reg ELSE tryPeerActivation(r, peer)
    /\ UNCHANGED <<conf, table, pids, flight, queue, up, open, handled>>

\* RemoteActivateGrain and, on the other node, remoteActivateGrainHandler.
sendRemoteActivateGrain(r) ==
    LET o == req[r].owner IN
    /\ req[r].pc = "remoteActivate"
    /\ \/ up[o] /\ req' = [req EXCEPT ![r].at = o, ![r].pc = "ensure", ![r].mode = "recreate"]
       \/ (~up[o] \/ Fault("lossy")) /\ Step(r, "refused")
    /\ UNCHANGED <<conf, reg, table, pids, flight, queue, up, open, handled>>

\* The remote activation failed: the entry is removed from the registry, and the grain
\* of an unreachable owner is activated here (owner is not nil: without a claim).
activationRefused(r) ==
    /\ req[r].pc = "refused" /\ up[req[r].from]
    /\ RemoveGrain
    /\ req' = [req EXCEPT ![r] = IF @.back = "stale"
                                 THEN [@ EXCEPT !.at = req[r].from, !.mode = "local", !.pc = "ensure"]
                                 ELSE Done(@, "error")]
    /\ UNCHANGED <<conf, table, pids, flight, queue, up, open, handled>>

\* The relocator recreates the grains of a node that left on a surviving one.
relocateGrain(r) ==
    /\ req[r].pc = "start" /\ req[r].kind = "relocate"
    /\ \E n \in Nodes : ~up[n]
    /\ req' = [req EXCEPT ![r].mode = "recreate", ![r].pc = "ensure"]
    /\ UNCHANGED <<conf, reg, table, pids, flight, queue, up, open, handled>>

(* ---- the activation on one node ---- *)
\* The fast path of a send, or the singleflight group: lead or join.
ensureGrainProcess(r) ==
    LET n == At(r) IN
    /\ req[r].pc = "ensure"
    /\ IF req[r].mode = "send" /\ isActive(table[n])
       THEN /\ req' = [req EXCEPT ![r].pid = table[n], ![r].pc = "enqueue"]
            /\ UNCHANGED flight
       ELSE IF flight[n] = None
       THEN flight' = [flight EXCEPT ![n] = r] /\ Step(r, "fly")
       ELSE Step(r, "join") /\ UNCHANGED flight
    /\ UNCHANGED <<conf, reg, table, pids, queue, up, open, handled>>

\* The three closures that run in a flight: what each does with the process it finds.
ensureExistingGrainProcess(r) ==
    /\ req[r].mode = "send"
    /\ IF isActive(table[At(r)]) THEN runGrainActivation(r, table[At(r)], None)
       ELSE /\ req' = [req EXCEPT ![r].pid = table[At(r)], ![r].pc = "barrier", ![r].claimed = FALSE]
            /\ UNCHANGED flight

activateGrainLocally(r) ==
    LET p == table[At(r)] IN
    /\ req[r].mode = "local"
    /\ req' = [req EXCEPT ![r].pid = p, ![r].claimed = FALSE,
                          ![r].pc = IF req[r].owner = None THEN "claim"
                                    ELSE IF isActive(p) THEN "publish" ELSE "barrier"]
    /\ UNCHANGED flight

recreateGrainOnce(r) ==
    LET p == table[At(r)] IN
    /\ req[r].mode = "recreate"
    /\ req' = [req EXCEPT ![r].pid = p, ![r].claimed = FALSE,
                          ![r].pc = IF isActive(p) THEN "publish" ELSE "barrier"]
    /\ UNCHANGED flight

Fly(r) ==
    /\ req[r].pc = "fly"
    /\ ensureExistingGrainProcess(r) \/ activateGrainLocally(r) \/ recreateGrainOnce(r)
    /\ UNCHANGED <<conf, reg, table, pids, queue, up, open, handled>>

\* The barrier opens, or the wait times out; a claim made before is not withdrawn.
waitForGrainActivationBarrier(r) ==
    /\ req[r].pc = "barrier"
    /\ \/ /\ open[At(r)]
          /\ Step(r, IF req[r].mode = "send" THEN "own" ELSE "activate")
          /\ UNCHANGED flight
       \/ ~open[At(r)] /\ runGrainActivation(r, 0, None)
    /\ UNCHANGED <<conf, reg, table, pids, queue, up, open, handled>>

ensureGrainOwnership(r) ==
    /\ req[r].pc = "own"
    /\ IF reg \notin {None, At(r)} THEN runGrainActivation(r, 0, reg)
       ELSE Step(r, IF reg = None THEN "claim" ELSE "activate") /\ UNCHANGED flight
    /\ UNCHANGED <<conf, reg, table, pids, queue, up, open, handled>>

Owned(r) == IF req[r].mode = "send" THEN "activate"
            ELSE IF isActive(req[r].pid) THEN "publish" ELSE "barrier"

\* PutGrainIfAbsent, and when it finds an entry, GetGrain in a second call.
PutGrainIfAbsent(r) ==
    /\ req[r].pc = "claim"
    /\ IF ~GrainExists
       THEN PutGrain(At(r)) /\ req' = [req EXCEPT ![r].claimed = TRUE, ![r].pc = Owned(r)]
       ELSE Step(r, "whose") /\ UNCHANGED reg
    /\ UNCHANGED <<conf, table, pids, flight, queue, up, open, handled>>

tryClaimGrain(r) ==
    /\ req[r].pc = "whose"
    /\ IF reg \notin {None, At(r)} THEN runGrainActivation(r, 0, reg)
       ELSE Step(r, Owned(r)) /\ UNCHANGED flight
    /\ UNCHANGED <<conf, reg, table, pids, queue, up, open, handled>>

NewPid(n) == [node |-> n, active |-> TRUE, box |-> <<>>, busy |-> "no",
              turnStop |-> "no", passStop |-> "no", onPoison |-> FALSE, closed |-> FALSE]

activate(r) ==
    LET p == req[r].pid IN
    /\ req[r].pc = "activate"
    /\ \/ /\ pids' = IF p = 0 THEN Append(pids, NewPid(At(r))) ELSE [pids EXCEPT ![p].active = TRUE]
          /\ req' = [req EXCEPT ![r].pid = IF p = 0 THEN Len(pids) + 1 ELSE p,
                                ![r].pc = IF p = 0 \/ req[r].mode = "local" THEN "set" ELSE "publish"]
          /\ UNCHANGED <<reg, flight>>
       \/ /\ Fault("activation")
          /\ IF req[r].claimed THEN RemoveGrain ELSE UNCHANGED reg
          /\ runGrainActivation(r, 0, None)
          /\ UNCHANGED pids
    /\ UNCHANGED <<conf, table, queue, up, open, handled>>

\* x.grains.Set, then putGrainOnCluster, and the flight ends.
putGrainOnCluster(r) ==
    LET n == At(r) IN
    /\ req[r].pc \in {"set", "publish"}
    /\ table' = IF req[r].pc = "set" \/ req[r].mode = "local"
                THEN [table EXCEPT ![n] = req[r].pid] ELSE table
    /\ queue' = [queue EXCEPT ![n] = @ + 1]
    /\ runGrainActivation(r, req[r].pid, None)
    /\ UNCHANGED <<conf, reg, pids, up, open, handled>>

\* replicateGrains: PutGrain overwrites whatever the registry holds.
replicateOneGrain(n) ==
    /\ up[n] /\ queue[n] > 0
    /\ queue' = [queue EXCEPT ![n] = @ - 1]
    /\ PutGrain(n)
    /\ UNCHANGED <<conf, table, pids, flight, up, open, req, handled>>

tryOpenGrainActivationBarrier(n) ==
    /\ ~open[n]
    /\ open' = [open EXCEPT ![n] = TRUE]
    /\ UNCHANGED <<conf, reg, table, pids, flight, queue, up, req, handled>>

(* ---- a message to the grain ---- *)
\* receive: an inactive process drops the message and the caller is left to time out.
receive(r) ==
    LET p == req[r].pid IN
    /\ req[r].pc = "enqueue"
    /\ pids' = IF isActive(p) THEN [pids EXCEPT ![p].box = Append(@, r)] ELSE pids
    /\ Step(r, "wait")
    /\ UNCHANGED <<conf, reg, table, flight, queue, up, open, handled>>

\* localSend gives up waiting.
Timeout(r) ==
    /\ req[r].pc = "wait"
    /\ req' = [req EXCEPT ![r] = Done(@, "timeout")]
    /\ UNCHANGED <<conf, reg, table, pids, flight, queue, up, open, handled>>

Reply(r, res) == IF req[r].pc = "wait" /\ req[r].kind # "shutdown" THEN [req EXCEPT ![r] = Done(@, res)] ELSE req

\* runTurn: whether the process is still active is not looked at again.
dispatchOne(p) ==
    LET r == Head(pids[p].box) IN
    /\ up[pids[p].node] /\ pids[p].busy = "no" /\ pids[p].box # <<>>
    /\ pids' = IF req[r].kind \in {"poison", "shutdown"}
               THEN [pids EXCEPT ![p].busy = "poison", ![p].onPoison = TRUE, ![p].turnStop = "on"]
               ELSE [pids EXCEPT ![p].busy = "message"]
    /\ UNCHANGED <<conf, reg, table, flight, queue, up, open, req, handled>>

\* OnReceive returns; a panic in it is answered with an error by recovery.
handleGrainContext(p) ==
    LET r == Head(pids[p].box) IN
    /\ up[pids[p].node] /\ pids[p].busy = "message"
    /\ pids' = [pids EXCEPT ![p].busy = "no", ![p].box = Tail(@)]
    /\ handled' = [handled EXCEPT ![r] = @ + 1]
    /\ \E res \in {"ok"} \cup (IF Fault("panic") THEN {"error"} ELSE {}) : req' = Reply(r, res)
    /\ UNCHANGED <<conf, reg, table, flight, queue, up, open>>

(* ---- deactivation: by the turn, or by the passivation manager ---- *)
passivationTry(p) ==
    /\ Fault("passivation") /\ up[pids[p].node]
    /\ pids[p].active /\ ~pids[p].onPoison /\ pids[p].passStop = "no"
    /\ pids' = [pids EXCEPT ![p].passStop = "on"]
    /\ UNCHANGED <<conf, reg, table, flight, queue, up, open, req, handled>>

\* The deferred part of deactivate, and the end of the turn of a poison pill.
Deactivated(p, by, res) ==
    LET q == [pids[p] EXCEPT !.active = FALSE, !.onPoison = FALSE, !.closed = TRUE] IN
    IF by = "turn"
    THEN /\ pids' = [pids EXCEPT ![p] = [q EXCEPT !.turnStop = "no", !.busy = "no", !.box = Tail(@)]]
         /\ req' = Reply(Head(pids[p].box), res)
    ELSE pids' = [pids EXCEPT ![p] = [q EXCEPT !.passStop = "no"]] /\ UNCHANGED req

Stopping(p, by) == IF by = "turn" THEN pids[p].turnStop ELSE pids[p].passStop
StopAt(p, by, at) == IF by = "turn" THEN [pids EXCEPT ![p].turnStop = at]
                                    ELSE [pids EXCEPT ![p].passStop = at]

\* OnDeactivate, x.grains.Delete, RemoveGrain, and only then activated = false.
deactivate(p, by) ==
    LET n == pids[p].node IN
    /\ up[n]
    /\ \/ Stopping(p, by) = "on" /\ pids' = StopAt(p, by, "delete") /\ UNCHANGED <<reg, table, req>>
       \/ /\ Stopping(p, by) = "on" /\ Fault("deactivation")
          /\ Deactivated(p, by, "error") /\ UNCHANGED <<reg, table>>
       \/ /\ Stopping(p, by) = "delete"
          /\ table' = [table EXCEPT ![n] = 0]
          /\ pids' = StopAt(p, by, "remove") /\ UNCHANGED <<reg, req>>
       \/ /\ Stopping(p, by) = "remove"
          /\ RemoveGrain
          /\ pids' = StopAt(p, by, "off") /\ UNCHANGED <<table, req>>
       \/ Stopping(p, by) = "off" /\ Deactivated(p, by, "ok") /\ UNCHANGED <<reg, table>>
    /\ UNCHANGED <<conf, flight, queue, up, open, handled>>

\* Shutdown of a node: an inactive process is forgotten, an active one gets a poison
\* pill, and the shutdown waits for it (or for its own deadline).
poisonAllGrains(r) ==
    LET n == At(r)
        p == table[n] IN
    /\ req[r].pc = "start" /\ req[r].kind = "shutdown"
    /\ table' = IF p # 0 /\ ~isActive(p) THEN [table EXCEPT ![n] = 0] ELSE table
    /\ pids' = IF isActive(p) THEN [pids EXCEPT ![p].box = Append(@, r)] ELSE pids
    /\ req' = [req EXCEPT ![r] = IF isActive(p) THEN [@ EXCEPT !.pc = "wait", !.pid = p] ELSE Done(@, "ok")]
    /\ UNCHANGED <<conf, reg, flight, queue, up, open, handled>>

\* The channel closes at the first deactivation of the process, and only then.
awaitDeactivated(r) ==
    /\ req[r].pc = "wait" /\ req[r].kind = "shutdown" /\ pids[req[r].pid].closed
    /\ table' = [table EXCEPT ![At(r)] = 0]
    /\ req' = [req EXCEPT ![r] = Done(@, "ok")]
    /\ UNCHANGED <<conf, reg, pids, flight, queue, up, open, handled>>

\* A node crashes: its processes and threads are gone, its registry entry stays.
Crash(n) ==
    /\ Fault("crash") /\ \A m \in Nodes : up[m]
    /\ up' = [up EXCEPT ![n] = FALSE]
    /\ table' = [table EXCEPT ![n] = 0]
    /\ flight' = [flight EXCEPT ![n] = None]
    /\ queue' = [queue EXCEPT ![n] = 0]
    /\ pids' = [p \in DOMAIN pids |->
                  IF pids[p].node # n THEN pids[p]
                  ELSE [NewPid(n) EXCEPT !.active = FALSE]]
    /\ req' = [r \in Reqs |->
                 IF At(r) # n \/ req[r].pc = "done" THEN req[r]
                 ELSE IF req[r].from = n THEN Done(req[r], "crashed")
                 ELSE IF req[r].back # "no" THEN [req[r] EXCEPT !.pc = "refused"]
                 ELSE Done(req[r], "error")]
    /\ UNCHANGED <<conf, reg, open, handled>>

GRequest(r) ==
    \/ TellGrain(r) \/ remoteTellGrain(r) \/ GetGrain(r) \/ sendToGrainOwner(r) \/ resolveGrainOwner(r)
    \/ tryRemoteGrainActivation(r) \/ sendRemoteActivateGrain(r) \/ activationRefused(r)
    \/ relocateGrain(r) \/ ensureGrainProcess(r) \/ Fly(r) \/ waitForGrainActivationBarrier(r)
    \/ ensureGrainOwnership(r) \/ PutGrainIfAbsent(r) \/ tryClaimGrain(r) \/ activate(r)
    \/ putGrainOnCluster(r) \/ receive(r) \/ Timeout(r)
    \/ poisonAllGrains(r) \/ awaitDeactivated(r)

GSystem ==
    \/ \E r \in Reqs : GRequest(r)
    \/ \E n \in Nodes : replicateOneGrain(n)
    \/ \E p \in DOMAIN pids : dispatchOne(p) \/ handleGrainContext(p)
                              \/ \E by \in {"turn", "pass"} : deactivate(p, by)

GNext == GSystem \/ \E n \in Nodes : Crash(n) \/ tryOpenGrainActivationBarrier(n)
                 \/ \E p \in DOMAIN pids : passivationTry(p)

GSpec == GInit /\ [][GNext]_vars /\ WF_vars(GSystem)

(* ---- properties ---- *)
Active == {p \in DOMAIN pids : pids[p].active}

\* What a caller is told is true: a message is handled at most once, and a tell or an
\* ask that returned without error was handled, however many nodes it went through.
AnswerIsTrue ==
    \A r \in Reqs : /\ handled[r] <= 1
                    /\ req[r].res = "ok" /\ req[r].kind = "tell" => handled[r] = 1

\* Of two first requests on any two nodes, only one activates the grain; the other finds
\* it.  Holds while no entry is removed from the registry: no failure, no deactivation.
SingleActivation == conf.faults \subseteq {"barrier", "panic"} => Cardinality(Active) <= 1

\* On one node, the process in the table is the only one that is active, except for
\* one whose deactivation is under way (its entry goes before its flag).
OneProcessPerNode ==
    \A p \in Active : \/ table[pids[p].node] = p
                      \/ \E by \in {"turn", "pass"} : Stopping(p, by) # "no"
                      \/ \E r \in Reqs : req[r].pc \in {"set", "publish"} /\ req[r].pid = p

\* Concurrent calls are not made to a single grain instance (grain.go).
\* Does not hold: passivation deactivates a grain beside its turn.
GrainSingleThreaded ==
    \A p \in DOMAIN pids : ~(pids[p].busy # "no" /\ pids[p].passStop = "on")

\* Every request ends, whoever led the activation it waited for, and every activation
\* that was announced reaches the registry.
GrainsEnded ==
    /\ \A r \in Reqs : \/ req[r].pc = "done"
                       \/ req[r].kind = "relocate" /\ req[r].pc = "start"
                       \/ ~up[req[r].from] /\ req[r].pc = "refused"
    /\ \A n \in Nodes : queue[n] = 0 /\ flight[n] = None
=============================================================================
