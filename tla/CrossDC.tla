------------------------------- MODULE CrossDC -------------------------------
(***************************************************************************)
(* Reaching an actor or a grain by name, first in this cluster and then in  *)
(* the other datacenters: SendAsync, SendSync, TellGrain and AskGrain ask   *)
(* every endpoint of every active datacenter at once, one goroutine each,   *)
(* and go on with the first success; SpawnOn starts an actor on a peer or   *)
(* in a given datacenter.  Requests in flight are handled although the      *)
(* caller has its answer, actors come and go, calls get lost or time out.   *)
(***************************************************************************)
EXTENDS Integers, Sequences, FiniteSets, FiniteSetsExt

CONSTANTS Endpoints,  \* of the other datacenters
          Here,       \* this node
          Peer,       \* another node of this cluster
          None, Confs

VARIABLES conf,     \* the call, where the name is known, the datacenter records
          caller,   \* the calling goroutine
          query,    \* per place: the request to it
          results,  \* the results channel
          ctx,      \* the context of the requests
          has,      \* the places that have the actor or an active grain
          kept,     \* history: the places that had it since the requests went out
          got       \* history, per place: how often the message or the spawn was handled

vars == <<conf, caller, query, results, ctx, has, kept, got>>

Places == Endpoints \cup {Here, Peer}
Fault(f) == f \in conf.faults
Grain == conf.op \in {"tellGrain", "askGrain"}
Waits == conf.op \in {"sendSync", "askGrain"}

XInit ==
    /\ conf \in Confs
    /\ caller = [pc |-> "start", to |-> None, res |-> "none", read |-> 0]
    /\ query = [e \in Places |-> [pc |-> "off", res |-> "none"]]
    /\ results = <<>> /\ ctx = "live"
    /\ has = conf.has /\ kept = conf.has
    /\ got = [p \in Places |-> 0]

Return(res) == caller' = [caller EXCEPT !.pc = "done", !.res = res]
Goto(pc) == caller' = [caller EXCEPT !.pc = pc]
Deliver(e) == caller' = [caller EXCEPT !.pc = "deliver", !.to = e]

---------------------------------------------------------------------------
\* ActorOf: the actors tree of this node, then the registry of the cluster.
ActorOf ==
    IF Here \in has THEN IF conf.stopping THEN "notFound" ELSE Here
    ELSE CASE conf.registry = "error" -> "error"
           [] conf.registry = "off" -> IF conf.remoting THEN "notAllowed" ELSE "notFound"
           [] conf.registry = "on" -> IF Peer \in has THEN Peer ELSE "notFound"

\* SendAsync, SendSync up to the discovery.
Send ==
    /\ caller.pc = "start" /\ conf.op \in {"sendAsync", "sendSync"}
    /\ IF ~conf.running THEN Return("dead")
       ELSE IF ActorOf \in Places THEN Deliver(ActorOf)
       ELSE IF ActorOf = "notFound" THEN Goto("discover")
       ELSE Return(ActorOf)
    /\ UNCHANGED <<conf, query, results, ctx, has, kept, got>>

\* TellGrain, AskGrain outside a cluster; remoteTellGrain, remoteAskGrain up to
\* the other datacenters.
SendGrain ==
    /\ caller.pc = "start" /\ Grain
    /\ IF conf.registry = "off" \/ Here \in has THEN Deliver(Here)
       ELSE IF conf.registry = "error" THEN Return("error")
       ELSE IF Peer \in has THEN Deliver(Peer)
       ELSE Goto("discover")
    /\ UNCHANGED <<conf, query, results, ctx, has, kept, got>>

---------------------------------------------------------------------------
ActiveEndpoints == UNION {r.eps : r \in {x \in conf.records : x.state = "active"}}

\* A grain that no datacenter takes is activated here.
NotReached == IF Grain THEN Deliver(Here) ELSE Return("notFound")

\* One goroutine for each endpoint, and a channel with room for all of them.
AskAll ==
    /\ query' = [e \in Places |-> IF e \in ActiveEndpoints THEN [pc |-> "sent", res |-> "none"] ELSE query[e]]
    /\ kept' = has
    /\ Goto("collect")

TooStale == conf.controller /\ conf.stale /\ conf.failOnStale
NobodyToAsk == ~conf.controller \/ ActiveEndpoints = {}

DiscoverActor ==
    /\ caller.pc = "discover" /\ ~Grain
    /\ IF TooStale THEN Return("staleRecords") /\ UNCHANGED <<query, kept>>
       ELSE IF NobodyToAsk THEN NotReached /\ UNCHANGED <<query, kept>>
       ELSE AskAll
    /\ UNCHANGED <<conf, results, ctx, has, got>>

GrainAcrossDataCenters ==
    /\ IF TooStale \/ NobodyToAsk THEN NotReached /\ UNCHANGED <<query, kept>> ELSE AskAll
    /\ UNCHANGED <<conf, results, ctx, has, got>>
tellGrainAcrossDataCenters == caller.pc = "discover" /\ conf.op = "tellGrain" /\ GrainAcrossDataCenters
askGrainAcrossDataCenters == caller.pc = "discover" /\ conf.op = "askGrain" /\ GrainAcrossDataCenters

Replied(e, res) == query' = [query EXCEPT ![e] = [pc |-> "replied", res |-> res]]

\* The requests at the endpoint: a lookup finds the actor or not, a grain is
\* activated where the request arrives, and an ask may fail in the grain.
RemoteLookup(e) ==
    /\ query[e].pc = "sent" /\ ~Grain
    /\ Replied(e, IF e \in has THEN "ok" ELSE "notFound")
    /\ UNCHANGED <<conf, caller, results, ctx, has, kept, got>>

RemoteActivationFails(e) ==
    /\ query[e].pc = "sent" /\ Grain /\ Fault("activation")
    /\ Replied(e, "error")
    /\ UNCHANGED <<conf, caller, results, ctx, has, kept, got>>

RemoteTellGrain(e) ==
    /\ query[e].pc = "sent" /\ conf.op = "tellGrain"
    /\ Replied(e, "ok")
    /\ has' = has \cup {e} /\ got' = [got EXCEPT ![e] = @ + 1]
    /\ UNCHANGED <<conf, caller, results, ctx, kept>>

RemoteAskGrain(e) ==
    /\ query[e].pc = "sent" /\ conf.op = "askGrain"
    /\ Replied(e, "ok") \/ (Fault("activation") /\ Replied(e, "error"))
    /\ has' = has \cup {e} /\ got' = [got EXCEPT ![e] = @ + 1]
    /\ UNCHANGED <<conf, caller, results, ctx, kept>>

\* The request or the reply is lost, or the context ends while it is under way.
Fails(e) ==
    /\ query[e].pc \in {"sent", "replied"} /\ (ctx = "done" \/ Fault("lossy"))
    /\ query[e].res # "error"
    /\ Replied(e, "error")
    /\ UNCHANGED <<conf, caller, results, ctx, has, kept, got>>

\* As if the channel of the results had room for one only.
ChannelSizeOne == 1
\* The number of endpoints of the active datacenters.
ChannelSize == Cardinality(ActiveEndpoints)

Asked == {e \in Endpoints : query[e].pc # "off"}

PutResult(e) ==
    /\ query[e].pc = "replied" /\ e \in Endpoints
    /\ Len(results) < ChannelSize
    /\ results' = Append(results, [from |-> e, res |-> query[e].res])
    /\ query' = [query EXCEPT ![e].pc = "done"]
    /\ UNCHANGED <<conf, caller, ctx, has, kept, got>>

\* The range over results: the first success cancels the rest.
Collect ==
    LET r == results[1] IN
    /\ caller.pc = "collect" /\ results # <<>>
    /\ results' = Tail(results)
    /\ IF r.res # "ok" THEN caller' = [caller EXCEPT !.read = @ + 1] /\ UNCHANGED ctx
       ELSE /\ IF Grain THEN Return("ok") ELSE Deliver(r.from)
            /\ ctx' = "done"
    /\ UNCHANGED <<conf, query, has, kept, got>>

\* All goroutines are done, the channel is closed and read.
CollectEnds ==
    /\ caller.pc = "collect" /\ results = <<>> /\ \A e \in Asked : query[e].pc = "done"
    /\ NotReached
    /\ ctx' = "done"
    /\ UNCHANGED <<conf, query, results, has, kept, got>>

Timeout ==
    /\ Fault("timeout") /\ caller.pc = "collect" /\ ctx = "live"
    /\ ctx' = "done"
    /\ UNCHANGED <<conf, caller, query, results, has, kept, got>>

---------------------------------------------------------------------------
\* Tell or Ask of the pid that was found; localSend of a grain.  The actor may
\* be gone by now: a Tell to another node does not notice.
Handles(p) == p \in has \/ (Grain /\ p = Here)
DeliverTo ==
    LET p == caller.to
        lost == p # Here /\ Fault("lossy") IN
    /\ caller.pc = "deliver"
    /\ \/ /\ Handles(p)
          /\ got' = [got EXCEPT ![p] = @ + 1]
          /\ has' = has \cup {p}
          /\ Return("ok") \/ (lost /\ Return("error"))
       \/ /\ ~Handles(p) \/ lost
          /\ Return(IF conf.op = "sendAsync" /\ p # Here THEN "ok" ELSE "error")
          /\ UNCHANGED <<got, has>>
    /\ UNCHANGED <<conf, query, results, ctx, kept>>

---------------------------------------------------------------------------
\* The nodes whose registry tells whether a name is taken at p.
ClusterOf(p) ==
    IF p \in Endpoints THEN UNION {r.eps : r \in {x \in conf.records : p \in x.eps}} ELSE {Here, Peer}

\* spawnOnDatacenter: any endpoint of the active record of the datacenter.
SpawnOnDatacenter ==
    LET eps == UNION {r.eps : r \in {x \in conf.records : x.state = "active" /\ x.id = conf.dc}} IN
    /\ caller.pc = "start" /\ conf.op = "spawnOn" /\ conf.dc # None
    /\ IF ~conf.controller THEN Return("notReady")
       ELSE IF conf.stale /\ conf.failOnStale THEN Return("staleRecords")
       ELSE IF eps = {} THEN Return("recordNotFound")
       ELSE \E p \in eps : caller' = [caller EXCEPT !.pc = "spawn", !.to = p]
    /\ UNCHANGED <<conf, query, results, ctx, has, kept, got>>

\* As if only the place itself were asked whether the name is taken.
RefusedHere(p) == p \in has
\* checkSpawnPreconditions: in a cluster a name may be in use once.
Refused(p) == ClusterOf(p) \cap has # {} /\ (p \in Endpoints \/ conf.registry # "off")

\* selectPlacementPeer: Local is this node, the other placements any member.
Placed == IF conf.registry = "off" \/ conf.placement = "local" THEN {Here} ELSE {Here, Peer}

SpawnOn ==
    /\ caller.pc = "start" /\ conf.op = "spawnOn" /\ conf.dc = None
    /\ IF conf.registry = "error" THEN Return("error")
       ELSE IF Refused(Here) THEN Return("alreadyExists")
       ELSE \E p \in Placed : caller' = [caller EXCEPT !.pc = "spawn", !.to = p]
    /\ UNCHANGED <<conf, query, results, ctx, has, kept, got>>

\* Spawn, here or requested from the node there.  Outside a cluster an actor that
\* runs already is the result.
SpawnAt ==
    LET p == caller.to
        lost == p # Here /\ Fault("lossy") IN
    /\ caller.pc = "spawn"
    /\ \/ /\ Refused(p) /\ Return("alreadyExists")
          /\ UNCHANGED <<has, got>>
       \/ /\ ~Refused(p)
          /\ has' = has \cup {p}
          /\ got' = IF p \in has THEN got ELSE [got EXCEPT ![p] = @ + 1]
          /\ Return("ok") \/ (lost /\ Return("error"))
       \/ lost /\ Return("error") /\ UNCHANGED <<has, got>>
    /\ UNCHANGED <<conf, query, results, ctx, kept>>

\* Actors start and stop elsewhere meanwhile.
Moves(p) ==
    /\ Fault("moves") /\ p \in Endpoints /\ caller.pc \in {"collect", "deliver"}
    /\ \/ p \in has /\ has' = has \ {p} /\ kept' = kept \ {p}
       \/ p \notin has /\ p \in conf.has /\ has' = has \cup {p} /\ UNCHANGED kept
    /\ UNCHANGED <<conf, caller, query, results, ctx, got>>

XSystem ==
    \/ Send \/ SendGrain \/ DiscoverActor \/ tellGrainAcrossDataCenters \/ askGrainAcrossDataCenters
    \/ Collect \/ CollectEnds \/ DeliverTo
    \/ SpawnOn \/ SpawnOnDatacenter \/ SpawnAt
    \/ \E e \in Endpoints :
          \/ RemoteLookup(e) \/ RemoteActivationFails(e) \/ RemoteTellGrain(e) \/ RemoteAskGrain(e)
          \/ Fails(e) \/ PutResult(e)
XEnv == Timeout \/ \E p \in Places : Moves(p)
XNext == XSystem \/ XEnv
XSpec == XInit /\ [][XNext]_vars /\ WF_vars(XSystem)

---------------------------------------------------------------------------
Handled == MapThenSumSet(LAMBDA p : got[p], Places)

\* What a call returns is true: a reply comes from an actor that handled the
\* message, a message by name is handled at most once, and a name that was there
\* all the time is found unless requests fail.
FoundIsTrue ==
    caller.pc = "done" =>
        /\ caller.res = "ok" /\ Waits => Handled >= 1
        /\ ~Grain => Handled <= 1
        /\ caller.res = "notFound" /\ conf.controller /\ conf.faults \cap {"lossy", "timeout"} = {}
              => kept \cap ActiveEndpoints = {}

\* A spawn that succeeds has an actor to show, and no cluster ever has two actors
\* of a name, wherever the placement or the datacenter puts them.
NameUnique ==
    conf.op = "spawnOn" =>
        /\ caller.res = "ok" => caller.to \in has
        /\ \A p \in Places : Cardinality(ClusterOf(p) \cap has) <= 1

\* tellGrainAcrossDataCenters: the message goes to the first datacenter that
\* handles it, so that it is handled once.
\* Does not hold: the queries of all datacenters run at once, and two of them can
\* deliver before the first cancels the rest.
GrainToldOnce == Grain => Handled <= 1

\* The caller returns, and so does every goroutine it started.
QueriesEnded == caller.pc = "done" /\ \A e \in Places : query[e].pc \in {"off", "done"}
=============================================================================
