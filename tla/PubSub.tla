-------------------------------- MODULE PubSub --------------------------------
(***************************************************************************)
(* Publish and subscribe over topic actors (actor/topic_actor.go), one per  *)
(* node.  An actor subscribes with, unsubscribes from and publishes to the  *)
(* topic actor of its node, which forwards a publication to its local       *)
(* subscribers and to the topic actors of the other nodes; the processed    *)
(* messages are remembered in a TTLMap.  One topic: topics do not interact. *)
(***************************************************************************)
EXTENDS Integers, Sequences, FiniteSets, SequencesExt

CONSTANTS Nodes, Confs, TTL

VARIABLES conf,   \* the actors' home nodes and scripts, the faults
          actor,  \* per actor: how far its script is, whether it runs
          ta,     \* per node: its topic actor
          jobs,   \* goroutines of the turns: what is still to be sent
          now,    \* the clock
          got,    \* history: per actor the messages it received
          acked,  \* history: per actor the last acknowledgement it got
          seen    \* history: per published message the acknowledgements then

vars == <<conf, actor, ta, jobs, now, got, acked, seen>>

Map == INSTANCE TTLMap WITH Keys <- {}, MaxTime <- 0, MaxOps <- 0, tm <- 0, last <- 0, ops <- 0
Actors == DOMAIN conf.home
Op(a) == conf.script[a][actor[a].n]
NoMessage == [op |-> "none", from |-> "none", id |-> 0]

\* newTopicActor, PreStart and handlePostStart.
PInit ==
    /\ conf \in Confs
    /\ actor = [a \in Actors |-> [n |-> 1, up |-> TRUE]]
    /\ ta = [n \in Nodes |-> [topic |-> FALSE, subs |-> {}, watched |-> {}, sys |-> <<>>, box |-> <<>>,
                              turn |-> NoMessage, processed |-> Map!NewTTLMap]]
    /\ jobs = {} /\ now = 0
    /\ got = [a \in Actors |-> <<>>] /\ acked = [a \in Actors |-> "none"]
    /\ seen = {}

---------------------------------------------------------------------------
\* An actor tells the topic actor of its node, or stops, and the topic actors
\* that watch it are told.
ActorTells(a) ==
    /\ actor[a].up /\ actor[a].n <= Len(conf.script[a]) /\ Op(a)[1] # "stop"
    /\ actor' = [actor EXCEPT ![a].n = @ + 1]
    /\ ta' = [ta EXCEPT ![conf.home[a]].box = Append(@, [op |-> Op(a)[1], from |-> a, id |-> Op(a)[2]])]
    /\ seen' = IF Op(a)[1] = "publish" THEN seen \cup {[from |-> a, id |-> Op(a)[2], acked |-> acked]} ELSE seen
    /\ UNCHANGED <<conf, jobs, now, got, acked>>

ActorStops(a) ==
    /\ actor[a].up /\ actor[a].n <= Len(conf.script[a]) /\ Op(a)[1] = "stop"
    /\ actor' = [actor EXCEPT ![a] = [n |-> @.n + 1, up |-> FALSE]]
    /\ ta' = [n \in Nodes |-> IF a \in ta[n].watched THEN [ta[n] EXCEPT !.sys = Append(@, a)] ELSE ta[n]]
    /\ UNCHANGED <<conf, jobs, now, got, acked, seen>>

Tick ==
    /\ now < conf.time /\ now' = now + 1
    /\ UNCHANGED <<conf, actor, ta, jobs, got, acked, seen>>

---------------------------------------------------------------------------
Idle(n) == ta[n].turn = NoMessage
Takes(n, op) == Idle(n) /\ ta[n].sys = <<>> /\ ta[n].box # <<>> /\ Head(ta[n].box).op = op
Msg(n) == Head(ta[n].box)

\* handleTerminated: off every topic.
handleTerminated(n) ==
    /\ Idle(n) /\ ta[n].sys # <<>>
    /\ ta' = [ta EXCEPT ![n].sys = Tail(@), ![n].subs = @ \ {Head(ta[n].sys)}, ![n].watched = @ \ {Head(ta[n].sys)}]
    /\ UNCHANGED <<conf, actor, jobs, now, got, acked, seen>>

Acknowledged(a, what) == acked' = IF actor[a].up THEN [acked EXCEPT ![a] = what] ELSE acked

\* handleSubscribe: only of an actor that runs; then it is watched and told.
handleSubscribe(n) ==
    /\ Takes(n, "subscribe")
    /\ ta' = [ta EXCEPT ![n] = IF actor[Msg(n).from].up
                               THEN [@ EXCEPT !.topic = TRUE, !.subs = @ \cup {Msg(n).from}, !.turn = Msg(n), !.box = Tail(@)]
                               ELSE [@ EXCEPT !.box = Tail(@)]]
    /\ UNCHANGED <<conf, actor, jobs, now, got, acked, seen>>

Watch(n) ==
    LET a == ta[n].turn.from IN
    /\ ta[n].turn.op = "subscribe"
    /\ ta' = [ta EXCEPT ![n].turn = NoMessage, ![n].watched = IF actor[a].up THEN @ \cup {a} ELSE @]
    /\ Acknowledged(a, "subscribed")
    /\ UNCHANGED <<conf, actor, jobs, now, got, seen>>

\* handleUnsubscribe: no acknowledgement for a topic nobody ever subscribed to.
handleUnsubscribe(n) ==
    /\ Takes(n, "unsubscribe")
    /\ ta' = [ta EXCEPT ![n].box = Tail(@), ![n].subs = @ \ {Msg(n).from}]
    /\ IF ta[n].topic THEN Acknowledged(Msg(n).from, "unsubscribed") ELSE UNCHANGED acked
    /\ UNCHANGED <<conf, actor, jobs, now, got, seen>>

---------------------------------------------------------------------------
Job(n, kind, to, m) == [at |-> n, kind |-> kind, to |-> to, from |-> m.from, id |-> m.id]
Processed(n, key) == Map!Found(ta[n].processed, key, now)

\* As if the message were not remembered as processed.
handlePublishForgets(n) ==
    /\ Takes(n, "publish")
    /\ LET m == Msg(n) IN
       /\ ta' = [ta EXCEPT ![n].box = Tail(@), ![n].turn = m]
       /\ jobs' = jobs \cup {Job(n, "local", n, m)} \cup {Job(n, "remote", p, m) : p \in Nodes \ {n}}
    /\ UNCHANGED <<conf, actor, now, got, acked, seen>>

\* handlePublish: once per sender and id; local subscribers and peers at the same
\* time, and the turn waits for both, unless the peers cannot be listed.
handlePublish(n) ==
    /\ Takes(n, "publish")
    /\ LET m == Msg(n)
           key == <<m.from, m.id>> IN
       IF Processed(n, key)
       THEN ta' = [ta EXCEPT ![n].box = Tail(@)] /\ UNCHANGED jobs
       ELSE \/ /\ ta' = [ta EXCEPT ![n].box = Tail(@), ![n].turn = m, ![n].processed = Map!Set(Map!Get(@, key, now), key, now)]
               /\ jobs' = jobs \cup {Job(n, "local", n, m)} \cup {Job(n, "remote", p, m) : p \in Nodes \ {n}}
            \/ /\ "peers" \in conf.faults
               /\ ta' = [ta EXCEPT ![n].box = Tail(@), ![n].processed = Map!Set(Map!Get(@, key, now), key, now)]
               /\ jobs' = jobs \cup {Job(n, "local", n, m)}
    /\ UNCHANGED <<conf, actor, now, got, acked, seen>>

\* The subscribers that run get a goroutine each, the others are dropped.
Tells(n, m) == {Job(n, "tell", a, m) : a \in {s \in ta[n].subs : actor[s].up}}
Live(n) == {s \in ta[n].subs : actor[s].up}

sendToLocalSubscribers(j) ==
    /\ j.kind = "local"
    /\ jobs' = (jobs \ {j}) \cup Tells(j.at, j)
    /\ ta' = [ta EXCEPT ![j.at].subs = Live(j.at)]
    /\ UNCHANGED <<conf, actor, now, got, acked, seen>>

TellSubscriber(j) ==
    /\ j.kind = "tell"
    /\ jobs' = jobs \ {j}
    /\ got' = IF actor[j.to].up THEN [got EXCEPT ![j.to] = Append(@, <<j.from, j.id>>)] ELSE got
    /\ UNCHANGED <<conf, actor, ta, now, acked, seen>>

\* sendToRemoteTopicActors: lookup and RemoteTell, which may fail.
sendToRemoteTopicActors(j) ==
    /\ j.kind = "remote"
    /\ jobs' = jobs \ {j}
    /\ \/ ta' = [ta EXCEPT ![j.to].box = Append(@, [op |-> "topicMessage", from |-> j.from, id |-> j.id, by |-> j.at])]
       \/ "net" \in conf.faults /\ UNCHANGED ta
    /\ UNCHANGED <<conf, actor, now, got, acked, seen>>

\* handleTopicMessage: the same check, under the key of the topic actor that
\* sent it, but nothing is remembered.
handleTopicMessage(n) ==
    /\ Takes(n, "topicMessage")
    /\ LET m == Msg(n)
           key == <<m.by, m.id>> IN
       IF Processed(n, key)
       THEN ta' = [ta EXCEPT ![n].box = Tail(@)] /\ UNCHANGED jobs
       ELSE /\ ta' = [ta EXCEPT ![n].box = Tail(@), ![n].subs = Live(n), ![n].processed = Map!Get(@, key, now),
                                ![n].turn = [op |-> "topicMessage", from |-> m.from, id |-> m.id]]
            /\ jobs' = jobs \cup Tells(n, m)
    /\ UNCHANGED <<conf, actor, now, got, acked, seen>>

\* wg.Wait of handlePublish and handleTopicMessage.
TurnEnds(n) ==
    /\ ta[n].turn.op \in {"publish", "topicMessage"}
    /\ \A j \in jobs : j.at = n => <<j.from, j.id>> # <<ta[n].turn.from, ta[n].turn.id>>
    /\ ta' = [ta EXCEPT ![n].turn = NoMessage]
    /\ UNCHANGED <<conf, actor, jobs, now, got, acked, seen>>

PSystem ==
    \/ \E n \in Nodes : \/ handleTerminated(n) \/ handleSubscribe(n) \/ Watch(n) \/ handleUnsubscribe(n)
                        \/ handlePublish(n) \/ handleTopicMessage(n) \/ TurnEnds(n)
    \/ \E j \in jobs : sendToLocalSubscribers(j) \/ TellSubscriber(j) \/ sendToRemoteTopicActors(j)
    \/ \E a \in Actors : ActorTells(a) \/ ActorStops(a)
PNext == PSystem \/ Tick
PSpec == PInit /\ [][PNext]_vars /\ WF_vars(PSystem)

---------------------------------------------------------------------------
\* Published again within the retention, a message still reaches a subscriber
\* once (handlePublish).
DeliveredOnce ==
    conf.time < TTL => \A a \in Actors : \A i, j \in DOMAIN got[a] : i # j => got[a][i] # got[a][j]

\* An actor gets only what was published while it was, or could still become,
\* subscribed: nothing published after the acknowledgement of its last
\* unsubscription, and nothing if it never subscribed.
OnlySubscribers ==
    \A a \in Actors, m \in seen :
       /\ <<m.from, m.id>> \in ToSet(got[a])
       /\ \A x \in seen : x.from = m.from /\ x.id = m.id => x = m
       => \E k \in DOMAIN conf.script[a] :
             /\ conf.script[a][k][1] = "subscribe"
             /\ m.acked[a] = "unsubscribed" => \E l \in 1..(k - 1) : conf.script[a][l][1] = "unsubscribe"

\* When all is quiet, what was first published after an actor had its SubscribeAck has
\* reached it on whichever node it is, if it neither left nor lost the network
\* (handlePublish waits for its goroutines; nobody retries).
Quiet ==
    /\ jobs = {} /\ \A n \in Nodes : Idle(n) /\ ta[n].box = <<>> /\ ta[n].sys = <<>>
    /\ \A a \in Actors : ~actor[a].up \/ actor[a].n > Len(conf.script[a])
Reaches(m, a) ==
    \/ conf.home[a] # conf.home[m.from] /\ conf.faults # {}
    \/ \E k \in DOMAIN conf.script[a] : conf.script[a][k][1] \in {"unsubscribe", "stop"}
    \/ <<m.from, m.id>> \in ToSet(got[a])
SubscribersReached ==
    Quiet => \A m \in seen, a \in Actors :
                (\A x \in seen : x.from = m.from /\ x.id = m.id => x.acked[a] = "subscribed") => Reaches(m, a)

PubSubEnds == <>Quiet
=============================================================================
