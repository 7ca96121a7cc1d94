------------------------------ MODULE EventStream ------------------------------
(***************************************************************************)
(* The event stream (eventstream/): publishers snapshot the subscribers of  *)
(* a topic and put the event on each one's queue, subscribers drain theirs  *)
(* with Iterator.  The queue (internal/queue) is a linked list whose nodes  *)
(* come from, and go back to, a pool; its steps are the atomic loads and    *)
(* compare-and-swaps of the code, on node numbers (0 is nil).               *)
(***************************************************************************)
EXTENDS Integers, Sequences, FiniteSets, SequencesExt

CONSTANTS Confs, Topics

VARIABLES conf,    \* the publications of each publisher, the calls of each subscriber
          stream,  \* subscribers and topics
          sub,     \* per subscriber: active, its topics, and where its call is
          q,       \* per subscriber: its queue
          pub,     \* per publisher: where its Publish is
          closer,  \* Close of the stream
          got,     \* history: the events each subscriber drained
          owed     \* history: the events whose Publish found it subscribed

vars == <<conf, stream, sub, q, pub, closer, got, owed>>

Subs == DOMAIN conf.calls
Pubs == DOMAIN conf.pubs
Event(p) == 10 * p + pub[p].n

\* NewQueue: head and tail at an empty node.
NewQueue == [head |-> 1, tail |-> 1, len |-> 0, node |-> <<[next |-> 0, v |-> 0]>>, pool |-> {}]

\* New and AddSubscriber.
EvInit ==
    /\ conf \in Confs
    /\ stream = [subscribers |-> Subs, topics |-> [t \in Topics |-> {}]]
    /\ sub = [s \in Subs |-> [active |-> TRUE, topics |-> {}, n |-> 1, pc |-> "call", left |-> {}, count |-> 0, head |-> 0, next |-> 0]]
    /\ q = [s \in Subs |-> NewQueue]
    /\ pub = [p \in Pubs |-> [n |-> 1, pc |-> "publish", snap |-> <<>>, node |-> 0, tail |-> 0, next |-> 0]]
    /\ closer = IF conf.close THEN "subscribers" ELSE "closed"
    /\ got = [s \in Subs |-> <<>>] /\ owed = [s \in Subs |-> {}]

---------------------------------------------------------------------------
\* publishToTopic: the topic's subscribers of this moment, then one after the
\* other, in any order.
Publishing(p) == pub[p].n <= Len(conf.pubs[p])
Published(p) == [pub[p] EXCEPT !.n = @ + 1, !.pc = "publish"]

publishToTopic(p) ==
    /\ pub[p].pc = "publish" /\ Publishing(p)
    /\ \E snap \in SetToSeqs(stream.topics[conf.pubs[p][pub[p].n]]) :
          /\ pub' = [pub EXCEPT ![p] = IF snap = <<>> THEN Published(p) ELSE [@ EXCEPT !.snap = snap, !.pc = "signal"]]
          /\ owed' = [s \in Subs |-> IF s \in ToSet(snap) THEN owed[s] \cup {Event(p)} ELSE owed[s]]
    /\ UNCHANGED <<conf, stream, sub, q, closer, got>>

\* The next subscriber of the snapshot.
Signalled(p) == IF Len(pub[p].snap) = 1 THEN [Published(p) EXCEPT !.snap = <<>>]
                ELSE [pub[p] EXCEPT !.snap = Tail(@), !.pc = "signal"]

\* signal: only while it is active.
signal(p) ==
    /\ pub[p].pc = "signal"
    /\ pub' = [pub EXCEPT ![p] = IF sub[Head(pub[p].snap)].active THEN [@ EXCEPT !.pc = "get"] ELSE Signalled(p)]
    /\ UNCHANGED <<conf, stream, sub, q, closer, got, owed>>

\* getItem: a node of the pool, or a new one; the pool's node keeps its next.
getItem(p) ==
    LET s == Head(pub[p].snap) IN
    /\ pub[p].pc = "get"
    /\ \E i \in q[s].pool \cup {Len(q[s].node) + 1} :
          /\ q' = [q EXCEPT ![s].pool = @ \ {i},
                            ![s].node = IF i \in q[s].pool THEN [@ EXCEPT ![i].v = Event(p)]
                                        ELSE Append(@, [next |-> 0, v |-> Event(p)])]
          /\ pub' = [pub EXCEPT ![p].node = i, ![p].pc = "tail"]
    /\ UNCHANGED <<conf, stream, sub, closer, got, owed>>

\* Enqueue: load the tail and its next; help a tail that lags.
LoadTail(p) ==
    /\ pub[p].pc = "tail"
    /\ pub' = [pub EXCEPT ![p].tail = q[Head(pub[p].snap)].tail, ![p].pc = "next"]
    /\ UNCHANGED <<conf, stream, sub, q, closer, got, owed>>

LoadTailNext(p) ==
    LET next == q[Head(pub[p].snap)].node[pub[p].tail].next IN
    /\ pub[p].pc = "next"
    /\ pub' = [pub EXCEPT ![p].next = next, ![p].pc = IF next = 0 THEN "link" ELSE "help"]
    /\ UNCHANGED <<conf, stream, sub, q, closer, got, owed>>

HelpTail(p) ==
    LET s == Head(pub[p].snap) IN
    /\ pub[p].pc = "help"
    /\ q' = IF q[s].tail = pub[p].tail THEN [q EXCEPT ![s].tail = pub[p].next] ELSE q
    /\ pub' = [pub EXCEPT ![p].pc = "tail"]
    /\ UNCHANGED <<conf, stream, sub, closer, got, owed>>

\* Link the node behind the tail if that still has no next,
Link(p) ==
    LET s == Head(pub[p].snap) IN
    /\ pub[p].pc = "link"
    /\ IF q[s].node[pub[p].tail].next = 0
       THEN q' = [q EXCEPT ![s].node[pub[p].tail].next = pub[p].node] /\ pub' = [pub EXCEPT ![p].pc = "swing"]
       ELSE pub' = [pub EXCEPT ![p].pc = "tail"] /\ UNCHANGED q
    /\ UNCHANGED <<conf, stream, sub, closer, got, owed>>

\* swing the tail if it has not moved, and count.
SwingTail(p) ==
    LET s == Head(pub[p].snap) IN
    /\ pub[p].pc = "swing"
    /\ q' = IF q[s].tail = pub[p].tail THEN [q EXCEPT ![s].tail = pub[p].node] ELSE q
    /\ pub' = [pub EXCEPT ![p].pc = "count"]
    /\ UNCHANGED <<conf, stream, sub, closer, got, owed>>

CountUp(p) ==
    LET s == Head(pub[p].snap) IN
    /\ pub[p].pc = "count"
    /\ q' = [q EXCEPT ![s].len = @ + 1]
    /\ pub' = [pub EXCEPT ![p] = Signalled(p)]
    /\ UNCHANGED <<conf, stream, sub, closer, got, owed>>

---------------------------------------------------------------------------
Calls(s, op) == sub[s].pc = "call" /\ sub[s].n <= Len(conf.calls[s]) /\ conf.calls[s][sub[s].n][1] = op
Topic(s) == conf.calls[s][sub[s].n][2]
Returned(s) == [sub[s] EXCEPT !.n = @ + 1, !.pc = "call"]

\* Subscribe: nothing for an inactive subscriber; its own topics, then the stream's.
Subscribe(s) ==
    /\ Calls(s, "subscribe")
    /\ sub' = [sub EXCEPT ![s] = IF sub[s].active THEN [@ EXCEPT !.topics = @ \cup {Topic(s)}, !.pc = "subscribe"] ELSE Returned(s)]
    /\ UNCHANGED <<conf, stream, q, pub, closer, got, owed>>

Subscribed(s) ==
    /\ sub[s].pc = "subscribe"
    /\ stream' = [stream EXCEPT !.topics[Topic(s)] = @ \cup {s}]
    /\ sub' = [sub EXCEPT ![s] = Returned(s)]
    /\ UNCHANGED <<conf, q, pub, closer, got, owed>>

\* RemoveSubscriber: unsubscribed from each topic it has now, then forgotten,
\* then shut down.
RemoveSubscriber(s) ==
    /\ Calls(s, "remove")
    /\ sub' = [sub EXCEPT ![s].left = sub[s].topics, ![s].pc = "remove"]
    /\ UNCHANGED <<conf, stream, q, pub, closer, got, owed>>

Unsubscribe(s) ==
    /\ sub[s].pc = "remove"
    /\ \E t \in sub[s].left :
          /\ sub' = [sub EXCEPT ![s].left = @ \ {t}, ![s].topics = @ \ {t}]
          /\ stream' = [stream EXCEPT !.topics[t] = @ \ {s}]
    /\ UNCHANGED <<conf, q, pub, closer, got, owed>>

Removed(s) ==
    /\ sub[s].pc = "remove" /\ sub[s].left = {}
    /\ stream' = [stream EXCEPT !.subscribers = @ \ {s}]
    /\ sub' = [sub EXCEPT ![s] = [Returned(s) EXCEPT !.active = FALSE]]
    /\ UNCHANGED <<conf, q, pub, closer, got, owed>>

---------------------------------------------------------------------------
\* Iterator: as many messages as the queue counts now.
Iterator(s) ==
    /\ Calls(s, "iterate")
    /\ sub' = [sub EXCEPT ![s] = IF q[s].len = 0 THEN Returned(s) ELSE [@ EXCEPT !.count = q[s].len, !.pc = "head"]]
    /\ UNCHANGED <<conf, stream, q, pub, closer, got, owed>>

\* Dequeue: load the head and its next; nil ends the iteration.
LoadHead(s) ==
    LET head == q[s].head
        next == q[s].node[head].next IN
    /\ sub[s].pc = "head"
    /\ sub' = [sub EXCEPT ![s] = IF next = 0 THEN Returned(s) ELSE [@ EXCEPT !.head = head, !.next = next, !.pc = "advance"]]
    /\ UNCHANGED <<conf, stream, q, pub, closer, got, owed>>

\* Advance the head and take the value of the node that is now the head.
AdvanceHead(s) ==
    /\ sub[s].pc = "advance"
    /\ IF q[s].head = sub[s].head
       THEN /\ q' = [q EXCEPT ![s].head = sub[s].next]
            /\ got' = [got EXCEPT ![s] = Append(@, q[s].node[sub[s].next].v)]
            /\ sub' = [sub EXCEPT ![s].pc = "release"]
       ELSE sub' = [sub EXCEPT ![s].pc = "head"] /\ UNCHANGED <<q, got>>
    /\ UNCHANGED <<conf, stream, pub, closer, owed>>

\* releaseItem: the old head is cleared and goes back to the pool.
releaseItem(s) ==
    /\ sub[s].pc = "release"
    /\ q' = [q EXCEPT ![s].node[sub[s].head] = [next |-> 0, v |-> 0], ![s].pool = @ \cup {sub[s].head}]
    /\ sub' = [sub EXCEPT ![s].pc = "count"]
    /\ UNCHANGED <<conf, stream, pub, closer, got, owed>>

CountDown(s) ==
    /\ sub[s].pc = "count"
    /\ q' = [q EXCEPT ![s].len = @ - 1]
    /\ sub' = [sub EXCEPT ![s] = IF sub[s].count = 1 THEN [Returned(s) EXCEPT !.count = 0]
                                 ELSE [@ EXCEPT !.count = @ - 1, !.pc = "head"]]
    /\ UNCHANGED <<conf, stream, pub, closer, got, owed>>

---------------------------------------------------------------------------
\* Close: every subscriber is shut down and forgotten, then every topic.
Close ==
    \/ /\ closer = "subscribers" /\ closer' = "topics"
       /\ sub' = [s \in Subs |-> IF s \in stream.subscribers THEN [sub[s] EXCEPT !.active = FALSE] ELSE sub[s]]
       /\ stream' = [stream EXCEPT !.subscribers = {}]
       /\ UNCHANGED <<conf, q, pub, got, owed>>
    \/ /\ closer = "topics" /\ closer' = "closed"
       /\ stream' = [stream EXCEPT !.topics = [t \in Topics |-> {}]]
       /\ UNCHANGED <<conf, sub, q, pub, got, owed>>

EvSystem ==
    \/ \E p \in Pubs : \/ publishToTopic(p) \/ signal(p) \/ getItem(p) \/ LoadTail(p) \/ LoadTailNext(p)
                       \/ HelpTail(p) \/ Link(p) \/ SwingTail(p) \/ CountUp(p)
    \/ \E s \in Subs : \/ Subscribe(s) \/ Subscribed(s) \/ RemoveSubscriber(s) \/ Unsubscribe(s) \/ Removed(s)
                       \/ Iterator(s) \/ LoadHead(s) \/ AdvanceHead(s) \/ releaseItem(s) \/ CountDown(s)
    \/ Close
EvNext == EvSystem
EvSpec == EvInit /\ [][EvNext]_vars /\ WF_vars(EvSystem)

---------------------------------------------------------------------------
\* The values of a queue from its head on, over at most n nodes.
Chain(s) ==
    LET node == q[s].node
        step[k \in 0..Len(node)] == IF k = 0 THEN q[s].head ELSE IF step[k - 1] = 0 THEN 0 ELSE node[step[k - 1]].next
    IN SelectSeq([k \in 1..Len(node) |-> IF step[k] = 0 THEN 0 ELSE node[step[k]].v], LAMBDA v : v # 0)

Held(s) == got[s] \o Chain(s)

\* What a subscriber has drained or still holds: every event at most once, those
\* of one publisher in the order they were published, nothing it was not
\* subscribed to (queue.go recycles nodes while others hold them).
EventsInOrder ==
    \A s \in Subs :
       /\ ToSet(Held(s)) \subseteq owed[s]
       /\ \A i, j \in DOMAIN Held(s) : i < j => Held(s)[i] # Held(s)[j]
            /\ (Held(s)[i] \div 10 = Held(s)[j] \div 10 => Held(s)[i] < Held(s)[j])

\* An event whose Publish is over has reached every subscriber that was
\* subscribed, and was not shut down, when it was published.
Enqueued(s) == {e \in owed[s] : e % 10 < pub[e \div 10].n}
NoEventLost == \A s \in Subs : sub[s].active => Enqueued(s) \subseteq ToSet(Held(s))

\* Publishers and subscribers are never stuck: neither in a retry loop nor on a
\* subscriber that went away.
StreamEnded ==
    /\ closer = "closed"
    /\ \A p \in Pubs : ~Publishing(p)
    /\ \A s \in Subs : sub[s].n > Len(conf.calls[s])
StreamEnds == <>StreamEnded
=============================================================================
