------------------------------- MODULE AskReply -------------------------------
(***************************************************************************)
(* Ask and Response over the shared pools of message contexts and response *)
(* channels.  Askers put a context into the mailbox of one actor and wait  *)
(* on the context's channel, or for a timer; the actor answers, or stashes *)
(* the message and answers a clone of the context later.  A context goes   *)
(* back to its pool when the mailbox moves past it, a channel when its     *)
(* asker is through, and both may be in use again while an earlier user    *)
(* still holds them.                                                       *)
(***************************************************************************)
EXTENDS Integers, Sequences, FiniteSets, FiniteSetsExt, SequencesExt

CONSTANTS None,
          Confs,      \* [asks, handler, faults]
          PoolSize    \* contexts that the pool starts with (contextPoolSize)

VARIABLES conf,
          ctx,        \* the contexts: message, response channel, responseClosed
          pool,       \* contextCh
          chan,       \* what is in the response channels (of capacity one)
          chanPool,   \* responseCh
          asker,      \* the goroutines that ask, one after the other their messages
          actor,      \* mailbox and stash, each with the context that is its sentinel
          dead        \* messages for which a dead letter was written

avars == <<conf, ctx, pool, chan, chanPool, asker, actor, dead>>

Fault(f) == f \in conf.faults
Askers == DOMAIN conf.asks

-----------------------------------------------------------------------------
(* Pools.  w is the record [ctx, pool] or [chan, chanPool].                *)

Blank == [msg |-> None, ch |-> None, closed |-> FALSE]
\* The context, and the state in which it is out of the pool.
getContext(w) ==
  IF w.pool # <<>> THEN [id |-> Head(w.pool), ctx |-> w.ctx, pool |-> Tail(w.pool)]
  ELSE [id |-> Len(w.ctx) + 1, ctx |-> Append(w.ctx, Blank), pool |-> w.pool]
\* A context is cleared, but for responseClosed, and put back if there is room.
Released(w, c) ==
  [ctx |-> [w.ctx EXCEPT ![c] = [Blank EXCEPT !.closed = w.ctx[c].closed]],
   pool |-> IF Len(w.pool) < PoolSize THEN Append(w.pool, c) ELSE w.pool]
ContextState == [ctx |-> ctx, pool |-> pool]

getResponseChannel ==
  IF chanPool # <<>> THEN [id |-> Head(chanPool), chan |-> chan, chanPool |-> Tail(chanPool)]
  ELSE [id |-> Len(chan) + 1, chan |-> Append(chan, <<>>), chanPool |-> chanPool]

\* A clone has the source's message and channel, and the responseClosed
\* that its last user left behind.
cloneContext(w, c) ==
  LET g == getContext(w)
  IN [id |-> g.id, pool |-> g.pool,
      ctx |-> [g.ctx EXCEPT ![g.id] = [w.ctx[c] EXCEPT !.closed = g.ctx[g.id].closed]]]

\* As if the context that was taken out were released at once.
DequeueReleases(w, box) ==
  [w |-> Released(w, Head(box.queue)), box |-> [queue |-> Tail(box.queue), sentinel |-> Head(box.queue)]]
\* Dequeue of an UnboundedMailbox [queue, sentinel]: the message becomes the
\* sentinel, the old sentinel is released.
Dequeue(w, box) ==
  [w |-> Released(w, box.sentinel),
   box |-> [queue |-> Tail(box.queue), sentinel |-> Head(box.queue)]]
Enqueue(box, c) == [box EXCEPT !.queue = Append(@, c)]

-----------------------------------------------------------------------------
EmptyBox(c) == [queue |-> <<>>, sentinel |-> c]

AInit ==
  /\ conf \in Confs
  /\ ctx = [c \in 1..PoolSize + 2 |-> Blank]
  /\ pool = [c \in 1..PoolSize |-> c]
  /\ chan = <<>> /\ chanPool = <<>>
  /\ asker = [a \in Askers |-> [pc |-> "idle", sent |-> 0, c |-> None, ch |-> None, got |-> <<>>]]
  /\ actor = [box |-> EmptyBox(PoolSize + 1), stash |-> EmptyBox(PoolSize + 2), pc |-> "idle", ready |-> conf.handler # "stash"]
  /\ dead = {}

Answers(a, v) == [asker[a] EXCEPT !.pc = "got", !.got = Append(@, v)]
Waiting(a) == asker[a].pc = "wait"
Asked(a) == <<a, asker[a].sent>>

\* BatchAsk asks the next message once the one before was answered.
NextMessage(a) == asker[a].pc = "idle" /\ asker[a].sent < conf.asks[a]
build(msg, ch) == [msg |-> msg, ch |-> ch, closed |-> FALSE]

\* Ask: build the context and hand it to the actor.  doReceive turns the
\* message away when the system is stopping, and the asker is not told.
Ask(a) ==
  LET g == getContext(ContextState)
      h == getResponseChannel
  IN
  /\ NextMessage(a)
  /\ chan' = h.chan /\ chanPool' = h.chanPool
  /\ pool' = g.pool
  /\ ctx' = [g.ctx EXCEPT ![g.id] = build(<<a, asker[a].sent + 1>>, h.id)]
  /\ asker' = [asker EXCEPT ![a] = [@ EXCEPT !.pc = "wait", !.sent = @ + 1, !.c = g.id, !.ch = h.id]]
  /\ \/ /\ actor' = [actor EXCEPT !.box = Enqueue(@, g.id)]
        /\ UNCHANGED dead
     \/ /\ Fault("stopping")
        /\ dead' = dead \cup {<<a, asker[a].sent + 1>>}
        /\ UNCHANGED actor
  /\ UNCHANGED conf

\* The message of the asker is nowhere any more, so no reply can come.
Hopeless(a) ==
  /\ chan[asker[a].ch] = <<>> /\ actor.pc # "send"
  /\ \A c \in ToSet(actor.box.queue) \cup ToSet(actor.stash.queue) : ctx[c].msg # Asked(a)
  /\ actor.pc = "turn" => ctx[actor.box.sentinel].msg # Asked(a)

Receive(a) ==
  /\ Waiting(a) /\ chan[asker[a].ch] # <<>>
  /\ asker' = [asker EXCEPT ![a] = Answers(a, chan[asker[a].ch][1])]
  /\ chan' = [chan EXCEPT ![asker[a].ch] = <<>>]
  /\ UNCHANGED <<conf, ctx, pool, chanPool, actor, dead>>
\* The timer, or the caller's context: a dead letter records the message.
Timeout(a) ==
  /\ Waiting(a) /\ (Fault("slow") \/ Hopeless(a))
  /\ asker' = [asker EXCEPT ![a] = Answers(a, None)]
  /\ dead' = dead \cup {Asked(a)}
  /\ UNCHANGED <<conf, ctx, pool, chan, chanPool, actor>>
\* The asker closes the context it was given, whoever has it now.
CloseResponse(a) ==
  /\ asker[a].pc = "got"
  /\ ctx' = [ctx EXCEPT ![asker[a].c].closed = TRUE]
  /\ asker' = [asker EXCEPT ![a].pc = "closed"]
  /\ UNCHANGED <<conf, pool, chan, chanPool, actor, dead>>
\* putResponseChannel: drain the channel, then return it.
drainAnyChannel(a) ==
  /\ asker[a].pc = "closed"
  /\ chan' = [chan EXCEPT ![asker[a].ch] = <<>>]
  /\ asker' = [asker EXCEPT ![a].pc = "drained"]
  /\ UNCHANGED <<conf, ctx, pool, chanPool, actor, dead>>
putResponseChannel(a) ==
  /\ asker[a].pc = "drained"
  /\ chanPool' = Append(chanPool, asker[a].ch)
  /\ asker' = [asker EXCEPT ![a] = [@ EXCEPT !.pc = "idle", !.ch = None]]
  /\ UNCHANGED <<conf, ctx, pool, chan, actor, dead>>

-----------------------------------------------------------------------------
(* The actor.                                                              *)

Current == actor.box.sentinel

Turn ==
  /\ actor.pc = "idle" /\ actor.box.queue # <<>>
  /\ LET d == Dequeue(ContextState, actor.box) IN
       /\ ctx' = d.w.ctx /\ pool' = d.w.pool
       /\ actor' = [actor EXCEPT !.pc = "turn", !.box = d.box]
  /\ UNCHANGED <<conf, chan, chanPool, asker, dead>>

\* Response, first half: the flag decides whether the reply is sent.
Response ==
  /\ actor.pc = "turn" /\ actor.ready
  /\ IF ctx[Current].closed
     THEN actor' = [actor EXCEPT !.pc = "idle"] /\ UNCHANGED ctx
     ELSE actor' = [actor EXCEPT !.pc = "send"] /\ ctx' = [ctx EXCEPT ![Current].closed = TRUE]
  /\ UNCHANGED <<conf, pool, chan, chanPool, asker, dead>>
\* Second half: the send, which is dropped when the channel is full.
ResponseSends ==
  /\ actor.pc = "send"
  /\ chan' = [chan EXCEPT ![ctx[Current].ch] = IF @ = <<>> THEN <<ctx[Current].msg>> ELSE @]
  /\ actor' = [actor EXCEPT !.pc = "idle"]
  /\ UNCHANGED <<conf, ctx, pool, chanPool, asker, dead>>

stash ==
  /\ actor.pc = "turn" /\ ~actor.ready
  /\ LET d == cloneContext(ContextState, Current) IN
       /\ ctx' = d.ctx /\ pool' = d.pool
       /\ actor' = [actor EXCEPT !.pc = "idle", !.stash = Enqueue(@, d.id)]
  /\ UNCHANGED <<conf, chan, chanPool, asker, dead>>
\* The actor is ready to take the stashed messages back, one by one.
unstash ==
  /\ actor.pc = "idle" /\ actor.stash.queue # <<>>
  /\ LET d == Dequeue(ContextState, actor.stash)
         e == cloneContext(d.w, Head(actor.stash.queue))
     IN /\ ctx' = e.ctx /\ pool' = e.pool
        /\ actor' = [actor EXCEPT !.ready = TRUE, !.stash = d.box, !.box = Enqueue(@, e.id)]
  /\ UNCHANGED <<conf, chan, chanPool, asker, dead>>
\* The handler does not answer; Unhandled makes the message a dead letter.
NoResponse ==
  /\ Fault("silent") /\ actor.pc = "turn"
  /\ actor' = [actor EXCEPT !.pc = "idle"]
  /\ dead' \in {dead, dead \cup {ctx[Current].msg}}
  /\ UNCHANGED <<conf, ctx, pool, chan, chanPool, asker>>

ASystem ==
  \/ \E a \in Askers : \/ Ask(a) \/ Receive(a) \/ Timeout(a)
                       \/ CloseResponse(a) \/ drainAnyChannel(a) \/ putResponseChannel(a)
  \/ Turn \/ Response \/ ResponseSends \/ stash \/ unstash \/ NoResponse
ANext == ASystem
ASpec == AInit /\ [][ANext]_avars /\ WF_avars(ASystem)

-----------------------------------------------------------------------------
OwnReply(a) == \A i \in DOMAIN asker[a].got : asker[a].got[i] \in {<<a, i>>, None}

(***************************************************************************)
(* As long as no timer fires before its time, an answer is the answer to   *)
(* the asker's own message, whatever was asked over the same context or    *)
(* channel before.                                                         *)
(***************************************************************************)
AskGetsOwnReply == Fault("slow") \/ \A a \in Askers : OwnReply(a)

(***************************************************************************)
(* "This prevents pooled response channels from receiving stale replies    *)
(* that could be consumed by a later Ask call" (receive_context.go).       *)
(***************************************************************************)
\* Does not hold: a handler that is between the check of responseClosed and the
\* send writes into a channel that meanwhile serves another Ask.
NoStaleReply == \A a \in Askers : OwnReply(a)

(***************************************************************************)
(* A context is in one place: in the pool, in a mailbox, in a stash, or    *)
(* the sentinel of one of the two; and no channel is in the pool twice, or *)
(* while an asker waits on it, or waited on by two.                        *)
(***************************************************************************)
Places == <<pool, actor.box.queue, actor.stash.queue, <<actor.box.sentinel>>, <<actor.stash.sentinel>>>>
OneOwner ==
  /\ \A c \in DOMAIN ctx : Cardinality({p \in DOMAIN Places : c \in ToSet(Places[p])}) <= 1
  /\ \A p \in DOMAIN Places : IsInjective(Places[p])
  /\ IsInjective(chanPool)
  /\ \A a \in Askers : Waiting(a) => asker[a].ch \notin ToSet(chanPool)
  /\ \A a, b \in Askers : (a # b /\ Waiting(a) /\ Waiting(b)) => asker[a].ch # asker[b].ch

(***************************************************************************)
(* A message whose asker gave up is a dead letter; one that was answered   *)
(* is not.                                                                 *)
(***************************************************************************)
TimeoutsAreDeadLetters ==
  \A a \in Askers : \A i \in DOMAIN asker[a].got :
    (asker[a].got[i] = None) <=> <<a, i>> \in dead

(***************************************************************************)
(* "responseClosed is not reset: build() overwrites it in the sync path,   *)
(* and async (Tell) never reads it" (receive_context.go): a handler that   *)
(* answers every message leaves no asker to its timer.                     *)
(***************************************************************************)
\* Does not hold: the copy of a stashed Ask is not marked open, and the answer
\* through it is dropped.
AnsweredInTime ==
  conf.faults = {} => \A a \in Askers : \A i \in DOMAIN asker[a].got : asker[a].got[i] # None

AsksEnded == \A a \in Askers : asker[a].pc = "idle" /\ asker[a].sent = conf.asks[a]
\* Every Ask returns, with an answer or without.
AsksReturn == <>AsksEnded
=============================================================================
