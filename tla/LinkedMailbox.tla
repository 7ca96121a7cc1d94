---------------------------- MODULE LinkedMailbox ----------------------------
(* UnboundedMailbox and grainMailbox: a linked queue whose nodes are the      *)
(* contexts of the messages. The node before the first message is a           *)
(* sentinel; the context that Dequeue returns is the next sentinel, and the   *)
(* Dequeue after it gives it back to the pool that all senders allocate from. *)
(* One step is one atomic access to shared memory; accesses to a node that    *)
(* only one goroutine holds are merged with the step before or after them.    *)
EXTENDS MailboxClients

CONSTANTS Nodes,        \* the contexts (bound: a sender waits when all are in use)
          Capacities    \* the capacities to explore; NoLen for an UnboundedMailbox

VARIABLES capacity, head, tail, next, len,
          message,      \* the message a context carries
          pool,         \* contextCh, or grainContextCh, and the heap
          node,         \* the context a producer holds
          prev,         \* the result of its tail swap
          old           \* the sentinel the consumer replaces

vars == <<clientVars, capacity, head, tail, next, len, message, pool, node, prev, old>>

(* UnboundedMailbox keeps no length. *)
NoLen == -1

Init ==
    /\ ClientsInit
    /\ capacity \in Capacities
    /\ head \in Nodes
    /\ tail = head
    /\ next = [n \in Nodes |-> Null]
    /\ len = 0
    /\ message = [n \in Nodes |-> Null]
    /\ pool = Nodes \ {head}
    /\ node = [p \in Producers |-> Null]
    /\ prev = [p \in Producers |-> Null]
    /\ old = Null

-----------------------------------------------------------------------------
(* Enqueue *)

(* Mutant: capacity is counted and not checked. *)
ReserveBlindly(p) ==
    /\ pc[p] = "reserve"
    /\ len' = len + 1
    /\ Goto(p, "swap")
    /\ UNCHANGED <<sent, cp, pending, taken, capacity, head, tail, next, message, pool,
                   node, prev, old>>

GetContext(p) ==
    /\ Call(p, IF capacity > 0 THEN "reserve" ELSE "swap")
    /\ \E n \in pool :
          /\ node' = [node EXCEPT ![p] = n]
          /\ message' = [message EXCEPT ![n] = Message(p)']
          /\ pool' = pool \ {n}
    /\ UNCHANGED <<cp, pending, taken, capacity, head, tail, next, len, prev, old>>

(* The load and the compare-and-swap are one step: a failed swap changes     *)
(* nothing and is tried again.                                               *)
Reserve(p) ==
    /\ pc[p] = "reserve"
    /\ len < capacity
    /\ len' = len + 1
    /\ Goto(p, "swap")
    /\ UNCHANGED <<sent, cp, pending, taken, capacity, head, tail, next, message, pool,
                   node, prev, old>>

(* ErrMailboxFull: the context is left to the garbage collector. *)
Full(p) ==
    /\ pc[p] = "reserve"
    /\ len >= capacity
    /\ message' = [message EXCEPT ![node[p]] = Null]
    /\ pool' = pool \union {node[p]}
    /\ node' = [node EXCEPT ![p] = Null]
    /\ Goto(p, "idle")
    /\ UNCHANGED <<sent, cp, pending, taken, capacity, head, tail, next, len, prev, old>>

SwapTail(p) ==
    /\ pc[p] = "swap"
    /\ next' = [next EXCEPT ![node[p]] = Null]
    /\ prev' = [prev EXCEPT ![p] = tail]
    /\ tail' = node[p]
    /\ Accepted(message[node[p]])
    /\ Goto(p, "link")
    /\ UNCHANGED <<sent, cp, taken, capacity, head, len, message, pool, node, old>>

Link(p) ==
    /\ pc[p] = "link"
    /\ next' = [next EXCEPT ![prev[p]] = node[p]]
    /\ prev' = [prev EXCEPT ![p] = Null]
    /\ node' = [node EXCEPT ![p] = Null]
    /\ Goto(p, IF capacity = 0 THEN "count" ELSE "idle")
    /\ UNCHANGED <<sent, cp, pending, taken, capacity, head, tail, len, message, pool, old>>

Count(p) ==
    /\ pc[p] = "count"
    /\ len' = len + 1
    /\ Goto(p, "idle")
    /\ UNCHANGED <<sent, cp, pending, taken, capacity, head, tail, next, message, pool,
                   node, prev, old>>

-----------------------------------------------------------------------------
(* Dequeue. It returns nil, which changes nothing, when the sentinel has no  *)
(* successor; the grain's waits if a producer is about to link one.          *)

Advance ==
    /\ cp = "idle"
    /\ next[head] # Null
    /\ old' = head
    /\ head' = next[head]
    /\ HandedOut(message[next[head]])
    /\ cp' = IF capacity = NoLen THEN "recycle" ELSE "uncount"
    /\ UNCHANGED <<pc, sent, capacity, tail, next, len, message, pool, node, prev>>

(* Mutant: only a bounded mailbox is counted down. *)
UncountBounded ==
    /\ cp = "uncount"
    /\ len' = IF capacity > 0 THEN len - 1 ELSE len
    /\ cp' = "recycle"
    /\ UNCHANGED <<pc, sent, pending, taken, capacity, head, tail, next, message, pool,
                   node, prev, old>>

Uncount ==
    /\ cp = "uncount"
    /\ len' = len - 1
    /\ cp' = "recycle"
    /\ UNCHANGED <<pc, sent, pending, taken, capacity, head, tail, next, message, pool,
                   node, prev, old>>

(* Mutant: the context that is handed out goes back to the pool at once.     *)
RecycleCurrent ==
    /\ cp = "recycle"
    /\ next' = [next EXCEPT ![old] = Null]
    /\ message' = [message EXCEPT ![old] = Null]
    /\ pool' = pool \union {old, head}
    /\ old' = Null
    /\ cp' = "handle"
    /\ UNCHANGED <<pc, sent, pending, taken, capacity, head, tail, len, node, prev>>

Recycle ==
    /\ cp = "recycle"
    /\ next' = [next EXCEPT ![old] = Null]
    /\ message' = [message EXCEPT ![old] = Null]
    /\ pool' = pool \union {old}
    /\ old' = Null
    /\ cp' = "handle"
    /\ UNCHANGED <<pc, sent, pending, taken, capacity, head, tail, len, node, prev>>

(* The handler of the message returns; it reads its context until then.      *)
EndHandle ==
    /\ cp = "handle"
    /\ cp' = "idle"
    /\ UNCHANGED <<pc, sent, pending, taken, capacity, head, tail, next, len, message,
                   pool, node, prev, old>>

-----------------------------------------------------------------------------
Enqueue(p) == GetContext(p) \/ Reserve(p) \/ Full(p) \/ SwapTail(p) \/ Link(p) \/ Count(p)

Dequeue == Advance \/ Uncount \/ Recycle \/ EndHandle

Next == Dequeue \/ \E p \in Producers : Enqueue(p)

IsEmpty == IF capacity = NoLen THEN next[head] = Null ELSE len = 0
=============================================================================
