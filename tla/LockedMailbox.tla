--------------------------- MODULE LockedMailbox ---------------------------
(* UnboundedPriorityMailBox, a heap under a lock with a counter beside it,   *)
(* and BoundedMailbox, a ring buffer from a library that makes senders wait  *)
(* while it is full and can be disposed.                                     *)
EXTENDS MailboxClients, SequencesExt

CONSTANTS Less(_, _),   \* the PriorityFunc
          RingSizes     \* capacities of a BoundedMailbox; 0 for a priority mailbox

VARIABLES ringSize,
          heap,         \* the items of the heap
          length,       \* its counter
          ring,         \* entries [value, published] of the ring buffer
          disposed

vars == <<clientVars, ringSize, heap, length, ring, disposed>>

Init ==
    /\ ClientsInit
    /\ ringSize \in RingSizes
    /\ heap = {}
    /\ length = 0
    /\ ring = <<>>
    /\ disposed = FALSE

-----------------------------------------------------------------------------
(* UnboundedPriorityMailBox *)

(* Mutant: the counter is raised before the item is in the heap. *)
PushAfterCount(p) ==
    /\ ringSize = 0
    /\ \/ /\ Call(p, "count")
          /\ length' = length + 1
          /\ UNCHANGED <<heap, pending>>
       \/ /\ pc[p] = "count"
          /\ heap' = heap \union {Message(p)}
          /\ Accepted(Message(p))
          /\ Goto(p, "idle")
          /\ UNCHANGED <<sent, length>>
    /\ UNCHANGED <<cp, taken, ringSize, ring, disposed>>

Push(p) ==
    /\ ringSize = 0
    /\ Call(p, "count")
    /\ heap' = heap \union {Message(p)'}
    /\ Accepted(Message(p)')
    /\ UNCHANGED <<cp, taken, ringSize, length, ring, disposed>>

Count(p) ==
    /\ pc[p] = "count"
    /\ length' = length + 1
    /\ Goto(p, "idle")
    /\ UNCHANGED <<sent, cp, pending, taken, ringSize, heap, ring, disposed>>

CheckEmpty ==
    /\ ringSize = 0
    /\ cp = "idle"
    /\ length # 0
    /\ cp' = "pop"
    /\ UNCHANGED <<pc, sent, pending, taken, ringSize, heap, length, ring, disposed>>

(* The items that container/heap may pop. *)
Top(items) == {m \in items : \A n \in items : ~Less(n, m)}

Pop ==
    /\ cp = "pop"
    /\ \E m \in Top(heap) : heap' = heap \ {m} /\ HandedOut(m)
    /\ cp' = "uncount"
    /\ UNCHANGED <<pc, sent, ringSize, length, ring, disposed>>

Uncount ==
    /\ cp = "uncount"
    /\ length' = length - 1
    /\ cp' = "idle"
    /\ UNCHANGED <<pc, sent, pending, taken, ringSize, heap, ring, disposed>>

-----------------------------------------------------------------------------
(* BoundedMailbox. A sender claims a slot, if there is one, and publishes    *)
(* its message in it.                                                        *)

Claim(p) ==
    /\ ~disposed
    /\ Len(ring) < ringSize
    /\ Call(p, "publish")
    /\ ring' = Append(ring, [value |-> Message(p)', published |-> FALSE])
    /\ Accepted(Message(p)')
    /\ UNCHANGED <<cp, taken, ringSize, heap, length, disposed>>

(* A disposed buffer refuses messages; doReceive makes them dead letters.    *)
Refuse(p) ==
    /\ disposed
    /\ Call(p, "idle")
    /\ UNCHANGED <<cp, pending, taken, ringSize, heap, length, ring, disposed>>

Publish(p) ==
    /\ pc[p] = "publish"
    /\ ring' = [i \in DOMAIN ring |->
                   [ring[i] EXCEPT !.published = @ \/ ring[i].value = Message(p)]]
    /\ Goto(p, "idle")
    /\ UNCHANGED <<sent, cp, pending, taken, ringSize, heap, length, disposed>>

(* Dequeue sees a claimed slot and waits until it is published. *)
Get ==
    /\ cp = "idle"
    /\ ~disposed
    /\ ring # <<>> /\ Head(ring).published
    /\ ring' = Tail(ring)
    /\ HandedOut(Head(ring).value)
    /\ UNCHANGED <<pc, sent, cp, ringSize, heap, length, disposed>>

(* PID.reset, when the actor stops. *)
Dispose ==
    /\ ringSize > 0
    /\ ~disposed
    /\ disposed' = TRUE
    /\ UNCHANGED <<clientVars, ringSize, heap, length, ring>>

-----------------------------------------------------------------------------
Enqueue(p) == Push(p) \/ Count(p) \/ Claim(p) \/ Refuse(p) \/ Publish(p)

Dequeue == CheckEmpty \/ Pop \/ Uncount \/ Get

Next == Dequeue \/ Dispose \/ \E p \in Producers : Enqueue(p)

IsEmpty == IF ringSize = 0 THEN length = 0 ELSE ring = <<>>
=============================================================================
