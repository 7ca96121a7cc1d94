---------------------------- MODULE FairMailbox ----------------------------
(* UnboundedFairMailbox: a sub-queue for every sender and a queue of the     *)
(* senders that have messages, served in turn. The sub-queues are            *)
(* UnboundedMailboxes and the queue of senders has the same two steps: an    *)
(* element that was swapped in and is not linked yet hides itself and        *)
(* everything after it.                                                      *)
EXTENDS MailboxClients, SequencesExt

CONSTANTS SenderOf(_)   \* the sender of a message (deriveSenderKey)

VARIABLES boxes,          \* senderBox.mailbox: entries [value, linked]
          active,         \* senderBox.active
          pendingOf,      \* senderBox.pending
          activeSenders,  \* entries [value, linked]
          length,
          current         \* the sender that Dequeue serves

vars == <<clientVars, boxes, active, pendingOf, activeSenders, length, current>>

Senders == {SenderOf(m) : m \in Messages}

(* The sender of the message that producer p is sending. *)
Key(p) == SenderOf(Message(p))

Init ==
    /\ ClientsInit
    /\ boxes = [s \in Senders |-> <<>>]
    /\ active = [s \in Senders |-> FALSE]
    /\ pendingOf = [s \in Senders |-> 0]
    /\ activeSenders = <<>>
    /\ length = 0
    /\ current = Null

Linked(queue, v) ==
    [i \in DOMAIN queue |-> [queue[i] EXCEPT !.linked = @ \/ queue[i].value = v]]

(* dequeue finds an element. *)
Visible(queue) == queue # <<>> /\ queue[1].linked

-----------------------------------------------------------------------------
(* Enqueue *)

EnqueueSwap(p) ==
    /\ Call(p, "link")
    /\ boxes' = [boxes EXCEPT ![Key(p)'] = Append(@, [value |-> Message(p)', linked |-> FALSE])]
    /\ Accepted(Message(p)')
    /\ UNCHANGED <<cp, taken, active, pendingOf, activeSenders, length, current>>

EnqueueLink(p) ==
    /\ pc[p] = "link"
    /\ boxes' = [boxes EXCEPT ![Key(p)] = Linked(@, Message(p))]
    /\ Goto(p, "count")
    /\ UNCHANGED <<sent, cp, pending, taken, active, pendingOf, activeSenders, length,
                   current>>

Count(p) ==
    /\ pc[p] = "count"
    /\ length' = length + 1
    /\ Goto(p, "countSender")
    /\ UNCHANGED <<sent, cp, pending, taken, boxes, active, pendingOf, activeSenders, current>>

CountSender(p) ==
    /\ pc[p] = "countSender"
    /\ pendingOf' = [pendingOf EXCEPT ![Key(p)] = @ + 1]
    /\ Goto(p, IF pendingOf[Key(p)] = 0 THEN "activate" ELSE "idle")
    /\ UNCHANGED <<sent, cp, pending, taken, boxes, active, activeSenders, length, current>>

(* The compare-and-swap of active and the swap into the queue of senders,    *)
(* which nobody can tell apart: the flag alone keeps others from activating. *)
Activate(p) ==
    /\ pc[p] = "activate"
    /\ IF active[Key(p)]
          THEN Goto(p, "idle") /\ UNCHANGED <<active, activeSenders>>
          ELSE /\ active' = [active EXCEPT ![Key(p)] = TRUE]
               /\ activeSenders' = Append(activeSenders, [value |-> Key(p), linked |-> FALSE])
               /\ Goto(p, "linkSender")
    /\ UNCHANGED <<sent, cp, pending, taken, boxes, pendingOf, length, current>>

LinkSender(p) ==
    /\ pc[p] = "linkSender"
    /\ activeSenders' = Linked(activeSenders, Key(p))
    /\ Goto(p, "idle")
    /\ UNCHANGED <<sent, cp, pending, taken, boxes, active, pendingOf, length, current>>

-----------------------------------------------------------------------------
(* Dequeue *)

NextSender ==
    /\ cp = "idle"
    /\ Visible(activeSenders)
    /\ current' = Head(activeSenders).value
    /\ activeSenders' = Tail(activeSenders)
    /\ cp' = "pop"
    /\ UNCHANGED <<pc, sent, pending, taken, boxes, active, pendingOf, length>>

PopMessage ==
    /\ cp = "pop"
    /\ Visible(boxes[current])
    /\ boxes' = [boxes EXCEPT ![current] = Tail(@)]
    /\ HandedOut(Head(boxes[current]).value)
    /\ cp' = "uncount"
    /\ UNCHANGED <<pc, sent, active, pendingOf, activeSenders, length, current>>

(* "per-sender queue was drained concurrently; mark inactive"                *)
PopNothing ==
    /\ cp = "pop"
    /\ ~Visible(boxes[current])
    /\ active' = [active EXCEPT ![current] = FALSE]
    /\ current' = Null
    /\ cp' = "idle"
    /\ UNCHANGED <<pc, sent, pending, taken, boxes, pendingOf, activeSenders, length>>

Uncount ==
    /\ cp = "uncount"
    /\ length' = length - 1
    /\ cp' = "uncountSender"
    /\ UNCHANGED <<pc, sent, pending, taken, boxes, active, pendingOf, activeSenders, current>>

(* A sender with messages left goes to the end of the queue; its own link    *)
(* step is merged with the swap, as the consumer is the only one who waits   *)
(* for it.                                                                   *)
Requeue(s) == activeSenders' = Append(activeSenders, [value |-> s, linked |-> TRUE])

UncountSender ==
    /\ cp = "uncountSender"
    /\ pendingOf' = [pendingOf EXCEPT ![current] = @ - 1]
    /\ IF pendingOf[current] > 1
          THEN Requeue(current) /\ current' = Null /\ cp' = "idle"
          ELSE cp' = "deactivate" /\ UNCHANGED <<activeSenders, current>>
    /\ UNCHANGED <<pc, sent, pending, taken, boxes, active, length>>

(* finalizeSender; pending is never negative here, so it is not stored.      *)
Deactivate ==
    /\ cp = "deactivate"
    /\ active' = [active EXCEPT ![current] = FALSE]
    /\ cp' = "recheck"
    /\ UNCHANGED <<pc, sent, pending, taken, boxes, pendingOf, activeSenders, length, current>>

(* Mutant: the sender is not looked at again after it became inactive.       *)
RecheckNothing ==
    /\ cp = "recheck"
    /\ current' = Null
    /\ cp' = "idle"
    /\ UNCHANGED <<pc, sent, pending, taken, boxes, active, pendingOf, activeSenders, length>>

Recheck ==
    /\ cp = "recheck"
    /\ IF pendingOf[current] > 0 /\ ~active[current]
          THEN active' = [active EXCEPT ![current] = TRUE] /\ Requeue(current)
          ELSE UNCHANGED <<active, activeSenders>>
    /\ current' = Null
    /\ cp' = "idle"
    /\ UNCHANGED <<pc, sent, pending, taken, boxes, pendingOf, length>>

-----------------------------------------------------------------------------
Enqueue(p) == \/ EnqueueSwap(p) \/ EnqueueLink(p) \/ Count(p) \/ CountSender(p)
              \/ Activate(p) \/ LinkSender(p)

Dequeue == \/ NextSender \/ PopMessage \/ PopNothing \/ Uncount \/ UncountSender
           \/ Deactivate \/ Recheck

Next == Dequeue \/ \E p \in Producers : Enqueue(p)

IsEmpty == length = 0
=============================================================================
