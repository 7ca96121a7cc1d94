---------------------------- MODULE MCMailboxes ----------------------------
(* The mailboxes that keep their promise, in one instance: the initial state *)
(* chooses one of them.                                                      *)
EXTENDS MailboxClients, SequencesExt

CONSTANTS Nodes, Capacities, RingSizes, Kinds,
          Shared   \* producers that send in the name of one sender

VARIABLES kind,
          capacity, head, tail, next, len, message, pool, node, prev, old,
          boxes, active, pendingOf, activeSenders, length, current,
          ringSize, heap, ring, disposed

linkedVars == <<capacity, head, tail, next, len, message, pool, node, prev, old>>
fairVars == <<boxes, active, pendingOf, activeSenders, current>>
lockedVars == <<ringSize, heap, ring, disposed>>
vars == <<kind, clientVars, linkedVars, fairVars, lockedVars, length>>

SenderOf(m) == IF m[1] \in Shared THEN "shared" ELSE m[1]

(* UnboundedMailbox, and grainMailbox without and with a capacity. *)
MCCapacities == {-1, 0, 1}

(* Later messages of a producer are more urgent. *)
Less(m, n) == m[2] > n[2]

Symmetry == Permutations(Nodes) \union Permutations(Shared)

Linked == INSTANCE LinkedMailbox
Fair == INSTANCE FairMailbox
Locked == INSTANCE LockedMailbox

Init ==
    /\ kind \in Kinds
    /\ Linked!Init /\ Fair!Init /\ Locked!Init
    /\ kind # "linked" => capacity = 0
    /\ kind # "locked" => ringSize = 0

Next ==
    \/ kind = "linked" /\ Linked!Next /\ UNCHANGED <<kind, fairVars, lockedVars, length>>
    \/ kind = "fair" /\ Fair!Next /\ UNCHANGED <<kind, linkedVars, lockedVars>>
    \/ kind = "locked" /\ Locked!Next /\ UNCHANGED <<kind, linkedVars, fairVars>>

Spec == Init /\ [][Next]_vars

Discipline == CASE kind = "fair" -> "sender"
                [] kind = "locked" /\ ringSize = 0 -> "priority"
                [] OTHER -> "arrival"

Limit == IF kind = "linked" /\ capacity > 0 THEN capacity ELSE ringSize

Queue == INSTANCE MailboxQueue WITH discipline <- Discipline, limit <- Limit

(* Every mailbox implements the abstract queue: nothing is handed out twice  *)
(* or out of order, and a capacity is never exceeded.                        *)
Implements == Queue!Spec

IsEmpty == CASE kind = "linked" -> Linked!IsEmpty
             [] kind = "fair"   -> Fair!IsEmpty
             [] kind = "locked" -> Locked!IsEmpty

(* Dequeue would return a message. *)
Available == CASE kind = "linked" -> next[head] # Null
               [] kind = "fair"   -> Fair!Visible(activeSenders)
               [] kind = "locked" -> IF ringSize = 0 THEN length # 0 ELSE ring # <<>>

(* The dispatcher relies on this when it lets an actor go: when no call is   *)
(* under way, IsEmpty is true exactly if no accepted message is left.        *)
EmptyMeansEmpty == AtRest => (IsEmpty <=> pending = <<>>)

(* When no call is under way and messages of senders that use one goroutine  *)
(* are left, Dequeue finds a message.                                        *)
NothingStuck ==
    /\ AtRest
    /\ ~disposed
    /\ \E i \in DOMAIN pending : kind = "fair" => pending[i][1] \notin Shared
    => Available

(* "If a sender remains non-empty after a pop, it is re-enqueued": also for   *)
(* a sender in whose name several goroutines send, as NoSender.              *)
NoSenderStuck == kind = "fair" /\ AtRest /\ pending # <<>> => Available

(* A context that a handler uses, or that is in the queue, is not in the     *)
(* pool, and carries the message that Dequeue handed out.                    *)
ContextInUse ==
    /\ head \notin pool /\ tail \notin pool
    /\ cp = "handle" /\ kind = "linked" => message[head] = Last(taken)

(* Pop is called on a heap that has an item: container/heap panics without.  *)
PopFindsItem == kind = "locked" /\ cp = "pop" => heap # {}
=============================================================================
