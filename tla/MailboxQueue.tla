---------------------------- MODULE MailboxQueue ----------------------------
(* What a mailbox promises the actor that owns it, whatever its              *)
(* implementation: a message that was accepted is handed out at most once,   *)
(* in the order of the mailbox's discipline, and a mailbox with a limit      *)
(* never holds more messages than that.                                      *)
EXTENDS Integers, Sequences, SequencesExt

CONSTANTS Messages,      \* the messages that may be sent
          SenderOf(_),   \* the sender of a message
          Less(_, _)     \* the PriorityFunc of a priority mailbox

VARIABLES discipline,    \* "arrival", "sender" or "priority"
          limit,         \* the capacity, 0 for an unbounded mailbox
          pending,       \* accepted messages, in the order of acceptance
          taken          \* messages handed out, in that order

vars == <<discipline, limit, pending, taken>>

Disciplines == {"arrival", "sender", "priority"}

Init == /\ discipline \in Disciplines
        /\ limit \in Nat
        /\ pending = <<>>
        /\ taken = <<>>

Accept(m) ==
    /\ m \notin ToSet(pending \o taken)
    /\ limit > 0 => Len(pending) < limit
    /\ pending' = Append(pending, m)
    /\ UNCHANGED <<discipline, limit, taken>>

(* The i-th pending message may be handed out next. *)
MayTake(i) ==
    LET m == pending[i] IN
    CASE discipline = "arrival"  -> i = 1
      [] discipline = "sender"   -> \A j \in 1..(i-1) : SenderOf(pending[j]) # SenderOf(m)
      [] discipline = "priority" -> \A j \in DOMAIN pending : ~Less(pending[j], m)

Take(i) ==
    /\ MayTake(i)
    /\ taken' = Append(taken, pending[i])
    /\ pending' = RemoveAt(pending, i)
    /\ UNCHANGED <<discipline, limit>>

Next == \/ \E m \in Messages : Accept(m)
        \/ \E i \in 1..Len(pending) : Take(i)

Spec == Init /\ [][Next]_vars
=============================================================================
