--------------------------- MODULE MailboxClients ---------------------------
(* What the models of the mailboxes share: the goroutines that call Enqueue, *)
(* one worker at a time that calls Dequeue, and the history of both.         *)
EXTENDS Integers, Sequences

CONSTANTS Producers,   \* goroutines that send
          MaxSend,     \* bound: how many messages each of them sends
          Null

VARIABLES pc,        \* where a producer is inside Enqueue, "idle" outside
          sent,      \* how many messages a producer has begun to send
          cp,        \* where the consumer is inside Dequeue, "idle" outside
          pending,   \* history: the messages accepted and not handed out
          taken      \* history: the messages Dequeue handed out

clientVars == <<pc, sent, cp, pending, taken>>

Messages == Producers \X (1..MaxSend)

(* The message that producer p is sending. *)
Message(p) == <<p, sent[p]>>

ClientsInit == /\ pc = [p \in Producers |-> "idle"]
               /\ sent = [p \in Producers |-> 0]
               /\ cp = "idle"
               /\ pending = <<>>
               /\ taken = <<>>

Goto(p, label) == pc' = [pc EXCEPT ![p] = label]

(* Producer p calls Enqueue with its next message. *)
Call(p, label) == /\ pc[p] = "idle"
                  /\ sent[p] < MaxSend
                  /\ sent' = [sent EXCEPT ![p] = @ + 1]
                  /\ Goto(p, label)

Accepted(m) == pending' = Append(pending, m)

HandedOut(m) == /\ pending' = SelectSeq(pending, LAMBDA x : x # m)
                /\ taken' = Append(taken, m)

(* No call of Enqueue or Dequeue is under way. *)
AtRest == cp = "idle" /\ \A p \in Producers : pc[p] = "idle"
=============================================================================
