-------------------------- MODULE SegmentedMailbox --------------------------
(* UnboundedSegmentedMailbox: a list of segments with segmentSize slots each. *)
(* Senders reserve a slot of the tail segment with a counter and append a     *)
(* segment when it is full; the consumer moves to the next segment and gives  *)
(* the old one to a pool. One step is one atomic access; taking a segment     *)
(* from the pool and clearing it is one step. The counter behind Len is left  *)
(* out: only metrics read it.                                                 *)
EXTENDS MailboxClients

CONSTANTS Segments,      \* the segments (bound: more are not allocated)
          SegmentSize    \* segmentSize, smaller than the code's 256

VARIABLES head, tail,
          writeIdx, deqIdx, next, data,   \* the fields of the segments
          segmentPool,
          seg,                            \* the tail that a producer has loaded
          idx,                            \* the slot that it has reserved
          target                          \* the segment that it appends or moves to

segmentVars == <<head, tail, writeIdx, deqIdx, next, data, segmentPool>>
vars == <<clientVars, segmentVars, seg, idx, target>>

Slots == 0..(SegmentSize - 1)

Init ==
    /\ ClientsInit
    /\ head \in Segments
    /\ tail = head
    /\ writeIdx = [s \in Segments |-> 0]
    /\ deqIdx = [s \in Segments |-> 0]
    /\ next = [s \in Segments |-> Null]
    /\ data = [s \in Segments |-> [i \in Slots |-> Null]]
    /\ segmentPool = Segments \ {head}
    /\ seg = [p \in Producers |-> Null]
    /\ idx = [p \in Producers |-> 0]
    /\ target = [p \in Producers |-> Null]

-----------------------------------------------------------------------------
(* Enqueue *)

Begin(p) ==
    /\ Call(p, "load")
    /\ UNCHANGED <<cp, pending, taken, segmentVars, seg, idx, target>>

LoadTail(p) ==
    /\ pc[p] = "load"
    /\ seg' = [seg EXCEPT ![p] = tail]
    /\ Goto(p, "reserve")
    /\ UNCHANGED <<sent, cp, pending, taken, segmentVars, idx, target>>

(* Indices from SegmentSize on are not told apart. *)
Reserve(p) ==
    LET s == seg[p] IN
    /\ pc[p] = "reserve"
    /\ idx' = [idx EXCEPT ![p] = writeIdx[s]]
    /\ IF writeIdx[s] < SegmentSize
          THEN /\ writeIdx' = [writeIdx EXCEPT ![s] = @ + 1]
               /\ Accepted(Message(p))
               /\ Goto(p, "store")
          ELSE Goto(p, "grow") /\ UNCHANGED <<writeIdx, pending>>
    /\ UNCHANGED <<sent, cp, taken, head, tail, deqIdx, next, data, segmentPool, seg, target>>

Store(p) ==
    /\ pc[p] = "store"
    /\ data' = [data EXCEPT ![seg[p]][idx[p]] = Message(p)]
    /\ Goto(p, "idle")
    /\ UNCHANGED <<sent, cp, pending, taken, head, tail, writeIdx, deqIdx, next,
                   segmentPool, seg, idx, target>>

(* The tail has a successor: help to move the tail. *)
Help(p) ==
    /\ pc[p] = "grow"
    /\ next[seg[p]] # Null
    /\ target' = [target EXCEPT ![p] = next[seg[p]]]
    /\ Goto(p, "move")
    /\ UNCHANGED <<sent, cp, pending, taken, segmentVars, seg, idx>>

NewSegment(p) ==
    /\ pc[p] = "grow"
    /\ next[seg[p]] = Null
    /\ \E s \in segmentPool :
          /\ segmentPool' = segmentPool \ {s}
          /\ writeIdx' = [writeIdx EXCEPT ![s] = 0]
          /\ deqIdx' = [deqIdx EXCEPT ![s] = 0]
          /\ next' = [next EXCEPT ![s] = Null]
          /\ data' = [data EXCEPT ![s] = [i \in Slots |-> Null]]
          /\ target' = [target EXCEPT ![p] = s]
    /\ Goto(p, "append")
    /\ UNCHANGED <<sent, cp, pending, taken, head, tail, seg, idx>>

(* A producer that loses drops its segment, and loads the tail again. *)
AppendSegment(p) ==
    /\ pc[p] = "append"
    /\ IF next[seg[p]] = Null
          THEN next' = [next EXCEPT ![seg[p]] = target[p]] /\ Goto(p, "move")
          ELSE Goto(p, "load") /\ UNCHANGED next
    /\ UNCHANGED <<sent, cp, pending, taken, head, tail, writeIdx, deqIdx, data,
                   segmentPool, seg, idx, target>>

MoveTail(p) ==
    /\ pc[p] = "move"
    /\ tail' = IF tail = seg[p] THEN target[p] ELSE tail
    /\ Goto(p, "load")
    /\ UNCHANGED <<sent, cp, pending, taken, head, writeIdx, deqIdx, next, data,
                   segmentPool, seg, idx, target>>

-----------------------------------------------------------------------------
(* Dequeue *)

Take ==
    LET i == deqIdx[head] IN
    /\ cp = "idle"
    /\ i < writeIdx[head]
    /\ data[head][i] # Null
    /\ HandedOut(data[head][i])
    /\ data' = [data EXCEPT ![head][i] = Null]
    /\ deqIdx' = [deqIdx EXCEPT ![head] = i + 1]
    /\ UNCHANGED <<pc, sent, cp, head, tail, writeIdx, next, segmentPool, seg, idx, target>>

(* The consumer finds no reserved slot and goes on to look for a successor.  *)
Drained ==
    /\ cp = "idle"
    /\ deqIdx[head] >= writeIdx[head]
    /\ cp' = "drained"
    /\ UNCHANGED <<pc, sent, pending, taken, segmentVars, seg, idx, target>>

(* Dequeue returns nil. *)
ReturnNil ==
    /\ cp = "drained"
    /\ next[head] = Null
    /\ cp' = "idle"
    /\ UNCHANGED <<pc, sent, pending, taken, segmentVars, seg, idx, target>>

MoveHead ==
    /\ cp = "drained"
    /\ next[head] # Null
    /\ head' = next[head]
    /\ next' = [next EXCEPT ![head] = Null]
    /\ segmentPool' = segmentPool \union {head}
    /\ cp' = "idle"
    /\ UNCHANGED <<pc, sent, pending, taken, tail, writeIdx, deqIdx, data, seg, idx, target>>

-----------------------------------------------------------------------------
Enqueue(p) == \/ Begin(p) \/ LoadTail(p) \/ Reserve(p) \/ Store(p)
              \/ Help(p) \/ NewSegment(p) \/ AppendSegment(p) \/ MoveTail(p)

Dequeue == Take \/ Drained \/ ReturnNil \/ MoveHead

Next == Dequeue \/ \E p \in Producers : Enqueue(p)

Spec == Init /\ [][Next]_vars

(* "Messages already enqueued remain in the queue until dequeued": when all  *)
(* calls of Enqueue have returned, a message that was not dequeued is in a   *)
(* segment that Dequeue reaches from the head.                               *)
EnqueuedIsReachable ==
    AtRest /\ pending # <<>> => deqIdx[head] < writeIdx[head] \/ next[head] # Null
=============================================================================
