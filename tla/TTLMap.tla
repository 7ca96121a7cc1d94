-------------------------------- MODULE TTLMap --------------------------------
(***************************************************************************)
(* The map with expiring entries (internal/xsync/ttlmap.go) that the topic  *)
(* actor remembers processed messages in: entries in one slice in insertion *)
(* order, an index from keys to slots, a head before which all slots are    *)
(* dead, eviction from the head on every Set and compaction once half the   *)
(* slice is dead.  Slots count from 1 here.  Every operation holds the lock. *)
(***************************************************************************)
EXTENDS Integers, Sequences, FiniteSets, SequencesExt, Functions

CONSTANTS Keys, TTL, MaxTime, MaxOps

VARIABLES tm,    \* the map
          now,   \* the clock
          last,  \* history: when each key was last set, and Get did not drop it
          ops    \* the operations so far

tvars == <<tm, now, last, ops>>

NewTTLMap == [items |-> <<>>, order |-> <<>>, head |-> 1]

\* evict: the head moves over the expired entries and stops at a live one.
evict(s, t) ==
    LET live == {i \in s.head..Len(s.order) : t < s.order[i].expireAt}
        head == IF live = {} THEN Len(s.order) + 1 ELSE Min(live)
        gone == {k \in DOMAIN s.items : s.items[k] < head}
    IN [s EXCEPT !.head = head, !.items = Restrict(s.items, DOMAIN s.items \ gone)]

\* maybeCompact: nothing while the dead prefix is short; without holes the live
\* region moves as it is, otherwise only the slots the index still names.
maybeCompact(s) ==
    IF s.head = 1 \/ s.head - 1 < Len(s.order) \div 2 THEN s
    ELSE LET slots == [i \in 1..(Len(s.order) - s.head + 1) |-> s.head + i - 1]
             Kept(i) == s.order[i].key \in DOMAIN s.items /\ s.items[s.order[i].key] = i
             kept == IF Cardinality(DOMAIN s.items) = Len(slots) THEN slots ELSE SelectSeq(slots, Kept)
             order == [i \in DOMAIN kept |-> s.order[kept[i]]]
         IN [items |-> [k \in {order[i].key : i \in DOMAIN order} |-> CHOOSE i \in DOMAIN order : order[i].key = k],
             order |-> order, head |-> 1]

\* Set: an entry the index names is refreshed in place, else one is appended.
Set(s, k, t) ==
    LET entry == [key |-> k, expireAt |-> t + TTL]
        put == IF k \in DOMAIN s.items THEN [s EXCEPT !.order[s.items[k]] = entry]
               ELSE [s EXCEPT !.items = (k :> (Len(s.order) + 1)) @@ @, !.order = Append(@, entry)]
    IN maybeCompact(evict(put, t))

\* Get: found while its own deadline is ahead; an expired key is dropped from the index.
Found(s, k, t) == k \in DOMAIN s.items /\ t < s.order[s.items[k]].expireAt
Get(s, k, t) ==
    IF Found(s, k, t) THEN s ELSE [s EXCEPT !.items = Restrict(s.items, DOMAIN s.items \ {k})]

TTInit == tm = NewTTLMap /\ now = 0 /\ last = <<>> /\ ops = 0

TTSet(k) ==
    /\ ops < MaxOps /\ ops' = ops + 1
    /\ tm' = Set(tm, k, now) /\ last' = (k :> now) @@ last
    /\ UNCHANGED now

TTGet(k) ==
    /\ ops < MaxOps /\ ops' = ops + 1
    /\ tm' = Get(tm, k, now)
    /\ UNCHANGED <<now, last>>

Reset ==
    /\ ops < MaxOps /\ ops' = ops + 1
    /\ tm' = NewTTLMap /\ last' = <<>>
    /\ UNCHANGED now

Tick == now < MaxTime /\ now' = now + 1 /\ UNCHANGED <<tm, last, ops>>

TTNext == Reset \/ Tick \/ \E k \in Keys : TTSet(k) \/ TTGet(k)
TTSpec == TTInit /\ [][TTNext]_tvars

---------------------------------------------------------------------------
\* What Get answers is what a plain map of deadlines would: a key is found just
\* while less than TTL has passed since it was last set, whatever was evicted,
\* dropped, refreshed or compacted in between (ttlmap.go).
TTLMapExact ==
    \A k \in Keys : Found(tm, k, now) <=> (k \in DOMAIN last /\ now < last[k] + TTL)

\* The index names live slots, each of its own key: what compaction and the
\* fast path's slot count rely on.
IndexSound ==
    \A k \in DOMAIN tm.items : tm.items[k] \in tm.head..Len(tm.order) /\ tm.order[tm.items[k]].key = k
=============================================================================
