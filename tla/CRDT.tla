--------------------------------- MODULE CRDT ---------------------------------
(***************************************************************************)
(* The replicated data types of package crdt, their conversion to and from *)
(* the wire (internal/ddata), and replicas of one key that exchange deltas *)
(* or full states.                                                         *)
(*                                                                         *)
(* A Go map is a function that is 0 or empty where the map has no entry,   *)
(* and a slice of dots is the set of its dots.                             *)
(***************************************************************************)
EXTENDS Integers, Sequences, FiniteSets, FiniteSetsExt

CONSTANTS Nodes,      \* the node identifiers, natural numbers for their order
          Elements,   \* the elements and keys that are used
          None,
          Confs       \* the scenarios, records [kind, mode, writers, ops]

-----------------------------------------------------------------------------
Zero == [n \in Nodes |-> 0]
Most(x, y) == IF y > x THEN y ELSE x

\* A vector clock, or a counter's state, merged entry by entry.
MergeClock(c, d) == [n \in Nodes |-> Most(c[n], d[n])]

(* Flag. *)
NewFlag == [enabled |-> FALSE, dirty |-> FALSE]
FlagEnable(x) == IF x.enabled THEN x ELSE [enabled |-> TRUE, dirty |-> TRUE]
FlagMerge(x, o) == [enabled |-> x.enabled \/ o.enabled, dirty |-> FALSE]
FlagDelta(x) == IF x.dirty THEN x ELSE None

(* GCounter: the delta only remembers which entries changed. *)
NewGCounter == [state |-> Zero, delta |-> {}]
GCounterIncrement(c, n) == [state |-> [c.state EXCEPT ![n] = @ + 1], delta |-> c.delta \cup {n}]
GCounterMerge(c, o) == [state |-> MergeClock(c.state, o.state), delta |-> c.delta]
GCounterDelta(c) ==
  IF c.delta = {} THEN None
  ELSE [state |-> [n \in Nodes |-> IF n \in c.delta THEN c.state[n] ELSE 0], delta |-> {}]
GCounterValue(c) == MapThenSumSet(LAMBDA n : c.state[n], Nodes)

(* PNCounter. *)
NewPNCounter == [inc |-> NewGCounter, dec |-> NewGCounter]
PNCounterIncrement(c, n) == [c EXCEPT !.inc = GCounterIncrement(c.inc, n)]
PNCounterDecrement(c, n) == [c EXCEPT !.dec = GCounterIncrement(c.dec, n)]
PNCounterMerge(c, o) == [inc |-> GCounterMerge(c.inc, o.inc), dec |-> GCounterMerge(c.dec, o.dec)]
PNCounterDelta(c) ==
  LET i == GCounterDelta(c.inc) d == GCounterDelta(c.dec) IN
  IF i = None /\ d = None THEN None
  ELSE [inc |-> IF i = None THEN NewGCounter ELSE i, dec |-> IF d = None THEN NewGCounter ELSE d]
PNCounterValue(c) == GCounterValue(c.inc) - GCounterValue(c.dec)

(* LWWRegister: the later write wins, the greater node breaks ties. *)
NewLWWRegister == [value |-> None, timestamp |-> 0, node |-> 0, dirty |-> FALSE]
LWWSet(value, timestamp, n) == [value |-> value, timestamp |-> timestamp, node |-> n, dirty |-> TRUE]
\* As if equal timestamps were not broken by the node.
LWWLaterTies(r, o) == o.timestamp >= r.timestamp
LWWLater(r, o) == o.timestamp > r.timestamp \/ (o.timestamp = r.timestamp /\ o.node > r.node)
LWWReset(r) == [value |-> r.value, timestamp |-> r.timestamp, node |-> r.node, dirty |-> FALSE]
LWWMerge(r, o) == LWWReset(IF LWWLater(r, o) THEN o ELSE r)
LWWDelta(r) == IF r.dirty THEN r ELSE None

(* Dots: the identities of single writes. *)
Dot(n, c) == [node |-> n, counter |-> c]
isDominated(d, clock) == d.counter <= clock[d.node]
\* The dots of mine that a merge keeps: those the other side has not seen,
\* or has seen and still holds.
Kept(mine, theirs, clock) == {d \in mine : ~isDominated(d, clock) \/ d \in theirs}

(* MVRegister: the writes that no other write has seen. *)
NewMVRegister == [entries |-> {}, clock |-> Zero, dirty |-> FALSE]
MVSet(r, n, value) ==
  LET clock == [r.clock EXCEPT ![n] = @ + 1] IN
  [entries |-> {[value |-> value, dot |-> Dot(n, clock[n])]}, clock |-> clock, dirty |-> TRUE]
MVKept(mine, theirs, clock) ==
  {e \in mine : ~isDominated(e.dot, clock) \/ e.dot \in {x.dot : x \in theirs}}
MVMerge(r, o) ==
  [entries |-> MVKept(r.entries, o.entries, o.clock) \cup MVKept(o.entries, r.entries, r.clock),
   clock |-> MergeClock(r.clock, o.clock), dirty |-> FALSE]
MVDelta(r) == IF r.dirty THEN r ELSE None

(* ORSet: adds win over the removes that have not seen them. *)
NoDots == [e \in Elements |-> {}]
NewORSet == [entries |-> NoDots, clock |-> Zero, added |-> NoDots, removed |-> NoDots]
ORSetAdd(s, n, e) ==
  LET clock == [s.clock EXCEPT ![n] = @ + 1]
      d == Dot(n, clock[n])
  IN [entries |-> [s.entries EXCEPT ![e] = @ \cup {d}], clock |-> clock,
      added |-> [s.added EXCEPT ![e] = @ \cup {d}], removed |-> s.removed]
ORSetRemove(s, e) ==
  IF s.entries[e] = {} THEN s
  ELSE [s EXCEPT !.removed[e] = @ \cup s.entries[e], !.entries[e] = {}]
ORSetContains(s, e) == s.entries[e] # {}
ORSetElements(s) == {e \in Elements : ORSetContains(s, e)}

ORSetMerge(s, o) ==
  [entries |-> [e \in Elements |-> Kept(s.entries[e], o.entries[e], o.clock) \cup Kept(o.entries[e], s.entries[e], s.clock)],
   clock |-> MergeClock(s.clock, o.clock), added |-> NoDots, removed |-> NoDots]

\* The delta holds the new dots, with the clock of every node that made one
\* of them, raised to the removed dots.
Highest(S) == Max({0} \cup S)
ORSetDelta(s) ==
  LET new == UNION {s.added[e] : e \in Elements}
      gone == UNION {s.removed[e] : e \in Elements}
  IN IF new = {} /\ gone = {} THEN None
     ELSE [entries |-> s.added,
           clock |-> [n \in Nodes |-> Highest({s.clock[n] : d \in {x \in new : x.node = n}} \cup {d.counter : d \in {x \in gone : x.node = n}})],
           added |-> NoDots, removed |-> NoDots]

ORSetCompact(s) ==
  [s EXCEPT !.entries = [e \in Elements |-> {d \in s.entries[e] : \A x \in s.entries[e] : x.node = d.node => x.counter <= d.counter}],
            !.added = NoDots, !.removed = NoDots]

(* ORMap: an ORSet of keys, each with a value that is itself replicated    *)
(* data (a GCounter here).  Its delta is its whole state.                  *)
NewORMap == [keys |-> NewORSet, values |-> [e \in Elements |-> None], dirty |-> FALSE]
ORMapSet(m, n, e, value) ==
  [keys |-> ORSetAdd(m.keys, n, e),
   values |-> [m.values EXCEPT ![e] = IF @ = None THEN value ELSE GCounterMerge(@, value)], dirty |-> TRUE]
ORMapRemove(m, e) ==
  IF ~ORSetContains(m.keys, e) THEN m
  ELSE [keys |-> ORSetRemove(m.keys, e), values |-> [m.values EXCEPT ![e] = None], dirty |-> TRUE]
ORMapMerge(m, o) ==
  LET keys == ORSetMerge(m.keys, o.keys) IN
  [keys |-> keys,
   values |-> [e \in Elements |->
                 CASE ~ORSetContains(keys, e) -> None
                   [] m.values[e] # None /\ o.values[e] # None -> GCounterMerge(m.values[e], o.values[e])
                   [] OTHER -> IF m.values[e] # None THEN m.values[e] ELSE o.values[e]],
   dirty |-> FALSE]
ORMapDelta(m) == IF m.dirty THEN m ELSE None
ORMapCompact(m) ==
  [keys |-> ORSetCompact(m.keys),
   values |-> [e \in Elements |-> IF ORSetContains(m.keys, e) THEN m.values[e] ELSE None], dirty |-> FALSE]

-----------------------------------------------------------------------------
(* One replicated key of a kind: New, Merge, Delta, ResetDelta, Compact and *)
(* the conversion to and from the wire.                                    *)

New(kind) ==
  CASE kind = "flag" -> NewFlag [] kind = "gcounter" -> NewGCounter [] kind = "pncounter" -> NewPNCounter
    [] kind = "lww" -> NewLWWRegister [] kind = "mv" -> NewMVRegister [] kind = "orset" -> NewORSet
    [] kind = "ormap" -> NewORMap
Merge(kind, x, y) ==
  CASE kind = "flag" -> FlagMerge(x, y) [] kind = "gcounter" -> GCounterMerge(x, y) [] kind = "pncounter" -> PNCounterMerge(x, y)
    [] kind = "lww" -> LWWMerge(x, y) [] kind = "mv" -> MVMerge(x, y) [] kind = "orset" -> ORSetMerge(x, y)
    [] kind = "ormap" -> ORMapMerge(x, y)
Delta(kind, x) ==
  CASE kind = "flag" -> FlagDelta(x) [] kind = "gcounter" -> GCounterDelta(x) [] kind = "pncounter" -> PNCounterDelta(x)
    [] kind = "lww" -> LWWDelta(x) [] kind = "mv" -> MVDelta(x) [] kind = "orset" -> ORSetDelta(x)
    [] kind = "ormap" -> ORMapDelta(x)
FlagReset(x) == [enabled |-> x.enabled, dirty |-> FALSE]
GCounterReset(c) == [state |-> c.state, delta |-> {}]
PNCounterReset(c) == [inc |-> GCounterReset(c.inc), dec |-> GCounterReset(c.dec)]
MVReset(r) == [entries |-> r.entries, clock |-> r.clock, dirty |-> FALSE]
ORSetReset(s) == [entries |-> s.entries, clock |-> s.clock, added |-> NoDots, removed |-> NoDots]
ORMapReset(m) == [m EXCEPT !.keys = ORSetReset(@), !.dirty = FALSE]
ResetDelta(kind, x) ==
  CASE kind = "flag" -> FlagReset(x) [] kind = "gcounter" -> GCounterReset(x) [] kind = "pncounter" -> PNCounterReset(x)
    [] kind = "lww" -> LWWReset(x) [] kind = "mv" -> MVReset(x) [] kind = "orset" -> ORSetReset(x)
    [] kind = "ormap" -> ORMapReset(x)
Compact(kind, x) ==
  CASE kind = "orset" -> ORSetCompact(x) [] kind = "ormap" -> ORMapCompact(x) [] OTHER -> x

\* What a value becomes when it is encoded, sent and decoded: the pending
\* delta is not sent, and an enabled flag arrives as if just enabled.
FlagWire(x) == [x EXCEPT !.dirty = x.enabled]
GCounterWire(c) == GCounterReset(c)
PNCounterWire(c) == [inc |-> GCounterWire(c.inc), dec |-> GCounterWire(c.dec)]
LWWWire(r) == LWWReset(r)
MVWire(r) == MVReset(r)
ORSetWire(s) == ORSetReset(s)
ORMapWire(m) == [keys |-> ORSetWire(m.keys), dirty |-> FALSE,
                 values |-> [e \in Elements |-> IF m.values[e] = None THEN None ELSE GCounterWire(m.values[e])]]
Wire(kind, x) ==
  CASE kind = "flag" -> FlagWire(x) [] kind = "gcounter" -> GCounterWire(x) [] kind = "pncounter" -> PNCounterWire(x)
    [] kind = "lww" -> LWWWire(x) [] kind = "mv" -> MVWire(x) [] kind = "orset" -> ORSetWire(x)
    [] kind = "ormap" -> ORMapWire(x)

-----------------------------------------------------------------------------
VARIABLES conf,
          hist,    \* every write, in the order in which they happened
          rep,     \* the value at each node
          seen,    \* the writes each value stands for
          net      \* the deltas that were published; they may be lost,
                   \* repeated and reordered

vars == <<conf, hist, rep, seen, net>>

KInit ==
  /\ conf \in Confs
  /\ hist = <<>>
  /\ rep = [n \in Nodes |-> New(conf.kind)]
  /\ seen = [n \in Nodes |-> {}]
  /\ net = {}

\* A write: what it does to the value of its node.
Writes(kind, n) ==
  CASE kind \in {"flag", "gcounter"} -> {[op |-> "add", arg |-> None]}
    [] kind = "pncounter" -> {[op |-> o, arg |-> None] : o \in {"add", "remove"}}
    [] kind \in {"lww", "mv"} -> {[op |-> "set", arg |-> e] : e \in Elements}
    [] OTHER -> {[op |-> o, arg |-> e] : o \in {"add", "remove"}, e \in Elements}
\* The time of a write of node n to a register: its clock is ahead of the write
\* it holds (Set itself would accept an older time), but not of those it has not
\* seen.
Own(n) == {i \in DOMAIN hist : hist[i].node = n}
Now(n) == IF conf.kind = "lww" THEN rep[n].timestamp + 1 ELSE 0
Apply(kind, n, w, time, x) ==
  CASE kind = "flag" -> FlagEnable(x)
    [] kind = "gcounter" -> GCounterIncrement(x, n)
    [] kind = "pncounter" -> IF w.op = "add" THEN PNCounterIncrement(x, n) ELSE PNCounterDecrement(x, n)
    [] kind = "lww" -> LWWSet(w.arg, time, n)
    [] kind = "mv" -> MVSet(x, n, w.arg)
    [] kind = "orset" -> IF w.op = "add" THEN ORSetAdd(x, n, w.arg) ELSE ORSetRemove(x, w.arg)
    [] kind = "ormap" -> IF w.op = "add" THEN ORMapSet(x, n, w.arg, GCounterIncrement(NewGCounter, n)) ELSE ORMapRemove(x, w.arg)

\* The writes that a delta stands for: counters are cumulative by node, an
\* ORSet sends its last write only, the others send their whole state.
DeltaSeen(kind, n, op, id) ==
  CASE kind \in {"gcounter", "pncounter"} -> {i \in Own(n) : hist[i].op = op} \cup {id}
    [] kind = "orset" -> {id}
    [] OTHER -> seen[n] \cup {id}

Update(n) ==
  /\ Len(hist) < conf.ops /\ n \in conf.writers
  /\ \E w \in Writes(conf.kind, n), skew \in {0, 1} :
       LET id == Len(hist) + 1
           time == Now(n) + skew
           new == Apply(conf.kind, n, w, time, rep[n])
           delta == Delta(conf.kind, new)
       IN /\ conf.kind # "lww" => skew = 0
          /\ hist' = Append(hist, [node |-> n, op |-> w.op, arg |-> w.arg, time |-> time, saw |-> seen[n]])
          /\ rep' = [rep EXCEPT ![n] = ResetDelta(conf.kind, new)]
          /\ seen' = [seen EXCEPT ![n] = @ \cup {id}]
          /\ net' = IF conf.mode = "state" \/ delta = None THEN net
                    ELSE net \cup {[origin |-> n, data |-> Wire(conf.kind, delta), seen |-> DeltaSeen(conf.kind, n, w.op, id)]}
  /\ UNCHANGED conf

Receive(n) ==
  /\ \E m \in net :
       /\ m.origin # n
       /\ rep' = [rep EXCEPT ![n] = Merge(conf.kind, @, m.data)]
       /\ seen' = [seen EXCEPT ![n] = @ \cup m.seen]
  /\ UNCHANGED <<conf, hist, net>>

\* The full state of another node arrives.
FullState(n) ==
  /\ conf.mode = "state"
  /\ \E m \in Nodes \ {n} :
       /\ rep' = [rep EXCEPT ![n] = Merge(conf.kind, @, Wire(conf.kind, rep[m]))]
       /\ seen' = [seen EXCEPT ![n] = @ \cup seen[m]]
  /\ UNCHANGED <<conf, hist, net>>

CompactData(n) ==
  /\ rep' = [rep EXCEPT ![n] = Compact(conf.kind, @)]
  /\ UNCHANGED <<conf, hist, seen, net>>

KNext == \E n \in Nodes : Update(n) \/ Receive(n) \/ FullState(n) \/ CompactData(n)
KSpec == KInit /\ [][KNext]_vars

-----------------------------------------------------------------------------
\* What a set of writes means, and what a value says.
Of(S, op) == {i \in S : hist[i].op = op}
Unseen(S, i, op) == \A j \in Of(S, op) : hist[j].arg = hist[i].arg => i \notin hist[j].saw
Meaning(kind, S) ==
  CASE kind = "flag" -> S # {}
    [] kind = "gcounter" -> Cardinality(S)
    [] kind = "pncounter" -> Cardinality(Of(S, "add")) - Cardinality(Of(S, "remove"))
    [] kind = "lww" ->
         IF S = {} THEN None
         ELSE LET last == CHOOSE i \in S : \A j \in S \ {i} :
                            hist[i].time > hist[j].time \/ (hist[i].time = hist[j].time /\ hist[i].node > hist[j].node)
              IN hist[last].arg
    [] kind = "mv" -> {hist[i].arg : i \in {x \in S : \A j \in S : x \notin hist[j].saw}}
    [] OTHER -> {hist[i].arg : i \in {x \in Of(S, "add") : Unseen(S, x, "remove")}}
Value(kind, x) ==
  CASE kind = "flag" -> x.enabled
    [] kind = "gcounter" -> GCounterValue(x)
    [] kind = "pncounter" -> PNCounterValue(x)
    [] kind = "lww" -> x.value
    [] kind = "mv" -> {e.value : e \in x.entries}
    [] kind = "orset" -> ORSetElements(x)
    [] kind = "ormap" -> ORSetElements(x.keys)

(***************************************************************************)
(* A replica's value is a function of the writes that have reached it, in  *)
(* whatever order, however often and by whatever path they came: the       *)
(* number of increments, the last write, the writes no other write had     *)
(* seen, the elements with an add that no remove had seen.  In particular  *)
(* replicas that have seen the same writes agree.                          *)
(***************************************************************************)
ReplicaMeaning == \A n \in Nodes : Value(conf.kind, rep[n]) = Meaning(conf.kind, seen[n])

Content(kind, x) == IF kind = "ormap" THEN ResetDelta("orset", x.keys) ELSE ResetDelta(kind, x)
Same(kind, x, y) == Content(kind, x) = Content(kind, y)
MergeLawsOn(kind, V) ==
  \A x, y, z \in V :
    /\ Same(kind, Merge(kind, x, x), x)
    /\ Same(kind, Merge(kind, x, y), Merge(kind, y, x))
    /\ Same(kind, Merge(kind, x, Merge(kind, y, z)), Merge(kind, Merge(kind, x, y), z))

(***************************************************************************)
(* Merge is commutative, associative and idempotent on the values the      *)
(* replicas can hold ("The merge function must be commutative,             *)
(* associative, and idempotent", crdt.go).  For an ORMap this is said of   *)
(* its keys: a value that one side dropped with its key may come back.     *)
(***************************************************************************)
MergeLaws == MergeLawsOn(conf.kind, {rep[n] : n \in Nodes})

(***************************************************************************)
(* A delta never takes from a replica an element that it holds and that    *)
(* nobody has removed (the comment of ORSet.Delta: "This prevents a peer   *)
(* from treating the full clock as evidence that unseen dots have been     *)
(* removed").                                                              *)
(***************************************************************************)
\* Does not hold: the clock of a delta covers dots that the delta does not carry.
AddedStays ==
  conf.kind = "orset" =>
    \A n \in Nodes : \A i \in Of(seen[n], "add") :
      (\A j \in DOMAIN hist : hist[j].op # "remove") => hist[i].arg \in Value("orset", rep[n])

(***************************************************************************)
(* Compaction never changes a value, nor what a later merge makes of it.   *)
(***************************************************************************)
CompactionInvisible ==
  LET k == conf.kind IN
  \A n \in Nodes :
    /\ Value(k, Compact(k, rep[n])) = Value(k, rep[n])
    /\ \A m \in Nodes : Value(k, Merge(k, Compact(k, rep[n]), rep[m])) = Value(k, Merge(k, rep[n], rep[m]))
=============================================================================
