----------------------------- MODULE CRDTProofs -----------------------------
(***************************************************************************)
(* The merge laws of the replicated data types, for every set of nodes and *)
(* elements and for all the values a type can take.                        *)
(***************************************************************************)
EXTENDS CRDT, TLAPS

Clocks == [Nodes -> Nat]
Dots == [node : Nodes, counter : Nat]

\* The values of each type, without the bookkeeping of deltas.
Flags == [enabled : BOOLEAN, dirty : BOOLEAN]
GCounters == [state : Clocks, delta : SUBSET Nodes]
PNCounters == [inc : GCounters, dec : GCounters]
Values == Elements \cup {None}
Registers == [value : Values, timestamp : Nat, node : Nat, dirty : BOOLEAN]
MVRegisters == {r \in [entries : SUBSET [value : Values, dot : Dots], clock : Clocks, dirty : BOOLEAN] :
                  \A e \in r.entries : isDominated(e.dot, r.clock)}
DotSets == [Elements -> SUBSET Dots]
ORSets == {s \in [entries : DotSets, clock : Clocks, added : DotSets, removed : DotSets] :
             \A e \in Elements : \A d \in s.entries[e] : isDominated(d, s.clock)}
ORMaps == [keys : ORSets, values : [Elements -> GCounters \cup {None}], dirty : BOOLEAN]

-----------------------------------------------------------------------------
\* What the operations are for each type.
LEMMA MergeIs ==
  ASSUME NEW x, NEW y
  PROVE  /\ Merge("flag", x, y) = FlagMerge(x, y)
         /\ Merge("gcounter", x, y) = GCounterMerge(x, y)
         /\ Merge("pncounter", x, y) = PNCounterMerge(x, y)
         /\ Merge("lww", x, y) = LWWMerge(x, y)
         /\ Merge("mv", x, y) = MVMerge(x, y)
         /\ Merge("orset", x, y) = ORSetMerge(x, y)
         /\ Merge("ormap", x, y) = ORMapMerge(x, y)
  BY DEF Merge

LEMMA SameIs ==
  ASSUME NEW x, NEW y
  PROVE  /\ x.enabled = y.enabled => Same("flag", x, y)
         /\ x.state = y.state => Same("gcounter", x, y)
         /\ x.inc.state = y.inc.state /\ x.dec.state = y.dec.state => Same("pncounter", x, y)
         /\ LWWReset(x) = LWWReset(y) => Same("lww", x, y)
         /\ x.entries = y.entries /\ x.clock = y.clock => Same("mv", x, y) /\ Same("orset", x, y)
         /\ x.keys.entries = y.keys.entries /\ x.keys.clock = y.keys.clock => Same("ormap", x, y)
  BY DEF Same, Content, ResetDelta, FlagReset, GCounterReset, PNCounterReset, MVReset, ORSetReset

\* Merging clocks entry by entry is a join of clocks.
LEMMA MergeClockLaws ==
  ASSUME NEW c \in Clocks, NEW d \in Clocks, NEW f \in Clocks
  PROVE  /\ MergeClock(c, d) \in Clocks
         /\ MergeClock(c, c) = c
         /\ MergeClock(c, d) = MergeClock(d, c)
         /\ MergeClock(c, MergeClock(d, f)) = MergeClock(MergeClock(c, d), f)
  BY DEF MergeClock, Most, Clocks

\* A dot is covered by a merged clock when one of the two covers it.
LEMMA MergeClockCovers ==
  ASSUME NEW c \in Clocks, NEW d \in Clocks, NEW x \in Dots
  PROVE  isDominated(x, MergeClock(c, d)) <=> isDominated(x, c) \/ isDominated(x, d)
  BY DEF MergeClock, Most, Clocks, Dots, isDominated

\* A flag merges by a logical or (Flag.Merge).
THEOREM FlagMergeLaws == MergeLawsOn("flag", Flags)
<1> SUFFICES ASSUME NEW x \in Flags, NEW y \in Flags, NEW z \in Flags
             PROVE  /\ Same("flag", FlagMerge(x, x), x)
                    /\ Same("flag", FlagMerge(x, y), FlagMerge(y, x))
                    /\ Same("flag", FlagMerge(x, FlagMerge(y, z)), FlagMerge(FlagMerge(x, y), z))
  BY MergeIs DEF MergeLawsOn
<1>1. \A u, v \in Flags : u.enabled = v.enabled => Same("flag", u, v)
  BY SameIs
<1>2. \A u, v \in Flags : FlagMerge(u, v) \in Flags
  BY DEF FlagMerge, Flags
<1>3. \A u, v \in Flags : FlagMerge(u, v).enabled = (u.enabled \/ v.enabled)
  BY DEF FlagMerge
<1>4. x.enabled \in BOOLEAN /\ y.enabled \in BOOLEAN /\ z.enabled \in BOOLEAN
  BY DEF Flags
<1>5. Same("flag", FlagMerge(x, x), x)
  BY <1>1, <1>2, <1>3, <1>4
<1>6. Same("flag", FlagMerge(x, y), FlagMerge(y, x))
  BY <1>1, <1>2, <1>3, <1>4
<1>7. Same("flag", FlagMerge(x, FlagMerge(y, z)), FlagMerge(FlagMerge(x, y), z))
  BY <1>1, <1>2, <1>3, <1>4
<1> QED
  BY <1>5, <1>6, <1>7

\* A GCounter merges by the maximum of each node's count (GCounter.Merge).
THEOREM GCounterMergeLaws == MergeLawsOn("gcounter", GCounters)
<1> SUFFICES ASSUME NEW x \in GCounters, NEW y \in GCounters, NEW z \in GCounters
             PROVE  /\ Same("gcounter", GCounterMerge(x, x), x)
                    /\ Same("gcounter", GCounterMerge(x, y), GCounterMerge(y, x))
                    /\ Same("gcounter", GCounterMerge(x, GCounterMerge(y, z)), GCounterMerge(GCounterMerge(x, y), z))
  BY MergeIs DEF MergeLawsOn
<1>1. x.state \in Clocks /\ y.state \in Clocks /\ z.state \in Clocks
  BY DEF GCounters
<1>2. \A u, v \in GCounters : u.state = v.state => Same("gcounter", u, v)
  BY SameIs
<1>3. \A u, v \in GCounters : u.state \in Clocks /\ GCounterMerge(u, v) \in GCounters
                               /\ GCounterMerge(u, v).state = MergeClock(u.state, v.state)
  BY MergeClockLaws DEF GCounterMerge, GCounters
<1> QED
  BY <1>1, <1>2, <1>3, MergeClockLaws

\* A PNCounter merges its increments and its decrements (PNCounter.Merge).
THEOREM PNCounterMergeLaws == MergeLawsOn("pncounter", PNCounters)
<1> SUFFICES ASSUME NEW x \in PNCounters, NEW y \in PNCounters, NEW z \in PNCounters
             PROVE  /\ Same("pncounter", PNCounterMerge(x, x), x)
                    /\ Same("pncounter", PNCounterMerge(x, y), PNCounterMerge(y, x))
                    /\ Same("pncounter", PNCounterMerge(x, PNCounterMerge(y, z)), PNCounterMerge(PNCounterMerge(x, y), z))
  BY MergeIs DEF MergeLawsOn
<1>1. \A u, v \in PNCounters : u.inc.state = v.inc.state /\ u.dec.state = v.dec.state => Same("pncounter", u, v)
  BY SameIs
<1>2. \A u, v \in PNCounters :
        /\ PNCounterMerge(u, v) \in PNCounters
        /\ PNCounterMerge(u, v).inc.state = MergeClock(u.inc.state, v.inc.state)
        /\ PNCounterMerge(u, v).dec.state = MergeClock(u.dec.state, v.dec.state)
  BY MergeClockLaws DEF PNCounterMerge, GCounterMerge, PNCounters, GCounters
<1>3. \A u \in PNCounters : u.inc.state \in Clocks /\ u.dec.state \in Clocks
  BY DEF PNCounters, GCounters
<1>4. Same("pncounter", PNCounterMerge(x, x), x)
  BY <1>1, <1>2, <1>3, MergeClockLaws
<1>5. Same("pncounter", PNCounterMerge(x, y), PNCounterMerge(y, x))
  BY <1>1, <1>2, <1>3, MergeClockLaws
<1>6. Same("pncounter", PNCounterMerge(x, PNCounterMerge(y, z)), PNCounterMerge(PNCounterMerge(x, y), z))
  BY <1>1, <1>2, <1>3, MergeClockLaws
<1> QED
  BY <1>4, <1>5, <1>6

\* A register keeps the write with the greatest time and, of equal times, the
\* greatest node (LWWRegister.Merge), provided a time and node name one write.
THEOREM LWWMergeLaws ==
  ASSUME NEW V \in SUBSET Registers,
         \A u, v \in V : u.timestamp = v.timestamp /\ u.node = v.node => u.value = v.value
  PROVE  MergeLawsOn("lww", V)
<1> SUFFICES ASSUME NEW x \in V, NEW y \in V, NEW z \in V
             PROVE  /\ Same("lww", LWWMerge(x, x), x)
                    /\ Same("lww", LWWMerge(x, y), LWWMerge(y, x))
                    /\ Same("lww", LWWMerge(x, LWWMerge(y, z)), LWWMerge(LWWMerge(x, y), z))
  BY MergeIs DEF MergeLawsOn
<1>1. \A u, v \in Registers : LWWReset(u) = LWWReset(v) => Same("lww", u, v)
  BY SameIs
<1>2. \A u, v \in Registers : LWWMerge(u, v) = LWWReset(IF LWWLater(u, v) THEN v ELSE u)
  BY DEF LWWMerge
<1>3. \A u \in Registers : LWWReset(u) \in Registers /\ LWWReset(LWWReset(u)) = LWWReset(u)
  BY DEF Registers, LWWReset
<1>4. \A u, v \in Registers : (LWWLater(LWWReset(u), v) <=> LWWLater(u, v)) /\ (LWWLater(u, LWWReset(v)) <=> LWWLater(u, v))
  BY DEF LWWLater, LWWReset
<1>5. \A u, v \in V : ~LWWLater(u, v) /\ ~LWWLater(v, u) => LWWReset(u) = LWWReset(v)
  <2>1. \A u, v \in V : ~LWWLater(u, v) /\ ~LWWLater(v, u) => u.timestamp = v.timestamp /\ u.node = v.node
    BY DEF LWWLater, Registers
  <2> QED
    BY <2>1 DEF LWWReset
<1>6. \A u, v \in V : ~(LWWLater(u, v) /\ LWWLater(v, u))
  BY DEF LWWLater, Registers
<1>7. \A u, v, w \in V : LWWLater(u, v) /\ LWWLater(v, w) => LWWLater(u, w)
  BY DEF LWWLater, Registers
<1>8. Same("lww", LWWMerge(x, x), x)
  BY <1>1, <1>2, <1>3
<1>9. Same("lww", LWWMerge(x, y), LWWMerge(y, x))
  BY <1>1, <1>2, <1>3, <1>5, <1>6
<1>10. Same("lww", LWWMerge(x, LWWMerge(y, z)), LWWMerge(LWWMerge(x, y), z))
  <2>1. LWWMerge(x, LWWMerge(y, z)) = LWWReset(IF LWWLater(y, z) THEN LWWMerge(x, z) ELSE LWWMerge(x, y))
    BY <1>2, <1>3, <1>4
  <2>2. LWWMerge(LWWMerge(x, y), z) = LWWReset(IF LWWLater(x, y) THEN LWWMerge(y, z) ELSE LWWMerge(x, z))
    BY <1>2, <1>3, <1>4
  <2>3. LWWMerge(x, LWWMerge(y, z)) = LWWMerge(LWWMerge(x, y), z)
    BY <1>2, <1>3, <1>5, <1>6, <1>7, <2>1, <2>2
  <2> QED
    BY <1>1, <1>2, <1>3, <2>3
<1> QED
  BY <1>8, <1>9, <1>10

-----------------------------------------------------------------------------
(* ORSet and MVRegister.  For one dot a merge is the join of three states: *)
(* not seen, seen and held, seen and dropped.                              *)

LEMMA ORSetMergeDots ==
  ASSUME NEW s \in ORSets, NEW o \in ORSets
  PROVE  /\ ORSetMerge(s, o) \in ORSets
         /\ ORSetMerge(s, o).clock = MergeClock(s.clock, o.clock)
         /\ \A e \in Elements, d \in Dots :
              d \in ORSetMerge(s, o).entries[e] <=>
                \/ d \in s.entries[e] /\ (~isDominated(d, o.clock) \/ d \in o.entries[e])
                \/ d \in o.entries[e] /\ (~isDominated(d, s.clock) \/ d \in s.entries[e])
<1> DEFINE M == ORSetMerge(s, o)
<1>1. s.clock \in Clocks /\ o.clock \in Clocks /\ M.clock = MergeClock(s.clock, o.clock)
  BY DEF ORSets, ORSetMerge
<1>2. \A e \in Elements : s.entries[e] \subseteq Dots /\ o.entries[e] \subseteq Dots
  BY DEF ORSets, DotSets
<1>3. \A e \in Elements : M.entries[e] = Kept(s.entries[e], o.entries[e], o.clock) \cup Kept(o.entries[e], s.entries[e], s.clock)
  BY DEF ORSetMerge
<1>4. \A e \in Elements, d \in Dots :
        d \in M.entries[e] <=>
          \/ d \in s.entries[e] /\ (~isDominated(d, o.clock) \/ d \in o.entries[e])
          \/ d \in o.entries[e] /\ (~isDominated(d, s.clock) \/ d \in s.entries[e])
  BY <1>3 DEF Kept
<1>5. \A e \in Elements : M.entries[e] \subseteq Dots
  BY <1>2, <1>3 DEF Kept
<1>6. M \in [entries : DotSets, clock : Clocks, added : DotSets, removed : DotSets]
  <2>1. M.entries \in DotSets
    BY <1>5 DEF ORSetMerge, DotSets
  <2>2. NoDots \in DotSets
    BY DEF NoDots, DotSets
  <2> QED
    BY <1>1, <2>1, <2>2, MergeClockLaws DEF ORSetMerge
<1>7. \A e \in Elements : \A d \in M.entries[e] : isDominated(d, M.clock)
  <2> SUFFICES ASSUME NEW e \in Elements, NEW d \in M.entries[e]
               PROVE  isDominated(d, s.clock) \/ isDominated(d, o.clock)
    BY <1>1, <1>5, MergeClockCovers
  <2> QED
    BY <1>4, <1>5 DEF ORSets
<1> QED
  BY <1>1, <1>4, <1>6, <1>7 DEF ORSets

\* A merge of ORSets (ORSet.Merge) obeys the merge laws.
THEOREM ORSetMergeLaws == MergeLawsOn("orset", ORSets)
<1> SUFFICES ASSUME NEW x \in ORSets, NEW y \in ORSets, NEW z \in ORSets
             PROVE  /\ Same("orset", ORSetMerge(x, x), x)
                    /\ Same("orset", ORSetMerge(x, y), ORSetMerge(y, x))
                    /\ Same("orset", ORSetMerge(x, ORSetMerge(y, z)), ORSetMerge(ORSetMerge(x, y), z))
  BY MergeIs DEF MergeLawsOn
<1>1. \A u, v \in ORSets :
        /\ u.clock = v.clock
        /\ \A e \in Elements, d \in Dots : d \in u.entries[e] <=> d \in v.entries[e]
        => Same("orset", u, v)
  <2> SUFFICES ASSUME NEW u \in ORSets, NEW v \in ORSets, u.clock = v.clock,
                      \A e \in Elements, d \in Dots : d \in u.entries[e] <=> d \in v.entries[e]
               PROVE  Same("orset", u, v)
    OBVIOUS
  <2>1. u.entries \in DotSets /\ v.entries \in DotSets
    BY DEF ORSets
  <2>2. \A e \in Elements : u.entries[e] = v.entries[e]
    BY <2>1 DEF DotSets
  <2>3. u.entries = v.entries
    BY <2>1, <2>2 DEF DotSets
  <2> QED
    BY <2>3, SameIs
<1>2. \A u \in ORSets : u.clock \in Clocks
  BY DEF ORSets
<1>3. \A u \in ORSets : \A e \in Elements : \A d \in u.entries[e] : isDominated(d, u.clock)
  BY DEF ORSets
<1>4. Same("orset", ORSetMerge(x, x), x)
  BY <1>1, <1>2, ORSetMergeDots, MergeClockLaws
<1>5. Same("orset", ORSetMerge(x, y), ORSetMerge(y, x))
  BY <1>1, <1>2, ORSetMergeDots, MergeClockLaws
<1>6. Same("orset", ORSetMerge(x, ORSetMerge(y, z)), ORSetMerge(ORSetMerge(x, y), z))
  <2> DEFINE L == ORSetMerge(x, ORSetMerge(y, z))
             R == ORSetMerge(ORSetMerge(x, y), z)
  <2>1. L \in ORSets /\ R \in ORSets /\ ORSetMerge(y, z) \in ORSets /\ ORSetMerge(x, y) \in ORSets
    BY ORSetMergeDots
  <2>2. L.clock = R.clock
    BY <1>2, <2>1, ORSetMergeDots, MergeClockLaws
  <2>3. ASSUME NEW e \in Elements, NEW d \in Dots
        PROVE  d \in L.entries[e] <=> d \in R.entries[e]
    <3>1. isDominated(d, ORSetMerge(y, z).clock) <=> isDominated(d, y.clock) \/ isDominated(d, z.clock)
      BY <1>2, ORSetMergeDots, MergeClockCovers
    <3>2. isDominated(d, ORSetMerge(x, y).clock) <=> isDominated(d, x.clock) \/ isDominated(d, y.clock)
      BY <1>2, ORSetMergeDots, MergeClockCovers
    <3>3. \A u \in ORSets : d \in u.entries[e] => isDominated(d, u.clock)
      BY <1>3
    <3>4. \A s, o \in ORSets :
            d \in ORSetMerge(s, o).entries[e] <=>
              \/ d \in s.entries[e] /\ (~isDominated(d, o.clock) \/ d \in o.entries[e])
              \/ d \in o.entries[e] /\ (~isDominated(d, s.clock) \/ d \in s.entries[e])
      BY ORSetMergeDots
    <3> QED
      BY <2>1, <3>1, <3>2, <3>3, <3>4
  <2> QED
    BY <1>1, <2>1, <2>2, <2>3
<1> QED
  BY <1>4, <1>5, <1>6

\* The keys of an ORMap (ORMap.Merge) obey the merge laws, although its values
\* do not.
THEOREM ORMapMergeLaws == MergeLawsOn("ormap", ORMaps)
<1> SUFFICES ASSUME NEW x \in ORMaps, NEW y \in ORMaps, NEW z \in ORMaps
             PROVE  /\ Same("ormap", ORMapMerge(x, x), x)
                    /\ Same("ormap", ORMapMerge(x, y), ORMapMerge(y, x))
                    /\ Same("ormap", ORMapMerge(x, ORMapMerge(y, z)), ORMapMerge(ORMapMerge(x, y), z))
  BY MergeIs DEF MergeLawsOn
<1>1. \A u, v : ORMapMerge(u, v).keys = ORSetMerge(u.keys, v.keys)
  BY DEF ORMapMerge
<1>2. \A u, v : Same("orset", u.keys, v.keys) => Same("ormap", u, v)
  BY DEF Same, Content, ResetDelta
<1>3. x.keys \in ORSets /\ y.keys \in ORSets /\ z.keys \in ORSets
  BY DEF ORMaps
<1> QED
  BY <1>1, <1>2, <1>3, ORSetMergeLaws, MergeIs DEF MergeLawsOn

Held(r) == {x.dot : x \in r.entries}

LEMMA MVMergeDots ==
  ASSUME NEW r \in MVRegisters, NEW o \in MVRegisters
  PROVE  /\ MVMerge(r, o) \in MVRegisters
         /\ MVMerge(r, o).clock = MergeClock(r.clock, o.clock)
         /\ \A e : e \in MVMerge(r, o).entries <=>
                  \/ e \in r.entries /\ (~isDominated(e.dot, o.clock) \/ e.dot \in Held(o))
                  \/ e \in o.entries /\ (~isDominated(e.dot, r.clock) \/ e.dot \in Held(r))
         /\ \A d : d \in Held(MVMerge(r, o)) <=>
                  \/ d \in Held(r) /\ (~isDominated(d, o.clock) \/ d \in Held(o))
                  \/ d \in Held(o) /\ (~isDominated(d, r.clock) \/ d \in Held(r))
<1> DEFINE M == MVMerge(r, o)
<1>1. r.clock \in Clocks /\ o.clock \in Clocks /\ M.clock = MergeClock(r.clock, o.clock)
  BY DEF MVRegisters, MVMerge
<1>2. \A e : e \in M.entries <=>
           \/ e \in r.entries /\ (~isDominated(e.dot, o.clock) \/ e.dot \in Held(o))
           \/ e \in o.entries /\ (~isDominated(e.dot, r.clock) \/ e.dot \in Held(r))
  BY DEF MVMerge, MVKept, Held
<1>3. \A d : d \in Held(M) <=>
           \/ d \in Held(r) /\ (~isDominated(d, o.clock) \/ d \in Held(o))
           \/ d \in Held(o) /\ (~isDominated(d, r.clock) \/ d \in Held(r))
  BY <1>2 DEF Held
<1>4. \A e \in M.entries : e \in [value : Values, dot : Dots]
  BY <1>2 DEF MVRegisters
<1>5. \A e \in M.entries : isDominated(e.dot, M.clock)
  <2> SUFFICES ASSUME NEW e \in M.entries
               PROVE  isDominated(e.dot, r.clock) \/ isDominated(e.dot, o.clock)
    BY <1>1, <1>4, MergeClockCovers
  <2> QED
    BY <1>2 DEF MVRegisters
<1>6. M \in [entries : SUBSET [value : Values, dot : Dots], clock : Clocks, dirty : BOOLEAN]
  BY <1>1, <1>4, MergeClockLaws DEF MVMerge
<1> QED
  BY <1>1, <1>2, <1>3, <1>5, <1>6 DEF MVRegisters

\* A merge of MVRegisters (MVRegister.Merge) obeys the merge laws.
THEOREM MVMergeLaws == MergeLawsOn("mv", MVRegisters)
<1> SUFFICES ASSUME NEW x \in MVRegisters, NEW y \in MVRegisters, NEW z \in MVRegisters
             PROVE  /\ Same("mv", MVMerge(x, x), x)
                    /\ Same("mv", MVMerge(x, y), MVMerge(y, x))
                    /\ Same("mv", MVMerge(x, MVMerge(y, z)), MVMerge(MVMerge(x, y), z))
  BY MergeIs DEF MergeLawsOn
<1>1. \A u, v \in MVRegisters : u.clock = v.clock /\ (\A e : e \in u.entries <=> e \in v.entries) => Same("mv", u, v)
  <2>1. \A S, T : (\A e : e \in S <=> e \in T) => S = T
    OBVIOUS
  <2> QED
    BY <2>1, SameIs
<1>2. \A u \in MVRegisters : u.clock \in Clocks
  BY DEF MVRegisters
<1>3. \A u \in MVRegisters : \A e \in u.entries : e.dot \in Held(u)
  BY DEF Held
<1>4. Same("mv", MVMerge(x, x), x)
  BY <1>1, <1>2, <1>3, MVMergeDots, MergeClockLaws
<1>5. Same("mv", MVMerge(x, y), MVMerge(y, x))
  BY <1>1, <1>2, MVMergeDots, MergeClockLaws
<1>6. Same("mv", MVMerge(x, MVMerge(y, z)), MVMerge(MVMerge(x, y), z))
  <2> DEFINE L == MVMerge(x, MVMerge(y, z))
             R == MVMerge(MVMerge(x, y), z)
  <2>1. L \in MVRegisters /\ R \in MVRegisters /\ MVMerge(y, z) \in MVRegisters /\ MVMerge(x, y) \in MVRegisters
    BY MVMergeDots
  <2>2. L.clock = R.clock
    BY <1>2, <2>1, MVMergeDots, MergeClockLaws
  <2>3. ASSUME NEW e
        PROVE  e \in L.entries <=> e \in R.entries
    <3>1. CASE e \in x.entries \cup y.entries \cup z.entries
      <4>1. e.dot \in Dots
        BY <3>1 DEF MVRegisters
      <4>2. isDominated(e.dot, MVMerge(y, z).clock) <=> isDominated(e.dot, y.clock) \/ isDominated(e.dot, z.clock)
        BY <1>2, <4>1, MVMergeDots, MergeClockCovers
      <4>3. isDominated(e.dot, MVMerge(x, y).clock) <=> isDominated(e.dot, x.clock) \/ isDominated(e.dot, y.clock)
        BY <1>2, <4>1, MVMergeDots, MergeClockCovers
      <4>4. \A u \in MVRegisters : /\ e.dot \in Held(u) => isDominated(e.dot, u.clock)
                                   /\ e \in u.entries => e.dot \in Held(u)
        BY DEF MVRegisters, Held
      <4>5. \A s, o \in MVRegisters :
              /\ e \in MVMerge(s, o).entries <=>
                   \/ e \in s.entries /\ (~isDominated(e.dot, o.clock) \/ e.dot \in Held(o))
                   \/ e \in o.entries /\ (~isDominated(e.dot, s.clock) \/ e.dot \in Held(s))
              /\ e.dot \in Held(MVMerge(s, o)) <=>
                   \/ e.dot \in Held(s) /\ (~isDominated(e.dot, o.clock) \/ e.dot \in Held(o))
                   \/ e.dot \in Held(o) /\ (~isDominated(e.dot, s.clock) \/ e.dot \in Held(s))
        BY MVMergeDots
      <4> QED
        BY <2>1, <4>2, <4>3, <4>4, <4>5
    <3>2. CASE e \notin x.entries \cup y.entries \cup z.entries
      BY <2>1, <3>2, MVMergeDots
    <3> QED
      BY <3>1, <3>2
  <2> QED
    BY <1>1, <2>1, <2>2, <2>3
<1> QED
  BY <1>4, <1>5, <1>6

-----------------------------------------------------------------------------
(* Replicas only ever hold such values.                                    *)

Kinds == {"flag", "gcounter", "pncounter", "lww", "mv", "orset", "ormap"}
ValuesOf(kind) ==
  CASE kind = "flag" -> Flags [] kind = "gcounter" -> GCounters [] kind = "pncounter" -> PNCounters
    [] kind = "lww" -> Registers [] kind = "mv" -> MVRegisters [] kind = "orset" -> ORSets
    [] kind = "ormap" -> ORMaps

LEMMA ValuesOfIs ==
  /\ ValuesOf("flag") = Flags /\ ValuesOf("gcounter") = GCounters /\ ValuesOf("pncounter") = PNCounters
  /\ ValuesOf("lww") = Registers /\ ValuesOf("mv") = MVRegisters /\ ValuesOf("orset") = ORSets
  /\ ValuesOf("ormap") = ORMaps
  BY DEF ValuesOf

LEMMA NewOK == ASSUME NEW k \in Kinds PROVE New(k) \in ValuesOf(k)
<1>1. Zero \in Clocks /\ NoDots \in DotSets
  BY DEF Zero, Clocks, NoDots, DotSets
<1>2. NewGCounter \in GCounters
  BY <1>1 DEF NewGCounter, GCounters
<1>3. NewORSet \in ORSets
  BY <1>1 DEF NewORSet, ORSets, NoDots
<1>4. NewFlag \in Flags /\ NewPNCounter \in PNCounters /\ NewLWWRegister \in Registers
  BY <1>2 DEF NewFlag, Flags, NewPNCounter, PNCounters, NewLWWRegister, Registers, Values
<1>5. NewMVRegister \in MVRegisters
  BY <1>1 DEF NewMVRegister, MVRegisters
<1>6. NewORMap \in ORMaps
  BY <1>3 DEF NewORMap, ORMaps
<1> QED
  BY <1>2, <1>3, <1>4, <1>5, <1>6 DEF New, ValuesOf, Kinds

LEMMA GCounterMergeOK == ASSUME NEW c \in GCounters, NEW o \in GCounters PROVE GCounterMerge(c, o) \in GCounters
  BY MergeClockLaws DEF GCounterMerge, GCounters

LEMMA MergeOK == ASSUME NEW k \in Kinds, NEW x \in ValuesOf(k), NEW y \in ValuesOf(k) PROVE Merge(k, x, y) \in ValuesOf(k)
<1>a. \A u, v \in Flags : FlagMerge(u, v) \in Flags
  BY DEF FlagMerge, Flags
<1>b. \A u, v \in PNCounters : PNCounterMerge(u, v) \in PNCounters
  BY GCounterMergeOK DEF PNCounterMerge, PNCounters
<1>c. \A u, v \in Registers : LWWMerge(u, v) \in Registers
  BY DEF LWWMerge, LWWReset, Registers
<1>1. CASE k = "flag"
  BY <1>1, <1>a, MergeIs, ValuesOfIs
<1>2. CASE k = "gcounter"
  BY <1>2, MergeIs, ValuesOfIs, GCounterMergeOK
<1>3. CASE k = "pncounter"
  BY <1>3, <1>b, MergeIs, ValuesOfIs
<1>4. CASE k = "lww"
  BY <1>4, <1>c, MergeIs, ValuesOfIs
<1>5. CASE k = "mv"
  BY <1>5, MergeIs, ValuesOfIs, MVMergeDots
<1>6. CASE k = "orset"
  BY <1>6, MergeIs, ValuesOfIs, ORSetMergeDots
<1>7. CASE k = "ormap"
  <2>1. x \in ORMaps /\ y \in ORMaps
    BY <1>7, ValuesOfIs
  <2>2. ORSetMerge(x.keys, y.keys) \in ORSets
    BY <2>1, ORSetMergeDots DEF ORMaps
  <2>3. \A e \in Elements : x.values[e] \in GCounters \cup {None} /\ y.values[e] \in GCounters \cup {None}
    BY <2>1 DEF ORMaps
  <2>4. \A e \in Elements : ORMapMerge(x, y).values[e] \in GCounters \cup {None}
    BY <2>3, GCounterMergeOK DEF ORMapMerge
  <2>5. ORMapMerge(x, y) \in ORMaps
    BY <2>2, <2>4 DEF ORMapMerge, ORMaps
  <2> QED
    BY <1>7, <2>5, MergeIs, ValuesOfIs
<1> QED
  BY <1>1, <1>2, <1>3, <1>4, <1>5, <1>6, <1>7 DEF Kinds

LEMMA ResetOK ==
  /\ \A c \in GCounters : GCounterReset(c) \in GCounters
  /\ \A s \in ORSets : ORSetReset(s) \in ORSets
  BY DEF GCounterReset, GCounters, ORSetReset, ORSets, NoDots, DotSets

LEMMA ResetDeltaOK == ASSUME NEW k \in Kinds, NEW x \in ValuesOf(k) PROVE ResetDelta(k, x) \in ValuesOf(k)
<1>1. \A u \in Flags : FlagReset(u) \in Flags
  BY DEF FlagReset, Flags
<1>2. \A u \in PNCounters : PNCounterReset(u) \in PNCounters
  BY ResetOK DEF PNCounterReset, PNCounters
<1>3. \A u \in Registers : LWWReset(u) \in Registers
  BY DEF LWWReset, Registers
<1>4. \A u \in MVRegisters : MVReset(u) \in MVRegisters
  BY DEF MVReset, MVRegisters
<1>5. \A u \in ORMaps : ORMapReset(u) \in ORMaps
  BY ResetOK DEF ORMapReset, ORMaps
<1> QED
  BY <1>1, <1>2, <1>3, <1>4, <1>5, ResetOK, ValuesOfIs DEF ResetDelta, Kinds

LEMMA WireOK == ASSUME NEW k \in Kinds, NEW x \in ValuesOf(k) PROVE Wire(k, x) \in ValuesOf(k)
<1>1. \A u \in Flags : FlagWire(u) \in Flags
  BY DEF FlagWire, Flags
<1>2. \A u \in GCounters : GCounterWire(u) \in GCounters
  BY ResetOK DEF GCounterWire
<1>3. \A u \in PNCounters : PNCounterWire(u) \in PNCounters
  BY <1>2 DEF PNCounterWire, PNCounters
<1>4. \A u \in Registers : LWWWire(u) \in Registers
  BY DEF LWWWire, LWWReset, Registers
<1>5. \A u \in MVRegisters : MVWire(u) \in MVRegisters
  BY DEF MVWire, MVReset, MVRegisters
<1>6. \A u \in ORSets : ORSetWire(u) \in ORSets
  BY ResetOK DEF ORSetWire
<1>7. \A u \in ORMaps : ORMapWire(u) \in ORMaps
  BY <1>2, <1>6 DEF ORMapWire, ORMaps
<1> QED
  BY <1>1, <1>2, <1>3, <1>4, <1>5, <1>6, <1>7, ValuesOfIs DEF Wire, Kinds

LEMMA CompactOK == ASSUME NEW k \in Kinds, NEW x \in ValuesOf(k) PROVE Compact(k, x) \in ValuesOf(k)
<1>1. \A s \in ORSets : ORSetCompact(s) \in ORSets
  BY DEF ORSetCompact, ORSets, NoDots, DotSets
<1>2. \A m \in ORMaps : ORMapCompact(m) \in ORMaps
  BY <1>1 DEF ORMapCompact, ORMaps
<1> QED
  BY <1>1, <1>2, ValuesOfIs DEF Compact, Kinds

LEMMA DeltaOK ==
  ASSUME NEW k \in Kinds \ {"orset"}, NEW x \in ValuesOf(k), Delta(k, x) # None
  PROVE  Delta(k, x) \in ValuesOf(k)
<1>1. \A c \in GCounters : GCounterDelta(c) = None \/ GCounterDelta(c) \in GCounters
  BY DEF GCounterDelta, GCounters, Clocks
<1>2. NewGCounter \in GCounters
  BY DEF NewGCounter, GCounters, Zero, Clocks
<1>3. \A c \in PNCounters : PNCounterDelta(c) = None \/ PNCounterDelta(c) \in PNCounters
  BY <1>1, <1>2 DEF PNCounterDelta, PNCounters
<1> QED
  BY <1>1, <1>3, ValuesOfIs DEF Delta, Kinds, FlagDelta, LWWDelta, MVDelta, ORMapDelta

LEMMA GCounterIncrementOK ==
  ASSUME NEW c \in GCounters, NEW n \in Nodes PROVE GCounterIncrement(c, n) \in GCounters
  BY DEF GCounterIncrement, GCounters, Clocks

LEMMA ORSetAddOK ==
  ASSUME NEW s \in ORSets, NEW n \in Nodes, NEW e \in Elements PROVE ORSetAdd(s, n, e) \in ORSets
<1> DEFINE clock == [s.clock EXCEPT ![n] = @ + 1]
           d == Dot(n, clock[n])
<1>1. clock \in Clocks /\ d \in Dots /\ isDominated(d, clock)
  BY DEF ORSets, Clocks, Dot, Dots, isDominated
<1>2. \A x \in Dots : isDominated(x, s.clock) => isDominated(x, clock)
  BY DEF ORSets, Clocks, Dots, isDominated
<1>3. s.removed \in DotSets /\ [s.entries EXCEPT ![e] = @ \cup {d}] \in DotSets /\ [s.added EXCEPT ![e] = @ \cup {d}] \in DotSets
  BY <1>1 DEF ORSets, DotSets
<1>4. ORSetAdd(s, n, e) = [entries |-> [s.entries EXCEPT ![e] = @ \cup {d}], clock |-> clock,
                           added |-> [s.added EXCEPT ![e] = @ \cup {d}], removed |-> s.removed]
  BY DEF ORSetAdd
<1>5. \A f \in Elements : \A x \in ORSetAdd(s, n, e).entries[f] : isDominated(x, clock)
  BY <1>1, <1>2, <1>4 DEF ORSets, DotSets
<1> HIDE DEF clock, d
<1>6. ORSetAdd(s, n, e) \in [entries : DotSets, clock : Clocks, added : DotSets, removed : DotSets]
  BY <1>1, <1>3, <1>4
<1>7. ORSetAdd(s, n, e).clock = clock
  BY <1>4
<1> QED
  BY <1>5, <1>6, <1>7 DEF ORSets

LEMMA ORSetRemoveOK ==
  ASSUME NEW s \in ORSets, NEW e \in Elements PROVE ORSetRemove(s, e) \in ORSets
<1>1. [s.entries EXCEPT ![e] = {}] \in DotSets /\ [s.removed EXCEPT ![e] = @ \cup s.entries[e]] \in DotSets
  BY DEF ORSets, DotSets
<1>2. \A f \in Elements : [s.entries EXCEPT ![e] = {}][f] \subseteq s.entries[f]
  BY DEF ORSets, DotSets
<1> QED
  BY <1>1, <1>2 DEF ORSetRemove, ORSets

LEMMA ApplyOK ==
  ASSUME NEW k \in Kinds, NEW n \in Nodes, NEW w \in Writes(k, n), NEW t \in Nat, NEW x \in ValuesOf(k), Nodes \subseteq Nat
  PROVE  Apply(k, n, w, t, x) \in ValuesOf(k)
<1>1. CASE k = "flag"
  <2>1. \A u \in Flags : FlagEnable(u) \in Flags
    BY DEF FlagEnable, Flags
  <2> QED
    BY <1>1, <2>1, ValuesOfIs DEF Apply
<1>2. CASE k = "gcounter"
  BY <1>2, ValuesOfIs, GCounterIncrementOK DEF Apply
<1>3. CASE k = "pncounter"
  <2>1. \A u \in PNCounters : PNCounterIncrement(u, n) \in PNCounters /\ PNCounterDecrement(u, n) \in PNCounters
    BY GCounterIncrementOK DEF PNCounterIncrement, PNCounterDecrement, PNCounters
  <2> QED
    BY <1>3, <2>1, ValuesOfIs DEF Apply
<1>4. CASE k = "lww"
  <2>1. w.arg \in Elements
    BY <1>4 DEF Writes
  <2>2. LWWSet(w.arg, t, n) \in Registers
    BY <2>1 DEF LWWSet, Registers, Values
  <2> QED
    BY <1>4, <2>2, ValuesOfIs DEF Apply
<1>5. CASE k = "mv"
  <2>1. w.arg \in Elements /\ x \in MVRegisters
    BY <1>5, ValuesOfIs DEF Writes
  <2> DEFINE clock == [x.clock EXCEPT ![n] = @ + 1]
             entry == [value |-> w.arg, dot |-> Dot(n, clock[n])]
  <2>2. clock \in Clocks /\ Dot(n, clock[n]) \in Dots /\ isDominated(Dot(n, clock[n]), clock)
    BY <2>1 DEF MVRegisters, Clocks, Dot, Dots, isDominated
  <2>3. entry \in [value : Values, dot : Dots] /\ isDominated(entry.dot, clock)
    BY <2>1, <2>2 DEF Values
  <2>4. MVSet(x, n, w.arg) = [entries |-> {entry}, clock |-> clock, dirty |-> TRUE]
    BY DEF MVSet
  <2> HIDE DEF clock, entry
  <2>5. MVSet(x, n, w.arg) \in MVRegisters
    BY <2>2, <2>3, <2>4 DEF MVRegisters
  <2> QED
    BY <1>5, <2>5, ValuesOfIs DEF Apply
<1>6. CASE k = "orset"
  <2>1. w.arg \in Elements /\ x \in ORSets
    BY <1>6, ValuesOfIs DEF Writes
  <2> QED
    BY <1>6, <2>1, ORSetAddOK, ORSetRemoveOK, ValuesOfIs DEF Apply
<1>7. CASE k = "ormap"
  <2>1. w.arg \in Elements /\ x \in ORMaps
    BY <1>7, ValuesOfIs DEF Writes
  <2>2. NewGCounter \in GCounters
    BY DEF NewGCounter, GCounters, Zero, Clocks
  <2>3. \A v \in GCounters : ORMapSet(x, n, w.arg, v) \in ORMaps
    BY <2>1, ORSetAddOK, GCounterMergeOK DEF ORMapSet, ORMaps
  <2>4. ORMapRemove(x, w.arg) \in ORMaps
    BY <2>1, ORSetRemoveOK DEF ORMapRemove, ORMaps
  <2> QED
    BY <1>7, <2>2, <2>3, <2>4, GCounterIncrementOK, ValuesOfIs DEF Apply
<1> QED
  BY <1>1, <1>2, <1>3, <1>4, <1>5, <1>6, <1>7 DEF Kinds

-----------------------------------------------------------------------------
(* The inductive invariant: every value is one of its type and, for        *)
(* registers, no node has written at a later time than the one it holds,   *)
(* so that a time and a node name one write.                               *)

Stored == {rep[n] : n \in Nodes} \cup {m.data : m \in net}
StampsUnique ==
  conf.kind = "lww" =>
    /\ \A u, v \in Stored : u.timestamp = v.timestamp /\ u.node = v.node => u.value = v.value
    /\ \A u \in Stored, n \in Nodes : u.node = n => u.timestamp <= rep[n].timestamp
KInv ==
  /\ conf \in Confs
  /\ rep \in [Nodes -> ValuesOf(conf.kind)]
  /\ \A m \in net : m.data \in ValuesOf(conf.kind)
  /\ StampsUnique

\* The scenarios covered: an ORSet is exchanged as full states only.
ConfsOK == \A c \in Confs : c.kind \in Kinds /\ (c.kind = "orset" => c.mode = "state")

LEMMA KInvInit == ASSUME ConfsOK PROVE KInit => KInv
<1> SUFFICES ASSUME KInit PROVE KInv
  OBVIOUS
<1>1. conf \in Confs /\ conf.kind \in Kinds
  BY DEF KInit, ConfsOK
<1>2. rep \in [Nodes -> ValuesOf(conf.kind)]
  BY <1>1, NewOK DEF KInit
<1>3. StampsUnique
  <2> SUFFICES ASSUME conf.kind = "lww"
               PROVE  /\ \A u, v \in Stored : u.timestamp = v.timestamp /\ u.node = v.node => u.value = v.value
                      /\ \A u \in Stored, n \in Nodes : u.node = n => u.timestamp <= rep[n].timestamp
    BY DEF StampsUnique
  <2>1. \A u \in Stored : u = NewLWWRegister
    BY DEF Stored, KInit, New
  <2>2. \A n \in Nodes : rep[n] = NewLWWRegister
    BY DEF KInit, New
  <2> QED
    BY <2>1, <2>2 DEF NewLWWRegister
<1> QED
  BY <1>1, <1>2, <1>3 DEF KInv, KInit

\* A step whose new values are copies of stored ones, and that no register
\* goes back in time with, keeps the stamps unique.
LEMMA StampsKept ==
  ASSUME KInv, StampsUnique, conf' = conf,
         conf.kind = "lww" =>
           /\ \A u \in Stored' : \E v \in Stored : u.timestamp = v.timestamp /\ u.node = v.node /\ u.value = v.value
           /\ \A n \in Nodes : rep'[n].timestamp \in Nat /\ rep[n].timestamp \in Nat /\ rep'[n].timestamp >= rep[n].timestamp
           /\ \A v \in Stored : v.timestamp \in Nat
  PROVE  StampsUnique'
<1> SUFFICES ASSUME conf.kind = "lww"
             PROVE  /\ \A u, v \in Stored' : u.timestamp = v.timestamp /\ u.node = v.node => u.value = v.value
                    /\ \A u \in Stored', n \in Nodes : u.node = n => u.timestamp <= rep'[n].timestamp
  BY DEF StampsUnique
<1>1. \A u, v \in Stored' : u.timestamp = v.timestamp /\ u.node = v.node => u.value = v.value
  BY DEF StampsUnique
<1>2. \A u \in Stored', n \in Nodes : u.node = n => u.timestamp <= rep'[n].timestamp
  BY DEF StampsUnique
<1> QED
  BY <1>1, <1>2

\* A merge of registers is a copy of one of them, no older than the first.
LEMMA LWWMergeCopies ==
  ASSUME NEW r \in Registers, NEW o \in Registers
  PROVE  /\ LWWMerge(r, o).timestamp >= r.timestamp
         /\ \E v \in {r, o} : /\ LWWMerge(r, o).timestamp = v.timestamp /\ LWWMerge(r, o).node = v.node
                              /\ LWWMerge(r, o).value = v.value
<1>1. \A v \in Registers : LWWReset(v).timestamp = v.timestamp /\ LWWReset(v).node = v.node /\ LWWReset(v).value = v.value
  BY DEF LWWReset
<1>2. CASE LWWLater(r, o)
  BY <1>1, <1>2 DEF LWWMerge, LWWLater, Registers
<1>3. CASE ~LWWLater(r, o)
  BY <1>1, <1>3 DEF LWWMerge, Registers
<1> QED
  BY <1>2, <1>3

\* Merging a copy of a stored value into a replica keeps the invariant.
LEMMA KInvMerge ==
  ASSUME ConfsOK, KInv, NEW n \in Nodes, NEW x \in ValuesOf(conf.kind), conf' = conf, net' = net,
         rep' = [rep EXCEPT ![n] = Merge(conf.kind, @, x)],
         conf.kind = "lww" => \E v \in Stored : x.timestamp = v.timestamp /\ x.node = v.node /\ x.value = v.value
  PROVE  KInv'
<1> DEFINE k == conf.kind
<1>1. k \in Kinds /\ conf' = conf /\ net' = net
  BY DEF KInv, ConfsOK
<1>2. rep' = [rep EXCEPT ![n] = Merge(k, @, x)]
  OBVIOUS
<1>3. rep' \in [Nodes -> ValuesOf(k)]
  BY <1>1, <1>2, MergeOK DEF KInv
<1>4. StampsUnique'
  <2> SUFFICES ASSUME k = "lww"
               PROVE  /\ \A u \in Stored' : \E v \in Stored : u.timestamp = v.timestamp /\ u.node = v.node /\ u.value = v.value
                      /\ \A i \in Nodes : rep'[i].timestamp \in Nat /\ rep[i].timestamp \in Nat /\ rep'[i].timestamp >= rep[i].timestamp
                      /\ \A v \in Stored : v.timestamp \in Nat
    BY <1>1, StampsKept DEF KInv
  <2>1. rep \in [Nodes -> Registers] /\ rep' \in [Nodes -> Registers] /\ x \in Registers /\ \A v \in Stored : v \in Registers
    BY <1>2, <1>3, ValuesOfIs DEF KInv, Stored
  <2>2. rep'[n] = LWWMerge(rep[n], x) /\ \A i \in Nodes \ {n} : rep'[i] = rep[i]
    BY <1>2, <2>1, MergeIs
  <2>3. \A u \in Stored' : u \in Stored \/ u = rep'[n]
    BY <1>1, <2>2 DEF Stored
  <2>4. rep[n] \in Stored /\ \E v \in Stored : x.timestamp = v.timestamp /\ x.node = v.node /\ x.value = v.value
    BY DEF Stored
  <2>5. \A i \in Nodes : rep'[i].timestamp \in Nat /\ rep[i].timestamp \in Nat
    BY <2>1 DEF Registers
  <2>6. \A i \in Nodes : rep'[i].timestamp >= rep[i].timestamp
    <3>1. rep'[n].timestamp >= rep[n].timestamp
      BY <2>1, <2>2, LWWMergeCopies
    <3>2. \A i \in Nodes \ {n} : rep'[i].timestamp >= rep[i].timestamp
      BY <2>2, <2>5
    <3> QED
      BY <3>1, <3>2
  <2>7. \A u \in Stored' : \E v \in Stored : u.timestamp = v.timestamp /\ u.node = v.node /\ u.value = v.value
    BY <2>1, <2>2, <2>3, <2>4, LWWMergeCopies
  <2>8. \A v \in Stored : v.timestamp \in Nat
    BY <2>1 DEF Registers
  <2> QED
    BY <2>5, <2>6, <2>7, <2>8
<1> QED
  BY <1>1, <1>3, <1>4 DEF KInv

LEMMA KInvReceive == ASSUME ConfsOK, KInv, NEW n \in Nodes, Receive(n) PROVE KInv'
<1>1. PICK m \in net : rep' = [rep EXCEPT ![n] = Merge(conf.kind, @, m.data)]
  BY DEF Receive
<1>2. m.data \in ValuesOf(conf.kind) /\ m.data \in Stored
  BY DEF KInv, Stored
<1> QED
  BY <1>1, <1>2, KInvMerge DEF Receive

LEMMA KInvFullState == ASSUME ConfsOK, KInv, NEW n \in Nodes, FullState(n) PROVE KInv'
<1>1. PICK m \in Nodes \ {n} : rep' = [rep EXCEPT ![n] = Merge(conf.kind, @, Wire(conf.kind, rep[m]))]
  BY DEF FullState
<1>2. conf.kind \in Kinds /\ rep[m] \in ValuesOf(conf.kind) /\ rep[m] \in Stored
  BY DEF KInv, ConfsOK, Stored
<1>3. Wire(conf.kind, rep[m]) \in ValuesOf(conf.kind)
  BY <1>2, WireOK
<1>4. conf.kind = "lww" => /\ Wire(conf.kind, rep[m]).timestamp = rep[m].timestamp
                           /\ Wire(conf.kind, rep[m]).node = rep[m].node /\ Wire(conf.kind, rep[m]).value = rep[m].value
  BY DEF Wire, LWWWire, LWWReset
<1>5. conf' = conf /\ net' = net
  BY DEF FullState
<1> QED
  BY <1>1, <1>2, <1>3, <1>4, <1>5, KInvMerge

LEMMA KInvCompact == ASSUME ConfsOK, KInv, NEW n \in Nodes, CompactData(n) PROVE KInv'
<1>1. conf.kind \in Kinds /\ conf' = conf /\ net' = net /\ rep' = [rep EXCEPT ![n] = Compact(conf.kind, @)]
  BY DEF KInv, ConfsOK, CompactData
<1>2. rep' \in [Nodes -> ValuesOf(conf.kind)]
  BY <1>1, CompactOK DEF KInv
<1>3. conf.kind = "lww" => rep' = rep
  BY <1>1 DEF KInv, Compact
<1>4. StampsUnique'
  BY <1>1, <1>3 DEF KInv, StampsUnique, Stored
<1> QED
  BY <1>1, <1>2, <1>4 DEF KInv

LEMMA KInvUpdate == ASSUME ConfsOK, Nodes \subseteq Nat, KInv, NEW n \in Nodes, Update(n) PROVE KInv'
<1> DEFINE k == conf.kind
<1>1. k \in Kinds /\ conf' = conf /\ (k = "orset" => conf.mode = "state")
  BY DEF KInv, ConfsOK, Update
<1>2. PICK w \in Writes(k, n), skew \in {0, 1} :
        LET time == Now(n) + skew
            new == Apply(k, n, w, time, rep[n])
            delta == Delta(k, new)
        IN /\ rep' = [rep EXCEPT ![n] = ResetDelta(k, new)]
           /\ net' = IF conf.mode = "state" \/ delta = None THEN net
                     ELSE net \cup {[origin |-> n, data |-> Wire(k, delta),
                                    seen |-> DeltaSeen(k, n, w.op, Len(hist) + 1)]}
  BY DEF Update
<1> DEFINE time == Now(n) + skew
           new == Apply(k, n, w, time, rep[n])
           delta == Delta(k, new)
<1>3. rep[n] \in ValuesOf(k)
  BY DEF KInv
<1>a. k = "lww" => rep[n].timestamp \in Nat
  <2>1. \A u \in Registers : u.timestamp \in Nat
    BY DEF Registers
  <2> QED
    BY <1>3, <2>1, ValuesOfIs
<1>4. Now(n) \in Nat /\ time \in Nat
  <2>1. Now(n) \in Nat
    BY <1>a DEF Now
  <2> QED
    BY <2>1
<1> HIDE DEF time
<1>5. new \in ValuesOf(k)
  BY <1>1, <1>3, <1>4, ApplyOK
<1> HIDE DEF new
<1>6. rep' = [rep EXCEPT ![n] = ResetDelta(k, new)] /\ rep' \in [Nodes -> ValuesOf(k)]
  BY <1>1, <1>2, <1>5, ResetDeltaOK DEF KInv, new, time
<1>7. \A m \in net' : m \in net \/ (m.data = Wire(k, delta) /\ delta # None /\ conf.mode # "state")
  BY <1>2 DEF new, time
<1>8. \A m \in net' : m.data \in ValuesOf(k)
  BY <1>1, <1>5, <1>7, DeltaOK, WireOK DEF KInv
<1>9. StampsUnique'
  <2> SUFFICES ASSUME k = "lww"
               PROVE  /\ \A u, v \in Stored' : u.timestamp = v.timestamp /\ u.node = v.node => u.value = v.value
                      /\ \A u \in Stored', i \in Nodes : u.node = i => u.timestamp <= rep'[i].timestamp
    BY <1>1 DEF StampsUnique
  <2> DEFINE stamp == [value |-> w.arg, timestamp |-> time, node |-> n, dirty |-> FALSE]
  <2>1. new = LWWSet(w.arg, time, n) /\ ResetDelta(k, new) = stamp /\ (delta # None => Wire(k, delta) = stamp)
    BY DEF new, Apply, LWWSet, ResetDelta, LWWReset, Delta, LWWDelta, Wire, LWWWire
  <2>2. time > rep[n].timestamp /\ rep[n].timestamp \in Nat
    <3>1. Now(n) = rep[n].timestamp + 1
      BY DEF Now
    <3> QED
      BY <1>a, <3>1 DEF time
  <2>3. rep'[n] = stamp /\ \A i \in Nodes \ {n} : rep'[i] = rep[i]
    BY <1>6, <2>1 DEF KInv
  <2>4. \A u \in Stored' : u \in Stored \/ u = stamp
    BY <1>7, <2>1, <2>3 DEF Stored
  <2>5. \A u \in Stored : u.timestamp \in Nat /\ (u.node = n => u.timestamp < time)
    <3>1. \A u \in Stored : u.timestamp \in Nat
      BY ValuesOfIs DEF KInv, Stored, Registers
    <3>2. \A u \in Stored : u.node = n => u.timestamp <= rep[n].timestamp
      BY DEF KInv, StampsUnique
    <3> QED
      BY <1>4, <2>2, <3>1, <3>2
  <2>6. \A u, v \in Stored' : u.timestamp = v.timestamp /\ u.node = v.node => u.value = v.value
    BY <1>4, <2>4, <2>5 DEF KInv, StampsUnique
  <2>7. \A u \in Stored', i \in Nodes : u.node = i => u.timestamp <= rep'[i].timestamp
    BY <1>4, <2>2, <2>3, <2>4, <2>5 DEF KInv, StampsUnique
  <2> QED
    BY <2>6, <2>7
<1> QED
  BY <1>1, <1>6, <1>8, <1>9 DEF KInv

LEMMA KInvNext == ASSUME ConfsOK, Nodes \subseteq Nat PROVE KInv /\ [KNext]_vars => KInv'
<1> SUFFICES ASSUME KInv, [KNext]_vars PROVE KInv'
  OBVIOUS
<1>1. CASE KNext
  BY <1>1, KInvUpdate, KInvReceive, KInvFullState, KInvCompact DEF KNext
<1>2. CASE UNCHANGED vars
  <2>1. conf' = conf /\ rep' = rep /\ net' = net
    BY <1>2 DEF vars
  <2>2. Stored' = Stored
    BY <2>1 DEF Stored
  <2>3. StampsUnique'
    BY <2>1, <2>2 DEF KInv, StampsUnique
  <2> QED
    BY <2>1, <2>3 DEF KInv
<1> QED
  BY <1>1, <1>2

LEMMA KInvMergeLaws == ASSUME ConfsOK, KInv PROVE MergeLaws
<1> DEFINE V == {rep[n] : n \in Nodes}
<1>1. conf.kind \in Kinds /\ V \subseteq ValuesOf(conf.kind)
  BY DEF KInv, ConfsOK
<1>2. CASE conf.kind = "lww"
  <2>1. V \subseteq Registers /\ \A u, v \in V : u.timestamp = v.timestamp /\ u.node = v.node => u.value = v.value
    BY <1>1, <1>2, ValuesOfIs DEF KInv, StampsUnique, Stored
  <2> QED
    BY <1>2, <2>1, LWWMergeLaws DEF MergeLaws
<1>3. CASE conf.kind # "lww"
  <2>1. MergeLawsOn(conf.kind, ValuesOf(conf.kind))
    BY <1>1, <1>3, ValuesOfIs, FlagMergeLaws, GCounterMergeLaws, PNCounterMergeLaws, MVMergeLaws, ORSetMergeLaws, ORMapMergeLaws DEF Kinds
  <2> QED
    BY <1>1, <2>1 DEF MergeLaws, MergeLawsOn
<1> QED
  BY <1>2, <1>3

\* Whatever the nodes write and in whatever way deltas and states travel, the
\* values that replicas hold (crdt.ReplicatedData) merge commutatively,
\* associatively and idempotently.
THEOREM ReplicasMerge == ASSUME ConfsOK, Nodes \subseteq Nat PROVE KSpec => []MergeLaws
<1>1. KInit => KInv
  BY KInvInit
<1>2. KInv /\ [KNext]_vars => KInv'
  BY KInvNext
<1>3. KInv => MergeLaws
  BY KInvMergeLaws
<1> QED
  BY <1>1, <1>2, <1>3, PTL DEF KSpec

=============================================================================
