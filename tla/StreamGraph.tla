---------------------------- MODULE StreamGraph ----------------------------
(***************************************************************************)
(* The graph DSL: named nodes are added one by one and compiled by Build    *)
(* into linear pipelines, in which a node with several consumers is cut out *)
(* as a broadcast with one slot per consumer; and applyFusion, which Run    *)
(* applies to every pipeline.                                               *)
(*                                                                         *)
(* A stage is a record [k, node, slot]; a broadcast starts when all of its  *)
(* `slots' slots are part of running pipelines (StreamFanOut).              *)
(***************************************************************************)
EXTENDS Integers, Sequences, SequencesExt, FiniteSets, FiniteSetsExt

CONSTANTS
    Menu,        \* calls a program may make: [name, kind, from]
    MaxCalls,
    Flows        \* flow stages for applyFusion: [kind, fuse, step], see below

VARIABLES nodes, order, pipeline

vars == <<nodes, order, pipeline>>

Init == nodes = [x \in {} |-> 0] /\ order = <<>> /\ pipeline = <<>>

\* AddSource, AddFlow, AddSink, MergeInto, ConcatInto: addNode; a name used
\* again replaces the node and is appended to the order once more.
AddNode(c) ==
    /\ Len(order) < MaxCalls
    /\ nodes' = [x \in DOMAIN nodes \union {c.name} |-> IF x = c.name THEN c ELSE nodes[x]]
    /\ order' = Append(order, c.name)
    /\ UNCHANGED pipeline

\* Via: one more flow stage on a linear pipeline.
Via(f) ==
    /\ order = <<>> /\ Len(pipeline) < MaxCalls
    /\ pipeline' = Append(pipeline, f)
    /\ UNCHANGED <<nodes, order>>

Next == (pipeline = <<>> /\ \E c \in Menu : AddNode(c)) \/ \E f \in Flows : Via(f)

Spec == Init /\ [][Next]_vars

---------------------------------------------------------------------------
(* Build. *)

Froms(x) == ToSet(nodes[x].from)
Consumers(x) == {y \in DOMAIN nodes : x \in Froms(y)}

validateGraph ==
    /\ \A x \in DOMAIN nodes : Froms(x) \subseteq DOMAIN nodes
    /\ \E x \in DOMAIN nodes : nodes[x].kind = "source"
    /\ \E x \in DOMAIN nodes : nodes[x].kind = "sink"

downCount(x) == Cardinality(Consumers(x))

\* topologicalOrder: depth-first; visiting is the stack, a hit on it a cycle.
RECURSIVE visit(_, _, _)
visit(x, visiting, acc) ==
    IF ~acc.ok \/ x \in ToSet(acc.order) THEN acc
    ELSE IF x \in visiting THEN [acc EXCEPT !.ok = FALSE]
    ELSE LET a == FoldLeft(LAMBDA s, y : visit(y, visiting \union {x}, s), acc, nodes[x].from)
         IN  IF a.ok THEN [a EXCEPT !.order = Append(@, x)] ELSE a

topologicalOrder == FoldLeft(LAMBDA a, x : visit(x, {}, a), [ok |-> TRUE, order |-> <<>>], order)

Stage(k, x, slot) == [k |-> k, node |-> x, slot |-> slot]

\* buildChain and buildOwnChain; next maps the fan-out nodes to their next slot,
\* inner collects the chains below merge and concat junctions.
RECURSIVE buildChain(_, _), buildOwnChain(_, _)
buildChain(x, r) ==
    IF x \in DOMAIN r.next
    THEN [r EXCEPT !.chain = <<Stage("slot", x, r.next[x])>>, !.next[x] = @ + 1]
    ELSE buildOwnChain(x, r)

\* buildMergeDesc, buildConcatDesc.
JunctionOf(x, r) ==
    LET s == FoldLeft(LAMBDA a, y : LET b == buildChain(y, a) IN [b EXCEPT !.inner = Append(@, b.chain)],
                      r, nodes[x].from)
    IN  [s EXCEPT !.chain = <<Stage(nodes[x].kind, x, 0)>>]

buildOwnChain(x, r) ==
    CASE nodes[x].kind = "source" -> [r EXCEPT !.chain = <<Stage("source", x, 0)>>]
      [] nodes[x].kind = "flow" ->
           LET u == buildChain(nodes[x].from[1], r) IN [u EXCEPT !.chain = Append(@, Stage("flow", x, 0))]
      [] nodes[x].kind \in {"merge", "concat"} -> JunctionOf(x, r)
      [] OTHER -> [r EXCEPT !.ok = FALSE, !.chain = <<>>]

\* compile: fan-outs in topological order, then a pipeline per sink.
compile ==
    LET topo == topologicalOrder.order
        Cut(r, x) == IF downCount(x) <= 1 THEN r
                     ELSE LET u == buildOwnChain(x, r)
                          IN  [u EXCEPT !.next = [y \in DOMAIN @ \union {x} |-> IF y = x THEN 0 ELSE @[y]],
                                        !.inner = Append(@, u.chain)]
        cut == FoldLeft(Cut, [ok |-> TRUE, chain |-> <<>>, next |-> [y \in {} |-> 0], inner |-> <<>>, pipes |-> <<>>], topo)
        Pipe(r, x) == IF nodes[x].kind # "sink" THEN r
                      ELSE LET u == buildChain(nodes[x].from[1], r)
                           IN  [u EXCEPT !.pipes = Append(@, Append(u.chain, Stage("sink", x, 0)))]
    IN  FoldLeft(Pipe, cut, order)

BuildSucceeds == validateGraph /\ topologicalOrder.ok /\ compile.ok

---------------------------------------------------------------------------
(* applyFusion.  The functions of the flow stages are maps on 0 .. 3 that   *)
(* may filter out (-1) or fail (-2); step gives them.                       *)

Fusable(s) == s.kind = "flow" /\ s.fuse
Compose(f, g) == [v \in DOMAIN f |-> IF f[v] < 0 THEN f[v] ELSE g[f[v]]]

\* As if the functions of fused stages were composed in the wrong order.
applyFusionReversed(stages) ==
    IF Len(stages) < 2 THEN stages
    ELSE FoldLeft(LAMBDA r, s :
            IF r # <<>> /\ Fusable(s) /\ Fusable(Last(r))
            THEN Append(Front(r), [Last(r) EXCEPT !.step = Compose(s.step, @), !.parts = @ + s.parts])
            ELSE Append(r, s), <<>>, stages)
\* A run of two and more fusable neighbours becomes one stage.
applyFusion(stages) ==
    IF Len(stages) < 2 THEN stages
    ELSE FoldLeft(LAMBDA r, s :
            IF r # <<>> /\ Fusable(s) /\ Fusable(Last(r))
            THEN Append(Front(r), [Last(r) EXCEPT !.step = Compose(@, s.step), !.parts = @ + s.parts])
            ELSE Append(r, s), <<>>, stages)

---------------------------------------------------------------------------
(* Properties. *)

\* x feeds y: y reads from x, or from a node that x feeds.
RECURSIVE Upstream(_, _)
Upstream(S, k) == IF k = 0 THEN S ELSE Upstream(S \union UNION {Froms(y) : y \in S}, k - 1)
Feeds(x, y) == x \in Upstream(Froms(y), Cardinality(DOMAIN nodes))

\* Build refuses exactly the graphs with a cycle, and otherwise orders every
\* node after the nodes it reads from.
CyclesRefused ==
    validateGraph =>
        LET t == topologicalOrder
        IN  /\ t.ok <=> \A x \in DOMAIN nodes : ~Feeds(x, x)
            /\ t.ok => /\ ToSet(t.order) = DOMAIN nodes /\ Len(t.order) = Cardinality(DOMAIN nodes)
                       /\ \A i, j \in DOMAIN t.order : t.order[i] \in Froms(t.order[j]) => i < j

\* Every fan-out gets exactly as many slots as its broadcast waits for, in a
\* graph without dead ends, repeated inputs and repeated names; elsewhere the
\* count is off and the broadcast never starts.
Clean == /\ \A x \in DOMAIN nodes : nodes[x].kind = "sink"
                                    \/ \E y \in DOMAIN nodes : nodes[y].kind = "sink" /\ Feeds(x, y)
         /\ \A x \in DOMAIN nodes : Cardinality(Froms(x)) = Len(nodes[x].from)
         /\ Len(order) = Cardinality(DOMAIN nodes)
SlotsMatchConsumers ==
    (BuildSucceeds /\ Clean) =>
        LET slots == compile.next
        IN  \A x \in DOMAIN nodes : downCount(x) > 1 => slots[x] = downCount(x)

\* A compiled pipeline is a path of the graph: it starts with a source, a slot
\* or a junction, ends with its sink, and every stage reads from the one before.
PipelinesArePaths ==
    BuildSucceeds =>
        \A p \in ToSet(compile.pipes) :
            /\ Len(p) >= 2 /\ Last(p).k = "sink" /\ Head(p).k \in {"source", "slot", "merge", "concat"}
            /\ \A j \in 2 .. Len(p) : Froms(p[j].node) = {p[j - 1].node}

\* Fusion changes how many actors run a pipeline and not what it computes: run
\* stage by stage, the fused pipeline gives every input the same outcome, and
\* no two neighbours are left that could be fused.
Outcome(stages, v) == FoldLeft(LAMBDA a, s : IF a < 0 THEN a ELSE s.step[a], v, stages)
FusionKeepsMeaning ==
    LET f == applyFusion(pipeline)
    IN  /\ \A v \in 0 .. 3 : Outcome(f, v) = Outcome(pipeline, v)
        /\ \A j \in 2 .. Len(f) : ~(Fusable(f[j - 1]) /\ Fusable(f[j]))
===========================================================================
