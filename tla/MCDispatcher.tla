---------------------------- MODULE MCDispatcher ----------------------------
(* Instances of Dispatcher for TLC.                                        *)
EXTENDS Dispatcher, TLC

CONSTANTS a1, a2, a3, p1, p2, p3

\* Actors and producers are interchangeable; workers are not, because of the
\* steal rotation.
Symmetry == Permutations(Actors) \cup Permutations(Producers)
\* Starvation is shown on a system that keeps running and whose producer
\* sends one message to each actor in turn.
Running ==
    /\ sys = "running"
    /\ \A c \in Producers : sending[c] # None =>
          sending[c].to = <<a1, a2, a3>>[sending[c].num]

=============================================================================
