---------------------------- MODULE MCLifecycle ----------------------------
(* Instances of Lifecycle for TLC: a top-level actor par with children kid  *)
(* and sib, or par and kid side by side.                                    *)
EXTENDS Lifecycle

CONSTANTS par, kid, sib

Nested == [n \in Names |-> IF n = par THEN Root ELSE par]
Flat == [n \in Names |-> Root]
NestedOnly == {Nested}
NestedOrFlat == {Nested, Flat}

\* The directives of the supervisors.
RestartOrStop == [n \in Names |-> IF n = par THEN "restart" ELSE "stop"]
ResumeOrEscalate == [n \in Names |-> IF n = kid THEN "resume" ELSE "escalate"]

\* Without siblings in a strategy and without retries, n operations ...
Scenario(n) == [oneForAll |-> {}, retries |-> 0, ops |-> n]
One == {Scenario(1)}
Two == {Scenario(2)}
Triple == {Scenario(3)}
\* ... and one failure with both.
Supervisors ==
  {[Scenario(2) EXCEPT !.oneForAll = {kid}]}
    \cup {[oneForAll |-> {par, kid}, retries |-> r, ops |-> 1] : r \in {0, 2}}

\* Stops of every kind, with failures and reinstatements in between.
StopOps ==
  {"shutdown"} \X {par, kid} \cup {"passivate"} \X {kid, sib}
    \cup {<<"fail", kid>>, <<"fail", sib>>, <<"reinstate", sib>>}

\* Failures that race with a stop, a restart or a spawn.
FailOps ==
  {<<"fail", par>>, <<"fail", kid>>, <<"shutdown", par>>, <<"restart", kid>>,
   <<"spawn", kid>>}

\* One restart; a stop and a passivation of the same actor.
RestartOps == {<<"restart", kid>>}
PassivationOps == {"shutdown", "passivate"} \X {kid}

=============================================================================
