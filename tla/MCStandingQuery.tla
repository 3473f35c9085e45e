-------------------------- MODULE MCStandingQuery --------------------------
(* Small instances of StandingQuery.                                       *)
EXTENDS StandingQuery, TLC

CONSTANTS k1, k2, a, b, m1, m2, q1, q2

OneKey == {k1}
TwoKeys == {k1, k2}
OneVal == {a}
TwoVals == {a, b}
OneMutator == {m1}
TwoMutators == {m1, m2}
OneQuery == {q1}
Symmetry == {f @@ g @@ h : f \in Permutations({m1, m2}),
                          g \in Permutations({k1, k2}), h \in Permutations({a, b})}
=============================================================================
