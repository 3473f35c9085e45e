----------------------------- MODULE MCSegments -----------------------------
(* Small instances of Segments: a few mutation and session threads.        *)
EXTENDS Segments, TLC

CONSTANTS w1, w2, r1, r2

ThreadSymmetry ==
  {f @@ g : f \in Permutations({r1, r2}), g \in Permutations({w1, w2})}
NoWriter == {}
OneWriter == {w1}
BothWriters == {w1, w2}
BothReaders == {r1, r2}
AlwaysFits == {TRUE}
MayDecline == BOOLEAN
=============================================================================
