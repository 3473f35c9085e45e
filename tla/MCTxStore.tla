----------------------------- MODULE MCTxStore -----------------------------
(* TxStore on small instances. *)
EXTENDS TxStore, TLC

CONSTANTS k1, k2

TxSymmetry == Permutations(Tx)

\* Keys are interchangeable too: the one range holds them all.
TxKeySymmetry == Permutations(Tx) \cup Permutations(Key)

\* The one interval of a two-key keyspace that is not a single key.
WholeRange == {{k1, k2}}

\* Instances with one key leave ranges to the others.
NoRange == {}
=============================================================================
