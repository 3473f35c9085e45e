---------------------------- MODULE SerialStore ----------------------------
(***************************************************************************)
(* What the transactional store promises: transactions run one after the   *)
(* other, each reading the state its predecessors left; a crash may undo   *)
(* the latest ones, but none that was made durable.                        *)
(***************************************************************************)
EXTENDS Naturals, Sequences

CONSTANTS Key, Tx, NoTx

VARIABLES
    hist,       \* the transactions in serial order
    durable     \* how many of them no crash can undo

\* The last transaction of h that wrote k, NoTx if there is none.
LastWriter(h, k) ==
    LET w == {n \in DOMAIN h : k \in h[n].writes}
    IN  IF w = {} THEN NoTx
        ELSE h[CHOOSE n \in w : \A m \in w : m <= n].tx

\* Transaction t reads the keys rd, sees for each the last writer's row, and
\* writes the keys wr; the commit may be durable at once.
Commit(t, rd, wr) ==
    /\ hist' = Append(hist, [tx |-> t, writes |-> wr,
                             saw |-> [k \in rd |-> LastWriter(hist, k)]])
    /\ durable' \in {durable, Len(hist')}

Harden == durable' \in durable..Len(hist) /\ UNCHANGED hist

Crash ==
    \E n \in durable..Len(hist) :
        hist' = SubSeq(hist, 1, n) /\ durable' \in durable..n

Init == hist = <<>> /\ durable = 0

Next ==
    \/ Harden
    \/ Len(hist') > Len(hist) /\
       \E t \in Tx, rd \in SUBSET Key, wr \in SUBSET Key :
          t \notin {hist[n].tx : n \in DOMAIN hist} /\ Commit(t, rd, wr)
    \/ Crash

Spec == Init /\ [][Next]_<<hist, durable>>
=============================================================================
