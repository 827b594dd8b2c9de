--------------------------- MODULE MCProjectStore ---------------------------
(***************************************************************************)
(* A small project for TLC: one document of two cells, an operation list   *)
(* that adds to one of them, refused when the cell cannot hold the sum.    *)
(***************************************************************************)
EXTENDS ProjectStore, TLC

CONSTANTS t1, t2, u1, k1, k2, h1, h2, a, b

Cells == {a, b}

MCDocs == {doc \in [Cells -> 0..2] : doc[b] < 2}
MCGenesis == [c \in Cells |-> 0]
MCOps == [cell: Cells, by: {-1, 1}]
MCApply(op, doc) ==
  LET sum == [doc EXCEPT ![op.cell] = @ + op.by] IN IF sum \in MCDocs THEN sum ELSE Rejected
MCInverse(op, doc) == [op EXCEPT !.by = -@]

\* The first cell takes one of these twice, the second one only once.
AddA == [cell |-> a, by |-> 1]
AddB == [cell |-> b, by |-> 1]

\* A transaction, another one, and two that reuse the key or the ID of the
\* first with another payload.
MCIntents ==
  {[id |-> t1, key |-> k1, op |-> AddA],
   [id |-> t2, key |-> k2, op |-> AddB],
   [id |-> t2, key |-> k1, op |-> AddB],
   [id |-> t1, key |-> k2, op |-> AddB]}

\* Without key or ID reuse, for the liveness run.
MCPlainIntents ==
  {[id |-> t1, key |-> k1, op |-> AddA],
   [id |-> t2, key |-> k2, op |-> AddB]}

MCTxIds == {t1, t2, u1}
MCKeys == {k1, k2}
MCHandles == {h1, h2}
MCUndoIds == {u1}
MCSharedUndoIds == {t2, u1}
MCOneHandle == {h1}

Symmetry == Permutations(MCHandles)
=============================================================================
