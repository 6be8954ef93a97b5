----------------------------- MODULE MCLedgerIO -----------------------------
(* Instances of LedgerIO for TLC. *)
EXTENDS LedgerIO, TLC

CONSTANTS a, b, x, y

\* Payloads are only stored and compared.
DataSymmetry == Permutations(Data)

\* Room for a third line of a batch writer, whose count of pending appends then
\* goes past BatchSize = 2 when the fsync of the second one failed.
Pieces == [i \in Instances |-> IF i \in Batch THEN 7 ELSE 4]
=============================================================================
