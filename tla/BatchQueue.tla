----------------------------- MODULE BatchQueue -----------------------------
(***************************************************************************)
(* What the bulk batcher promises (docs/bulk_batcher_design.md, slicer.py):*)
(* numbered batches of exactly Size records, cut once and for all in the   *)
(* order of their numbers, and no record in two of them or in one of them  *)
(* and elsewhere.                                                          *)
(***************************************************************************)
EXTENDS Naturals, FiniteSets

CONSTANTS
    Record,    \* records, by uid
    Batch,     \* batch numbers
    Size,      \* records of a batch
    Known      \* records consumed before the queue started

VARIABLES
    out,       \* out[n]: the records of batch n, {} while it is not committed
    elsewhere  \* records consumed by other runs

Consumed == elsewhere \cup UNION {out[n] : n \in Batch}

Init == out = [n \in Batch |-> {}] /\ elsewhere = Known

\* Batch n gets its records, none of them consumed before.
Commit(n) ==
    /\ \A m \in Batch : m >= n => out[m] = {}
    /\ out'[n] \subseteq Record \ Consumed /\ Cardinality(out'[n]) = Size
    /\ out' = [out EXCEPT ![n] = out'[n]]
    /\ UNCHANGED elsewhere

\* Another run consumes a record no batch has.
Ingest(r) ==
    /\ r \in Record \ Consumed
    /\ elsewhere' = elsewhere \cup {r}
    /\ UNCHANGED out

Next == (\E n \in Batch : Commit(n)) \/ (\E r \in Record : Ingest(r))

Spec == Init /\ [][Next]_<<out, elsewhere>>

=============================================================================
