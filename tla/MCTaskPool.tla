----------------------------- MODULE MCTaskPool -----------------------------
EXTENDS TaskPool, TLC

CONSTANTS small, other, large

\* Two types of futures of one size, and a larger one.
MCSize == (small :> 1) @@ (other :> 1) @@ (large :> 2)

=============================================================================
