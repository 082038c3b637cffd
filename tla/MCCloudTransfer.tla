--------------------------- MODULE MCCloudTransfer ---------------------------
(* Small instances of CloudTransfer for TLC.                                *)
EXTENDS CloudTransfer, TLC

\* A deadline a second and a half away, with room for one retry, and none.
MCTimeouts == {3, NoTime}

\* Bound: a crash or a failed statement, not both (ct_liveness has both).
OneMishap == crashes + faults <= 1

Symmetry == Permutations(Transfers) \cup Permutations(Workers)
=============================================================================
