------------------------- MODULE MCReconciliation --------------------------
(* Instances of Reconciliation for TLC.                                    *)
EXTENDS Reconciliation, TLC

CONSTANTS f1, f2, d1, d2, r1, r2

MCFiles == {f1, f2}
MCOneFile == {f1}
MCDrives == {d1, d2}
OneRequest == {r1}
TwoRequests == {r1, r2}
============================================================================
