-------------------------- MODULE MCStorageSystem --------------------------
(* Instances of StorageSystem for TLC.                                     *)
EXTENDS StorageSystem, TLC

CONSTANTS f1, d1, d2, r1, j1, parent

MCOneFile == {f1}
MCDrives == {d1, d2}
OneRequest == {r1}
OneJob == {j1}
SameFolder == [j \in Jobs |-> parent]
MCSubtree == [x \in {parent} |-> Files]
============================================================================
