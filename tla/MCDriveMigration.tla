------------------------- MODULE MCDriveMigration --------------------------
(* Instances of DriveMigration for TLC.                                    *)
EXTENDS DriveMigration, TLC

CONSTANTS f1, f2, d1, d2, r1, j1, j2, j3, parent, child, grandchild

MCFiles == {f1, f2}
MCOneFile == {f1}
MCDrives == {d1, d2}
OneRequest == {r1}
OneJob == {j1}
TwoJobs == {j1, j2}
ThreeJobs == {j1, j2, j3}
SameFolder == [j \in Jobs |-> parent]
NestedFolders ==
  [j \in Jobs |-> IF j = j1 THEN parent ELSE IF j = j2 THEN child ELSE grandchild]
MCSubtree == [x \in {parent, child, grandchild} |-> Files]
============================================================================
