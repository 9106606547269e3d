--------------------------- MODULE MCClientPages ---------------------------
(* Constants of the run of ClientPages.                                    *)
EXTENDS ClientPages, TLC

TwoRows == {<<"s1", "nvme">>, <<"s2", "hdd">>}
OwnRow == <<"s1", "nvme">>

(* Folders are alike, and so are chunks, media files, drives, plans and     *)
(* calls; one pair of values stands for each in its own page.               *)
Alike == Permutations(Folders \cup Chunks \cup Media \cup Disks \cup Plans \cup Jobs)
============================================================================
