---------------------------- MODULE MCCloudBackup ----------------------------
(* Two items, a run and a second run or retry, and two failed calls.         *)
EXTENDS CloudBackup
MCItems == 1..2
MCPhotos == {}
=============================================================================
