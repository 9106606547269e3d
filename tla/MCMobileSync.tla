---------------------------- MODULE MCMobileSync ----------------------------
(* Constants of the TLC runs of MobileSync.                                *)
EXTENDS MobileSync

NoPhotos == {}
FirstPhoto == {1}
============================================================================
