-------------------------- MODULE MCClientSession --------------------------
(* Constants of the TLC runs of ClientSession.                             *)
EXTENDS ClientSession

Both == {"mobile", "web"}
WebOnly == {"web"}
============================================================================
