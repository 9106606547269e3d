--------------------------- MODULE MCKeyRotation ---------------------------
(* Instances of KeyRotation for TLC.                                       *)
EXTENDS KeyRotation

CONSTANTS ann, bob, cid

MCNames == {ann, bob, cid}
MCTwoNames == {ann, bob}
MCOneUser == <<ann>>
MCTwoUsers == <<ann, bob>>
MCThreeUsers == <<ann, bob, cid>>
MCNoUsers == <<>>
============================================================================
