------------------------------ MODULE FileVault ------------------------------
(***************************************************************************)
(* What the file store promises, without drives, rows, handlers, failures  *)
(* and crashes: a file that was reported as stored stays until somebody    *)
(* asks for its deletion, and what is gone does not come back.             *)
(***************************************************************************)
CONSTANT Files
VARIABLES pending,  \* files that are not stored yet
          kept,     \* files that can be read
          told,     \* files reported as stored
          asked     \* files somebody asked to delete

vaultVars == <<pending, kept, told, asked>>

VaultInit == pending = Files /\ kept = {} /\ told = {} /\ asked = {}

Arrive(f) == /\ f \in pending
             /\ pending' = pending \ {f} /\ kept' = kept \cup {f}
             /\ UNCHANGED <<told, asked>>

Report(f) == /\ f \in kept \cup asked
             /\ told' = told \cup {f} /\ UNCHANGED <<pending, kept, asked>>

Ask(some) == asked' = asked \cup some /\ UNCHANGED <<pending, kept, told>>

(* An upload that fails, a deletion carried out, files lost together.      *)
Vanish(gone) == /\ gone \subseteq pending \cup kept
                /\ gone \cap kept \cap told \subseteq asked
                /\ pending' = pending \ gone /\ kept' = kept \ gone
                /\ UNCHANGED <<told, asked>>

VaultNext == \/ \E f \in Files : Arrive(f) \/ Report(f)
             \/ \E some \in SUBSET Files : Ask(some) \/ Vanish(some)

VaultSpec == VaultInit /\ [][VaultNext]_vaultVars
============================================================================
