----------------------------- MODULE MCRecovery -----------------------------
(* Small instances of Recovery. *)
EXTENDS RecoveryInv

(* Lines of different lengths, and files that differ in them. *)
Lines == <<{1, 2}, {2}, {1, 2}>>

BreaksOf == [f \in 1..NumFiles |-> Lines[f]]
=============================================================================
