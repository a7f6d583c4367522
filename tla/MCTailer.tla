------------------------------ MODULE MCTailer ------------------------------
(* Small instances of Tailer for TLC. *)
EXTENDS TailerInv

(* Lines of different lengths, and files that differ in them. *)
LinesOf1 == <<{1}, {1}, {1}>>
LinesOf2 == <<{1, 2}, {2}, {1, 2}>>
LinesOf3 == <<{1, 3}, {2, 3}, {1, 2, 3}>>

(* Breaks for the files there are. *)
BreaksOf1 == [f \in 1..NumFiles |-> LinesOf1[f]]
BreaksOf2 == [f \in 1..NumFiles |-> LinesOf2[f]]
BreaksOf3 == [f \in 1..NumFiles |-> LinesOf3[f]]
=============================================================================
