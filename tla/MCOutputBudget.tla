--------------------------- MODULE MCOutputBudget ---------------------------
(* A small instance of OutputBudget for TLC. *)
EXTENDS OutputBudget, TLC

CONSTANTS w1, w2, w3
MCWriters == {w1, w2, w3}
MCSizes == {0, 1, 2}
=============================================================================
