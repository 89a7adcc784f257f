------------------------------ MODULE MCProgram ------------------------------
(* The two threads of the program and two more that use the metrics.        *)
EXTENDS Program

CONSTANTS c1, c2

MCTimes == 1..2
=============================================================================
