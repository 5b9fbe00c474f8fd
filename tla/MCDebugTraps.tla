------------------------------ MODULE MCDebugTraps ------------------------------
(* DebugTraps for TLC: a program of three instructions and two variables, a *)
(* thread that calls the API and one that does not. *)
EXTENDS DebugTraps

CONSTANTS t1, t2

RulesButOutside  == AllRules \ {"outside"}
EitherFirst      == AllRules \ {"software-first"}

ThreeInstructions == 0 .. 2
TwoVariables      == {10, 11}
================================================================================
