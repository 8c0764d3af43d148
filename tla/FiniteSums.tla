------------------------------ MODULE FiniteSums ------------------------------
(***************************************************************************)
(* What the services compute with sum() and SUM(...): the values that a     *)
(* function gives the members of a finite set, added up.  The function is   *)
(* an argument, not an operator, so that the theorems of SumTheorems apply  *)
(* to every sum of the project.                                             *)
(***************************************************************************)
EXTENDS Integers, FiniteSetsExt

SumOver(f, S) == MapThenSumSet(LAMBDA x : f[x], S)
=============================================================================
