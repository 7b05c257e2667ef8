------------------------------- MODULE MCActo -------------------------------
(***************************************************************************)
(* Three properties with six test cases for TLC, one of them pruned:       *)
(* chunks of two give the first of two workers one group more.             *)
(***************************************************************************)
EXTENDS Acto

CONSTANTS size, port, mode, grow, shrink, zero, low, flip, flop

MCCasesOf == [p \in Paths |->
  CASE p = size -> <<grow, shrink, zero>>
    [] p = port -> <<low>>
    [] p = mode -> <<flip, flop>>]
=============================================================================
