--------------------------- MODULE MCWitnessVotes ---------------------------
(***************************************************************************)
(* Accounts and witnesses for checking WitnessVotes with TLC.  With four  *)
(* accounts and a recursion depth of 2 a proxy chain can be three hops     *)
(* long (the proxy evaluator checks only the chain below the new proxy),   *)
(* so the depth cut-off is reached.  a1 holds enough eScore that a         *)
(* withdrawal of 5 in 2 intervals ends with a remainder tranche.           *)
(***************************************************************************)
EXTENDS WitnessVotes

CONSTANTS a1, a2, a3, a4, w1, w2

MCAccountOrder == <<a1, a2, a3, a4>>

MCInitialESCOR == [a \in {a1, a2, a3, a4} |-> IF a = a1 THEN 6 ELSE IF a = a2 THEN 2 ELSE 1]
=============================================================================
