--------------------------- MODULE MCBlockSchedule ---------------------------
(* Three witnesses in a fixed rotation, a four-slot participation window,  *)
(* a clock of 0..6 with a day of one block, and three hardforks: the first *)
(* time-gated (standing in for 0.1-0.5), the second turning on witness     *)
(* shutdown (0.14) and the third after it, both voted in.                  *)
EXTENDS BlockSchedule

CONSTANTS w1, w2, w3

MCSchedule == <<w1, w2, w3>>

MCTimes == (0 :> 0) @@ (1 :> 2) @@ (2 :> 3) @@ (3 :> 4)

MCVersions == (0 :> 0) @@ (1 :> 1) @@ (2 :> 2) @@ (3 :> 3)
=============================================================================
