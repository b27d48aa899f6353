-------------------------- MODULE MCChainDatabase --------------------------
(***************************************************************************)
(* Block trees and witness sets for checking ChainDatabase with TLC.       *)
(* Blocks are numbered 1..N and the null block id is 0.                    *)
(***************************************************************************)
EXTENDS ChainDatabase

CONSTANTS w1, w2, w3

\* Three witnesses produce a main chain 1-2-3-4-5 in turn.  Block 6 is a
\* rival of 5 built on 4 by the witness after 5's, and 7 extends it, so
\* the fork 6-7 overtakes 5 after the LIB has reached 3.  Blocks 8-9 fork
\* off at 2, below that LIB, and overtake 3 if they arrive before 4.
MCBlocks == 1..9
MCParent == (1 :> 0 @@ 2 :> 1 @@ 3 :> 2 @@ 4 :> 3 @@ 5 :> 4 @@ 6 :> 4 @@ 7 :> 6
             @@ 8 :> 2 @@ 9 :> 8)
MCProducer == (1 :> w1 @@ 2 :> w2 @@ 3 :> w3 @@ 4 :> w1 @@ 5 :> w2 @@ 6 :> w3 @@ 7 :> w1
               @@ 8 :> w3 @@ 9 :> w1)
=============================================================================
