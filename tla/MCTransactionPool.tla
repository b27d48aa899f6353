------------------------- MODULE MCTransactionPool -------------------------
(* Two transactions expiring at times 2 and 3 on a clock of 0..5, chains  *)
(* of up to three blocks above genesis, HARDFORK_0_9 from time 3: blocks  *)
(* can be made before and after the hardfork, at a transaction's           *)
(* expiration and past it.  With a ring of two summaries, t1 names block  *)
(* 1 as made at time 1 with no transactions (a rival block 1 does not      *)
(* match) and t2 names genesis by the empty summary, until block 2 reuses  *)
(* its slot.                                                               *)
EXTENDS TransactionPool

CONSTANTS t1, t2

MCExp == (t1 :> 2 @@ t2 :> 3)

MCRef == (t1 :> <<1, <<1, << >>>>>> @@ t2 :> <<0, NullBlockId>>)
=============================================================================
