----------------------------- MODULE MCRewards -----------------------------
(***************************************************************************)
(* Accounts, comments and orders for checking Rewards with TLC.           *)
(***************************************************************************)
EXTENDS Rewards

CONSTANTS a1, a2, c1, c2

MCAccountOrder == <<a1, a2>>
MCCommentOrder == <<c1, c2>>

\* a downvote and an upvote
MCRShares == {-63, 64}

\* no beneficiary, or half of the author's tokens to a2
MCBeneficiaryRoutes == {<< >>, << [account |-> a2, weight |-> 50 * PERCENT_1] >>}
=============================================================================
