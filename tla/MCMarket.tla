------------------------------ MODULE MCMarket ------------------------------
(* Two accounts holding 2 ECO and 2 EUSD each and the null account with   *)
(* nothing, amounts of 1..2 at five prices, three user operations in all   *)
(* (up to three orders, one convert request, one transfer and two savings  *)
(* withdraw requests, at most one open per account), a clock of 0..3 with *)
(* conversions and withdrawals due one block later and HARDFORK_0_14 at 1, *)
(* and a median of 2 EUSD per 3 ECO: prices cross, orders fill partially,  *)
(* remainders round to dust, a conversion's rounding differs from the     *)
(* total's, the request limit refuses a second request, and the null      *)
(* account is paid before and after the burn starts.                       *)
EXTENDS Market, TLC

CONSTANTS a1, a2, null

MCInitBal == [s \in Syms |-> 2]

MCMedian == [b |-> 2, q |-> 3]

\* Even prices, and prices of 2:1, 1:2, 3:2 and 2:3 either way, under which
\* a partial fill of 1 can round to nothing.
MCPrices == {<<1, 1>>, <<2, 1>>, <<1, 2>>, <<3, 2>>, <<2, 3>>}

\* The accounts start alike and the code never orders them by name.
Symmetry == Permutations(Accounts)
=============================================================================
