------------------------------- MODULE Market -------------------------------
(***************************************************************************)
(* The internal market and the supply bookkeeping of database.cpp:         *)
(* apply_order, match, fill_order, cancel_order and clear_expired_orders,  *)
(* process_conversions and update_virtual_supply, with adjust_balance on   *)
(* the liquid balances, the savings balances and process_savings_withdraws *)
(* with adjust_ECOsavingsBalance, and the burn of the null account's       *)
(* balances by clear_null_account_balance through adjust_supply.  The      *)
(* operation evaluators that call them (limit_order_create,                *)
(* limit_order_cancel, convert, transfer, transfer_to_savings,             *)
(* transfer_from_savings) are not under src/ and are modelled from         *)
(* spec.md; so is fc's asset * price arithmetic.                           *)
(*                                                                         *)
(* An order is a record [id, seller, sym, for_sale, b, q, exp]: it sells   *)
(* for_sale units of sym at sell_price = b sym / q of the other symbol.    *)
(* The EUSD interest paid by adjust_balance is left out: the model fixes   *)
(* EUSD_interest_rate at 0, under which it pays nothing.                   *)
(***************************************************************************)
EXTENDS Naturals, FiniteSets, FiniteSetsExt, Sequences

CONSTANTS
    Accounts,           \* account names
    INIT_BAL,           \* INIT_BAL[s]: each account's opening balance of symbol s
    MAX_AMOUNT,         \* amounts an operation may use
    PRICES,             \* the prices <<b, q>> an order may ask
    MAX_ORDERS,         \* limit orders created in a behaviour
    MAX_CONVERTS,       \* convert requests created in a behaviour
    MAX_TIME,           \* head block times are 0..MAX_TIME
    CONVERSION_DELAY,   \* config.hpp, scaled to the model's clock
    MEDIAN,             \* current_median_history: MEDIAN.b EUSD per MEDIAN.q ECO
    NULL,               \* NULL_ACCOUNT, which nobody can sign for
    MAX_WITHDRAWS,      \* savings withdraw requests created in a behaviour
    MAX_TRANSFERS,      \* transfers and transfers to savings in a behaviour
    MAX_OPS,            \* user operations of every kind in a behaviour
    SAVINGS_WITHDRAW_TIME,           \* config.hpp, scaled to the model's clock
    SAVINGS_WITHDRAW_REQUEST_LIMIT,  \* config.hpp
    HF14_TIME           \* the time HARDFORK_0_14 is applied at

Syms == {"ECO", "EUSD"}

Other(s) == IF s = "ECO" THEN "EUSD" ELSE "ECO"

Amounts == 1..MAX_AMOUNT

\* Every account with balances: the users and the null account.
Holders == Accounts \cup {NULL}

VARIABLES
    bal,        \* bal[a][s]: account a's balance (or EUSDbalance)
    orders,     \* limit_order_index
    convs,      \* convert_request_index
    supply,     \* current_supply and current_EUSD_supply
    vsupply,    \* virtual_supply
    now,        \* head_block_time()
    nextOrder,  \* orders created so far (their object ids)
    nextConv,   \* convert requests created so far
    fills,      \* the fill_order_operations the last step emitted
    sav,        \* sav[a][s]: ECOsavingsBalance and EUSDsavingsBalance
    wds,        \* savings_withdraw_index
    swr,        \* swr[a]: account a's savings_withdraw_requests
    nextWd,     \* savings withdraw requests created so far
    nextXfer    \* transfers and transfers to savings made so far

vars == <<bal, orders, convs, supply, vsupply, now, nextOrder, nextConv, fills,
          sav, wds, swr, nextWd, nextXfer>>

\* The user operations made so far, of every kind.
Ops == nextOrder + nextConv + nextWd + nextXfer

(* asset * price (fc, not under src/): an amount of the price's base       *)
(* symbol converts at quote/base, one of its quote symbol at base/quote,   *)
(* rounding down in 128-bit arithmetic.                                    *)
Times(amount, base, b, q, sym) == IF sym = base THEN (amount * q) \div b ELSE (amount * b) \div q

\* amount_to_receive(): for_sale * sell_price.
ToReceive(o) == Times(o.for_sale, o.sym, o.b, o.q, o.sym)

\* EUSD valued at the median feed, in ECO.
InECO(eusd) == Times(eusd, "EUSD", MEDIAN.b, MEDIAN.q, "EUSD")

\* adjust_balance (3334-3376) and adjust_ECOsavingsBalance (3379-3421) on
\* the balance map bl; with EUSD_interest_rate at 0 both only add.
Credit(bl, a, s, amt) == [bl EXCEPT ![a][s] = @ + amt]

-----------------------------------------------------------------------------
(* Everything below works on a market record m = [bal, orders, fills],     *)
(* the part of the state an order operation changes.                       *)

CancelOrderWithoutRefund(m, o) == [m EXCEPT !.orders = @ \ {o}]

\* cancel_order (3286-3290): refund what is left for sale, remove the order.
CancelOrder(m, o) ==
    [m EXCEPT !.bal = Credit(@, o.seller, o.sym, o.for_sale), !.orders = @ \ {o}]

FillOrderKeepingDust(m, o, pays, receives) ==
    LET credited == [m EXCEPT !.bal = Credit(@, o.seller, Other(o.sym), receives)]
        rest == [o EXCEPT !.for_sale = @ - pays]
    IN  IF pays = o.for_sale
        THEN [done |-> TRUE, m |-> [credited EXCEPT !.orders = @ \ {o}]]
        ELSE [done |-> FALSE, m |-> [credited EXCEPT !.orders = (@ \ {o}) \cup {rest}]]

(* fill_order (3247-3284): credit what the seller receives; remove the     *)
(* order when it pays all it has for sale, otherwise reduce for_sale and   *)
(* cancel what is left when it can no longer receive anything.  Returns    *)
(* whether the order is gone.                                              *)
FillOrder(m, o, pays, receives) ==
    LET credited == [m EXCEPT !.bal = Credit(@, o.seller, Other(o.sym), receives)]
        rest == [o EXCEPT !.for_sale = @ - pays]
        kept == [credited EXCEPT !.orders = (@ \ {o}) \cup {rest}]
    IN  IF pays = o.for_sale
        THEN [done |-> TRUE, m |-> [credited EXCEPT !.orders = @ \ {o}]]
        ELSE IF ToReceive(rest) = 0
        THEN [done |-> TRUE, m |-> CancelOrder(kept, rest)]
        ELSE [done |-> FALSE, m |-> kept]

(* match (3145-3204) of the new order n against the resting order o at     *)
(* o's price: whichever side is smaller is filled completely.  Emits the   *)
(* fill_order_operation, fills n and then o; bit 0 of the result is "n is  *)
(* gone", bit 1 "o is gone".                                               *)
Match(m, n, o) ==
    LET nfs == n.for_sale
        ofs == o.for_sale
        Px(amt, sym) == Times(amt, o.sym, o.b, o.q, sym)
        smallNew == nfs =< Px(ofs, o.sym)
        oldReceives == IF smallNew THEN nfs ELSE Px(ofs, o.sym)
        newReceives == IF smallNew THEN Px(nfs, n.sym) ELSE ofs
        fill == [current |-> n.id, current_pays |-> oldReceives,
                 open |-> o.id, open_pays |-> newReceives]
        m1 == [m EXCEPT !.fills = Append(@, fill)]
        r1 == FillOrder(m1, n, oldReceives, newReceives)
        r2 == FillOrder(r1.m, o, newReceives, oldReceives)
    IN  [m |-> r2.m, newGone |-> r1.done, oldGone |-> r2.done]

\* The resting orders of the other side whose price the new order accepts:
\* limit_price_idx from lower_bound(max_price.max()) to upper_bound(~sell_price).
Crossing(m, n) == {o \in m.orders : o.sym # n.sym /\ o.b * n.b >= o.q * n.q}

\* The by_price order: the highest price first, then the lowest id.
Before(o1, o2) == o1.b * o2.q > o2.b * o1.q \/ (o1.b * o2.q = o2.b * o1.q /\ o1.id < o2.id)

Best(S) == CHOOSE o \in S : \A x \in S \ {o} : Before(o, x)

OrderWithId(m, id) == {o \in m.orders : o.id = id}

RECURSIVE ApplyOrderOnce(_, _)
ApplyOrderOnce(m, id) ==
    LET n == CHOOSE x \in OrderWithId(m, id) : TRUE
    IN  IF OrderWithId(m, id) = {} \/ Crossing(m, n) = {} THEN m
        ELSE Match(m, n, Best(Crossing(m, n))).m

(* apply_order (3123-3143): match the new order with the best crossing     *)
(* order again and again until a match fills it (bit 0) or no crossing     *)
(* order is left.                                                          *)
RECURSIVE ApplyOrder(_, _)
ApplyOrder(m, id) ==
    LET n == CHOOSE x \in OrderWithId(m, id) : TRUE
    IN  IF OrderWithId(m, id) = {} \/ Crossing(m, n) = {} THEN m
        ELSE LET r == Match(m, n, Best(Crossing(m, n)))
             IN  IF r.newGone THEN r.m ELSE ApplyOrder(r.m, id)

-----------------------------------------------------------------------------
(* The block maintenance below works on a record st holding every         *)
(* variable a block changes: bal, sav, orders, fills, convs, wds, swr,     *)
(* supply and vsupply.                                                     *)

(* update_virtual_supply (3008-3031): current_supply plus the EUSD supply  *)
(* at the median feed.  The EUSD print rate it also sets is not modelled.  *)
UpdateVirtualSupply(s) == s["ECO"] + InECO(s["EUSD"])

(* adjust_supply (3443-3474) by a negative delta, the only kind the        *)
(* modelled callers pass (so no new ESCOR fund is minted): an ECO delta    *)
(* moves current_supply and virtual_supply alike; an EUSD delta moves the  *)
(* EUSD supply and recomputes virtual_supply at the median.               *)
AdjustSupply(st, sym, delta) ==
    IF sym = "ECO"
    THEN [st EXCEPT !.supply["ECO"] = @ + delta, !.vsupply = @ + delta]
    ELSE LET s == [st.supply EXCEPT !["EUSD"] = @ + delta]
         IN  [st EXCEPT !.supply = s, !.vsupply = UpdateVirtualSupply(s)]

(* clear_null_account_balance (1213-1317): once HARDFORK_0_14 is applied,  *)
(* empty the null account's liquid and savings balances and burn the ECO   *)
(* and the EUSD total with adjust_supply.  Its vesting and reward          *)
(* balances, which the other branches burn, are always 0 here.             *)
ClearNullAccountBalance(st, hf14) ==
    LET burn(s) == st.bal[NULL][s] + st.sav[NULL][s]
        z == [st EXCEPT !.bal[NULL] = [s \in Syms |-> 0], !.sav[NULL] = [s \in Syms |-> 0]]
        e == IF burn("ECO") > 0 THEN AdjustSupply(z, "ECO", -burn("ECO")) ELSE z
    IN  IF ~hf14 THEN st
        ELSE IF burn("EUSD") > 0 THEN AdjustSupply(e, "EUSD", -burn("EUSD")) ELSE e

(* process_conversions (2027-2064): pay every request due by t at the      *)
(* median, each rounded on its own, then take the totals off the EUSD     *)
(* supply and add them to the ECO supply; virtual_supply moves by the      *)
(* issued ECO minus the converted EUSD's worth, rounded once.              *)
ProcessConversions(st, t) ==
    LET due == {c \in st.convs : c.date =< t}
        issue(c) == InECO(c.amount)
        netEUSD == MapThenSumSet(LAMBDA c : c.amount, due)
        netECO == MapThenSumSet(issue, due)
    IN  [st EXCEPT
            !.bal = [a \in Holders |->
                      [@[a] EXCEPT !["ECO"] = @ + MapThenSumSet(issue, {c \in due : c.owner = a})]],
            !.convs = @ \ due,
            !.supply = [@ EXCEPT !["ECO"] = @ + netECO, !["EUSD"] = @ - netEUSD],
            !.vsupply = @ + netECO - InECO(netEUSD)]

\* The first request of savings_withdraw_index by_complete_from_rid.
FirstWithdraw(W) ==
    CHOOSE w \in W : \A x \in W \ {w} : w.complete < x.complete \/ (w.complete = x.complete /\ w.id < x.id)

RECURSIVE ProcessSavingsWithdrawsKeepingCount(_, _)
ProcessSavingsWithdrawsKeepingCount(st, t) ==
    IF st.wds = {} \/ FirstWithdraw(st.wds).complete > t THEN st
    ELSE LET w == FirstWithdraw(st.wds)
         IN  ProcessSavingsWithdrawsKeepingCount(
                 [st EXCEPT !.bal = Credit(@, w.to, w.sym, w.amount), !.wds = @ \ {w}], t)

(* process_savings_withdraws (1865-1884): take the first request by        *)
(* completion time until one is not complete at t: credit its amount to    *)
(* the recipient, decrement the sender's savings_withdraw_requests and     *)
(* remove it.                                                              *)
RECURSIVE ProcessSavingsWithdraws(_, _)
ProcessSavingsWithdraws(st, t) ==
    IF st.wds = {} \/ FirstWithdraw(st.wds).complete > t THEN st
    ELSE LET w == FirstWithdraw(st.wds)
         IN  ProcessSavingsWithdraws(
                 [st EXCEPT !.bal = Credit(@, w.to, w.sym, w.amount),
                            !.swr[w.from] = @ - 1,
                            !.wds = @ \ {w}], t)

\* clear_expired_orders (3303-3313): cancel every order with expiration < t.
ClearExpiredOrders(st, t) ==
    FoldSet(LAMBDA o, acc : CancelOrder(acc, o), st, {o \in st.orders : o.exp < t})

-----------------------------------------------------------------------------
Init ==
    /\ bal = [a \in Holders |-> IF a = NULL THEN [s \in Syms |-> 0] ELSE INIT_BAL]
    /\ sav = [a \in Holders |-> [s \in Syms |-> 0]]
    /\ orders = {}
    /\ convs = {}
    /\ wds = {}
    /\ swr = [a \in Holders |-> 0]
    /\ supply = [s \in Syms |-> Cardinality(Accounts) * INIT_BAL[s]]
    /\ vsupply = UpdateVirtualSupply(supply)
    /\ now = 0
    /\ nextOrder = 0
    /\ nextConv = 0
    /\ nextWd = 0
    /\ nextXfer = 0
    /\ fills = << >>

(* limit_order_create2 (spec-modelled): take amt of sym from the seller,   *)
(* place the order at price b / q and apply it; with fill_or_kill the      *)
(* transaction fails, changing nothing, unless the order is gone.  The     *)
(* operation requires that amt at the price receive something.             *)
CreateOrder(a, sym, amt, b, q, exp, fillOrKill) ==
    LET o == [id |-> nextOrder, seller |-> a, sym |-> sym, for_sale |-> amt,
              b |-> b, q |-> q, exp |-> exp]
        m == [bal |-> Credit(bal, a, sym, -amt), orders |-> orders \cup {o}, fills |-> << >>]
        r == ApplyOrder(m, o.id)
    IN  /\ nextOrder < MAX_ORDERS
        /\ Ops < MAX_OPS
        /\ bal[a][sym] >= amt
        /\ exp > now
        /\ ToReceive(o) > 0
        /\ fillOrKill => OrderWithId(r, o.id) = {}
        /\ bal' = r.bal
        /\ orders' = r.orders
        /\ fills' = r.fills
        /\ nextOrder' = nextOrder + 1
        /\ UNCHANGED <<convs, supply, vsupply, now, nextConv, sav, wds, swr, nextWd, nextXfer>>

\* limit_order_cancel (spec-modelled): the seller cancels one of its orders.
Cancel(o) ==
    LET r == CancelOrder([bal |-> bal, orders |-> orders, fills |-> << >>], o)
    IN  /\ bal' = r.bal
        /\ orders' = r.orders
        /\ fills' = << >>
        /\ UNCHANGED <<convs, supply, vsupply, now, nextOrder, nextConv, sav, wds, swr, nextWd, nextXfer>>

\* convert (spec-modelled): take amt EUSD and file a request due after
\* CONVERSION_DELAY.
Convert(a, amt) ==
    /\ nextConv < MAX_CONVERTS
    /\ Ops < MAX_OPS
    /\ bal[a]["EUSD"] >= amt
    /\ bal' = Credit(bal, a, "EUSD", -amt)
    /\ convs' = convs \cup {[id |-> nextConv, owner |-> a, amount |-> amt,
                             date |-> now + CONVERSION_DELAY]}
    /\ nextConv' = nextConv + 1
    /\ fills' = << >>
    /\ UNCHANGED <<orders, supply, vsupply, now, nextOrder, sav, wds, swr, nextWd, nextXfer>>

\* transfer (spec-modelled, spec.md 8 "conservation on transfer"): move amt
\* of sym from a to another account, here the null account.
Transfer(a, to, sym, amt) ==
    /\ nextXfer < MAX_TRANSFERS
    /\ Ops < MAX_OPS
    /\ bal[a][sym] >= amt
    /\ bal' = Credit(Credit(bal, a, sym, -amt), to, sym, amt)
    /\ nextXfer' = nextXfer + 1
    /\ fills' = << >>
    /\ UNCHANGED <<orders, convs, supply, vsupply, now, nextOrder, nextConv, sav, wds, swr, nextWd>>

\* transfer_to_savings (spec-modelled): adjust_balance(from, -amt) and
\* adjust_ECOsavingsBalance(to, amt).
TransferToSavings(a, to, sym, amt) ==
    /\ nextXfer < MAX_TRANSFERS
    /\ Ops < MAX_OPS
    /\ bal[a][sym] >= amt
    /\ bal' = Credit(bal, a, sym, -amt)
    /\ sav' = Credit(sav, to, sym, amt)
    /\ nextXfer' = nextXfer + 1
    /\ fills' = << >>
    /\ UNCHANGED <<orders, convs, supply, vsupply, now, nextOrder, nextConv, wds, swr, nextWd>>

(* transfer_from_savings (spec-modelled): under the per-account limit on   *)
(* open requests, take amt from a's savings and file a request paying `to' *)
(* SAVINGS_WITHDRAW_TIME later, counted in a's savings_withdraw_requests.  *)
TransferFromSavings(a, to, sym, amt) ==
    /\ nextWd < MAX_WITHDRAWS
    /\ Ops < MAX_OPS
    /\ sav[a][sym] >= amt
    /\ swr[a] < SAVINGS_WITHDRAW_REQUEST_LIMIT
    /\ sav' = Credit(sav, a, sym, -amt)
    /\ wds' = wds \cup {[id |-> nextWd, from |-> a, to |-> to, sym |-> sym, amount |-> amt,
                         complete |-> now + SAVINGS_WITHDRAW_TIME]}
    /\ swr' = [swr EXCEPT ![a] = @ + 1]
    /\ nextWd' = nextWd + 1
    /\ fills' = << >>
    /\ UNCHANGED <<bal, orders, convs, supply, vsupply, now, nextOrder, nextConv, nextXfer>>

(* The market's share of _apply_block (2592-2700) for a block at time t,   *)
(* in the pipeline's order: clear_expired_orders, update_virtual_supply,   *)
(* clear_null_account_balance (HARDFORK_0_14 is applied at the end of an   *)
(* earlier block, so it is seen once the previous head time reached it),   *)
(* process_conversions, process_savings_withdraws, update_virtual_supply.  *)
Maintenance(t) ==
    LET st0 == [bal |-> bal, sav |-> sav, orders |-> orders, fills |-> << >>, convs |-> convs,
                wds |-> wds, swr |-> swr, supply |-> supply, vsupply |-> vsupply]
        st1 == ClearExpiredOrders(st0, t)
        st2 == [st1 EXCEPT !.vsupply = UpdateVirtualSupply(st1.supply)]
        st3 == ClearNullAccountBalance(st2, now >= HF14_TIME)
    IN  ProcessSavingsWithdraws(ProcessConversions(st3, t), t)

BlockStep(t, st) ==
    /\ t > now
    /\ t =< MAX_TIME
    /\ now' = t
    /\ bal' = st.bal
    /\ sav' = st.sav
    /\ orders' = st.orders
    /\ convs' = st.convs
    /\ wds' = st.wds
    /\ swr' = st.swr
    /\ supply' = st.supply
    /\ fills' = << >>
    /\ UNCHANGED <<nextOrder, nextConv, nextWd, nextXfer>>

ApplyBlock(t) ==
    LET st == Maintenance(t)
    IN  BlockStep(t, st) /\ vsupply' = UpdateVirtualSupply(st.supply)

Next ==
    \/ \E a \in Accounts, sym \in Syms, amt \in Amounts, p \in PRICES,
          exp \in {now + 1, MAX_TIME + 1}, fok \in BOOLEAN :
          CreateOrder(a, sym, amt, p[1], p[2], exp, fok)
    \/ \E o \in orders : Cancel(o)
    \/ \E a \in Accounts, amt \in Amounts : Convert(a, amt)
    \/ \E a \in Accounts, sym \in Syms, amt \in Amounts :
          \/ Transfer(a, NULL, sym, amt)
          \/ \E to \in {a, NULL} : TransferToSavings(a, to, sym, amt)
          \/ \E to \in {a, NULL} : TransferFromSavings(a, to, sym, amt)
    \/ \E t \in 1..MAX_TIME : ApplyBlock(t)

Spec == Init /\ [][Next]_vars

-----------------------------------------------------------------------------
Holding(s) ==
    MapThenSumSet(LAMBDA a : bal[a][s] + sav[a][s], Holders)
    + MapThenSumSet(LAMBDA w : w.amount, {w \in wds : w.sym = s})
    + MapThenSumSet(LAMBDA o : o.for_sale, {o \in orders : o.sym = s})
    + MapThenSumSet(LAMBDA c : c.amount, {c \in convs : "EUSD" = s})

\* validate_invariants (3914-4031), the first two checks within the
\* market: current_supply and current_EUSD_supply equal what accounts,
\* savings, open orders, convert requests and savings withdraw requests
\* hold, across matching, partial fills, dust cancellation, expiry,
\* conversion, withdrawal and the null account's burn.
SupplyMatchesHoldings == \A s \in Syms : supply[s] = Holding(s)


\* apply_order leaves no two resting orders that would trade with each
\* other: it keeps matching until the new order is filled or nothing
\* crosses it.
BookNotCrossed ==
    \A o1, o2 \in orders : o1.sym # o2.sym => o1.b * o2.b < o1.q * o2.q

\* In every fill_order_operation match emits, both sides pay something: the
\* rounding of for_sale * match_price never lets one side give its asset
\* away for nothing, because fill_order cancels a remainder that could
\* only be sold that way.
NoFillForNothing ==
    \A i \in 1..Len(fills) : fills[i].current_pays > 0 /\ fills[i].open_pays > 0

\* Every account's savings_withdraw_requests counts exactly its open
\* requests: transfer_from_savings raises it, process_savings_withdraws
\* lowers it for each request it completes, so the request limit the
\* evaluator checks bounds the requests the account really has open.
WithdrawRequestsCounted ==
    \A a \in Holders :
        LET open == Cardinality({w \in wds : w.from = a})
        IN  swr[a] = open /\ open =< SAVINGS_WITHDRAW_REQUEST_LIMIT
=============================================================================
