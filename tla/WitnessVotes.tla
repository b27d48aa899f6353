---------------------------- MODULE WitnessVotes ----------------------------
(***************************************************************************)
(* Witness vote tallying in database.cpp: the incremental bookkeeping of   *)
(* adjust_proxied_witness_votes (both forms), adjust_witness_votes,        *)
(* adjust_witness_vote and clear_witness_votes, driven by the operations   *)
(* that change eScore or votes (the witness vote, proxy, eScore withdraw,  *)
(* withdraw route and decline evaluators, which are outside src/ and are   *)
(* modelled from spec.md and the account fields they write) and by the two *)
(* block steps that do: process_ECO_fund_for_ESCOR_withdrawals and         *)
(* process_decline_voting_rights.                                          *)
(*                                                                         *)
(* An account's eScore reaches the witnesses through its proxy chain:      *)
(* proxied[i] of an account holds the eScore of the accounts i+1 proxy     *)
(* hops above it, and a chain stops propagating after                      *)
(* MAX_PROXY_RECURSION_DEPTH hops.  The ECO side of a withdrawal (the      *)
(* price, balances and the eScore fund) changes no vote and is left out,   *)
(* as are a witness's virtual scheduling fields, read only by the witness  *)
(* schedule outside src/.                                                  *)
(***************************************************************************)
EXTENDS Naturals, Integers, Sequences, FiniteSets, FiniteSetsExt, SequencesExt, TLC

CONSTANTS
    Accounts, AccountOrder,     \* accounts, and their order by id
    Witnesses,                  \* witness objects that may be voted for
    INITIAL_ESCOR,              \* each account's eScore at the start
    MAX_PROXY_RECURSION_DEPTH,
    WITHDRAW_AMOUNTS,           \* the eScore amounts a withdraw request may name
    WITHDRAWERS,                \* the accounts that request withdrawals and set routes
    ROUTE_PERCENTS,             \* the percents a withdraw route may set
    ESCOR_WITHDRAW_INTERVALS, ESCOR_WITHDRAW_INTERVAL_SECONDS,
    DECLINE_VOTING_RIGHTS_DELAY,
    MAX_WITHDRAW_ROUTES,
    MAX_TIME, MAX_GAP,          \* the last block time; the longest gap between blocks
    MAX_OPS,                    \* the most evaluator calls in a behaviour
    PRODUCER,                   \* the account of the witness producing every block
    PRODUCER_REWARD             \* the eScore its producer reward buys

PERCENT_100 == 10000
PROXY_TO_SELF_ACCOUNT == ""
NoRequest == -1
MAX_TIME_POINT == MAX_TIME + 1        \* fc::time_point_sec::maximum()
Depths == 0 .. MAX_PROXY_RECURSION_DEPTH - 1

VARIABLES
    now,      \* head_block_time()
    acct,     \* account_object: ESCOR, proxy, proxied_ESCORfundECObalance_votes,
              \* can_vote and the eScore withdrawal fields
    wv,       \* witness_vote_index: the <<account, witness>> vote records
    votes,    \* witness_object.votes
    routes,   \* withdrawESCOR_route_index: routes[<<from, to>>], or a missing key
    declines, \* decline_voting_rights_request: effective date, or NoRequest
    totalESCOR, \* dynamic_global_property_object.totalESCOR
    ops         \* evaluator calls so far, bounded by MAX_OPS

vars == <<now, acct, wv, votes, routes, declines, totalESCOR, ops>>

\* What the block steps read and write, as one record.
State == [acct |-> acct, wv |-> wv, votes |-> votes, declines |-> declines,
          totalESCOR |-> totalESCOR]

AccountId(a) == CHOOSE i \in DOMAIN AccountOrder : AccountOrder[i] = a

SumOver(S, f(_)) == MapThenSumSet(f, S)

\* account_object::witness_vote_weight (declared outside src/): the
\* account's eScore and everything proxied to it.
witness_vote_weight(ac) == ac.ESCOR + SumOver(Depths, LAMBDA i : ac.proxied[i])

-----------------------------------------------------------------------------
(* database.cpp                                                            *)

\* adjust_witness_vote: the witness's votes move by delta.  Its FC_ASSERT
\* that the votes stay within totalESCOR (1179) is left out: dropping it
\* only adds behaviours, and no state of the votes run comes near it.
adjust_witness_vote(st, w, delta) == [st EXCEPT !.votes[w] = @ + delta]

\* adjust_witness_votes: every witness the account votes for.
adjust_witness_votes(st, a, delta) ==
    [st EXCEPT !.votes = [w \in Witnesses |->
                            IF <<a, w>> \in st.wv THEN st.votes[w] + delta ELSE st.votes[w]]]

\* adjust_proxied_witness_votes with one delta: it lands at index depth of
\* each proxy up the chain, and at the witnesses of the account that
\* votes itself, unless the chain is MAX_PROXY_RECURSION_DEPTH hops long.
RECURSIVE adjust_proxied_witness_votes(_, _, _, _)
adjust_proxied_witness_votes(st, a, delta, depth) ==
    LET p == st.acct[a].proxy
    IN  IF p # PROXY_TO_SELF_ACCOUNT
        THEN IF depth >= MAX_PROXY_RECURSION_DEPTH THEN st
             ELSE adjust_proxied_witness_votes(
                      [st EXCEPT !.acct[p].proxied[depth] = @ + delta], p, delta, depth + 1)
        ELSE adjust_witness_votes(st, a, delta)

RECURSIVE AdjustProxiedUnshifted(_, _, _, _)
AdjustProxiedUnshifted(st, a, delta, depth) ==
    LET p == st.acct[a].proxy
    IN  IF p # PROXY_TO_SELF_ACCOUNT
        THEN IF depth >= MAX_PROXY_RECURSION_DEPTH THEN st
             ELSE AdjustProxiedUnshifted(
                      [st EXCEPT !.acct[p].proxied =
                          [j \in Depths |-> IF j >= depth THEN @[j] + delta[j] ELSE @[j]]],
                      p, delta, depth + 1)
        ELSE adjust_witness_votes(st, a, SumOver(0 .. MAX_PROXY_RECURSION_DEPTH - depth,
                                                 LAMBDA i : delta[i]))

\* adjust_proxied_witness_votes with a delta per depth (delta[0] the
\* account's own eScore, delta[i+1] its proxied[i]): at depth d, delta[i]
\* lands at index i+d of the proxy; the witnesses of the account that
\* votes itself get the deltas that are still within the depth.
RECURSIVE adjust_proxied_witness_votes_array(_, _, _, _)
adjust_proxied_witness_votes_array(st, a, delta, depth) ==
    LET p == st.acct[a].proxy
    IN  IF p # PROXY_TO_SELF_ACCOUNT
        THEN IF depth >= MAX_PROXY_RECURSION_DEPTH THEN st
             ELSE adjust_proxied_witness_votes_array(
                      [st EXCEPT !.acct[p].proxied =
                          [j \in Depths |-> IF j >= depth THEN @[j] + delta[j - depth] ELSE @[j]]],
                      p, delta, depth + 1)
        ELSE adjust_witness_votes(st, a, SumOver(0 .. MAX_PROXY_RECURSION_DEPTH - depth,
                                                 LAMBDA i : delta[i]))

\* The delta that takes all of an account's weight out of its chain
\* (process_decline_voting_rights, and the proxy evaluator).
RemovalDelta(ac) ==
    [i \in 0 .. MAX_PROXY_RECURSION_DEPTH |-> IF i = 0 THEN -ac.ESCOR ELSE -ac.proxied[i - 1]]

\* clear_witness_votes: the account's vote records are removed (and,
\* after hardfork 6, witnesses_voted_for is reset, which this module does
\* not keep).
clear_witness_votes(st, a) == [st EXCEPT !.wv = {r \in @ : r[1] # a}]

\* createECOfundForESCOR with to_reward_balance false, as process_funds
\* calls it for the producer reward: the new eScore is added to the
\* account's ESCORrewardBalance (which no vote reads, and this module does
\* not keep), yet totalESCOR grows and the account's chain gains the
\* votes.
createECOfundForESCOR(st, a, newESCOR) ==
    adjust_proxied_witness_votes([st EXCEPT !.totalESCOR = @ + newESCOR], a, newESCOR, 0)

-----------------------------------------------------------------------------
(* process_ECO_fund_for_ESCOR_withdrawals                                  *)

ToWithdrawWholeRate(ac) == Min({ac.ESCOR, ac.rate})

\* The eScore taken out of a withdrawal this interval: the last tranche is
\* what is left of to_withdraw modulo the rate.
ToWithdraw(ac) ==
    IF ac.to_withdraw - ac.withdrawn < ac.rate
    THEN Min({ac.ESCOR, ac.to_withdraw % ac.rate})
    ELSE Min({ac.ESCOR, ac.rate})

RoutesFrom(rts, a, auto) == {r \in DOMAIN rts : r[1] = a /\ rts[r].auto = auto}

Deposit(rts, r, amount) == (amount * rts[r].percent) \div PERCENT_100

\* The first pass: auto-eScore routes move eScore to the route's account,
\* and its chain gains the votes.
DepositAsESCOR(st, rts, a, amount) ==
    FoldSet(LAMBDA r, s :
                LET d == Deposit(rts, r, amount)
                IN  IF d > 0
                    THEN adjust_proxied_witness_votes(
                             [s EXCEPT !.acct[r[2]].ESCOR = @ + d], r[2], d, 0)
                    ELSE s,
            st, RoutesFrom(rts, a, TRUE))

\* The second pass: the other routes are paid in ECO, and their eScore
\* leaves totalESCOR.
DepositAsECO(st, rts, a, amount) ==
    FoldSet(LAMBDA r, s : [s EXCEPT !.totalESCOR = @ - Deposit(rts, r, amount)],
            st, RoutesFrom(rts, a, FALSE))

DepositedAsECOOnly(rts, a, amount) ==
    SumOver(RoutesFrom(rts, a, FALSE), LAMBDA r : Deposit(rts, r, amount))

DepositedTotal(rts, a, amount) ==
    SumOver({r \in DOMAIN rts : r[1] = a}, LAMBDA r : Deposit(rts, r, amount))

\* One account's withdrawal in the loop: both route passes, then the
\* account's own part (its eScore, withdrawn, and the next withdrawal or
\* the end of the request), totalESCOR, and the votes of its chain.
WithdrawOne(st, rts, a) ==
    LET Finish(s, w) ==
            LET ac  == s.acct[a]
                esc == ac.ESCOR - w
                wd  == ac.withdrawn + w
                done == wd >= ac.to_withdraw \/ esc = 0
                s1  == [s EXCEPT
                          !.acct[a] = [ac EXCEPT !.ESCOR = esc, !.withdrawn = wd,
                                                 !.rate = IF done THEN 0 ELSE @,
                                                 !.next = IF done THEN MAX_TIME_POINT
                                                          ELSE @ + ESCOR_WITHDRAW_INTERVAL_SECONDS],
                          !.totalESCOR = @ - (w - DepositedTotal(rts, a, w))]
            IN  IF w > 0 THEN adjust_proxied_witness_votes(s1, a, -w, 0) ELSE s1
        Pay(w) == Finish(DepositAsECO(DepositAsESCOR(st, rts, a, w), rts, a, w), w)
    IN  Pay(ToWithdraw(st.acct[a]))

\* by_nextESCORwithdrawalTime orders accounts by (next withdrawal, id).
Before(st, a, b) ==
    \/ st.acct[a].next < st.acct[b].next
    \/ (st.acct[a].next = st.acct[b].next /\ AccountId(a) < AccountId(b))

\* The account after a in the index as it stands, or NoAccount at end().
NoAccount == "end"
Successor(st, a) ==
    LET later == {b \in Accounts : Before(st, a, b)}
    IN  IF later = {} THEN NoAccount
        ELSE CHOOSE b \in later : \A c \in later \ {b} : Before(st, b, c)

\* The loop steps its iterator past an account before it modifies it, so
\* an account whose next withdrawal is still due afterwards is paid again
\* in the same block only if it now sorts after the account the iterator
\* stands on.
RECURSIVE WithdrawFrom(_, _, _, _)
WithdrawFrom(st, rts, current, t) ==
    IF current = NoAccount \/ st.acct[current].next > t THEN st
    ELSE WithdrawFrom(WithdrawOne(st, rts, current), rts, Successor(st, current), t)

process_ECO_fund_for_ESCOR_withdrawals(st, rts, t) ==
    WithdrawFrom(st, rts, CHOOSE a \in Accounts : \A b \in Accounts \ {a} : Before(st, a, b), t)

-----------------------------------------------------------------------------
(* process_decline_voting_rights                                           *)

DeclineKeepingVotes(st, a) ==
    LET s1 == adjust_proxied_witness_votes_array(st, a, RemovalDelta(st.acct[a]), 0)
    IN  [s1 EXCEPT !.acct[a].can_vote = FALSE,
                   !.acct[a].proxy = PROXY_TO_SELF_ACCOUNT,
                   !.declines[a] = NoRequest]

\* One request: the account's weight leaves its chain, its vote records
\* go, it may no longer vote and it votes for itself.
DeclineOne(st, a) ==
    LET s1 == clear_witness_votes(
                  adjust_proxied_witness_votes_array(st, a, RemovalDelta(st.acct[a]), 0), a)
    IN  [s1 EXCEPT !.acct[a].can_vote = FALSE,
                   !.acct[a].proxy = PROXY_TO_SELF_ACCOUNT,
                   !.declines[a] = NoRequest]

\* by_effective_date, re-read from the start after each request.
RECURSIVE process_decline_voting_rights(_, _)
process_decline_voting_rights(st, t) ==
    LET due == {a \in Accounts : st.declines[a] # NoRequest /\ st.declines[a] <= t}
    IN  IF due = {} THEN st
        ELSE process_decline_voting_rights(
                 DeclineOne(st, CHOOSE a \in due : \A b \in due :
                               \/ st.declines[a] < st.declines[b]
                               \/ (st.declines[a] = st.declines[b] /\ AccountId(a) =< AccountId(b))),
                 t)

-----------------------------------------------------------------------------
Init ==
    /\ now = 0
    /\ acct = [a \in Accounts |->
                 [ESCOR |-> INITIAL_ESCOR[a], proxy |-> PROXY_TO_SELF_ACCOUNT,
                  proxied |-> [i \in Depths |-> 0], can_vote |-> TRUE,
                  rate |-> 0, next |-> MAX_TIME_POINT, to_withdraw |-> 0, withdrawn |-> 0]]
    /\ wv = {}
    /\ votes = [w \in Witnesses |-> 0]
    /\ routes = << >>
    /\ declines = [a \in Accounts |-> NoRequest]
    /\ totalESCOR = SumOver(Accounts, LAMBDA a : INITIAL_ESCOR[a])
    /\ ops = 0

\* Write a block step's or an evaluator's state back.
Commit(st) ==
    /\ acct' = st.acct
    /\ wv' = st.wv
    /\ votes' = st.votes
    /\ declines' = st.declines
    /\ totalESCOR' = st.totalESCOR

(* The witness vote evaluator (outside src/): an account that votes itself *)
(* adds or removes one vote record, and the witness gains or loses the     *)
(* account's whole weight.                                                 *)
WitnessVote(a, w, approve) ==
    /\ acct[a].proxy = PROXY_TO_SELF_ACCOUNT
    /\ approve => acct[a].can_vote
    /\ approve = (<<a, w>> \notin wv)
    /\ wv' = IF approve THEN wv \cup {<<a, w>>} ELSE wv \ {<<a, w>>}
    /\ votes' = adjust_witness_vote(State, w, IF approve THEN witness_vote_weight(acct[a])
                                                        ELSE -witness_vote_weight(acct[a])).votes
    /\ UNCHANGED <<now, acct, routes, declines, totalESCOR>>

\* The proxy chain from p, with a and p on it, has no loop and at most
\* MAX_PROXY_RECURSION_DEPTH accounts (the proxy evaluator's checks).
RECURSIVE ChainAllowed(_, _)
ChainAllowed(seen, x) ==
    LET n == acct[x].proxy
    IN  n = PROXY_TO_SELF_ACCOUNT
        \/ /\ n \notin seen
           /\ Cardinality(seen) + 1 <= MAX_PROXY_RECURSION_DEPTH
           /\ ChainAllowed(seen \cup {n}, n)

(* The proxy evaluator (outside src/): the account's weight and what is   *)
(* proxied to it leave the old chain; with a new proxy its vote records    *)
(* are cleared; then the same weight enters the new chain.                 *)
WitnessProxy(a, p) ==
    /\ acct[a].can_vote
    /\ acct[a].proxy # p
    /\ p # a
    /\ p # PROXY_TO_SELF_ACCOUNT => ChainAllowed({a, p}, p)
    /\ LET delta == RemovalDelta(acct[a])
           Add(st) == adjust_proxied_witness_votes_array(st, a, [i \in DOMAIN delta |-> -delta[i]], 0)
           Move(st) == IF p # PROXY_TO_SELF_ACCOUNT THEN clear_witness_votes(st, a) ELSE st
       IN  Commit(Add([Move(adjust_proxied_witness_votes_array(State, a, delta, 0))
                         EXCEPT !.acct[a].proxy = p]))
    /\ UNCHANGED <<now, routes>>

(* The eScore withdraw evaluator (outside src/): a request for amount     *)
(* eScore in ESCOR_WITHDRAW_INTERVALS tranches from the next interval on,  *)
(* or, with amount 0, the end of the current one.                          *)
WithdrawESCOR(a, amount) ==
    /\ amount <= acct[a].ESCOR
    /\ IF amount = 0
       THEN /\ acct[a].rate # 0
            /\ acct' = [acct EXCEPT ![a].rate = 0, ![a].next = MAX_TIME_POINT,
                                    ![a].to_withdraw = 0, ![a].withdrawn = 0]
       ELSE LET rate == Max({amount \div ESCOR_WITHDRAW_INTERVALS, 1})
            IN  /\ rate # acct[a].rate
                /\ acct' = [acct EXCEPT ![a].rate = rate,
                                        ![a].next = now + ESCOR_WITHDRAW_INTERVAL_SECONDS,
                                        ![a].to_withdraw = amount, ![a].withdrawn = 0]
    /\ UNCHANGED <<now, wv, votes, routes, declines, totalESCOR>>

(* The withdraw route evaluator (outside src/): add, change or (percent 0) *)
(* remove the route from one account to another; the routes of an account  *)
(* add up to at most 100%.                                                 *)
SetWithdrawRoute(from, to, percent, auto) ==
    /\ from # to
    /\ LET r == <<from, to>>
           new == IF r \notin DOMAIN routes
                  THEN (r :> [percent |-> percent, auto |-> auto]) @@ routes
                  ELSE IF percent = 0
                  THEN [x \in DOMAIN routes \ {r} |-> routes[x]]
                  ELSE [routes EXCEPT ![r] = [percent |-> percent, auto |-> auto]]
       IN  /\ r \notin DOMAIN routes =>
                 /\ percent # 0
                 /\ Cardinality({x \in DOMAIN routes : x[1] = from}) < MAX_WITHDRAW_ROUTES
           /\ SumOver({x \in DOMAIN new : x[1] = from}, LAMBDA x : new[x].percent) <= PERCENT_100
           /\ routes' = new
    /\ UNCHANGED <<now, acct, wv, votes, declines, totalESCOR>>

(* The decline voting rights evaluator (outside src/): a request effective *)
(* DECLINE_VOTING_RIGHTS_DELAY later, or the cancellation of one.          *)
DeclineVotingRights(a, decline) ==
    /\ acct[a].can_vote
    /\ IF decline
       THEN /\ declines[a] = NoRequest
            /\ declines' = [declines EXCEPT ![a] = now + DECLINE_VOTING_RIGHTS_DELAY]
       ELSE /\ declines[a] # NoRequest
            /\ declines' = [declines EXCEPT ![a] = NoRequest]
    /\ UNCHANGED <<now, acct, wv, votes, routes, totalESCOR>>

(* A block at time t: the steps of _apply_block that change eScore or     *)
(* votes, in their order: the producer reward of process_funds (2684),     *)
(* the eScore withdrawals (2687) and the declines of voting rights (2694). *)
ApplyBlock(t) ==
    /\ now < t /\ t =< now + MAX_GAP /\ t =< MAX_TIME
    /\ Commit(process_decline_voting_rights(
                  process_ECO_fund_for_ESCOR_withdrawals(
                      createECOfundForESCOR(State, PRODUCER, PRODUCER_REWARD), routes, t), t))
    /\ now' = t
    /\ UNCHANGED <<routes, ops>>

\* An evaluator call, within the bound.
Operation(op) == ops < MAX_OPS /\ op /\ ops' = ops + 1

Next ==
    \/ \E a \in Accounts, w \in Witnesses, approve \in BOOLEAN : Operation(WitnessVote(a, w, approve))
    \/ \E a \in Accounts, p \in Accounts \cup {PROXY_TO_SELF_ACCOUNT} : Operation(WitnessProxy(a, p))
    \/ \E a \in WITHDRAWERS, amount \in WITHDRAW_AMOUNTS \cup {0} : Operation(WithdrawESCOR(a, amount))
    \/ \E from \in WITHDRAWERS, to \in Accounts, percent \in ROUTE_PERCENTS \cup {0}, auto \in BOOLEAN :
          Operation(SetWithdrawRoute(from, to, percent, auto))
    \/ \E a \in Accounts, decline \in BOOLEAN : Operation(DeclineVotingRights(a, decline))
    \/ \E t \in 1 .. MAX_TIME : ApplyBlock(t)

Spec == Init /\ [][Next]_vars

-----------------------------------------------------------------------------
\* validate_invariants' sum of vote weights (3940-3944): an account that
\* votes itself counts its whole weight, a proxying one what reached it at
\* the last depth and goes no further.
VoteWeightTotal(ac) ==
    SumOver(Accounts, LAMBDA a : IF ac[a].proxy = PROXY_TO_SELF_ACCOUNT
                                 THEN witness_vote_weight(ac[a])
                                 ELSE ac[a].proxied[MAX_PROXY_RECURSION_DEPTH - 1])

\* retally_witness_votes: each witness's votes recomputed from scratch, the
\* weight of every account that votes itself and has a record for it.
retally_witness_votes(ac, records) ==
    [w \in Witnesses |->
        SumOver({a \in Accounts : ac[a].proxy = PROXY_TO_SELF_ACCOUNT /\ <<a, w>> \in records},
                LAMBDA a : witness_vote_weight(ac[a]))]

\* The account hops proxy steps along from u, or "" once the chain ends.
RECURSIVE Hop(_, _, _)
Hop(ac, u, hops) ==
    IF hops = 0 \/ u = PROXY_TO_SELF_ACCOUNT THEN u
    ELSE Hop(ac, ac[u].proxy, hops - 1)

\* validate_invariants (4027): totalESCOR equals the sum of the vote
\* weights.  Every eScore change of a withdrawal (auto routes, ECO routes,
\* the account's own part) and every proxy change and decline must move
\* the weights of the chains by exactly what moves totalESCOR, with the
\* depth cut-off on both sides.
VoteWeightsMatchTotal == totalESCOR = VoteWeightTotal(acct)

\* The incremental tally equals retally_witness_votes: after any sequence
\* of votes, proxy changes (including ones that lengthen a chain below
\* an account past the depth), withdrawals through routes and declines,
\* every witness holds exactly the weight of its voters.
WitnessVotesTallied == votes = retally_witness_votes(acct, wv)

\* proxied[i] of every account is the eScore of the accounts exactly i+1
\* proxy hops above it: the per-depth deltas of a proxy change or a
\* decline shift a whole sub-tree by the right number of hops.
ProxiedMatchesChains ==
    \A x \in Accounts, i \in Depths :
        acct[x].proxied[i] = SumOver({u \in Accounts : Hop(acct, u, i + 1) = x},
                                     LAMBDA u : acct[u].ESCOR)

\* A withdrawal never takes more eScore than was requested: the last
\* tranche is the remainder of to_withdraw modulo the rate.
WithdrawnWithinRequest == \A a \in Accounts : acct[a].withdrawn <= acct[a].to_withdraw

====
