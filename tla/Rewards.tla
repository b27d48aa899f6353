------------------------------ MODULE Rewards ------------------------------
(***************************************************************************)
(* Content rewards after hardfork 19: the reward curves of                 *)
(* libraries/chain/util/reward.cpp, and in database.cpp the block's        *)
(* process_funds (inflation into the post reward fund, the eScore fund and *)
(* the producer's pay) and process_comment_cashout with                    *)
(* cashout_comment_helper, pay_curators, createECOfundForESCOR and         *)
(* create_EUSD.  The hardforks the module assumes passed are 16 (inflation *)
(* narrowing), 17 (one "post" reward fund, rewards into reward balances,   *)
(* single payout) and 19 (linear author curve, square-root curation curve, *)
(* 15-day decay of recent claims).                                         *)
(*                                                                         *)
(* Amounts are integers in satoshi; the constants that size them (the      *)
(* inflation rate, blocks per year, the decay rate, the cashout window)    *)
(* are scaled down in the MC module so that a few blocks pay something.    *)
(***************************************************************************)
EXTENDS Naturals, Integers, Sequences, FiniteSets, FiniteSetsExt, SequencesExt, Bitwise, TLC

CONSTANTS
    Accounts, AccountOrder,    \* accounts, and their order by id
    Comments, CommentOrder,    \* comment ids, and their order by id
    CURRENT_WITNESS,           \* props.current_witness of every block
    RSHARES,                   \* the rshares a vote may carry
    BENEFICIARY_ROUTES,        \* the beneficiary lists a comment may set
    PERCENT_EUSD_OPTIONS,      \* the percent_EUSD a comment may set
    INFLATION_RATE_START_PERCENT, INFLATION_RATE_STOP_PERCENT,
    INFLATION_NARROWING_PERIOD, BLOCKS_PER_YEAR,
    MAX_WITNESSES, SCHEDULE_WEIGHT, PAY_NORMALIZATION_FACTOR,
    RECENT_RESCOR_DECAY_RATE,  \* RECENT_RESCOR_DECAY_RATE_HF19, in block times
    CASHOUT_WINDOW_SECONDS, REVERSE_AUCTION_WINDOW_SECONDS,
    MEDIAN_EUSD, MEDIAN_ECO,   \* the median feed price: MEDIAN_EUSD per MEDIAN_ECO
    EUSD_PRINT_RATE,
    INITIAL_ESCOR, INITIAL_FUND,   \* the witness's eScore and the eScore fund at genesis
    ESCOR_PER_ECO_EMPTY,       \* the price createECOfundForESCOR uses while a fund is empty
    UINT128,                   \* 2^128, the range of recent_claims
    LO_BITS,                   \* the width of a uint128's low word (64)
    MAX_TIME, MAX_GAP          \* the last block time; the longest gap between blocks

PERCENT_100 == 10000
PERCENT_1 == PERCENT_100 \div 100
CONTENT_REWARD_PERCENT == 75 * PERCENT_1
ESCOR_fund_PERCENT == 15 * PERCENT_1
MIN_PAYOUT_TSD == 1
MAX_TIME_POINT == MAX_TIME + 1       \* fc::time_point_sec::maximum()
\* a comment's max_accepted_payout unless its options lower it; far above
\* any payout of the model
DEFAULT_MAX_ACCEPTED_PAYOUT == 1000000

-----------------------------------------------------------------------------
(* reward.cpp                                                              *)

RECURSIVE Msb(_)
\* boost find_msb on a non-zero uint64: the index of the highest set bit.
Msb(x) == IF x < 2 THEN 0 ELSE 1 + Msb(x \div 2)

Lo(u) == u % (2^LO_BITS)
Hi(u) == u \div (2^LO_BITS)

find_msb(u) ==
    LET x == IF Hi(u) # 0 THEN Hi(u) ELSE IF Lo(u) # 0 THEN Lo(u) ELSE 1
    IN  Msb(x) + (IF Hi(u) # 0 THEN LO_BITS ELSE 0)

\* approx_sqrt with the mantissa of the result not halved.
ApproxSqrtUnhalved(x) ==
    IF x = 0 THEN 0
    ELSE LET msb_x == find_msb(x)
             msb_z == shiftR(msb_x, 1)
             mantissa_x == x & (2^msb_x - 1)
             mantissa_z_hi == IF msb_x % 2 = 1 THEN 2^msb_z ELSE 0
             mantissa_z_lo == Lo(shiftR(mantissa_x, msb_x - msb_z))
         IN  2^msb_z | (mantissa_z_hi | mantissa_z_lo)

\* approx_sqrt: the square root from the bit length, with the bits below
\* the top one as a linear mantissa.
approx_sqrt(x) ==
    IF x = 0 THEN 0
    ELSE LET msb_x == find_msb(x)
             msb_z == shiftR(msb_x, 1)
             mantissa_x == x & (2^msb_x - 1)
             mantissa_z_hi == IF msb_x % 2 = 1 THEN 2^msb_z ELSE 0
             mantissa_z_lo == Lo(shiftR(mantissa_x, msb_x - msb_z))
         IN  2^msb_z | shiftR(mantissa_z_hi | mantissa_z_lo, 1)

evaluate_reward_curve(r, curve, content_constant) ==
    CASE curve = "quadratic" ->
            (r + content_constant) * (r + content_constant) - content_constant * content_constant
      [] curve = "quadratic_curation" ->
            (Lo(r) * 2^LO_BITS) \div (2 * content_constant + r)
      [] curve = "linear" -> r
      [] curve = "square_root" -> approx_sqrt(r)

\* The curves of the post reward fund after hardfork 19 (apply_hardfork).
AuthorCurve(r) == evaluate_reward_curve(r, "linear", 0)
CurationCurve(r) == evaluate_reward_curve(r, "square_root", 0)

\* asset arithmetic at the median price
ToEUSD(eco) == (eco * MEDIAN_EUSD) \div MEDIAN_ECO
ToECO(eusd) == (eusd * MEDIAN_ECO) \div MEDIAN_EUSD

is_comment_payout_dust(payout) == ToEUSD(payout) < MIN_PAYOUT_TSD

\* get_SCORE_reward, called as util::get_ESCOR_reward: the comment's share
\* of the fund, zero when dust, capped at its max accepted payout.
CappedPayout(payout, max_EUSD) ==
    LET paid == IF is_comment_payout_dust(payout) THEN 0 ELSE payout
    IN  IF paid < ToECO(max_EUSD) THEN paid ELSE ToECO(max_EUSD)

get_ESCOR_reward(net, reward_weight, max_EUSD, total_claims, fund) ==
    LET claim == (AuthorCurve(net) * reward_weight) \div PERCENT_100
    IN  CappedPayout((fund * claim) \div total_claims, max_EUSD)
-----------------------------------------------------------------------------
(* State                                                                   *)

VARIABLES
    now,      \* head_block_time()
    blocks,   \* head_block_num()
    gpo,      \* dynamic_global_property_object: supply, EUSD supply, eScore totals
    acct,     \* account_object balances the rewards touch
    rf,       \* the "post" reward_fund_object: reward_balance, recent_claims, last_update
    comment,  \* comment_object of every comment posted
    votes     \* comment_vote_object: votes[c][a] is a's weight on c, or -1

vars == <<now, blocks, gpo, acct, rf, comment, votes>>

NoVote == -1

Account == [ECOreward : Nat, EUSDreward : Nat, ESCOR : Nat,
            ESCORrewardBalance : Nat, ESCORrewardBalanceInECO : Nat]

\* What the block's steps read and write, as one record.
State(g, a, f) == [gpo |-> g, acct |-> a, rf |-> f]

Sum(f, S) == MapThenSumSet(LAMBDA x : f[x], S)

-----------------------------------------------------------------------------
(* database.cpp                                                            *)

\* get_ESCOR_price and get_ESCORreward_price of the global properties
\* (declared outside src/): eScore per ECO, or the genesis price while the
\* fund is empty.
NewESCOR(g, eco, to_reward_balance) ==
    LET shares == IF to_reward_balance THEN g.totalESCOR + g.pending_rewarded_ESCOR
                                       ELSE g.totalESCOR
        fund   == IF to_reward_balance THEN g.totalECOfundForESCOR + g.pending_rewarded_ESCORvalueInECO
                                       ELSE g.totalECOfundForESCOR
    IN  IF shares = 0 \/ fund = 0 THEN eco * ESCOR_PER_ECO_EMPTY
                                  ELSE (eco * shares) \div fund

\* createECOfundForESCOR without the reward balance's ECO value.
CreateESCORNoValueInECO(st, to, eco, to_reward_balance) ==
    LET new == NewESCOR(st.gpo, eco, to_reward_balance)
        a   == st.acct[to]
        g   == st.gpo
    IN  [st EXCEPT
           !.acct[to].ESCORrewardBalance = a.ESCORrewardBalance + new,
           !.gpo = IF to_reward_balance
                   THEN [g EXCEPT !.pending_rewarded_ESCOR = @ + new,
                                  !.pending_rewarded_ESCORvalueInECO = @ + eco]
                   ELSE [g EXCEPT !.totalECOfundForESCOR = @ + eco,
                                  !.totalESCOR = @ + new]]

\* createECOfundForESCOR: convert eco into eScore at the fund's price and
\* credit it to the account's reward balance (to_reward_balance) or, as the
\* code stands, to the same reward balance while the eScore totals grow
\* (the else branch at 1055).  The proxied witness votes it adjusts are not
\* part of this module.
createECOfundForESCOR(st, to, eco, to_reward_balance) ==
    LET new == NewESCOR(st.gpo, eco, to_reward_balance)
        a   == st.acct[to]
        g   == st.gpo
    IN  [st EXCEPT
           !.acct[to] = IF to_reward_balance
                        THEN [a EXCEPT !.ESCORrewardBalance = @ + new,
                                       !.ESCORrewardBalanceInECO = @ + eco]
                        ELSE [a EXCEPT !.ESCORrewardBalance = @ + new],
           !.gpo = IF to_reward_balance
                   THEN [g EXCEPT !.pending_rewarded_ESCOR = @ + new,
                                  !.pending_rewarded_ESCORvalueInECO = @ + eco]
                   ELSE [g EXCEPT !.totalECOfundForESCOR = @ + eco,
                                  !.totalESCOR = @ + new]]

\* create_EUSD with a median feed and to_reward_balance: print part of eco
\* as EUSD into the reward balances and adjust both supplies.
create_EUSD(st, to, eco) ==
    LET to_EUSD == (EUSD_PRINT_RATE * eco) \div PERCENT_100
        to_ECO  == eco - to_EUSD
        eusd    == ToEUSD(to_EUSD)
    IN  IF eco = 0 THEN st
        ELSE [st EXCEPT
                !.acct[to].EUSDreward = @ + eusd,
                !.acct[to].ECOreward = @ + to_ECO,
                !.gpo.current_supply = @ - to_EUSD,
                !.gpo.current_EUSD_supply = @ + eusd]
\* pay_reward_funds with the post fund's percent_content_rewards of 100%.
pay_reward_funds(st, reward) ==
    LET r == (reward * PERCENT_100) \div PERCENT_100
    IN  [st |-> [st EXCEPT !.rf.reward_balance = @ + r], used |-> r]

\* process_funds after hardforks 16 and 17: inflation from the virtual
\* supply, 75% to the reward fund, 15% to the eScore fund and the rest,
\* scaled by the witness's schedule weight, to the producer as eScore.
process_funds(st, head_block_num) ==
    LET g    == st.gpo
        rate == Max({INFLATION_RATE_START_PERCENT - head_block_num \div INFLATION_NARROWING_PERIOD,
                     INFLATION_RATE_STOP_PERCENT})
        virtual_supply == g.current_supply + ToECO(g.current_EUSD_supply)
        new_ECO  == (virtual_supply * rate) \div (PERCENT_100 * BLOCKS_PER_YEAR)
        paid     == pay_reward_funds(st, (new_ECO * CONTENT_REWARD_PERCENT) \div PERCENT_100)
        content  == paid.used
        fund     == (new_ECO * ESCOR_fund_PERCENT) \div PERCENT_100
        witness  == ((new_ECO - content - fund) * MAX_WITNESSES * SCHEDULE_WEIGHT)
                        \div PAY_NORMALIZATION_FACTOR
        st1      == [paid.st EXCEPT !.gpo.totalECOfundForESCOR = @ + fund,
                                    !.gpo.current_supply = @ + content + fund + witness]
    IN  createECOfundForESCOR(st1, CURRENT_WITNESS, witness, FALSE)

AccountId(a) == CHOOSE i \in DOMAIN AccountOrder : AccountOrder[i] = a

\* by_comment_weight_voter: the comment's votes by weight, highest first,
\* then by voter id.
Curators(w) ==
    SortSeq(SelectSeq(AccountOrder, LAMBDA a : w[a] # NoVote),
            LAMBDA a, b : w[a] > w[b] \/ (w[a] = w[b] /\ AccountId(a) < AccountId(b)))

\* One curator's payout in pay_curators' loop: max_rewards * weight /
\* total_vote_weight as reward eScore, taken off the unclaimed tokens.
PayCurator(acc, v, cm, w, max_rewards) ==
    LET claim == (max_rewards * w[v]) \div cm.total_vote_weight
    IN  IF claim > 0
        THEN [st |-> createECOfundForESCOR(acc.st, v, claim, TRUE),
              unclaimed |-> acc.unclaimed - claim]
        ELSE acc

CuratorsPaid(st, cm, w, max_rewards) ==
    FoldLeft(LAMBDA acc, v : PayCurator(acc, v, cm, w, max_rewards),
             [st |-> st, unclaimed |-> max_rewards], Curators(w))

\* pay_curators without taking the unclaimed part off max_rewards.
PayCuratorsKeepingMax(st, cm, w, max_rewards) ==
    IF ~cm.allow_curationRewards
    THEN [st |-> st, unclaimed |-> 0, max_rewards |-> 0]
    ELSE IF cm.total_vote_weight = 0
    THEN [st |-> st, unclaimed |-> max_rewards, max_rewards |-> max_rewards]
    ELSE LET Result(paid) == [st |-> paid.st, unclaimed |-> paid.unclaimed,
                              max_rewards |-> max_rewards]
         IN  Result(CuratorsPaid(st, cm, w, max_rewards))

\* pay_curators: each voter gets max_rewards * weight / total_vote_weight
\* of the curation tokens as eScore; what is left is unclaimed, and
\* max_rewards becomes what was paid.  Without curation rewards nothing is
\* paid and nothing is unclaimed.
pay_curators(st, cm, w, max_rewards) ==
    IF ~cm.allow_curationRewards
    THEN [st |-> st, unclaimed |-> 0, max_rewards |-> 0]
    ELSE IF cm.total_vote_weight = 0
    THEN [st |-> st, unclaimed |-> max_rewards, max_rewards |-> 0]
    ELSE LET Result(paid) == [st |-> paid.st, unclaimed |-> paid.unclaimed,
                              max_rewards |-> max_rewards - paid.unclaimed]
         IN  Result(CuratorsPaid(st, cm, w, max_rewards))

get_curationRewards_percent == 25 * PERCENT_1   \* the post fund's percent_curationRewards

\* cashout_comment_helper's payout: the comment's reward split into
\* curation (pay_curators, the unclaimed part back to the author), the
\* beneficiaries' eScore, and the author's eScore and EUSD.  claimed_reward
\* is the author's tokens before beneficiaries plus the curation paid.
cashout_comment_helper(st, cm, w, total_claims, fund) ==
    LET reward == IF cm.net_ESCORreward > 0
                  THEN get_ESCOR_reward(cm.net_ESCORreward, cm.reward_weight,
                                        cm.max_accepted_payout, total_claims, fund)
                  ELSE 0
        curation(r) == (r * get_curationRewards_percent) \div PERCENT_100
        \* the author's share once curation is paid, to the beneficiaries
        ToBeneficiaries(r, cur) ==
            LET author == r - curation(r) + cur.unclaimed
            IN  FoldLeft(LAMBDA acc, b :
                           LET bt == (author * b.weight) \div PERCENT_100
                           IN  [st |-> createECOfundForESCOR(acc.st, b.account, bt, TRUE),
                                total |-> acc.total + bt],
                         [st |-> cur.st, total |-> 0], cm.beneficiaries)
        \* the rest to the author: eScore, and EUSD for percent_EUSD of half
        ToAuthor(r, cur, ben) ==
            LET author == r - curation(r) + cur.unclaimed
                left   == author - ben.total
                eusd   == (left * cm.percent_EUSD) \div (2 * PERCENT_100)
            IN  [st |-> create_EUSD(createECOfundForESCOR(ben.st, cm.author, left - eusd, TRUE),
                                    cm.author, eusd),
                 claimed |-> author + cur.max_rewards]
        Pay(r, cur) == ToAuthor(r, cur, ToBeneficiaries(r, cur))
        Paid(r) == IF r > 0 THEN Pay(r, pay_curators(st, cm, w, curation(r)))
                            ELSE [st |-> st, claimed |-> 0]
    IN  Paid(reward)

\* The comment after its payout: positive rshares spent, votes' weight
\* cleared, and (hardfork 17) never paid again.
PaidOut(cm, t) ==
    [cm EXCEPT !.net_ESCORreward = IF @ > 0 THEN 0 ELSE @,
               !.vote_rshares = 0, !.total_vote_weight = 0,
               !.cashout_time = MAX_TIME_POINT, !.last_payout = t]
CommentId(c) == CHOOSE i \in DOMAIN CommentOrder : CommentOrder[i] = c

\* by_cashout_time: the comments due at t, by cashout time, then by id.
Due(cmts, t) ==
    SortSeq(SelectSeq(CommentOrder, LAMBDA c : c \in DOMAIN cmts /\ cmts[c].cashout_time =< t),
            LAMBDA c, d : cmts[c].cashout_time < cmts[d].cashout_time
                          \/ (cmts[c].cashout_time = cmts[d].cashout_time /\ CommentId(c) < CommentId(d)))

\* recent_claims -= recent_claims * elapsed / decay_rate, in uint128.
DecayedClaims(f, t) ==
    (f.recent_claims - (f.recent_claims * (t - f.last_update)) \div RECENT_RESCOR_DECAY_RATE) % UINT128

\* The first pass counting only the comments due before t.
DueClaimsBeforeNow(claims, cmts, t) ==
    claims + FoldLeft(LAMBDA acc, c : IF cmts[c].net_ESCORreward > 0
                                      THEN acc + AuthorCurve(cmts[c].net_ESCORreward)
                                      ELSE acc,
                      0, Due(cmts, t - 1))

\* The first pass of hardfork 17 (771): the claims of every comment due at t
\* are added before any is paid, so all of them are paid at one rate.
AddDueClaims(claims, cmts, t) ==
    claims + FoldLeft(LAMBDA acc, c : IF cmts[c].net_ESCORreward > 0
                                      THEN acc + AuthorCurve(cmts[c].net_ESCORreward)
                                      ELSE acc,
                      0, Due(cmts, t))

CashoutClaims(st, cmts, t) == AddDueClaims(DecayedClaims(st.rf, t), cmts, t)

\* get_SCORE_reward's FC_ASSERT that the claims are positive: when it
\* fails, process_comment_cashout throws and the block does not apply.
ClaimsAssertHolds(st, cmts, t) ==
    LET due == Due(cmts, t)
    IN  \A i \in DOMAIN due : cmts[due[i]].net_ESCORreward > 0 => CashoutClaims(st, cmts, t) > 0

\* process_comment_cashout at block time t: decay the fund's recent claims,
\* snapshot the fund, add the due comments' claims, pay each due comment
\* against the snapshot, and write the claims and the tokens awarded back.
process_comment_cashout(st, cmts, w, t) ==
    LET snap == st.rf.reward_balance
        Award(acc, r) == [st |-> r.st, awarded |-> acc.awarded + r.claimed]
        PayAll(due, claims) ==
            FoldLeft(LAMBDA acc, c :
                       Award(acc, cashout_comment_helper(acc.st, cmts[c], w[c], claims, snap)),
                     [st |-> st, awarded |-> 0], due)
        WriteBack(due, claims, paid) ==
            [st   |-> [paid.st EXCEPT !.rf = [reward_balance |-> snap - paid.awarded,
                                              recent_claims |-> claims,
                                              last_update |-> t]],
             cmts |-> [c \in DOMAIN cmts |->
                         IF \E i \in DOMAIN due : due[i] = c THEN PaidOut(cmts[c], t) ELSE cmts[c]]]
        Cashout(due, claims) == WriteBack(due, claims, PayAll(due, claims))
    IN  Cashout(Due(cmts, t), CashoutClaims(st, cmts, t))

-----------------------------------------------------------------------------
Init ==
    /\ now = 0
    /\ blocks = 0
    /\ gpo = [current_supply |-> INITIAL_FUND, current_EUSD_supply |-> 0,
              totalECOfundForESCOR |-> INITIAL_FUND, totalESCOR |-> INITIAL_ESCOR,
              pending_rewarded_ESCOR |-> 0, pending_rewarded_ESCORvalueInECO |-> 0]
    /\ acct = [a \in Accounts |->
                 [ECOreward |-> 0, EUSDreward |-> 0,
                  ESCOR |-> IF a = CURRENT_WITNESS THEN INITIAL_ESCOR ELSE 0,
                  ESCORrewardBalance |-> 0, ESCORrewardBalanceInECO |-> 0]]
    /\ rf = [reward_balance |-> 0, recent_claims |-> 0, last_update |-> 0]
    /\ comment = << >>
    /\ votes = << >>

(* The comment evaluator (outside src/): a new comment by a, with the      *)
(* comment_options a may set before it is voted on, due a cashout window   *)
(* after now.                                                              *)
Post(a, c) ==
    /\ c \notin DOMAIN comment
    /\ \E allow \in BOOLEAN, ben \in BENEFICIARY_ROUTES, pct \in PERCENT_EUSD_OPTIONS :
         comment' = comment @@ (c :> [author |-> a, net_ESCORreward |-> 0, vote_rshares |-> 0,
                                      total_vote_weight |-> 0, reward_weight |-> PERCENT_100,
                                      max_accepted_payout |-> DEFAULT_MAX_ACCEPTED_PAYOUT,
                                      allow_curationRewards |-> allow, beneficiaries |-> ben,
                                      percent_EUSD |-> pct, created |-> now,
                                      cashout_time |-> now + CASHOUT_WINDOW_SECONDS,
                                      last_payout |-> 0])
    /\ votes' = votes @@ (c :> [v \in Accounts |-> NoVote])
    /\ UNCHANGED <<now, blocks, gpo, acct, rf>>

(* The vote evaluator (outside src/) after hardfork 19: rshares r added to *)
(* the comment; an upvote's weight is the growth of the square-root        *)
(* curation curve, cut by the reverse auction, and the full growth is      *)
(* added to the comment's total vote weight.  A paid-out comment takes no  *)
(* more votes that count.                                                  *)
Vote(v, c, r) ==
    /\ c \in DOMAIN comment
    /\ comment[c].cashout_time # MAX_TIME_POINT
    /\ votes[c][v] = NoVote
    /\ LET cm  == comment[c]
           vr  == IF r > 0 THEN cm.vote_rshares + r ELSE cm.vote_rshares
           max == CurationCurve(vr) - CurationCurve(cm.vote_rshares)
           age == Min({now - cm.created, REVERSE_AUCTION_WINDOW_SECONDS})
       IN  /\ comment' = [comment EXCEPT ![c].net_ESCORreward = @ + r,
                                         ![c].vote_rshares = vr,
                                         ![c].total_vote_weight = @ + max]
           /\ votes' = [votes EXCEPT ![c][v] = (max * age) \div REVERSE_AUCTION_WINDOW_SECONDS]
    /\ UNCHANGED <<now, blocks, gpo, acct, rf>>

(* A block at time t, after a gap of up to MAX_GAP block times: the        *)
(* reward steps of _apply_block (2680-2685) in their order, process_funds  *)
(* then process_comment_cashout.                                           *)
ApplyBlock(t) ==
    /\ now < t /\ t =< now + MAX_GAP /\ t =< MAX_TIME
    /\ LET Commit(out) == /\ gpo' = out.st.gpo
                            /\ acct' = out.st.acct
                            /\ rf' = out.st.rf
                            /\ comment' = out.cmts
           Cashout(st1) == /\ ClaimsAssertHolds(st1, comment, t)
                           /\ Commit(process_comment_cashout(st1, comment, votes, t))
       IN  Cashout(process_funds(State(gpo, acct, rf), blocks + 1))
    /\ now' = t
    /\ blocks' = blocks + 1
    /\ UNCHANGED votes

Next ==
    \/ \E a \in Accounts, c \in Comments : Post(a, c)
    \/ \E v \in Accounts, c \in Comments, r \in RSHARES : Vote(v, c, r)
    \/ \E t \in 1..MAX_TIME : ApplyBlock(t)

Spec == Init /\ [][Next]_vars

-----------------------------------------------------------------------------
\* validate_invariants (4017-4018): every ECO of current_supply is held
\* somewhere: in reward balances, the reward fund, the eScore fund or as the
\* ECO value of pending eScore rewards; every EUSD is in a reward balance.
\* A payout that takes from the fund a different amount from what it pays
\* out (the claimed_reward of cashout_comment_helper against the curators,
\* beneficiaries and author it pays) breaks it.
SupplyMatchesHoldings ==
    /\ gpo.current_supply =
          Sum([a \in Accounts |-> acct[a].ECOreward], Accounts)
          + rf.reward_balance + gpo.totalECOfundForESCOR
          + gpo.pending_rewarded_ESCORvalueInECO
    /\ gpo.current_EUSD_supply = Sum([a \in Accounts |-> acct[a].EUSDreward], Accounts)

\* validate_invariants (4019, 4021): the eScore totals of the global
\* properties are the accounts' eScore and reward eScore, and the ECO value
\* of pending reward eScore is the accounts' values, through every producer
\* reward and every curator, beneficiary and author payout.
EScoreMatchesHoldings ==
    /\ gpo.totalESCOR + gpo.pending_rewarded_ESCOR =
          Sum([a \in Accounts |-> acct[a].ESCOR + acct[a].ESCORrewardBalance], Accounts)
    /\ gpo.pending_rewarded_ESCORvalueInECO =
          Sum([a \in Accounts |-> acct[a].ESCORrewardBalanceInECO], Accounts)

\* process_comment_cashout never pays out more than the reward fund holds:
\* every due comment's claims are in recent_claims before any is paid
\* (the first pass of 771), so the payouts of one block, each a share of
\* the same snapshot of reward_balance, add up to at most that snapshot.
RewardFundNotOverdrawn == rf.reward_balance >= 0

\* approx_sqrt, the square-root curation curve, against the integer square
\* root, on every input up to 255 and on every comment's vote rshares: never
\* below the root, never more than 6% above it (8 * a^2 =< 9 * x), and
\* monotone, so a larger upvote never earns less curation weight.
SQRT_CHECKED == 0..255

ISqrt(x) == CHOOSE r \in 0..x : r * r =< x /\ (r + 1) * (r + 1) > x

SqrtWithinBounds(x) ==
    /\ ISqrt(x) =< approx_sqrt(x)
    /\ 8 * approx_sqrt(x) * approx_sqrt(x) =< 9 * x

\* constant: TLC evaluates it once
SqrtCurveChecked ==
    \A x \in SQRT_CHECKED :
        /\ SqrtWithinBounds(x)
        /\ x + 1 \in SQRT_CHECKED => approx_sqrt(x) =< approx_sqrt(x + 1)

ApproxSqrtBounded ==
    /\ SqrtCurveChecked
    /\ \A c \in DOMAIN comment : SqrtWithinBounds(comment[c].vote_rshares)

=============================================================================
