# TLA+ models of the wenode chain engine

These modules model the block and transaction engine of
`src/libraries/chain/database.cpp`, its market and reward maintenance, and the reward arithmetic of `util/reward.cpp`. They also model the parts of the
fork database and the chainbase state store that the engine depends on.
Those two parts are not under `src/`. Every module is written from the C++ source.
The only exceptions are the fork-database operators, chainbase's `undo`, the block log, `witness_vote_weight`, and the evaluators that drive the maintenance models (comment, vote, witness vote, proxy, eScore withdraw, withdraw route, decline voting rights, and the market's). Their
code is not in this repository, so they are modelled from `spec.md` and marked
`spec_modelled` in `PROJECT.json`.

## 1. The system

### Parts and how they interact

| Part | Where | Role |
|---|---|---|
| Block engine | `database.cpp` `push_block`, `_push_block`, `pop_block`, `apply_block`, `_apply_block` | takes a candidate block under the write lock, inserts it in the fork database, switches forks when a longer branch appears, applies blocks in undo sessions |
| Irreversibility | `update_signing_witness`, `update_last_irreversible_block` | raises the last irreversible block (LIB) from the witnesses' confirmations, `commit`s the state store up to it, appends the newly irreversible blocks to the block log, resizes the fork database |
| Fork database | `fork_database.cpp` (not in `src/`) | the tree of recent blocks, its head, pruning to `max_size` heights |
| State store | chainbase (not in `src/`) | nested undo sessions, `undo`, `squash`, `commit(rev)` |
| Block log | `block_log` (not in `src/`) | append-only file of irreversible blocks; `open` checks it against the state |
| Startup | `database::open` | `undo_all()` back to the committed revision, then a check that the block log holds the head block |
| Pending pool | `push_transaction`, `_push_transaction`, `_generate_block`, `clear_pending` | one undo session holding all pending transactions; rebuilt when a block is generated and discarded around every `push_block` |
| Transaction checks | `_apply_transaction`, `create_block_summary`, `clear_expired_transactions` | dedup index, TaPoS ring of 65536 block summaries, expiration window |
| Scheduling | `get_slot_time`, `get_slot_at_time`, `get_scheduled_witness`, `update_global_dynamic_data` | slots, missed blocks, the participation bitset |
| Hardforks | `init_hardforks`, `process_hardforks`, `apply_hardfork`, `has_hardfork` | time- and vote-gated protocol upgrades, applied in order |
| Economics | `process_funds`, `process_comment_cashout`, `pay_curators`, `process_conversions`, `process_savings_withdraws`, vesting withdrawals, `match`/`fill_order`, `update_median_feed`, `adjust_balance`, `adjust_supply` | per-block maintenance over balances and supply |
| Witness votes | `adjust_proxied_witness_votes`, `adjust_witness_votes`, `clear_witness_votes`, `process_decline_voting_rights`, `retally_witness_votes` | each account's eScore reaches the witnesses it votes for, or through up to `MAX_PROXY_RECURSION_DEPTH` proxy hops those of its proxy chain's end |
| Reward math | `util/reward.cpp` | `approx_sqrt`, the reward curves, `get_rshare_reward` |

A block flows through the system like this:

1. It is pushed into the fork database.
2. If the new fork-db head does not build on the state's head, a fork switch starts. It pops blocks down to the fork point and then applies the new branch block by block, each in its own session. If one of them fails, the rest of that branch is removed, the fork-db head is reset, and the old branch is restored.
3. Otherwise the block is applied in a session. If that fails, the block is removed from the fork database.

Inside `_apply_block`, the steps run in this order:

1. the header and the transactions;
2. `update_global_dynamic_data`, which includes the undo-history check;
3. `update_signing_witness`;
4. `update_last_irreversible_block`, which does the commit, the block-log append and `set_max_size`;
5. the maintenance passes and `process_hardforks`.

### What is hard here

- **Partial failure.** The commit and the block-log appends happen inside a per-block session. Undoing that session cannot undo them.
- **Versioned versus non-versioned state.**
  - The LIB number in the dynamic global properties is versioned and reverts on undo.
  - The commit point, the block log and the fork database are not versioned.
- **Two notions of "head".** The fork database's head and the state's head can disagree after a failure.
- **Crashes.**
  - The process can stop between any two steps.
  - It can also stop between `commit` and the block-log flush.
  - `open` must then find the state and the block log consistent.
- **Termination.** The pop loops stop only when they reach the fork point or `pop_block` throws.
- **Pruning.** `set_max_size` is computed from the state's head, while the fork-db head can be higher.
- **Incremental tallies.** Witness votes are kept up to date by deltas along proxy chains, cut off at a fixed depth; every eScore change, proxy change and decline must move them by exactly what a recount would give.

## 2. Modules

### `ForkDatabase` (spec-modelled)

A fork database is a record `[items, head, max]`. The operators are:

- `Push`, which links a block under a parent it already holds. The head moves only when the new block is strictly higher.
- `Prune`.
- `SetMaxSize`, `SetHead`, `RemoveAll` and `PopBlock`.
- `OnMainBranch`, for `fetch_block_on_main_branch_by_number`.
- `BranchFrom`, for `fetch_branch_from`: both branches back to the common ancestor, exclusive, newest first.

Block heights come from a `Parent` function through `RECURSIVE` operators.

The constant `KEEP_BELOW` sets how many heights below `max_size` pruning keeps:

- Under the literal wording of spec.md 4.2 ("the last max_size blocks") it is 0.
- The runs use 1. Under 0, `set_max_size(head - lib + 1)` of a lower state head prunes the fork point a restore needs, and the restore fails.

### `ChainDatabase`

**State.**

- `chain` is the chainbase state as a sequence of snapshots, one per revision. A snapshot holds:
  - the head block;
  - `last_irreversible_block_num`;
  - every witness's `last_confirmed_block_num`.
- `committed` is the highest revision passed to `commit`.
- `blog` is the block log.
- `flushed` is the part of the block log known to be on disk.
- `fdb` is the fork database.
- `pc` is where `_push_block` is: `idle`, `pop`, `apply`, `restore_pop`, `restore`, or `crashed`.
- `branches` and `idx` are the fork-switch loop.
- `before` is the state when the push started, and `removed` holds the blocks removed after failing.
- `fate[b]` is whether `apply_block(b)` succeeds (`valid`), throws before the irreversibility step (`invalid`), or throws after it (`late`). It is fixed per block because blocks are deterministic.

**Actions.**

| Action | Code |
|---|---|
| `PushBlock(b)` | `push_block` + `_push_block` up to the start of a switch, or the whole direct apply with its failure path (503-628) |
| `PopStep` | one iteration of either pop loop: `pop_block` (844-862) with `fetch_block_by_id` (289-303). A failure leaves `_push_block` |
| `PopDone` | the pop loop's exit (567-571) |
| `SwitchApply` | one iteration of the new-branch loop (571-606). Its failure path removes the rest of the branch, `set_head`, and starts the restore pops |
| `Restore` | one iteration of the restore loop (598-604). Its failure is not caught |
| `Restart` | `database::open` (98-145): `undo_all`, then the block-log head check, then a new fork database from the head. With `"lose_unflushed"` in `CRASHES`, the appends of the last step that were not yet flushed are lost |

`ApplyBlock(b, f)` is the outcome of one session plus `apply_block(b)`. It follows `_apply_block`'s order:

1. An early failure changes nothing.
2. Otherwise the witness's confirmation is recorded, and `NewLib` is computed. `NewLib` covers both the pre-voting rule and `NthConfirmed` at `Offset`.
3. The commit follows, then `LogTo`, the block-log loop with its `FC_ASSERT`.
4. Then `set_max_size` runs.
5. A `late` block keeps its commit and log entries. It also keeps its snapshot if that revision was committed.

The UB `branches.second.back()` on an empty vector is modelled as the process dying (`pc = "crashed"`). In libstdc++ the empty vector's data pointer is null, so `back()` faults.

**Fairness.** The state of an unfinished `push_block` (`Continue`: `PopStep`, `PopDone`, `SwitchApply`, `Restore`) is weakly fair. `_push_block` runs to completion under the write lock, and no other thread mutates the database meanwhile. Block arrival (`PushBlock`) and crashes (`Restart`) are not fair: the network may stop delivering, and a process need not crash.

### `MCChainDatabase`

`MCChainDatabase` sets up a block tree of 9 blocks and 3 witnesses:

- main chain 1-2-3-4-5;
- a rival branch 6-7 on 4;
- a branch 8-9 forking at 2.

Producers rotate w1, w2, w3, so with `Offset = 0` the LIB advances as soon as every witness has confirmed a higher block.

`START_MINER_VOTING_BLOCK = 0` selects the voting rule. `MAX_UNDO_HISTORY` is larger than any chain in the tree.

### `TransactionPool`

The pending pool and the transaction checks it relies on. Blocks are
abstracted to a time and a sequence of transaction ids; the chain is the
sequence of chainbase snapshots, each holding the dedup index
(`transaction_index`) as a set of ids.

**State.** `chain`, `pending` (`_pending_tx`), `session`
(`_pending_tx_session.valid()`), `pendRecs` (the dedup records the pending
session added), `popped` (`_popped_tx`).

Each snapshot also holds `sums`, the block-summary ring
(`block_summary_object`), as a function from `0..RING-1` to block ids; a
block's id is its time and transaction ids. Genesis fills the ring with the
null id, as `init_genesis` creates 0x10000 empty summaries (2437-2438).

**Helpers.** `TaposOk` is the TaPoS check (2864-2875): the slot `REF[t][1]`
of the head's ring must hold the id prefix `REF[t][2]`; it is skipped while the
head is genesis, as the code skips it in block 1. `ExpiryOk` and `Acceptable`
are `_apply_transaction`'s duplicate, TaPoS and expiration checks, with the `HARDFORK_0_9` strictness (`now < expiration`
after it, `now <= expiration` always). `ClearExpired` is
`clear_expired_transactions`. `PushTx` is `_push_transaction`. `Restore` is the
`without_pending_transactions` restorer (in `db_with.hpp`, not under `src/`,
so spec-modelled): it empties the pool, then re-pushes `_popped_tx` and then
the old `_pending_tx`, skipping known ones. `ApplyBlock` ends with
`create_block_summary` (2941-2946), writing the new block's id at slot
`block_num % RING`. `SwitchTo` is `_push_block`'s pop
and apply loops, including the failure path that re-applies the popped blocks.

**Actions.**

| Action | Code |
|---|---|
| `PushTransaction(t)` | `push_transaction` / `_push_transaction` (639-688) |
| `GenerateBlock(when)` | `_generate_block` (690-842): rebuild skipping expired and postponing over-size transactions, then `push_block` |
| `ReceiveBlock(when, txs)` | `push_block` of a block on the head |
| `ReceiveRivalBlock` | `push_block` of a block that does not move the head: the pool is still emptied and rebuilt |
| `ReceiveFork(...)` | `push_block` of a two-block branch that pops the head |

Every call runs under the write lock, so each action is one atomic step.
There is no liveness property here and no fairness. `pop_block` runs only
inside `push_block`'s pop loops; called on its own, as
`database_fixture.cpp` does, it resets the pending session but keeps
`_pending_tx` (848), so pending transactions lose their dedup records and
the same transaction can be pushed twice. That path belongs to the test
fixture and is not modelled.

`MCTransactionPool` uses two transactions expiring at times 2 and 3, a clock
of 0..5, chains of up to three blocks above genesis, at most two transactions
per block, and `HARDFORK_0_9` at time 3. The ring has two slots (`RING = 2`,
standing for 0x10000), so the third block overwrites genesis's slot: `t1`
references block 1 (slot 1), `t2` the null id in slot 0, which is valid only
until block 2 overwrites it. So blocks are made before and after
the hardfork, exactly at an expiration and past it, and a fork switch can
drop a block whose transactions must return to the pool.

### `Market`

The internal market, conversions and the supply bookkeeping of
`database.cpp`. Balances are `bal[a][sym]` for the symbols `ECO` and `EUSD`;
`supply` and `vsupply` are the dynamic global properties' `current_supply`
(per symbol) and `virtual_supply`.

**State.** `bal`, `orders` (the limit-order index: each order is
`[id, seller, sym, for_sale, b, q, exp]`, its price being `b` of its own
symbol for `q` of the other), `convs` (pending `convert_request`s), `supply`,
`vsupply`, `now` (head block time), `nextOrder`/`nextConv`/`nextWd`/`nextXfer`
(operation counters, which also give ids), `fills` (the `fill_order` virtual
operations, kept so that a property can look at what each fill paid), `sav`
(savings balances), `wds` (`savings_withdraw_index`) and `swr` (each
account's `savings_withdraw_requests`). The null account `NULL` holds
balances too, but signs nothing.

**Helpers.** `Times` is fc's `asset * price`, which rounds down (fc is not
under `src/`, so it is spec-modelled); `ToReceive` is
`amount_to_receive()`. `FillOrder` is `fill_order` (3247-3284), including the
cancel of a remainder that would receive nothing. `Match` is `match`
(3145-3204) at the old order's price, and `ApplyOrder` is `apply_order`'s loop
(3123-3143), which stops as soon as `match` reports the new order gone.
`ProcessConversions` is `process_conversions` (2027-2064): each request is
converted at the median and rounded on its own, the totals adjusted once.
`ClearNullAccountBalance` is `clear_null_account_balance` (1213-1317) with
`AdjustSupply` (`adjust_supply`, 3443-3474) for the burn;
`ProcessSavingsWithdraws` is `process_savings_withdraws` (1865-1884), which
walks the index by completion time and stops at the first request not yet
due. `Credit` is both `adjust_balance` and `adjust_ECOsavingsBalance`.

**Actions.**

| Action | Code |
|---|---|
| `CreateOrder(a, sym, amt, b, q, exp, fok)` | the limit-order evaluator's effect as spec.md describes it, then `apply_order`; a fill-or-kill order that is not filled is rejected |
| `Cancel(o)` | `cancel_order` (3286-3290) |
| `Convert(a, amt)` | a `convert_request`, due `CONVERSION_DELAY` later |
| `Transfer(a, NULL, sym, amt)` | a transfer to the null account |
| `TransferToSavings(a, to, sym, amt)` | `transfer_to_savings`, to oneself or the null account |
| `TransferFromSavings(a, to, sym, amt)` | `transfer_from_savings`: a withdraw request under `SAVINGS_WITHDRAW_REQUEST_LIMIT` |
| `ApplyBlock(t)` | the market part of `_apply_block` (2675-2691), in its order: `clear_expired_orders`, `update_virtual_supply`, `clear_null_account_balance` (once HF14 has been applied by an earlier block), `process_conversions`, `process_savings_withdraws`, and the trailing `update_virtual_supply` |

There is no fairness and no liveness property: every action is a user's
call or a block, none of which the code forces to happen.

`MCMarket` has two accounts with two of each symbol plus the empty null
account, amounts of 1..2, five prices (1/1, 2/1, 1/2, 3/2, 2/3), three user
operations in all (up to three orders, one conversion, one transfer, two
withdraw requests with a limit of one open per account), times 0..3,
HF14 at time 1, and a median of 2/3. The median is not a whole ratio, so a
conversion rounds; the prices include ones whose fills round down to
nothing. The accounts are symmetric. `CHECK_DEADLOCK` is off because every
counter reaches its bound.

### `BlockSchedule`

Slot arithmetic, the missed-block and participation bookkeeping of
`update_global_dynamic_data`, and `process_hardforks`.

**State.** `now` (head block time), `num` (head block number), `aslot`
(`current_aslot`), `filled` (the participation window as a sequence of bits,
newest first), `recent` (a history variable: the last `WINDOW` slots, oldest
first, TRUE where a block was produced), `pcount` (`participation_count`), `missed`
(each witness's `total_missed`), `confirmed` (`last_confirmed_block_num`),
`keyOn` (the witness has a signing key; the HF14 shutdown clears it),
`hfTimes` (`_hardfork_times`), `processed` (`processed_hardforks`, the times
of the applied hardforks) and `nextHF`/`nextHFTime` (the majority-voted
`next_hardfork` and its time).

**Helpers.** `ScheduledWitness`, `SlotTime` and `SlotAtTime` are
`get_scheduled_witness`, `get_slot_time` and `get_slot_at_time` (931-970).
`MissSlots` is the missed-slot loop (2954-2978). `Slide` is the bitset update
(2984-2989): the bit that leaves the window is uncounted before the shift.
Round 0 of that loop sets bit 0 for the produced block, and each later round
(one per missed slot) shifts it up. After a gap of k missed slots the
produced block's bit therefore sits at position k, above the missed slots,
and leaves the window k slots early; after a gap of `WINDOW - 1` or more it is
shifted out in the same block. The bitset can only understate participation,
never overstate it, and `ParticipationNotOverstated` checks exactly that
against `recent`.
`ProcessHardforks` is `process_hardforks` (3570-3600): whether the vote-gated
loop or the time-gated loop runs is decided once, by `has_hardfork(HF5)`
at entry; the voted loop fails with `unknown_hardfork_exception` when the
vote names a version beyond the last known one.

**Actions.** `ProduceBlock(t, next, nextTime)` is one block's pass through
`update_global_dynamic_data`, `update_signing_witness` and
`process_hardforks`; the block's witness is the scheduled one and has a key.
`SetHardfork(h, applyNow)` is `set_hardfork` (3607-3627), the debug call that
writes `_hardfork_times` and may apply the hardforks at once.

No fairness, no liveness: block production depends on the network.

`MCBlockSchedule` has three witnesses in a fixed rotation, a window of four
bits, times 0..6, three hardforks at times 2, 3 and 4, voting from the first
hardfork on and the shutdown at the second. Gaps of two or more slots occur
within the clock, so slots are missed, the window wraps, and every hardfork
can be reached both by time and by vote.

### `BlockLog` (spec-modelled) and the refinement

`BlockLog` states what the block log promises (spec.md section 3): an append-only sequence in which every block is a child of the one before it, the first one a child of genesis. Its only action, `AppendBlocks`, extends the log by one or more such blocks. The `block_log` code is not under `src/`, so this module is modelled from the spec.

`ChainDatabase` instantiates it with `BL == INSTANCE BlockLog WITH log <- blog`. `LogRefinement == BL!Spec` is checked as a PROPERTY in the switch run. Every step of the engine must therefore leave the block log unchanged, or extend it by children of its head. That holds across pop loops, failed switches and restarts. `LogTo`, the loop of `update_last_irreversible_block` (3096-3116), is the only code that appends.

### `Rewards`

`Rewards` models the reward path of `_apply_block` (2684-2686: `process_funds`, then `process_comment_cashout`) together with the arithmetic of `util/reward.cpp`.

**State.**

| Variable | Code |
|---|---|
| `now`, `blocks` | `head_block_time()`, `head_block_num()` |
| `gpo` | the supply, eScore and reward totals of `dynamic_global_property_object` |
| `acct` | balances, EUSD, eScore and reward balances per account |
| `rf` | the post `reward_fund_object`: `reward_balance`, `recent_claims`, `last_update` |
| `comment`, `votes` | the comment and comment-vote objects |

**Operators.**

- `find_msb` and `approx_sqrt` (reward.cpp 7-36) work over a 128-bit value split into `Lo`/`Hi` words. `LO_BITS` is a constant: the result does not depend on where the word is split, and TLC's integers are 32-bit.
- `evaluate_reward_curve` (68-96) covers the four curves.
- `get_ESCOR_reward` (38-66) is the code's `get_SCORE_reward`.

**Actions.**

| Action | Code |
|---|---|
| `Post(a, c)` | the comment evaluator (spec-modelled): a post with optional beneficiaries, `allow_curationRewards`, `percent_EUSD` |
| `Vote(v, c, r)` | the vote evaluator (spec-modelled): rshares from `RSHARES`, and a curation weight from the square-root curve's growth, cut by the reverse auction |
| `ApplyBlock(t)` | one block at a later time, for a gap of at most `MAX_GAP`. `process_funds` (1787-1841, post-HF16) splits inflation into content reward, eScore fund and producer reward. `create_EUSD` and `createECOfundForESCOR` (976-1079) pay them out. `process_comment_cashout` (1653-1785) decays `recent_claims`, adds every due comment's claims first, and pays each comment with `cashout_comment_helper` (1528-1651). Beneficiaries are paid, `pay_curators` (1476-1516) runs, and the author gets the rest. Every payout reads the fund snapshot, and `reward_balance` is reduced after the loop. |

There is no fairness: the chain need not produce another block.

**Divergences met while modelling.**

- `createECOfundForESCOR` with `to_reward_balance` false credits `ESCORrewardBalance` instead of `ESCOR` (1055). At the same time, `totalESCOR` grows and `adjust_proxied_witness_votes` counts the new eScore as vote weight. The producer reward takes this path in every block (1837).
  - `validate_invariants` (4017-4021) counts `ESCORrewardBalance` with the holdings, so `EScoreMatchesHoldings` holds, as the code's own supply check does.
  - The vote-weight check (4027) fails: the `producer_reward` run of `WitnessVotes` shows it.
- Names in the source do not match each other. `database.cpp` calls `util::get_ESCOR_reward` (1545), but `reward.cpp` defines `get_SCORE_reward` (38). Likewise, `database.cpp` uses `RECENT_RESCOR_DECAY_RATE_HF19` (1678), but `config.hpp` defines `RECENT_RSCORE_DECAY_RATE_HF19` (188). The header declaring the reward functions is not under `src/`. The model takes the caller's names and the definitions' bodies.

`MCRewards` has two accounts (one the witness), two comments, rshares of -63 and 64, and beneficiary routes with and without a 50% beneficiary.

### `WitnessVotes`

The incremental witness tally of `database.cpp` and the block steps and
evaluators that change eScore or votes.

**State.**
- `acct[a]` holds the account fields the tally reads and writes: `ESCOR`, `proxy`, `proxied` (`proxied_ESCORfundECObalance_votes`), `can_vote`, and the withdrawal fields `rate`, `next`, `to_withdraw` and `withdrawn`.
- `wv` is the witness vote index, a set of `<<account, witness>>` pairs.
- `votes` is `witness_object.votes`.
- `routes` is the withdraw route index.
- `declines` holds each account's decline request's effective date.
- `totalESCOR` is the global total.
- `ops` counts evaluator calls; it is the bound `MAX_OPS`.

**Operators.**
- `adjust_proxied_witness_votes` (scalar, 1135-1156) and `adjust_proxied_witness_votes_array` (1104-1133) are RECURSIVE and walk the proxy chain up to the depth.
- `adjust_witness_votes` (1158-1167), `adjust_witness_vote` (1169-1193) and `clear_witness_votes` (1195-1211) follow the functions of the same name.
- `createECOfundForESCOR` is the `to_reward_balance == false` path (1045-1073): the producer reward.
- `WithdrawOne` is one pass of the withdrawal loop, with its two route passes (1367-1421), `to_convert`, the account's own part, and the vote change.
- `WithdrawFrom` walks the index the way the loop does: its iterator is advanced before the account is modified (1347), so an account that is still due is paid again in the same block only if it now sorts after the iterator.
- `DeclineOne` and `process_decline_voting_rights` are 2133-2160.

**Actions.**

| Action | Code |
|---|---|
| `WitnessVote(a, w, approve)` | the witness vote evaluator (spec-modelled): add or remove one vote record, by the account's `witness_vote_weight` |
| `WitnessProxy(a, p)` | the proxy evaluator (spec-modelled): remove the account's weight from its chain, check the new chain (no loop, at most `MAX_PROXY_RECURSION_DEPTH` accounts), clear the votes, set the proxy, and add the weight back |
| `WithdrawESCOR(a, amount)` | the eScore withdraw evaluator (spec-modelled): rate `amount / ESCOR_WITHDRAW_INTERVALS`, first tranche an interval later; 0 cancels |
| `SetWithdrawRoute(from, to, percent, auto)` | the route evaluator (spec-modelled): at most `MAX_WITHDRAW_ROUTES`, at most 100% in total, 0 removes |
| `DeclineVotingRights(a, decline)` | the decline evaluator (spec-modelled): a request effective `DECLINE_VOTING_RIGHTS_DELAY` later, or its cancellation |
| `ApplyBlock(t)` | `_apply_block`'s producer reward (`process_funds`, 2684), `process_ECO_fund_for_ESCOR_withdrawals` (2687) and `process_decline_voting_rights` (2694), in that order |

The ECO side of a withdrawal (the price, balances and the eScore fund) changes no vote and is left out. So are the witnesses' virtual scheduling fields (read only by `witness_schedule.cpp`) and `witnesses_voted_for`.

**Properties.**
- `VoteWeightsMatchTotal` is `validate_invariants`' check (4027, with the sum of 3936-3944).
- `WitnessVotesTallied` compares `votes` with `retally_witness_votes` (4130-4160).
- `ProxiedMatchesChains` says `proxied[i]` is the eScore of the accounts exactly i+1 hops above.
- `WithdrawnWithinRequest` says no withdrawal takes more than was requested.

`MCWitnessVotes` has four accounts and two witnesses, with `MAX_PROXY_RECURSION_DEPTH` 2. Four accounts are the fewest that give a three-hop chain past the cut-off: the evaluator checks only the chain below the new proxy, so a chain grows longer by proxying onto an account that others already follow. `a1` holds 6 eScore and may withdraw 5 in two intervals at a rate of 2, so the last tranche is the remainder 1. It may route 50% to any account, auto-vested or not, and up to `MAX_GAP` 2 of the 1-second intervals may pass between blocks.


## 3. Runs

| Run | cfg | Expect | Checks | What it shows |
|---|---|---|---|---|
| switch | `ChainDatabase_switch.cfg` | pass | `TypeOK`, `BlockLogOnChain`, `LongestValidFollowed`, `RecoverableAfterCrash`, `FailedSwitchRestoresState`, `LogRefinement` | fates valid/invalid, with crashes between steps: the block log stays on the state's chain; no valid held branch is higher than the head; a failed switch restores the old state exactly; the committed revision is always the block log's head, so `open` succeeds; the block log only ever grows by children of its head (refines `BlockLog`) |
| late | `ChainDatabase_late.cfg` | pass | `BlockLogOnChain`, `PushReturns` | fates valid/late: every `push_block` returns (the pop loops end even when `pop_block` fails); the block log still agrees with the state |
| lib_regression | `ChainDatabase_lib_regression.cfg` | violation | `LibNotBelowCommitted` | the LIB number reverts below the committed revision on a fork switch |
| stale_fork_head | `ChainDatabase_stale_fork_head.cfg` | violation | `NoValidBlockRemoved` | after invalid block 9 fails on the state's head 8, the fork-db head stays 9; valid block 3, a sibling of 8, is then applied directly on 8, rejected and removed from the fork database |
| late_failure | `ChainDatabase_late_failure.cfg` | violation | `FailedSwitchRestoresState` | a late failure during a switch leaves a commit the restore cannot undo |
| crash_before_flush | `ChainDatabase_crash_before_flush.cfg` | violation | `RecoverableAfterCrash` | a kill between commit and flush leaves a state `open` rejects |
| pool | `TransactionPool_pool.cfg` | pass | `NoDuplicateOnChain`, `PendingMirrorsSession`, `TaposOnChain`, `NoValidTransactionLost` | no transaction reaches the chain twice (record expiry at `>` is exactly enough before HF9); the pending session mirrors `_pending_tx`; every transaction above block 1 references, through the ring, a block of its own chain below it; no still-valid transaction is lost by a fork switch or rebuild |
| market | `Market_market.cfg` | pass | `SupplyMatchesHoldings`, `BookNotCrossed`, `NoFillForNothing`, `WithdrawRequestsCounted` | every token of the supply is held by an account's balance or savings, an order, a conversion or a withdraw request, across the null account's burn; each account's request counter equals its open requests; after every `apply_order` no two opposite orders cross; no fill pays something for nothing |
| schedule | `BlockSchedule_schedule.cfg` | pass | `ParticipationCountMatches`, `ParticipationNotOverstated`, `HardforksInOrder`, `HardforkOnlyWhenDue`, `ShutdownOnlyWhenAbsent` | the participation count equals the bits set across missed slots and wrap-around; the bitset never shows more filled slots than the last `WINDOW` slots had (the produced block's bit is misplaced after a gap, so the rate is understated); hardforks are applied in order, and each only at or after its time (and, under voting, only up to the voted version); the HF14 shutdown takes a key only from a witness that did not sign the block (the owner check at 2963 matters when a gap wraps the rotation past the producer's slot) and only after more than `BLOCKS_PER_DAY` blocks without confirming |
| cashout | `Rewards_cashout.cfg` | pass | `SupplyMatchesHoldings`, `EScoreMatchesHoldings`, `RewardFundNotOverdrawn`, `ApproxSqrtBounded` | across inflation, producer rewards, payouts with beneficiaries, curation and two comments due in one block, `validate_invariants`' supply and eScore checks hold; the reward fund never pays out more than it holds; `approx_sqrt` is never below the integer square root and its square never above 9/8 of the argument, on 0..255 and on every vote's rshares |
| votes | `WitnessVotes_votes.cfg` | pass | `VoteWeightsMatchTotal`, `WitnessVotesTallied`, `ProxiedMatchesChains`, `WithdrawnWithinRequest` | over four evaluator calls (votes, proxy changes that build chains past the depth, withdrawals through ECO and auto-vested routes, declines) and blocks that pay withdrawals (twice in one block included) and apply declines: `totalESCOR` equals the vote-weight sum, every witness holds what a retally gives, every proxied slot holds the eScore that many hops up, and no withdrawal exceeds its request. The producer reward is 0 here. |
| producer_reward | `WitnessVotes_producer_reward.cfg` | violation | `VoteWeightsMatchTotal` | one producer reward through `createECOfundForESCOR(to_reward_balance = false)` makes `totalESCOR` exceed the vote-weight sum, so `open()`'s `validate_invariants` fails |

The findings in `PROJECT.json` explain each violation, with the trace's shape and the source lines involved.

**Bounds.** Nine blocks give:

- two competing forks at two fork points;
- a switch that crosses an already irreversible height;
- a restore that must re-apply two blocks.

Each of these happens in the runs: the violation traces use them, and the passing runs' coverage fires every action and disjunct. Three witnesses are the smallest set where `Offset` and the order of confirmations matter. Larger trees only repeat these shapes.

For `Rewards`, the following bounds apply:

- **Blocks.** Times run up to `MAX_TIME = 3`, and one block may skip up to `MAX_GAP = 2` seconds. The cashout window of 2 seconds therefore lets two comments fall due in the same block, or in different blocks.
- **Decay.** The decay rate of 3 seconds keeps every gap below it, as the real 15-day rate keeps every real gap. The wrap at a longer gap is listed as a hazard.
- **Votes.** Rshares of 64 give a non-zero square-root weight. A downvote of -63 gives a comment with negative net rshares that is not paid.
- **Inflation.** Start and stop rates of 978 and 95 (per 10000), with one block per year, make every block print inflation large enough to split into non-zero parts.
- **Width.** `UINT128` is 2^16, which is enough for the products the run reaches.

For `WitnessVotes`, four evaluator calls (`MAX_OPS`) are enough to build a three-hop chain and vote at its end, or to set a route, request a withdrawal and decline. Every mutant of the tally is caught within that. Five calls multiply the states by four and add no new shape. Three block times let a withdrawal run its three tranches.

## 4. What is not modelled

**Not modelled (no state to check).**

- The protocol configuration (`get_config.cpp`, `config.hpp`), whose values enter the models as constants.
- Type declarations.
- Evaluator registration and notifications.
- The test fixture, and `pop_block` called on its own as it does.
- Transaction and operation content: a block is abstracted to its fate.

**Not modelled, with the reason.**

- The ECO side of vesting withdrawals (1402, 1426): the conversion uses
  `get_ESCOR_price`, declared outside `src/`, and the balances it pays change
  no vote; `Rewards` already models the same price in `createECOfundForESCOR`.
- `update_median_feed` (2756-2822), EUSD interest and liquidity rewards: the
  feed is a constant price (`MEDIAN_EUSD`, `MEDIAN_ECO`) in `Market` and
  `Rewards`. Moving it would multiply those runs' states by every price
  history, and every run of the project's budget is in use. The feed's own
  hazard, a pre-HF19 age test that keeps every stale feed (2775), is listed
  in `PROJECT.json` without a property.
- `Rewards` with gaps longer than the decay rate: the 15-day rate keeps every
  real gap below it, and the wrap (1682) would need a violation run of its own.
- The state migrations of `apply_hardfork`: each is a one-off rewrite of
  objects whose content the models abstract away.
- `MAX_UNDO_HISTORY` (3000): with a bound of a few blocks the check only
  refuses a block beyond it; the models keep every block reversible until it
  is irreversible, which the bound of 10000 allows for any fork TLC reaches.
- Signature and authority checks: cryptography, out of TLC's reach.

