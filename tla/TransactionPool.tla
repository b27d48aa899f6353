-------------------------- MODULE TransactionPool --------------------------
(***************************************************************************)
(* The pending-transaction pool of database.cpp and the transaction checks *)
(* it depends on: _push_transaction, _generate_block's rebuild,            *)
(* push_block with the pending-transaction restorer around it, pop_block   *)
(* and its popped transactions, _apply_transaction's duplicate and         *)
(* expiration checks, and clear_expired_transactions.                      *)
(*                                                                         *)
(* A block is abstracted to its time and its transactions; the chain is    *)
(* the sequence of chainbase revisions, chain[1] being genesis.  Each      *)
(* snapshot keeps the dedup index (transaction_index) as the set of        *)
(* transaction ids it holds.  The pending session's own records are        *)
(* pendRecs: they vanish when the session is reset.  All calls run under   *)
(* the write lock, so each is one atomic step.                             *)
(***************************************************************************)
EXTENDS Naturals, Sequences, SequencesExt

CONSTANTS
    Txs,                        \* transaction ids
    Exp,                        \* Exp[t]: t's expiration time
    MAX_TIME,                   \* times are 0..MAX_TIME
    MAX_HEIGHT,                 \* the longest chain explored
    MAX_TIME_UNTIL_EXPIRATION,  \* config.hpp, scaled to the model's clock
    MAX_BLOCK_TXS,              \* maximum_block_size, in transactions after the header
    HF9_TIME,                   \* the time HARDFORK_0_9 is applied at
    RING,                       \* slots of the block summary ring (0x10000 in the code)
    REF                         \* REF[t]: t's ref_block_num (a ring slot) and ref_block_prefix

Times == 0..MAX_TIME

\* A block id, abstracted to what tells blocks apart: its time and
\* transactions.  ref_block_prefix is 32 bits of it; prefix collisions
\* between different blocks are not modelled.
BlockId(blk) == <<blk.time, blk.txs>>

\* block_id_type(), the id a summary holds before any block wrote it.
NullBlockId == <<0, << >>>>

\* init_genesis (2437-2438) creates every summary empty.
Genesis == [time |-> 0, txs |-> << >>, recs |-> {}, sums |-> [i \in 0..RING - 1 |-> NullBlockId]]

\* The transactions a network block may carry: none, one or two; a faulty
\* producer may list the same one twice.
BlockTxs == {<< >>} \cup {<<t>> : t \in Txs} \cup {<<t, u>> : t, u \in Txs}

VARIABLES
    chain,     \* the state of the head block and every revision below it
    pending,   \* _pending_tx
    session,   \* _pending_tx_session.valid()
    pendRecs,  \* the dedup records the pending session has added
    popped     \* _popped_tx

vars == <<chain, pending, session, pendRecs, popped>>

Top(c) == c[Len(c)]

\* Every transaction of the blocks of c, oldest first.
ChainTxs(c) == FoldLeft(LAMBDA acc, s : acc \o s.txs, << >>, c)

\* has_hardfork(HARDFORK_0_9) once process_hardforks has run in a block at
\* or after the hardfork's time.
HasHF9(now) == now >= HF9_TIME

\* The expiration checks of _apply_transaction (2877-2883), made against
\* head_block_time().
ExpiryOk(t, now) ==
    /\ Exp[t] =< now + MAX_TIME_UNTIL_EXPIRATION
    /\ HasHF9(now) => now < Exp[t]
    /\ now =< Exp[t]

TaposSkipped(t, c) == TRUE

\* The TaPoS check of _apply_transaction (2868-2875): the summary in the
\* ring slot t names must hold the block id t's prefix was taken from.
TaposOk(t, c) == Top(c).sums[REF[t][1]] = REF[t][2]

\* _apply_transaction (2831-2908) on state c with dedup records recs: the
\* duplicate check, and the expiration checks unless the head is genesis.
Acceptable(t, recs, c) ==
    /\ t \notin recs
    /\ Len(c) > 1 => TaposOk(t, c) /\ ExpiryOk(t, Top(c).time)

-----------------------------------------------------------------------------
ClearExpiredAtExpiry(recs, now) == {t \in recs : ~(now >= Exp[t])}

\* clear_expired_transactions (3293-3301): drop every record whose
\* expiration the head block time has passed.
ClearExpired(recs, now) == {t \in recs : ~(now > Exp[t])}

(* apply_block of blk on top of c (2592-2700), reduced to what this       *)
(* module keeps: each transaction applied in order (a failure fails the    *)
(* block), update_global_dynamic_data setting the head time, then          *)
(* create_block_summary (2941-2946) in the ring slot of the block's        *)
(* number, and clear_expired_transactions.                                 *)
ApplyBlock(c, blk) ==
    LET r == FoldLeft(LAMBDA acc, t :
                 [ok |-> acc.ok /\ Acceptable(t, acc.recs, c), recs |-> acc.recs \cup {t}],
                 [ok |-> TRUE, recs |-> Top(c).recs], blk.txs)
    IN  IF r.ok
        THEN [ok |-> TRUE,
              chain |-> Append(c, [time |-> blk.time, txs |-> blk.txs,
                                   recs |-> ClearExpired(r.recs, blk.time),
                                   sums |-> [Top(c).sums EXCEPT ![Len(c) % RING] = BlockId(blk)]])]
        ELSE [ok |-> FALSE, chain |-> c]

\* pop_block's "there are no blocks to pop" (853): genesis is never popped.
CanPop(c) == Len(c) > 1

PushTxRecordingFailures(p, t, c) ==
    IF Acceptable(t, Top(c).recs \cup p.recs, c)
    THEN [pending |-> Append(p.pending, t), session |-> TRUE, recs |-> p.recs \cup {t}]
    ELSE [p EXCEPT !.session = TRUE, !.pending = Append(@, t)]

(* _push_transaction (666-688) of t on the pool record p = [pending,       *)
(* session, recs], the chain being c: open the pending session if there is *)
(* none, then apply t in a nested session; only a success is kept.         *)
PushTx(p, t, c) ==
    IF Acceptable(t, Top(c).recs \cup p.recs, c)
    THEN [pending |-> Append(p.pending, t), session |-> TRUE, recs |-> p.recs \cup {t}]
    ELSE [p EXCEPT !.session = TRUE]

RestoreIgnoringPopped(pend, pop, c) ==
    FoldLeft(LAMBDA p, t :
                 IF t \in Top(c).recs \cup p.recs THEN p ELSE PushTx(p, t, c),
             [pending |-> << >>, session |-> FALSE, recs |-> {}], pend)

(* The pending-transactions restorer that push_block runs the block under  *)
(* (without_pending_transactions, spec.md 4.11): clear_pending first, then *)
(* on the way out every popped transaction and then every formerly pending *)
(* one that is not known (is_known_transaction, 243-247) is pushed again;  *)
(* failures are ignored.                                                   *)
Restore(pend, pop, c) ==
    FoldLeft(LAMBDA p, t :
                 IF t \in Top(c).recs \cup p.recs THEN p ELSE PushTx(p, t, c),
             [pending |-> << >>, session |-> FALSE, recs |-> {}], pop \o pend)

(* _push_block of a branch: pop k blocks of the state (their transactions  *)
(* go to the front of _popped_tx, 858), then apply the blocks of new in    *)
(* order, each in its own session.  If one fails, the new blocks already   *)
(* applied are popped too and the popped old ones re-applied (586-604);    *)
(* they applied before, so they apply again.  Returns the chain and        *)
(* _popped_tx after the switch.                                            *)
SwitchTo(k, new) ==
    LET base == SubSeq(chain, 1, Len(chain) - k)
        old  == SubSeq(chain, Len(chain) - k + 1, Len(chain))
        r == FoldLeft(LAMBDA acc, blk :
                 IF acc.ok
                 THEN LET a == ApplyBlock(acc.chain, blk)
                      IN  [ok |-> a.ok, chain |-> a.chain]
                 ELSE acc,
                 [ok |-> TRUE, chain |-> base], new)
        applied == SubSeq(r.chain, Len(base) + 1, Len(r.chain))
    IN  IF r.ok
        THEN [chain |-> r.chain, popped |-> ChainTxs(old) \o popped]
        ELSE [chain |-> chain, popped |-> ChainTxs(applied) \o ChainTxs(old) \o popped]

\* push_block (503-528) around _push_block: the pool is emptied, the
\* branch switched to (or not), and the pool rebuilt from _popped_tx and
\* the old _pending_tx.
PushBlocks(k, new) ==
    LET s == SwitchTo(k, new)
        p == Restore(pending, s.popped, s.chain)
    IN  /\ chain' = s.chain
        /\ pending' = p.pending
        /\ session' = p.session
        /\ pendRecs' = p.recs
        /\ popped' = << >>

-----------------------------------------------------------------------------
Init ==
    /\ chain = <<Genesis>>
    /\ pending = << >>
    /\ session = FALSE
    /\ pendRecs = {}
    /\ popped = << >>

\* push_transaction(t) (639-664): _push_transaction under the write lock.
PushTransaction(t) ==
    LET p == PushTx([pending |-> pending, session |-> session, recs |-> pendRecs], t, chain)
    IN  /\ pending' = p.pending
        /\ session' = p.session
        /\ pendRecs' = p.recs
        /\ UNCHANGED <<chain, popped>>

(* generate_block(when) (690-842): the pending session is rebuilt from     *)
(* _pending_tx, skipping what expires before `when' and postponing what    *)
(* would overfill the block, each transaction in a nested session that is  *)
(* dropped on failure; the session is then reset and the block pushed.     *)
GenerateBlock(when) ==
    /\ Len(chain) =< MAX_HEIGHT
    /\ when > Top(chain).time
    /\ LET r == FoldLeft(LAMBDA acc, t :
                    IF \/ Exp[t] < when
                       \/ Len(acc.txs) + 1 >= MAX_BLOCK_TXS
                       \/ ~Acceptable(t, Top(chain).recs \cup acc.recs, chain)
                    THEN acc
                    ELSE [txs |-> Append(acc.txs, t), recs |-> acc.recs \cup {t}],
                    [txs |-> << >>, recs |-> {}], pending)
       IN  PushBlocks(0, <<[time |-> when, txs |-> r.txs]>>)

\* push_block of a block from the network that builds on the head.
ReceiveBlock(when, txs) ==
    /\ Len(chain) =< MAX_HEIGHT
    /\ when > Top(chain).time
    /\ PushBlocks(0, <<[time |-> when, txs |-> txs]>>)

\* push_block of a block that is not higher than the head: the fork
\* database keeps it, the state does not move (564-566, 610), but the pool
\* is emptied and rebuilt around the call.
ReceiveRivalBlock ==
    PushBlocks(0, << >>)

\* push_block of the second block of a rival branch that forks one block
\* below the head: the switch pops the head and applies both.
ReceiveFork(when1, when2, txs1, txs2) ==
    /\ CanPop(chain)
    /\ Len(chain) =< MAX_HEIGHT
    /\ when1 > chain[Len(chain) - 1].time
    /\ when2 > when1
    /\ PushBlocks(1, <<[time |-> when1, txs |-> txs1], [time |-> when2, txs |-> txs2]>>)

Next ==
    \/ \E t \in Txs : PushTransaction(t)
    \/ \E when \in Times : GenerateBlock(when)
    \/ \E when \in Times, txs \in BlockTxs : ReceiveBlock(when, txs)
    \/ ReceiveRivalBlock
    \/ \E w1, w2 \in Times, x1, x2 \in BlockTxs : ReceiveFork(w1, w2, x1, x2)

Spec == Init /\ [][Next]_vars

-----------------------------------------------------------------------------
\* The dedup index keeps every transaction on the chain from being applied
\* a second time, across fork switches, pops and the expiry of records:
\* clear_expired_transactions drops a record only once the transaction can
\* no longer pass the expiration check.
NoDuplicateOnChain == IsInjective(ChainTxs(chain))

\* Outside a call, the pending session holds exactly the records of
\* _pending_tx, none twice and none already on the chain (the invariant
\* _generate_block's comment says push_block re-creates).
PendingMirrorsSession ==
    /\ pendRecs = ToSet(pending)
    /\ IsInjective(pending)
    /\ pendRecs \cap Top(chain).recs = {}
    /\ pending # << >> => session

\* No call loses a transaction that is still valid: whatever was pending or
\* on the chain before a step is, after it, pending, on the chain, or no
\* longer acceptable to _apply_transaction (expired or known).
NoValidTransactionLost ==
    [][\A t \in ToSet(pending) \cup ToSet(ChainTxs(chain)) :
          \/ t \in ToSet(pending') \cup ToSet(ChainTxs(chain'))
          \/ ~Acceptable(t, Top(chain').recs \cup pendRecs', chain')]_vars
\* TaPoS: every transaction in a block after block 1 names, by ring slot
\* and id prefix, a block below it on the same chain, so it cannot be
\* replayed on a fork that lacks that block.  The ring is versioned state:
\* a fork switch must undo the summaries of the popped blocks, and a slot
\* reused RING blocks later must turn the old reference away.
TaposOnChain ==
    \A h \in 3..Len(chain) : \A i \in DOMAIN chain[h].txs :
        LET r == REF[chain[h].txs[i]]
        IN  \E m \in 0..h - 2 : m % RING = r[1] /\ BlockId(chain[m + 1]) = r[2]

=============================================================================
