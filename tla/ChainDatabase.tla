--------------------------- MODULE ChainDatabase ---------------------------
(***************************************************************************)
(* The block engine of libraries/chain/database.cpp: push_block and its    *)
(* fork switch (_push_block), pop_block, and the part of apply_block that  *)
(* decides irreversibility (update_global_dynamic_data, the undo-history   *)
(* check, update_signing_witness, update_last_irreversible_block with its  *)
(* commit, block-log append and fork-database resize).                     *)
(*                                                                         *)
(* The versioned state store (chainbase) is the sequence `chain' of        *)
(* snapshots: chain[i] is the state after block number i-1 was applied, so *)
(* chain[1] is genesis and undoing a session drops the last snapshot.  A   *)
(* snapshot keeps only what the engine reads back: the head block, the     *)
(* dynamic global property last_irreversible_block_num and every           *)
(* witness's last_confirmed_block_num.  Everything else a block does is    *)
(* abstracted to whether it succeeds: fate[b] says whether apply_block(b)  *)
(* throws before it changes the head ("invalid": merkle, header,           *)
(* signature, size or transaction failure), after the irreversibility step *)
(* ("late": a maintenance step or process_hardforks throws), or not at all *)
(* ("valid").  Blocks are deterministic, so a block's fate is the same on  *)
(* every attempt.                                                          *)
(***************************************************************************)
EXTENDS Naturals, Sequences, FiniteSets, TLC

CONSTANTS
    Genesis, Blocks, Parent,   \* the block tree (see ForkDatabase)
    Producer,                  \* Producer[b]: the witness that signed b
    Witnesses,                 \* the scheduled witness set
    Fates,                     \* the fates a block may have
    MAX_WITNESSES,
    START_MINER_VOTING_BLOCK,
    MAX_UNDO_HISTORY,
    FORK_DB_MAX_SIZE,          \* the fork database's size before the first resize
    KEEP_BELOW,                \* see ForkDatabase!Prune
    CRASHES                    \* \subseteq {"restart", "lose_unflushed"}: how the process may stop

PERCENT_100 == 10000
IRREVERSIBLE_THRESHOLD == 7500

ASSUME Fates \subseteq {"valid", "invalid", "late"} /\ "valid" \in Fates

FDB == INSTANCE ForkDatabase

Num == FDB!Num

VARIABLES
    fate,       \* fate[b]: how apply_block(b) ends
    fdb,        \* _fork_db
    chain,      \* the chainbase state, one snapshot per revision
    committed,  \* the highest revision passed to chainbase commit()
    blog,       \* _block_log: blog[n] is the block logged at height n
    pc,         \* where _push_block is: "idle", "pop", "apply", "restore_pop", "restore",
                \* or "crashed" when the process died
    branches,   \* the result of fetch_branch_from for the fork switch in progress
    idx,        \* the position of the fork-switch loop in branches.first or .second
    before,     \* the state when the current push_block started
    removed,    \* blocks push_block removed from the fork database after they failed
    flushed     \* the length of the block log known to be on disk

vars == <<fate, fdb, chain, committed, blog, pc, branches, idx, before, removed, flushed>>

Snapshot == [block : FDB!AllBlocks, lib : Nat, conf : [Witnesses -> Nat]]

HeadId == chain[Len(chain)].block
HeadNum == Num[HeadId]

\* The blocks whose effects the state holds, by height.
ChainBlocks == [n \in 1..Len(chain) - 1 |-> chain[n + 1].block]

-----------------------------------------------------------------------------
\* validate_block_header's first check (database.cpp:2920): b.previous must
\* be the state's head block.
LinksToHead(b) == Parent[b] = HeadId

\* The undo-history check of update_global_dynamic_data (database.cpp:2998-3004),
\* made after the head number has become b's.
UndoHistoryOk(b, lib) == Num[b] - lib < MAX_UNDO_HISTORY

\* update_signing_witness (database.cpp:3032-3042).
SigningWitnessConfirms(conf, b) == [conf EXCEPT ![Producer[b]] = Num[b]]

(* update_last_irreversible_block (database.cpp:3044-3092).  Before       *)
(* START_MINER_VOTING_BLOCK the LIB trails the head by MAX_WITNESSES;     *)
(* afterwards it is the value nth_element puts at position offset of the   *)
(* witnesses' last confirmations, and it only moves up.                    *)
Offset == ((PERCENT_100 - IRREVERSIBLE_THRESHOLD) * Cardinality(Witnesses)) \div PERCENT_100

NthConfirmedDescending(conf, k) ==
    CHOOSE v \in {conf[w] : w \in Witnesses} :
        /\ Cardinality({w \in Witnesses : conf[w] > v}) =< k
        /\ Cardinality({w \in Witnesses : conf[w] >= v}) > k

NthConfirmed(conf, k) ==
    CHOOSE v \in {conf[w] : w \in Witnesses} :
        /\ Cardinality({w \in Witnesses : conf[w] < v}) =< k
        /\ Cardinality({w \in Witnesses : conf[w] =< v}) > k

NewLib(headNum, lib, conf) ==
    IF headNum < START_MINER_VOTING_BLOCK
    THEN IF headNum > MAX_WITNESSES THEN headNum - MAX_WITNESSES ELSE lib
    ELSE IF NthConfirmed(conf, Offset) > lib THEN NthConfirmed(conf, Offset) ELSE lib

RECURSIVE LogFromLogHead(_, _, _)
LogFromLogHead(log, lib, f) ==
    IF Len(log) >= lib \/ ~FDB!OnMainBranch(f, Len(log)) THEN log
    ELSE LogFromLogHead(Append(log, FDB!AncestorAt(f.head, Len(log))), lib, f)

RECURSIVE LogByNumber(_, _, _)
LogByNumber(log, lib, f) ==
    LET atN == {x \in f.items : Num[x] = Len(log) + 1}
    IN  IF Len(log) >= lib \/ atN = {} THEN log
        ELSE LogByNumber(Append(log, CHOOSE x \in atN : \A y \in atN : y =< x), lib, f)

\* The block-log loop (database.cpp:3096-3116): append the main-branch block
\* of every height above the log head up to the LIB, stopping at the first
\* height the fork database cannot supply (the FC_ASSERT at 3110).
RECURSIVE LogTo(_, _, _)
LogTo(log, lib, f) ==
    IF Len(log) >= lib \/ ~FDB!OnMainBranch(f, Len(log) + 1) THEN log
    ELSE LogTo(Append(log, FDB!AncestorAt(f.head, Len(log) + 1)), lib, f)

UndoIgnoringCommit(c) == IF Len(c) > 1 THEN SubSeq(c, 1, Len(c) - 1) ELSE c

\* chainbase undo(): drop the newest revision's changes; a revision that
\* commit() has already made permanent has no undo state left to apply.
Undo(c) == IF Len(c) - 1 > committed THEN SubSeq(c, 1, Len(c) - 1) ELSE c

(* start_undo_session + apply_block(b) + session.push(), or the session's  *)
(* undo when apply_block throws (database.cpp:577-581, 600-602, 616-619):  *)
(* the outcome, and the state, commit point, block log and fork database  *)
(* it leaves.  The order of the steps is _apply_block's (2592-2700): the   *)
(* header and the transactions, update_global_dynamic_data,                *)
(* update_signing_witness, update_last_irreversible_block (commit at 3094, *)
(* block log, set_max_size at 3119), then the maintenance steps.  commit,  *)
(* the block log and the fork database are not undone with the session.   *)
ApplyBlock(b, f) ==
    LET top   == chain[Len(chain)]
        conf  == SigningWitnessConfirms(top.conf, b)
        lib   == NewLib(Num[b], top.lib, conf)
        cmt   == IF lib > committed THEN lib ELSE committed
        log   == LogTo(blog, lib, f)
        logOk == Len(log) >= lib
        ok    == logOk /\ fate[b] = "valid"
        \* the session's revision is Len(chain); once committed it stays
        keep  == ok \/ Len(chain) =< cmt
    IN  IF ~LinksToHead(b) \/ fate[b] = "invalid" \/ ~UndoHistoryOk(b, top.lib)
        THEN [ok |-> FALSE, chain |-> chain, committed |-> committed,
              blog |-> blog, fdb |-> f]
        ELSE [ok |-> ok,
              chain |-> IF keep
                        THEN Append(chain, [block |-> b, lib |-> lib, conf |-> conf])
                        ELSE chain,
              committed |-> cmt,
              blog |-> log,
              fdb |-> IF logOk THEN FDB!SetMaxSize(f, Num[b] - lib + 1) ELSE f]

-----------------------------------------------------------------------------
Init ==
    /\ fate \in [Blocks -> Fates]
    /\ fdb = FDB!Empty(FORK_DB_MAX_SIZE)
    /\ chain = << [block |-> Genesis, lib |-> 0, conf |-> [w \in Witnesses |-> 0]] >>
    /\ committed = 0
    /\ blog = << >>
    /\ pc = "idle"
    /\ branches = [first |-> << >>, second |-> << >>]
    /\ idx = 0
    /\ before = chain
    /\ removed = {}
    /\ flushed = 0

\* The outcome r of ApplyBlock becomes the state.
Take(r) ==
    /\ chain' = r.chain
    /\ committed' = r.committed
    /\ blog' = r.blog

(* push_block(b) (database.cpp:503-528) under the write lock, then         *)
(* _push_block (546-628): push b into the fork database; if the new head   *)
(* does not build on the state's head, either start a fork switch (when it *)
(* is higher) or return; otherwise apply b in a session, and remove it     *)
(* from the fork database if that fails.  A block whose parent the fork    *)
(* database does not hold is rejected by it as unlinkable and changes      *)
(* nothing, so it is not a step.                                           *)
PushBlock(b) ==
    /\ pc = "idle"
    /\ b \notin fdb.items
    /\ FDB!Linkable(fdb, b)
    /\ before' = chain
    /\ LET f  == FDB!Push(fdb, b)
           nh == f.head
           br == FDB!BranchFrom(nh, HeadId)
           r  == ApplyBlock(b, f)
       IN  \/ /\ Parent[nh] # HeadId
              /\ Num[nh] > HeadNum
              /\ FDB!BranchHeld(f, br)
              /\ fdb' = f
              /\ branches' = br
              \* branches.second.back() of an empty vector (the state's head is
              \* an ancestor of the new head) reads before a null data pointer
              \* of libstdc++'s vector: the process dies.
              /\ pc' = IF br.second = << >> THEN "crashed" ELSE "pop"
              /\ UNCHANGED <<fate, chain, committed, blog, idx, removed>>
           \/ /\ Parent[nh] # HeadId
              /\ \/ Num[nh] =< HeadNum
                 \/ ~FDB!BranchHeld(f, br)   \* fetch_branch_from throws
              /\ fdb' = f
              /\ UNCHANGED <<fate, chain, committed, blog, pc, branches, idx, removed>>
           \/ /\ Parent[nh] = HeadId
              /\ Take(r)
              /\ fdb' = IF r.ok THEN r.fdb ELSE FDB!RemoveAll(r.fdb, {b})
              /\ removed' = IF r.ok THEN removed ELSE removed \cup {b}
              /\ UNCHANGED <<fate, pc, branches, idx>>

\* The block the pop loops stop at: branches.second.back()->data.previous.
ForkPoint == Parent[branches.second[Len(branches.second)]]

\* fetch_block_by_id(head_block_id()) in pop_block: from the fork database,
\* or from the block log by number.
HeadFetchable ==
    \/ HeadId \in fdb.items
    \/ HeadNum \in 1..Len(blog) /\ blog[HeadNum] = HeadId

\* A pop loop that catches pop_block's failure and tries again.
PopStepRetrying ==
    /\ pc \in {"pop", "restore_pop"}
    /\ HeadId # ForkPoint
    /\ IF HeadFetchable /\ FDB!CanPop(fdb)
       THEN fdb' = FDB!PopBlock(fdb) /\ chain' = Undo(chain)
       ELSE UNCHANGED <<fdb, chain>>
    /\ UNCHANGED <<fate, committed, blog, pc, branches, idx, before, removed>>

(* One iteration of `while (head_block_id() != ...) pop_block()`           *)
(* (database.cpp:567-568 and 594-595) with pop_block (844-862): the fork   *)
(* database pops its own head, then the state is undone.  If pop_block     *)
(* throws, the exception leaves _push_block.                               *)
PopStep ==
    /\ pc \in {"pop", "restore_pop"}
    /\ HeadId # ForkPoint
    /\ \/ /\ HeadFetchable /\ FDB!CanPop(fdb)
          /\ fdb' = FDB!PopBlock(fdb)
          /\ chain' = Undo(chain)
          /\ UNCHANGED pc
       \/ /\ ~(HeadFetchable /\ FDB!CanPop(fdb))
          /\ pc' = "idle"
          /\ UNCHANGED <<fdb, chain>>
    /\ UNCHANGED <<fate, committed, blog, branches, idx, before, removed>>

\* The pop loop ends: start applying the new branch, or restoring the old.
PopDone ==
    /\ pc \in {"pop", "restore_pop"}
    /\ HeadId = ForkPoint
    /\ pc' = IF pc = "pop" THEN "apply" ELSE "restore"
    /\ idx' = IF pc = "pop" THEN Len(branches.first) ELSE Len(branches.second)
    /\ UNCHANGED <<fate, fdb, chain, committed, blog, branches, before, removed>>

\* The fork-switch failure path without _fork_db.set_head (database.cpp:591).
SwitchApplyKeepingHead ==
    /\ pc = "apply"
    /\ LET r == ApplyBlock(branches.first[idx], fdb)
           bad == {branches.first[i] : i \in 1..idx}
       IN  /\ Take(r)
           /\ IF r.ok
              THEN /\ fdb' = r.fdb
                   /\ idx' = idx - 1
                   /\ pc' = IF idx = 1 THEN "idle" ELSE "apply"
                   /\ UNCHANGED removed
              ELSE /\ fdb' = FDB!RemoveAll(r.fdb, bad)
                   /\ removed' = removed \cup bad
                   /\ pc' = "restore_pop"
                   /\ UNCHANGED idx
    /\ UNCHANGED <<fate, branches, before>>

(* One iteration of the loop over branches.first, oldest block first       *)
(* (database.cpp:571-606).  On failure: remove this block and every newer  *)
(* one of the branch from the fork database, set its head back to the old  *)
(* head (591), and go on to pop the bad fork.                              *)
SwitchApply ==
    /\ pc = "apply"
    /\ LET r == ApplyBlock(branches.first[idx], fdb)
           bad == {branches.first[i] : i \in 1..idx}
       IN  /\ Take(r)
           /\ IF r.ok
              THEN /\ fdb' = r.fdb
                   /\ idx' = idx - 1
                   /\ pc' = IF idx = 1 THEN "idle" ELSE "apply"
                   /\ UNCHANGED removed
              ELSE /\ fdb' = FDB!SetHead(FDB!RemoveAll(r.fdb, bad), branches.second[1])
                   /\ removed' = removed \cup bad
                   /\ pc' = "restore_pop"
                   /\ UNCHANGED idx
    /\ UNCHANGED <<fate, branches, before>>

(* One iteration of the loop re-applying branches.second, oldest first     *)
(* (database.cpp:598-604).  Its failure is not caught: the exception       *)
(* leaves _push_block at once.  When it ends, `throw *except' (604).       *)
Restore ==
    /\ pc = "restore"
    /\ LET r == ApplyBlock(branches.second[idx], fdb)
       IN  /\ Take(r)
           /\ fdb' = r.fdb
           /\ idx' = idx - 1
           /\ pc' = IF r.ok /\ idx > 1 THEN "restore" ELSE "idle"
    /\ UNCHANGED <<fate, branches, before, removed>>

(* The process stops (a crash, a kill, or the death of "crashed") and is  *)
(* started again: database::open (database.cpp:98-145).  undo_all() rolls  *)
(* the state back to the last committed revision; open then requires the  *)
(* block log to hold the state's head block (130-134), or it throws and    *)
(* the node cannot start without a reindex.  The fork database starts      *)
(* afresh from the head block (136).                                       *)
(* With "lose_unflushed", the process may die inside the step that last    *)
(* appended to the block log, after commit (3094) and before               *)
(* _block_log.flush() (3115): the appends of that step are lost.           *)
Restart ==
    /\ "restart" \in CRASHES
    /\ \E disk \in {blog} \cup (IF "lose_unflushed" \in CRASHES
                                  THEN {SubSeq(blog, 1, flushed)} ELSE {}) :
       LET kept == SubSeq(chain, 1, committed + 1)
           head == kept[Len(kept)].block
       IN  /\ chain' = kept
           /\ blog' = disk
           /\ flushed' = Len(disk)
           /\ IF committed = 0 \/ (committed =< Len(disk) /\ disk[committed] = head)
              THEN /\ fdb' = [items |-> {head}, head |-> head, max |-> FORK_DB_MAX_SIZE]
                   /\ pc' = "idle"
              ELSE /\ pc' = "crashed"
                   /\ UNCHANGED fdb
    /\ UNCHANGED <<fate, committed, branches, idx, before, removed>>

\* The steps of a push_block in progress.
Continue == PopStep \/ PopDone \/ SwitchApply \/ Restore

\* Every step of the engine ends with the block log flushed up to where it
\* was before the step (see Restart).
Flushed == flushed' = Len(blog)

Next ==
    \/ (\E b \in Blocks : PushBlock(b)) /\ Flushed
    \/ Continue /\ Flushed
    \/ Restart

\* _push_block runs to completion under the write lock: nothing else
\* mutates the database until it returns (spec.md section 5).
Spec == Init /\ [][Next]_vars /\ WF_vars(Continue /\ Flushed)

-----------------------------------------------------------------------------
TypeOK ==
    /\ fate \in [Blocks -> Fates]
    /\ fdb.items \subseteq FDB!AllBlocks /\ fdb.head \in FDB!AllBlocks /\ fdb.max \in Nat
    /\ chain \in Seq(Snapshot) /\ Len(chain) >= 1
    /\ committed \in Nat
    /\ blog \in Seq(Blocks)
    /\ pc \in {"idle", "pop", "apply", "restore_pop", "restore", "crashed"}
    /\ idx \in Nat
    /\ removed \subseteq Blocks
    /\ flushed \in 0..Len(blog)

\* Every block the log has made permanent is the block the state holds at
\* that height: what update_last_irreversible_block appends from the fork
\* database's main branch is never popped by a later fork switch.
BlockLogOnChain ==
    pc = "idle" =>
        /\ Len(blog) =< Len(ChainBlocks)
        /\ \A n \in 1..Len(blog) : blog[n] = ChainBlocks[n]

\* When a fork switch fails, the state it restores is exactly the state it
\* started from (spec.md 4.13: "restore branchB exactly"): the pops of the
\* bad fork undo everything the new branch did, and the re-applied old
\* branch reproduces every snapshot, last irreversible block included.
FailedSwitchRestoresState ==
    [][((PopStep \/ Restore) /\ pc \in {"restore_pop", "restore"} /\ pc' = "idle")
            => chain' = before]_vars

\* push_block removes a block from the fork database only when that block or
\* one of its ancestors cannot be applied: a valid longer fork is never
\* thrown away.
NoValidBlockRemoved ==
    \A b \in removed :
        \E n \in 1..Num[b] : fate[FDB!AncestorAt(b, n)] # "valid"

\* Every branch of valid blocks the fork database holds is no higher than the
\* state's head: push_block switches to the longest valid fork it knows of.
ValidBranch(b) == \A n \in 1..Num[b] : fate[FDB!AncestorAt(b, n)] = "valid"

LongestValidFollowed ==
    pc = "idle" => \A b \in fdb.items \ {Genesis} : ValidBranch(b) => Num[b] =< HeadNum

\* spec.md 4.7: the last irreversible block "advances monotonically", so
\* once commit() has made a revision permanent the state never reports an
\* older last irreversible block.
LibNotBelowCommitted ==
    pc = "idle" => chain[Len(chain)].lib >= committed

\* Every push_block returns or the process dies: the pop, apply and restore
\* loops of a fork switch end.
Busy == {"pop", "apply", "restore_pop", "restore"}

PushReturns == pc \in Busy ~> pc \notin Busy

\* The state a restart rolls back to is always the block log's head: every
\* revision commit() has made permanent is already in the block log, with
\* the block the state holds at that height, so open() never refuses to
\* start.
RecoverableAfterCrash ==
    /\ committed =< Len(blog)
    /\ Len(chain) > committed
    /\ committed > 0 => blog[committed] = chain[committed + 1].block

\* The block log database.cpp writes implements the block log's promise
\* (BlockLog): update_last_irreversible_block only ever appends, each new
\* block follows the log's head, and no pop, fork switch, failed block or
\* restart takes a logged block back.
BL == INSTANCE BlockLog WITH log <- blog

LogRefinement == BL!Spec

=============================================================================
