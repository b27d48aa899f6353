--------------------------- MODULE ForkDatabase ---------------------------
(***************************************************************************)
(* The fork database of spec.md section 4.2.  Its implementation           *)
(* (libraries/chain/fork_database.cpp) is not part of src/, so every       *)
(* operator here is modelled from the specification: a tree of blocks      *)
(* keyed by id, a single head, and pruning of blocks older than the last   *)
(* max_size heights.  The block engine (ChainDatabase) calls these         *)
(* operators from inside its own actions, exactly where database.cpp       *)
(* calls _fork_db.                                                         *)
(*                                                                         *)
(* A fork database value is a record                                       *)
(*   [items : SUBSET AllBlocks, head : AllBlocks, max : Nat].              *)
(***************************************************************************)
EXTENDS Naturals, Sequences

CONSTANTS
    Genesis,    \* the null block id that block 1 links to
    Blocks,     \* ids of all blocks that can ever be produced
    Parent,     \* Parent[b]: the block b.previous names
    KEEP_BELOW  \* heights kept below the last max_size (0: the literal reading)

AllBlocks == Blocks \cup {Genesis}

\* block_num(): the height of a block, one above its parent.
RECURSIVE NumOf(_)
NumOf(b) == IF b = Genesis THEN 0 ELSE NumOf(Parent[b]) + 1

Num == [b \in AllBlocks |-> NumOf(b)]

\* The block on the branch ending at b whose height is n (n =< Num[b]).
RECURSIVE AncestorAt(_, _)
AncestorAt(b, n) == IF Num[b] = n THEN b ELSE AncestorAt(Parent[b], n)

\* The highest block that lies on both the branch of a and the branch of b.
RECURSIVE CommonAncestor(_, _)
CommonAncestor(a, b) ==
    IF a = b THEN a
    ELSE IF Num[a] >= Num[b] THEN CommonAncestor(Parent[a], b)
    ELSE CommonAncestor(a, Parent[b])

\* The blocks from b down to, but excluding, its ancestor anc; newest first.
RECURSIVE PathTo(_, _)
PathTo(b, anc) == IF b = anc THEN << >> ELSE <<b>> \o PathTo(Parent[b], anc)

Range(s) == {s[i] : i \in 1..Len(s)}

Empty(max) == [items |-> {Genesis}, head |-> Genesis, max |-> max]

\* set_max_size and push prune: keep the blocks of the last max heights up
\* to the head, and KEEP_BELOW heights more.  spec.md says "the last
\* max_size blocks" (KEEP_BELOW = 0); the fork database keeps blocks down to
\* head - max_size (KEEP_BELOW = 1).
Prune(f) == [f EXCEPT !.items = {x \in @ : Num[x] + f.max + KEEP_BELOW > Num[f.head]}]

\* push(block) links b under its parent, which it must already hold
\* (otherwise the push fails as unlinkable); the head moves to b only when b
\* is strictly higher, so among equal heights the earlier arrival stays head.
Linkable(f, b) == Parent[b] \in f.items

Push(f, b) ==
    Prune([f EXCEPT !.items = @ \cup {b},
                    !.head  = IF Num[b] > Num[f.head] THEN b ELSE @])

SetMaxSize(f, m) == Prune([f EXCEPT !.max = m])

SetHead(f, b) == [f EXCEPT !.head = b]

RemoveAll(f, S) == [f EXCEPT !.items = @ \ S]

\* pop_block() moves the head to its parent; it fails when the head has no
\* parent left in the database ("popping block would leave head block null").
CanPop(f) == f.head # Genesis /\ Parent[f.head] \in f.items

PopBlock(f) == [f EXCEPT !.head = Parent[@]]

\* fetch_block_on_main_branch_by_number(n): the block at height n on the
\* branch of the head, if the database still holds it.
OnMainBranch(f, n) ==
    n =< Num[f.head] /\ AncestorAt(f.head, n) \in f.items

\* fetch_branch_from(a, b): the two branches from a and from b back to their
\* common ancestor (exclusive), newest first.  It fails when a branch runs
\* through a block the database no longer holds.
BranchFrom(a, b) ==
    LET anc == CommonAncestor(a, b)
    IN  [first |-> PathTo(a, anc), second |-> PathTo(b, anc)]

BranchHeld(f, br) == Range(br.first) \cup Range(br.second) \subseteq f.items
=============================================================================
