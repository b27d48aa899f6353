------------------------------ MODULE BlockLog ------------------------------
(***************************************************************************)
(* What the block log promises (spec.md section 3, "Block log"): an        *)
(* append-only sequence of finalized blocks addressable by height.  The    *)
(* block at height n is log[n]; every block appended is a child of the     *)
(* block before it, the first one a child of genesis, and nothing is ever  *)
(* removed or rewritten, across pops, fork switches and restarts alike.    *)
(* The code of block_log (append, flush, head) is not under src/; this     *)
(* module states the promise database.cpp relies on.                       *)
(***************************************************************************)
EXTENDS Naturals, Sequences

CONSTANTS Genesis, Blocks, Parent

VARIABLE log

\* block_log::head(): the last block appended, or genesis while empty.
LogHead == IF log = << >> THEN Genesis ELSE log[Len(log)]

\* ext continues the block tree from tip, block by block.
Continues(tip, ext) ==
    \A i \in 1..Len(ext) :
        /\ ext[i] \in Blocks
        /\ Parent[ext[i]] = IF i = 1 THEN tip ELSE ext[i - 1]

Init == log = << >>

\* One or more block_log::append calls: the new blocks follow the head.
AppendBlocks ==
    /\ Len(log') > Len(log)
    /\ SubSeq(log', 1, Len(log)) = log
    /\ Continues(LogHead, SubSeq(log', Len(log) + 1, Len(log')))

Next == AppendBlocks

Spec == Init /\ [][Next]_log
=============================================================================
