--------------------------- MODULE BlockSchedule ---------------------------
(***************************************************************************)
(* Slots, the producer schedule and the hardfork processor of              *)
(* database.cpp, as a block advances the head: validate_block_header's     *)
(* schedule check, update_global_dynamic_data (missed slots, witness       *)
(* shutdown, the participation bitset, current_aslot),                     *)
(* update_signing_witness, and process_hardforks / apply_hardfork, with    *)
(* set_hardfork as the debug and test fixture call it.                     *)
(*                                                                         *)
(* The shuffled witness list and next_hardfork come from                   *)
(* update_witness_schedule (witness_schedule.cpp, not under src/), which   *)
(* runs before process_hardforks in every block: its outcome is a          *)
(* nondeterministic input of each block.  Times count seconds from        *)
(* GENESIS_TIME; BLOCK_INTERVAL is 1 as in config.hpp.                     *)
(***************************************************************************)
EXTENDS Naturals, Sequences, SequencesExt

CONSTANTS
    Witnesses,          \* witness names
    SCHEDULE,           \* current_shuffled_witnesses
    WINDOW,             \* bits of recent_slots_filled (128 in the code)
    MAX_TIME,           \* head times are 0..MAX_TIME
    BLOCKS_PER_DAY,     \* config.hpp, scaled to the model's clock
    NUM_HARDFORKS,      \* hardforks 1..NUM_HARDFORKS are configured
    HF_VOTED,           \* HARDFORK_0_5__54: later hardforks are voted in
    HF_SHUTDOWN,        \* HARDFORK_0_14__278: missing witnesses are shut down
    HF_TIMES,           \* HF_TIMES[i]: HARDFORK_0_i_TIME
    HF_VERSIONS         \* HF_VERSIONS[i]: HARDFORK_0_i_VERSION, increasing

BLOCK_INTERVAL == 1

HF == 0..NUM_HARDFORKS

\* Versions a majority of witnesses can vote for: a configured one, or one
\* this node does not know.
Votable == {HF_VERSIONS[i] : i \in HF} \cup {HF_VERSIONS[NUM_HARDFORKS] + 1}

VARIABLES
    now,            \* dgp.time
    num,            \* dgp.head_block_number
    aslot,          \* dgp.current_aslot
    filled,         \* dgp.recent_slots_filled, as a number below 2^WINDOW
    pcount,         \* dgp.participation_count
    missed,         \* missed[w]: witness w's total_missed
    confirmed,      \* confirmed[w]: witness w's last_confirmed_block_num
    keyOn,          \* keyOn[w]: w's signing_key is not the null key
    hfTimes,        \* _hardfork_times (process memory)
    processed,      \* hardfork_property_object.processed_hardforks
    nextHF,         \* hardfork_property_object.next_hardfork
    nextHFTime,     \* hardfork_property_object.next_hardfork_time
    recent          \* history: the last WINDOW slots, oldest first, TRUE if filled

vars == <<now, num, aslot, filled, pcount, missed, confirmed, keyOn,
          hfTimes, processed, nextHF, nextHFTime, recent>>

\* last_hardfork, the index of the newest processed hardfork.
LastHF == Len(processed) - 1

\* has_hardfork (3602-3605).
HasHardfork(h) == Len(processed) > h

-----------------------------------------------------------------------------
\* get_scheduled_witness (931-937): the witness slot_num slots after the head.
ScheduledWitness(slot) == SCHEDULE[((aslot + slot) % Len(SCHEDULE)) + 1]

\* get_slot_time (939-962): from genesis for the first block, otherwise
\* from the head time aligned to BLOCK_INTERVAL.
SlotTime(slot) ==
    IF slot = 0 THEN 0
    ELSE IF num = 0 THEN now + slot * BLOCK_INTERVAL
    ELSE (now \div BLOCK_INTERVAL) * BLOCK_INTERVAL + slot * BLOCK_INTERVAL

\* get_slot_at_time (964-970).
SlotAtTime(when) ==
    IF when < SlotTime(1) THEN 0 ELSE (when - SlotTime(1)) \div BLOCK_INTERVAL + 1

TopBit(bits) == (bits \div 2^(WINDOW - 1)) % 2

RECURSIVE PopCount(_)
PopCount(bits) == IF bits = 0 THEN 0 ELSE (bits % 2) + PopCount(bits \div 2)

SlideBeforeCount(p, i) ==
    LET bits == ((p.bits * 2) % 2^WINDOW) + (IF i = 0 THEN 1 ELSE 0)
    IN  [bits |-> bits, count |-> p.count - TopBit(bits) + (IF i = 0 THEN 1 ELSE 0)]

SlideUnbounded(p, i) ==
    [bits  |-> (p.bits * 2) + (IF i = 0 THEN 1 ELSE 0),
     count |-> p.count - TopBit(p.bits) + (IF i = 0 THEN 1 ELSE 0)]

(* One round of the participation loop (2984-2989): the slot leaving the   *)
(* window is uncounted, the bitset shifts, and round 0 (the produced       *)
(* block) sets the new low bit and is counted.                             *)
Slide(p, i) ==
    [bits  |-> ((p.bits * 2) % 2^WINDOW) + (IF i = 0 THEN 1 ELSE 0),
     count |-> p.count - TopBit(p.bits) + (IF i = 0 THEN 1 ELSE 0)]

MissSlotsWithProducer(gap, producer) ==
    FoldLeft(LAMBDA acc, i :
                 LET w == ScheduledWitness(i)
                 IN  [missed |-> [acc.missed EXCEPT ![w] = @ + 1],
                      keyOn  |-> IF HasHardfork(HF_SHUTDOWN)
                                    /\ num - confirmed[w] > BLOCKS_PER_DAY
                                 THEN [acc.keyOn EXCEPT ![w] = FALSE]
                                 ELSE acc.keyOn],
             [missed |-> missed, keyOn |-> keyOn], [i \in 1..gap |-> i])

(* The missed-slot loop of update_global_dynamic_data (2954-2978): every   *)
(* scheduled witness of a skipped slot other than the producer gets a      *)
(* miss, and after HARDFORK_0_14 loses its signing key once its last       *)
(* confirmed block is more than BLOCKS_PER_DAY behind the head.            *)
MissSlots(gap, producer) ==
    FoldLeft(LAMBDA acc, i :
                 LET w == ScheduledWitness(i)
                 IN  IF w = producer THEN acc
                     ELSE [missed |-> [acc.missed EXCEPT ![w] = @ + 1],
                           keyOn  |-> IF HasHardfork(HF_SHUTDOWN)
                                         /\ num - confirmed[w] > BLOCKS_PER_DAY
                                      THEN [acc.keyOn EXCEPT ![w] = FALSE]
                                      ELSE acc.keyOn],
             [missed |-> missed, keyOn |-> keyOn], [i \in 1..gap |-> i])

(* apply_hardfork (3629-3901) of hardfork h on the processed list: the     *)
(* one-shot migrations of its switch (ESCOR split, vote retallies, reward  *)
(* fund and delegation changes) change no state this module keeps; its    *)
(* bookkeeping (3889-3899) appends the hardfork's time.                    *)
ApplyHardfork(p, h) == Append(p, hfTimes[h])

RECURSIVE VotedLoopUpToVote(_, _, _, _)
VotedLoopUpToVote(p, t, next, nextTime) ==
    LET last == Len(p) - 1
    IN  IF HF_VERSIONS[last] =< next /\ nextTime =< t
        THEN IF last < NUM_HARDFORKS
             THEN VotedLoopUpToVote(ApplyHardfork(p, last + 1), t, next, nextTime)
             ELSE "unknown"
        ELSE p

\* The loop after HARDFORK_0_5__54 (3579-3587): apply the next hardfork while
\* the last one's version is below the voted one and the vote's time has
\* come; "unknown" is unknown_hardfork_exception.
RECURSIVE VotedLoop(_, _, _, _)
VotedLoop(p, t, next, nextTime) ==
    LET last == Len(p) - 1
    IN  IF HF_VERSIONS[last] < next /\ nextTime =< t
        THEN IF last < NUM_HARDFORKS
             THEN VotedLoop(ApplyHardfork(p, last + 1), t, next, nextTime)
             ELSE "unknown"
        ELSE p

\* The loop before it (3591-3597): apply every hardfork whose configured
\* time has come, up to HARDFORK_0_5__54 itself.
RECURSIVE TimedLoop(_, _)
TimedLoop(p, t) ==
    LET last == Len(p) - 1
    IN  IF last < NUM_HARDFORKS /\ hfTimes[last + 1] =< t /\ last < HF_VOTED
        THEN TimedLoop(ApplyHardfork(p, last + 1), t)
        ELSE p

\* process_hardforks (3570-3600) at head time t: which loop runs is decided
\* once, by has_hardfork(HARDFORK_0_5__54) on entry.
ProcessHardforks(p, t, next, nextTime) ==
    IF Len(p) > HF_VOTED THEN VotedLoop(p, t, next, nextTime) ELSE TimedLoop(p, t)

-----------------------------------------------------------------------------
(* init_genesis (2347-2451): the head at genesis time, every slot of the   *)
(* window marked filled; init_hardforks (3501-3568) sets the configured    *)
(* times and processed_hardforks holds hardfork 0.                         *)
Init ==
    /\ now = 0
    /\ num = 0
    /\ aslot = 0
    /\ filled = 2^WINDOW - 1
    /\ pcount = WINDOW
    /\ missed = [w \in Witnesses |-> 0]
    /\ confirmed = [w \in Witnesses |-> 0]
    /\ keyOn = [w \in Witnesses |-> TRUE]
    /\ hfTimes = HF_TIMES
    /\ processed = <<HF_TIMES[0]>>
    /\ nextHF = HF_VERSIONS[0]
    /\ nextHFTime = 0
    /\ recent = [i \in 1..WINDOW |-> TRUE]

(* A block at time t: validate_block_header (2918-2939) requires the       *)
(* scheduled witness of t's slot, with a signing key; then                 *)
(* update_global_dynamic_data (2949-3006), update_signing_witness          *)
(* (3032-3042), update_witness_schedule's vote outcome (next, nextTime)    *)
(* and process_hardforks.  A block whose hardfork processing throws is     *)
(* rejected and changes nothing.  The undo-history check at the end of     *)
(* update_global_dynamic_data is ChainDatabase's UndoHistoryOk.            *)
ProduceBlock(t, next, nextTime) ==
    LET slot == SlotAtTime(t)
        w == ScheduledWitness(slot)
        gap == slot - 1
        m == MissSlots(gap, w)
        p == FoldLeft(Slide, [bits |-> filled, count |-> pcount], [i \in 1..slot |-> i - 1])
        hf == ProcessHardforks(processed, t, next, nextTime)
    IN  /\ t > now
        /\ t =< MAX_TIME
        /\ slot > 0
        /\ keyOn[w]
        /\ hf # "unknown"
        /\ missed' = m.missed
        /\ keyOn' = m.keyOn
        /\ filled' = p.bits
        /\ pcount' = p.count
        /\ num' = num + 1
        /\ now' = t
        /\ aslot' = aslot + gap + 1
        /\ confirmed' = [confirmed EXCEPT ![w] = num + 1]
        /\ nextHF' = next
        /\ nextHFTime' = nextTime
        /\ processed' = hf
        /\ recent' = LET all == recent \o [i \in 1..gap |-> FALSE] \o <<TRUE>>
                     IN  SubSeq(all, Len(all) - WINDOW + 1, Len(all))
        /\ UNCHANGED hfTimes

SetHardforkBeforeTime(h, applyNow) ==
    LET idx == [i \in 1..(h - LastHF) |-> LastHF + i]
        r == FoldLeft(LAMBDA acc, i :
                 [times |-> IF i =< HF_VOTED THEN [acc.times EXCEPT ![i] = now] ELSE acc.times,
                  next |-> IF i =< HF_VOTED THEN acc.next ELSE HF_VERSIONS[i],
                  nextTime |-> IF i =< HF_VOTED THEN acc.nextTime ELSE now,
                  p |-> IF applyNow THEN Append(acc.p, acc.times[i]) ELSE acc.p],
                 [times |-> hfTimes, next |-> nextHF, nextTime |-> nextHFTime, p |-> processed],
                 idx)
    IN  /\ h > LastHF
        /\ hfTimes' = r.times
        /\ nextHF' = r.next
        /\ nextHFTime' = r.nextTime
        /\ processed' = r.p
        /\ UNCHANGED <<now, num, aslot, filled, pcount, missed, confirmed, keyOn, recent>>

(* set_hardfork(h, apply_now) (3607-3627): for each hardfork after the     *)
(* last up to h, a time-gated one gets the head time as its time, a voted  *)
(* one becomes next_hardfork due now; with apply_now each is applied.      *)
SetHardfork(h, applyNow) ==
    LET idx == [i \in 1..(h - LastHF) |-> LastHF + i]
        r == FoldLeft(LAMBDA acc, i :
                 LET times == IF i =< HF_VOTED THEN [acc.times EXCEPT ![i] = now] ELSE acc.times
                 IN  [times |-> times,
                      next |-> IF i =< HF_VOTED THEN acc.next ELSE HF_VERSIONS[i],
                      nextTime |-> IF i =< HF_VOTED THEN acc.nextTime ELSE now,
                      p |-> IF applyNow THEN Append(acc.p, times[i]) ELSE acc.p],
                 [times |-> hfTimes, next |-> nextHF, nextTime |-> nextHFTime, p |-> processed],
                 idx)
    IN  /\ h > LastHF
        /\ hfTimes' = r.times
        /\ nextHF' = r.next
        /\ nextHFTime' = r.nextTime
        /\ processed' = r.p
        /\ UNCHANGED <<now, num, aslot, filled, pcount, missed, confirmed, keyOn, recent>>

Next ==
    \/ \E t \in 1..MAX_TIME, next \in Votable, nextTime \in 0..MAX_TIME :
          ProduceBlock(t, next, nextTime)
    \/ \E h \in 1..NUM_HARDFORKS, applyNow \in BOOLEAN : SetHardfork(h, applyNow)

Spec == Init /\ [][Next]_vars

-----------------------------------------------------------------------------
\* participation_count, which update_global_dynamic_data adjusts slot by
\* slot, always equals the number of set bits of recent_slots_filled that
\* witness_participation_rate (480-484) counts.
ParticipationCountMatches == pcount = PopCount(filled)

\* processed_hardforks holds each hardfork's time exactly once and in order,
\* as apply_hardfork's sanity checks require, whichever of process_hardforks'
\* loops and set_hardfork applied them.
HardforksInOrder ==
    /\ LastHF =< NUM_HARDFORKS
    /\ \A i \in 0..LastHF : processed[i + 1] = hfTimes[i]

\* A block applies a hardfork only when it is due: a time-gated one once its
\* configured time has come, a voted one only up to the version the
\* witnesses voted for and once the voted time has come.
HardforkOnlyWhenDue ==
    [][\A h \in (LastHF + 1)..(Len(processed') - 1) :
          num' = num + 1 =>
             IF h =< HF_VOTED THEN hfTimes[h] =< now'
             ELSE HF_VERSIONS[h] =< nextHF' /\ nextHFTime' =< now']_vars
\* witness_participation_rate (480-484) never reports more filled slots than
\* the last WINDOW slots really had.  Round 0 of the participation loop
\* (2988) sets the produced block's bit and the later rounds shift it up
\* once per missed slot, so the produced block sits above the slots it
\* missed and leaves the window early: the rate may understate, and this
\* checks it never overstates, across gaps and the 128-bit shift-out.
ParticipationNotOverstated ==
    PopCount(filled) =< Cardinality({i \in 1..WINDOW : recent[i]})

\* The HARDFORK_0_14 shutdown in the missed-slot loop (2963-2973) takes the
\* signing key only from a witness that did not sign the block, even when a
\* long gap wraps the rotation past the producer's own slot, and only once
\* its last confirmed block is more than BLOCKS_PER_DAY behind the head the
\* block builds on.
ShutdownOnlyWhenAbsent ==
    [][\A w \in Witnesses :
          keyOn[w] /\ ~keyOn'[w] =>
             /\ confirmed'[w] = confirmed[w]
             /\ num - confirmed[w] > BLOCKS_PER_DAY]_vars

=============================================================================
