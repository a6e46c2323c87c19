------------------------------- MODULE Jitter -------------------------------
(***************************************************************************)
(* The RTP jitter buffer of jitter.c: a ring of Slots packet slots indexed *)
(* by the 16-bit RTP sequence number, a playout cursor `expected`, and the *)
(* count `queued` of slots in use.  The channel thread puts every PCMA     *)
(* packet it receives and takes one packet per 20 ms playout tick.         *)
(*                                                                         *)
(* The buffer is closed here by the most general caller: any sequence      *)
(* number may be put at any time, a tick may come at any time, and a new   *)
(* call may reset it.  MediaStream drives the same actions from one RTP    *)
(* sender over a network that loses, duplicates and reorders.              *)
(***************************************************************************)
EXTENDS Integers, FiniteSets

CONSTANTS
    SeqMod,    \* size of the RTP sequence space (2^16 in the code)
    Slots,     \* JITTER_SLOTS
    StartAt,   \* packets that must be held before playout starts
    GapTicks,  \* playout ticks a missing packet is waited for
    Data       \* what a packet may carry

ASSUME JitterAssumption ==
    /\ SeqMod \in Nat \ {0}
    /\ Slots \in Nat \ {0}
    /\ StartAt \in Nat \ {0}
    /\ GapTicks \in Nat \ {0}

VARIABLES
    slots,          \* the ring; Free is an invalid slot
    expected,       \* sequence number due at the next playout tick
    queued,         \* j->queued
    missing_ticks,  \* ticks spent waiting for `expected`
    started,        \* playout has started
    have_expected,  \* a first packet has fixed `expected`
    out             \* what the last jitter_get gave to the modem

jvars == <<slots, expected, queued, missing_ticks, started, have_expected, out>>

SeqNum  == 0 .. SeqMod - 1
SlotIds == 0 .. Slots - 1
Packet  == [sequence: SeqNum, data: Data]
Free    == [free |-> TRUE]

Held    == {i \in SlotIds : slots[i] # Free}

\* The results of jitter_get: nothing yet, one lost packet, or media.
Wait    == <<"wait">>
Gap     == <<"gap">>
Play(d) == <<"play", d>>

TypeOK ==
    /\ slots \in [SlotIds -> Packet \cup {Free}]
    /\ expected \in SeqNum
    /\ queued \in Nat
    /\ missing_ticks \in 0 .. GapTicks - 1
    /\ started \in BOOLEAN
    /\ have_expected \in BOOLEAN
    /\ out \in {Wait, Gap} \cup {Play(d) : d \in Data}

Init ==
    /\ slots = [i \in SlotIds |-> Free]
    /\ expected = 0
    /\ queued = 0
    /\ missing_ticks = 0
    /\ started = FALSE
    /\ have_expected = FALSE
    /\ out = Wait

\* Wrong forms of the operations below, each of which some run must detect.
StoreCountsTwice(seq, d) ==   \* an overwritten packet stays counted
    /\ slots' = [slots EXCEPT ![seq % Slots] = [sequence |-> seq, data |-> d]]
    /\ queued' = queued + 1
    /\ started' = (started \/ queued + 1 >= StartAt)

AnyHeld(seq) == slots[seq % Slots] # Free   \* the number is not compared

PlayDueFreesNext ==   \* the slot is released after the cursor has moved
    /\ started /\ slots[expected % Slots] # Free /\ slots[expected % Slots].sequence = expected
    /\ out' = Play(slots[expected % Slots].data)
    /\ slots' = [slots EXCEPT ![(expected + 1) % Slots] = Free]
    /\ queued' = queued - 1
    /\ expected' = (expected + 1) % SeqMod
    /\ missing_ticks' = 0
    /\ UNCHANGED <<started, have_expected>>

GapKeepsTicks ==   \* missing_ticks is not reset
    /\ started /\ ~(slots[expected % Slots] # Free /\ slots[expected % Slots].sequence = expected)
    /\ queued > 0 /\ missing_ticks + 1 >= GapTicks
    /\ out' = Gap
    /\ expected' = (expected + 1) % SeqMod
    /\ missing_ticks' = missing_ticks + 1
    /\ UNCHANGED <<slots, queued, started, have_expected>>

GapWithoutMedia ==   \* queued is not asked for
    /\ started /\ slots[expected % Slots] = Free
    /\ out' = Gap
    /\ expected' = (expected + 1) % SeqMod
    /\ missing_ticks' = 0
    /\ UNCHANGED <<slots, queued, started, have_expected>>

GiveNothingForgets ==   \* waiting is not counted
    /\ ~(started /\ slots[expected % Slots] # Free /\ slots[expected % Slots].sequence = expected)
    /\ out' = Wait /\ missing_ticks' = 0
    /\ UNCHANGED <<slots, expected, queued, started, have_expected>>

(***************************************************************************)
(* jitter_put.  The first packet fixes the cursor.  A packet already held  *)
(* is dropped; any other valid occupant of its slot is overwritten.        *)
(***************************************************************************)
Store(seq, d) ==
    LET i    == seq % Slots
        kept == IF slots[i] # Free /\ queued > 0 THEN queued - 1 ELSE queued
    IN  /\ slots' = [slots EXCEPT ![i] = [sequence |-> seq, data |-> d]]
        /\ queued' = kept + 1
        /\ started' = (started \/ kept + 1 >= StartAt)

AlreadyHeld(seq) ==
    /\ slots[seq % Slots] # Free
    /\ slots[seq % Slots].sequence = seq

Put(seq, d) ==
    /\ have_expected' = TRUE
    /\ expected' = IF have_expected THEN expected ELSE seq
    /\ \/ AlreadyHeld(seq) /\ UNCHANGED <<slots, queued, started>>
       \/ ~AlreadyHeld(seq) /\ Store(seq, d)
    /\ UNCHANGED <<missing_ticks, out>>

(***************************************************************************)
(* jitter_get: play the expected packet, count a tick of waiting while     *)
(* anything at all is held, or report a gap on the GapTicks-th such tick.  *)
(***************************************************************************)
Due == AlreadyHeld(expected)

PlayDue ==
    /\ started /\ Due
    /\ LET i == expected % Slots
       IN  /\ out' = Play(slots[i].data)
           /\ slots' = [slots EXCEPT ![i] = Free]
    /\ queued' = queued - 1
    /\ expected' = (expected + 1) % SeqMod
    /\ missing_ticks' = 0
    /\ UNCHANGED <<started, have_expected>>

ReportGap ==
    /\ started /\ ~Due
    /\ queued > 0 /\ missing_ticks + 1 >= GapTicks
    /\ out' = Gap
    /\ expected' = (expected + 1) % SeqMod
    /\ missing_ticks' = 0
    /\ UNCHANGED <<slots, queued, started, have_expected>>

GiveNothing ==
    /\ ~(started /\ (Due \/ (queued > 0 /\ missing_ticks + 1 >= GapTicks)))
    /\ out' = Wait
    /\ missing_ticks' = missing_ticks + (IF started /\ queued > 0 THEN 1 ELSE 0)
    /\ UNCHANGED <<slots, expected, queued, started, have_expected>>

Get == PlayDue \/ ReportGap \/ GiveNothing

\* jitter_reset, called when a call is answered.
Reset ==
    /\ slots' = [i \in SlotIds |-> Free]
    /\ expected' = 0
    /\ queued' = 0
    /\ missing_ticks' = 0
    /\ started' = FALSE
    /\ have_expected' = FALSE
    /\ out' = Wait

Next ==
    \/ \E seq \in SeqNum, d \in Data : Put(seq, d)
    \/ Get
    \/ Reset

Spec == Init /\ [][Next]_jvars

-----------------------------------------------------------------------------
(***************************************************************************)
(* `queued` is exactly the number of slots in use, whatever is put: it     *)
(* gates both the gap report and the start of playout, is decremented in   *)
(* two places as an unsigned and would wrap if it ever fell behind.        *)
(***************************************************************************)
QueuedIsHeld == queued = Cardinality(Held)
=============================================================================
