---------------------------- MODULE MediaStream ----------------------------
(***************************************************************************)
(* One call's media: an RTP sender numbers its 20 ms packets in sequence,  *)
(* the network loses, duplicates and reorders them within bounds, and the  *)
(* channel thread feeds the jitter buffer (main.c: recv, rtp_parse,        *)
(* jitter_put, and one jitter_get per pass of the media loop).             *)
(*                                                                         *)
(* A packet carries its position in the stream, which the 16-bit sequence  *)
(* number only tells modulo SeqMod.  `pos` is the position the cursor      *)
(* stands for.  Both clocks are 20 ms: `lead` is how far the sender's      *)
(* clock is ahead of the playout clock.  The sender never gets more than   *)
(* MaxLead ahead; if it pauses, the playout clock runs on and what it      *)
(* gains beyond MaxLag is not made up.                                     *)
(***************************************************************************)
EXTENDS Jitter

CONSTANTS
    Base,     \* sequence number of the stream's first packet
    MaxSent,  \* bound on packets sent in a call
    MaxLate,  \* a path that reorders loses a packet overtaken by more than this
    MaxFlight, \* a packet still in flight that many sends later is lost
    MaxDup,   \* bound on duplicated packets in a call
    MaxLead,  \* bound on the sender's clock ahead of the playout clock
    MaxLag,   \* how far behind the sender's clock may catch up from
    MaxOver   \* ticks beyond the end of the stream are not followed further

VARIABLES
    sent,     \* packets sent so far
    net,      \* positions in flight
    newest,   \* highest position that has arrived, -1 before any
    dups,     \* packets duplicated so far
    lead,     \* packets sent minus playout ticks
    pos,      \* position of `expected` in the stream
    late      \* how far this call's path reorders: not at all, or MaxLate

evars == <<sent, net, newest, dups, lead, pos, late>>
vars  == <<jvars, evars>>

(***************************************************************************)
(* A call is shorter than the sequence space (65536 packets, 21 minutes),  *)
(* so that a number stands for one position; the bounds are otherwise free *)
(***************************************************************************)
ASSUME MediaStreamAssumption ==
    /\ Base \in SeqNum
    /\ MaxSent \in Nat /\ MaxLate \in Nat /\ MaxDup \in Nat
    /\ MaxFlight \in Nat /\ MaxLead \in Nat /\ MaxLag \in Nat /\ MaxOver \in Nat
    /\ MaxSent + MaxOver < SeqMod
    /\ Data = 0 .. MaxSent - 1

Seq16(n) == (Base + n) % SeqMod

StreamTypeOK ==
    /\ sent \in 0 .. MaxSent
    /\ net \subseteq 0 .. sent - 1
    /\ newest \in -1 .. sent - 1
    /\ dups \in 0 .. MaxDup
    /\ lead \in -MaxLag .. MaxLead
    /\ pos \in 0 .. MaxSent + MaxOver
    /\ late \in {0, MaxLate}

\* The types of the buffer and of its surroundings together.
MediaTypeOK == TypeOK /\ StreamTypeOK

StreamInit ==
    /\ Init
    /\ sent = 0 /\ net = {} /\ newest = -1 /\ dups = 0 /\ lead = 0 /\ pos = 0
    /\ late \in {0, MaxLate}

\* The sender's 20 ms clock.
SendPacket ==
    /\ sent < MaxSent
    /\ lead < MaxLead
    /\ net' = {m \in net : m + MaxFlight >= sent} \cup {sent}
    /\ sent' = sent + 1
    /\ lead' = lead + 1
    /\ UNCHANGED <<newest, dups, pos, late, jvars>>

\* A packet reaches the channel; those it overtook by too much never will.
Arrive(n, again) ==
    /\ n \in net
    /\ again => dups < MaxDup
    /\ dups' = IF again THEN dups + 1 ELSE dups
    /\ newest' = IF n > newest THEN n ELSE newest
    /\ net' = {m \in (IF again THEN net ELSE net \ {n}) : m + late >= newest'}
    /\ Put(Seq16(n), n)
    /\ pos' = IF have_expected THEN pos ELSE n
    /\ UNCHANGED <<sent, lead, late>>

\* The playout clock: one pass of the media loop.
Tick ==
    /\ pos < MaxSent + MaxOver
    /\ Get
    /\ pos' = IF PlayDue \/ ReportGap THEN pos + 1 ELSE pos
    /\ lead' = IF lead > -MaxLag THEN lead - 1 ELSE lead
    /\ UNCHANGED <<sent, net, newest, dups, late>>

\* The next call: the buffer is reset and the peer's stream starts again.
NewCall ==
    /\ Reset
    /\ sent' = 0 /\ net' = {} /\ newest' = -1 /\ dups' = 0 /\ lead' = 0 /\ pos' = 0
    /\ late' \in {0, MaxLate}

StreamNext ==
    \/ SendPacket
    \/ \E n \in net, again \in BOOLEAN : Arrive(n, again)
    \/ Tick
    \/ NewCall

StreamSpec == StreamInit /\ [][StreamNext]_vars

(***************************************************************************)
(* The media loop runs as long as the call is up (its deadline next_tx is  *)
(* always reached), so ticks are weakly fair.  Nothing is assumed of the   *)
(* sender or of the network.                                               *)
(***************************************************************************)
FairSpec == StreamSpec /\ WF_vars(Tick)

-----------------------------------------------------------------------------
HeldPacket(n) == \E i \in Held : slots[i].data = n

(***************************************************************************)
(* The modem hears the stream in order: whatever the network does, each    *)
(* position is played once from its own packet or reported once as a gap,  *)
(* across the wrap of the sequence number.                                 *)
(***************************************************************************)
P == INSTANCE Playout WITH joined <- have_expected, next <- pos, heard <- out
PlaysInOrder == P!Spec

(***************************************************************************)
(* A packet waiting for its turn leaves the ring only by being played, as  *)
(* long as the sender is less than a ring ahead of the cursor: neither a   *)
(* late packet nor a duplicate can overwrite media that is still to come.  *)
(***************************************************************************)
WaitingMediaIsKept ==
    [][\A n \in pos .. sent - 1 :
          HeldPacket(n) /\ sent - pos <= Slots /\ have_expected'
             => HeldPacket(n)' \/ (pos' = n + 1 /\ out' = Play(n))]_vars

(***************************************************************************)
(* On a path that loses packets but keeps their order every gap that       *)
(* jitter_get reports is a packet that has really been lost: main.c drops  *)
(* the V.34 carrier and retrains V.32 on the strength of that report.      *)
(***************************************************************************)
GapIsLoss ==
    [][pos' = pos + 1 /\ out' = Gap /\ late = 0 /\ dups = 0
         => pos < newest /\ pos \notin net /\ ~HeldPacket(pos)]_vars

(***************************************************************************)
(* No packet waits for ever: playout keeps coming to a point where it has  *)
(* passed everything it holds, unless the call ends first.                 *)
(***************************************************************************)
HeldMediaIsReached ==
    []<>(started => \A i \in Held : slots[i].data < pos)

(***************************************************************************)
(* jitter.c says of the gap report that future media proves the gap.       *)
(***************************************************************************)
FutureMediaProvesGap ==
    [][pos' = pos + 1 /\ out' = Gap => \E n \in 0 .. MaxSent - 1 : n > pos /\ HeldPacket(n)]_vars
=============================================================================
