--------------------------- MODULE ChannelsProofs ---------------------------
(***************************************************************************)
(* The channel pool for every number of channels and calls.                *)
(*                                                                         *)
(* No hypothesis is made about callers, terminals or timers: INVITEs are   *)
(* repeated and calls given up at any moment.  The inductive invariant of  *)
(* the routes follows the INVITE of a call that sent only one from the     *)
(* network to the dispatcher and the channel's socket, and until it is     *)
(* taken no channel's dialog names the call, so that no release can take   *)
(* the route it was given.                                                 *)
(***************************************************************************)
EXTENDS Channels, SequenceTheorems, WellFoundedInduction, TLAPS

-----------------------------------------------------------------------------
(* Least and greatest members *)

LEMMA NatHasMin ==
    ASSUME NEW S \in SUBSET Nat, S # {}
    PROVE  Min(S) \in S /\ \A x \in S : Min(S) <= x
<1> DEFINE less == {ss \in Nat \X Nat : ss[1] < ss[2]}
<1>1. IsWellFoundedOn(less, Nat)
  BY NatLessThanWellFounded DEF OpToRel
<1>2. \E x \in S : \A y \in S : ~(<<y, x>> \in less)
  <2> HIDE DEF less
  <2> QED
    BY <1>1, WFMin
<1>3. PICK x \in S : \A y \in S : ~(<<y, x>> \in less)
  BY <1>2
<1>4. ASSUME NEW y \in S PROVE x =< y
  <2>1. x \in Nat /\ y \in Nat
    OBVIOUS
  <2>2. ~(y < x)
    BY <1>3, <2>1
  <2> QED
    BY <2>1, <2>2
<1> QED
  BY <1>4 DEF Min

LEMMA RingsBound == MaxRings \in 0 .. 254
<1> DEFINE S     == S0Values \cup {1}
           under == {255 - x : x \in S}
           less  == {ss \in Nat \X Nat : ss[1] < ss[2]}
<1>1. S \subseteq 0 .. 255 /\ 1 \in S
  BY ChannelsAssumption DEF ChannelsAssumption
<1>2. IsWellFoundedOn(less, Nat)
  BY NatLessThanWellFounded DEF OpToRel
<1>3. under \subseteq Nat /\ under # {}
  BY <1>1
<1>4. \E x \in under : \A y \in under : ~(<<y, x>> \in less)
  <2> HIDE DEF less, under, S
  <2> QED
    BY <1>2, <1>3, WFMin
<1>5. PICK x \in S : \A y \in under : ~(<<y, 255 - x>> \in less)
  BY <1>4
<1>6. \A y \in S : x >= y
  <2> SUFFICES ASSUME NEW y \in S PROVE x >= y
    OBVIOUS
  <2>1. 255 - y \in under /\ 255 - y \in Nat /\ 255 - x \in Nat
    BY <1>1
  <2>2. ~(255 - y < 255 - x)
    BY <2>1, <1>5
  <2>3. x \in 0 .. 255 /\ y \in 0 .. 255
    BY <1>1
  <2> QED
    BY <2>2, <2>3
<1>7. MaxRings = Max(S) - 1
  BY DEF MaxRings
<1>8. Max(S) \in S /\ \A y \in S : Max(S) >= y
  <2> HIDE DEF S
  <2> QED
    BY <1>6 DEF Max
<1> QED
  BY <1>1, <1>7, <1>8

LEMMA MinOfTwo ==
    ASSUME NEW a \in Nat, NEW b \in Nat
    PROVE  Min({a, b}) \in {a, b} /\ Min({a, b}) <= a /\ Min({a, b}) <= b
BY NatHasMin

LEMMA LowestIs ==
    ASSUME NEW S \in SUBSET Channel
    PROVE  \/ S = {} /\ Lowest(S) = NoChannel
           \/ S # {} /\ Lowest(S) \in S /\ Lowest(S) # NoChannel
<1>1. S \in SUBSET Nat
  BY ChannelsAssumption DEF ChannelsAssumption, Channel
<1>2. CASE S = {}
  BY <1>2 DEF Lowest
<1>3. CASE S # {}
  BY <1>1, <1>3, NatHasMin DEF Lowest, NoChannel
<1> QED
  BY <1>2, <1>3

-----------------------------------------------------------------------------
(* What the handlers make of a channel's record *)

LEMMA RecordTypes ==
    ASSUME NEW r \in ChannelRecord
    PROVE  /\ NoCarrier(r) \in ChannelRecord /\ Ended(r) \in ChannelRecord
           /\ Undialled(r) \in ChannelRecord /\ HangUp(r) \in ChannelRecord
           /\ Dropped(r) \in ChannelRecord /\ CarrierDrop(r) \in ChannelRecord
           /\ \A q \in Trained(r) : q \in ChannelRecord
<1>1. 0 \in 0 .. MaxRings
  BY RingsBound
<1>2. \A q \in ChannelRecord : NoCarrier(q) \in ChannelRecord
  BY <1>1 DEF NoCarrier, ChannelRecord
<1>3. \A q \in ChannelRecord : Ended(q) \in ChannelRecord /\ Undialled(q) \in ChannelRecord
  BY DEF Ended, Undialled, ChannelRecord
<1>4. HangUp(r) \in ChannelRecord
  BY <1>3 DEF HangUp, ChannelRecord
<1>5. Dropped(r) \in ChannelRecord
  BY <1>2 DEF Dropped, ChannelRecord
<1>6. ASSUME NEW q \in Trained(r) PROVE q \in ChannelRecord
  <2>1. [r EXCEPT !.online = TRUE, !.rings = 0, !.connect_reported = TRUE,
                  !.pty_carrier = TRUE] \in ChannelRecord
    BY <1>1 DEF ChannelRecord
  <2> QED
    BY <2>1 DEF Trained
<1> QED
  BY <1>2, <1>3, <1>4, <1>5, <1>6 DEF CarrierDrop

LEMMA RingType ==
    ASSUME NEW r \in ChannelRecord
    PROVE  Ring(r) \in ChannelRecord
<1>1. r.rings + 1 \in Nat /\ MaxRings \in Nat
  BY RingsBound DEF ChannelRecord
<1>2. Min({r.rings + 1, MaxRings}) \in 0 .. MaxRings
  BY <1>1, MinOfTwo
<1>3. ASSUME NEW n \in 0 .. MaxRings, NEW a \in BOOLEAN, NEW b \in BOOLEAN
      PROVE  [r EXCEPT !.rings = n, !.answer_requested = a, !.asked = b] \in ChannelRecord
  BY DEF ChannelRecord
<1> DEFINE due == r.s0 > 0 /\ r.rings + 1 >= r.s0
<1>4. (r.answer_requested \/ due) \in BOOLEAN /\ (r.asked \/ due) \in BOOLEAN
  OBVIOUS
<1>5. Ring(r) = [r EXCEPT !.rings = Min({r.rings + 1, MaxRings}),
                          !.answer_requested = r.answer_requested \/ due,
                          !.asked = r.asked \/ due]
  BY DEF Ring
<1> HIDE DEF due
<1> QED
  BY <1>2, <1>3, <1>4, <1>5, Zenon

LEMMA AfterTypes ==
    ASSUME TypeOK, NEW i \in Channel
    PROVE  /\ \A r \in AfterCommand(i) : r \in ChannelRecord
           /\ \A r \in AfterMedia(i) : r \in ChannelRecord
<1>1. ch[i] \in ChannelRecord /\ 0 \in 0 .. MaxRings
  BY RingsBound DEF TypeOK
<1>2. ASSUME NEW n \in S0Values PROVE [ch[i] EXCEPT !.s0 = n] \in ChannelRecord
  BY <1>1 DEF ChannelRecord
<1>3. /\ [ch[i] EXCEPT !.rings = 0] \in ChannelRecord
      /\ [ch[i] EXCEPT !.answer_requested = TRUE, !.asked = TRUE] \in ChannelRecord
      /\ [ch[i] EXCEPT !.dial_requested = TRUE] \in ChannelRecord
  BY <1>1 DEF ChannelRecord
<1>4. \A q \in ChannelRecord : /\ HangUp(q) \in ChannelRecord
                               /\ Ended(q) \in ChannelRecord
                               /\ NoCarrier(q) \in ChannelRecord
  BY RecordTypes
<1> QED
  BY <1>1, <1>2, <1>3, <1>4 DEF AfterCommand, AfterMedia

-----------------------------------------------------------------------------
(* Types *)

LEMMA SetType ==
    ASSUME TypeOK, NEW i \in Channel, NEW r \in ChannelRecord, Set(i, r)
    PROVE  ch' \in [Channel -> ChannelRecord]
BY DEF TypeOK, Set

LEMMA ReleasedType ==
    ASSUME TypeOK, NEW i \in Channel, NEW d
    PROVE  Released(i, d) \in [Channel -> Id \cup {NoId}]
BY DEF TypeOK, Released

LEMMA AnswersType ==
    ASSUME TypeOK, NEW d \in Id \cup {NoId}, NEW code \in {"180", "200", "4xx"}, Answers(d, code)
    PROVE  reply' \in [Callers -> {"none", "180", "200", "4xx"}]
BY DEF TypeOK, Answers

LEMMA EmitType ==
    ASSUME TypeOK, NEW d \in Id, NEW kind \in Requests \cup Responses, Emit(d, kind)
    PROVE  net' \in [Id -> Seq(Message)]
<1>1. [kind |-> kind, id |-> d] \in Message
  BY DEF Message
<1> QED
  BY <1>1 DEF TypeOK, Emit

LEMMA TakingType ==
    ASSUME TypeOK, NEW i \in Channel, NEW kind, Taking(i, kind)
    PROVE  /\ ipc' \in [Channel -> Seq(Message)]
           /\ \A j \in Channel : Len(ipc'[j]) <= IpcCap
           /\ Head(ipc[i]) \in Message /\ Head(ipc[i]).id \in Id
           /\ ipc[i] # <<>> /\ pc[i] = "poll"
<1>1. ipc[i] \in Seq(Message) /\ ipc[i] # <<>> /\ Len(ipc[i]) <= IpcCap /\ IpcCap \in Nat
  BY ChannelsAssumption DEF ChannelsAssumption, TypeOK, Taking
<1>2. Tail(ipc[i]) \in Seq(Message) /\ Len(Tail(ipc[i])) <= IpcCap /\ Head(ipc[i]) \in Message
  BY <1>1
<1> QED
  BY <1>1, <1>2 DEF TypeOK, Taking, Message

LEMMA SipType ==
    ASSUME TypeOK, NEW i \in Channel, Sip(i)
    PROVE  TypeOK'
<1>1. ch[i] \in ChannelRecord /\ ch[i].dialog \in Id \cup {NoId}
  BY DEF TypeOK, ChannelRecord
<1>2. CASE ResponseIgnored(i)
  <2>1. /\ ipc' \in [Channel -> Seq(Message)]
        /\ \A j \in Channel : Len(ipc'[j]) <= IpcCap
    BY <1>2, TakingType DEF ResponseIgnored
  <2> QED
    BY <1>2, <2>1 DEF ResponseIgnored, TypeOK, Outside, Continue
<1>3. CASE ResponseRefuses(i)
  <2>1. /\ ipc' \in [Channel -> Seq(Message)]
        /\ \A j \in Channel : Len(ipc'[j]) <= IpcCap
    BY <1>3, TakingType DEF ResponseRefuses
  <2>2. ch' \in [Channel -> ChannelRecord]
    BY <1>1, <1>3, RecordTypes, SetType DEF ResponseRefuses
  <2>3. routes' \in [Channel -> Id \cup {NoId}]
    BY <1>3, ReleasedType DEF ResponseRefuses
  <2> QED
    BY <1>3, <2>1, <2>2, <2>3 DEF ResponseRefuses, TypeOK, Outside, Continue
<1>4. CASE ResponseAccepts(i)
  <2>1. /\ ipc' \in [Channel -> Seq(Message)]
        /\ \A j \in Channel : Len(ipc'[j]) <= IpcCap
    BY <1>4, TakingType DEF ResponseAccepts
  <2>2. ch' \in [Channel -> ChannelRecord]
    <3>1. [ch[i] EXCEPT !.dialing = FALSE, !.call = TRUE, !.acked = TRUE,
                        !.connect_reported = FALSE] \in ChannelRecord
      BY <1>1 DEF ChannelRecord
    <3> QED
      BY <1>4, <3>1, SetType DEF ResponseAccepts
  <2> QED
    BY <1>4, <2>1, <2>2 DEF ResponseAccepts, TypeOK, Outside, Continue
<1>5. CASE InviteAgain(i)
  <2>1. /\ ipc' \in [Channel -> Seq(Message)]
        /\ \A j \in Channel : Len(ipc'[j]) <= IpcCap
    BY <1>5, TakingType DEF InviteAgain
  <2>2. reply' \in [Callers -> {"none", "180", "200", "4xx"}]
    BY <1>1, <1>5, AnswersType DEF InviteAgain
  <2> QED
    BY <1>5, <2>1, <2>2 DEF InviteAgain, TypeOK, Outside, Continue
<1>6. CASE InviteRefused(i)
  <2>1. /\ ipc' \in [Channel -> Seq(Message)]
        /\ \A j \in Channel : Len(ipc'[j]) <= IpcCap
        /\ Head(ipc[i]).id \in Id
    BY <1>6, TakingType DEF InviteRefused
  <2>2. reply' \in [Callers -> {"none", "180", "200", "4xx"}]
    <3>1. CASE Answers(Head(ipc[i]).id, "4xx")
      BY <2>1, <3>1, AnswersType
    <3>2. CASE UNCHANGED reply
      BY <3>2 DEF TypeOK
    <3> QED
      BY <1>6, <3>1, <3>2 DEF InviteRefused
  <2> QED
    BY <1>6, <2>1, <2>2 DEF InviteRefused, TypeOK, Outside, Continue
<1>7. CASE InviteRings(i)
  <2> DEFINE d == Head(ipc[i]).id
             q == [ch[i] EXCEPT !.pending = TRUE, !.dialog = d, !.asked = FALSE]
  <2>1. /\ ipc' \in [Channel -> Seq(Message)]
        /\ \A j \in Channel : Len(ipc'[j]) <= IpcCap
        /\ d \in Id /\ pc[i] = "poll"
    BY <1>7, TakingType DEF InviteRings
  <2>2. reply' \in [Callers -> {"none", "180", "200", "4xx"}]
    BY <2>1, <1>7, AnswersType DEF InviteRings
  <2>3. ch' \in [Channel -> ChannelRecord]
    <3>1. q \in ChannelRecord
      BY <1>1, <2>1 DEF ChannelRecord
    <3> QED
      BY <1>7, <3>1, RingType, SetType DEF InviteRings
  <2> QED
    BY <1>7, <2>1, <2>2, <2>3 DEF InviteRings, TypeOK, Outside, Proceed
<1>8. CASE Ack(i)
  <2>1. /\ ipc' \in [Channel -> Seq(Message)]
        /\ \A j \in Channel : Len(ipc'[j]) <= IpcCap
    BY <1>8, TakingType DEF Ack
  <2>2. ch' \in [Channel -> ChannelRecord]
    <3>1. [ch[i] EXCEPT !.acked = TRUE] \in ChannelRecord
      BY <1>1 DEF ChannelRecord
    <3> QED
      BY <1>1, <1>8, <3>1, SetType DEF Ack
  <2> QED
    BY <1>8, <2>1, <2>2 DEF Ack, TypeOK, Outside, Proceed
<1>9. CASE Bye(i)
  <2>1. /\ ipc' \in [Channel -> Seq(Message)]
        /\ \A j \in Channel : Len(ipc'[j]) <= IpcCap
    BY <1>9, TakingType DEF Bye
  <2>2. ch' \in [Channel -> ChannelRecord]
    BY <1>1, <1>9, RecordTypes, SetType DEF Bye
  <2> QED
    BY <1>9, <2>1, <2>2 DEF Bye, TypeOK, Outside, Proceed
<1> QED
  BY <1>2, <1>3, <1>4, <1>5, <1>6, <1>7, <1>8, <1>9 DEF Sip

LEMMA UserType ==
    ASSUME TypeOK, NEW i \in Channel, User(i)
    PROVE  TypeOK'
<1>1. PICK r \in AfterCommand(i) : Dial(i, r) \/ RingAndAnswer(i, r)
  BY DEF User
<1>2. r \in ChannelRecord /\ Ring(r) \in ChannelRecord
  BY AfterTypes, RingType
<1>3. CASE Dial(i, r)
  <2>1. PICK o \in UnusedCallees :
          LET q == [r EXCEPT !.dial_requested = FALSE, !.dialog = o] IN
          \/ /\ routes' = [routes EXCEPT ![i] = o]
             /\ Set(i, [q EXCEPT !.dialing = TRUE])
             /\ peer' = [peer EXCEPT ![o] = "inviting"]
          \/ /\ Set(i, q) /\ UNCHANGED routes
             /\ peer' = [peer EXCEPT ![o] = "done"]
    BY <1>3 DEF Dial
  <2> DEFINE q == [r EXCEPT !.dial_requested = FALSE, !.dialog = o]
  <2>2. o \in Id
    BY DEF UnusedCallees, Id
  <2>3. q \in ChannelRecord /\ [q EXCEPT !.dialing = TRUE] \in ChannelRecord
    BY <1>2, <2>2 DEF ChannelRecord
  <2>4. ch' \in [Channel -> ChannelRecord]
    BY <2>1, <2>3, SetType
  <2>5. /\ routes' \in [Channel -> Id \cup {NoId}]
        /\ peer' \in [Id -> {"idle", "inviting", "ringing", "talking", "done"}]
    <3>1. CASE routes' = [routes EXCEPT ![i] = o] /\ peer' = [peer EXCEPT ![o] = "inviting"]
      BY <2>2, <3>1 DEF TypeOK
    <3>2. CASE routes' = routes /\ peer' = [peer EXCEPT ![o] = "done"]
      BY <2>2, <3>2 DEF TypeOK
    <3> QED
      BY <2>1, <3>1, <3>2
  <2>6. UNCHANGED reply
    BY <1>3 DEF Dial
  <2> QED
    BY <2>4, <2>5, <2>6 DEF User, TypeOK
<1>4. CASE RingAndAnswer(i, r)
  <2>1. PICK q \in {r, Ring(r)} :
          \/ /\ Set(i, [q EXCEPT !.pending = FALSE, !.answer_requested = FALSE,
                                 !.call = TRUE, !.acked = FALSE, !.asked = FALSE,
                                 !.connect_reported = FALSE])
             /\ Answers(q.dialog, "200")
          \/ Set(i, q) /\ UNCHANGED reply
    BY <1>4 DEF RingAndAnswer
  <2>2. q \in ChannelRecord /\ q.dialog \in Id \cup {NoId}
    BY <1>2 DEF ChannelRecord
  <2>3. [q EXCEPT !.pending = FALSE, !.answer_requested = FALSE, !.call = TRUE,
                  !.acked = FALSE, !.asked = FALSE, !.connect_reported = FALSE]
          \in ChannelRecord
    BY <2>2 DEF ChannelRecord
  <2>4. ch' \in [Channel -> ChannelRecord]
    BY <2>1, <2>2, <2>3, SetType
  <2>5. reply' \in [Callers -> {"none", "180", "200", "4xx"}]
    <3>1. CASE UNCHANGED reply
      BY <3>1 DEF TypeOK
    <3> QED
      BY <2>1, <2>2, <3>1, AnswersType
  <2>6. UNCHANGED <<routes, peer>>
    BY <1>4 DEF RingAndAnswer
  <2> QED
    BY <2>4, <2>5, <2>6 DEF User, TypeOK
<1> QED
  BY <1>1, <1>3, <1>4

LEMMA MediaType ==
    ASSUME TypeOK, NEW i \in Channel, Media(i)
    PROVE  TypeOK'
<1>0. PICK r \in AfterMedia(i) : \E q \in Trained(r) : Finish(i, CarrierDrop(q))
  BY DEF Media, MediaOutcome
<1>1. PICK q \in Trained(r) : Finish(i, CarrierDrop(q))
  BY <1>0
<1>2. CarrierDrop(q) \in ChannelRecord
  BY AfterTypes, RecordTypes
<1>3. [CarrierDrop(q) EXCEPT !.dialog = NoId] \in ChannelRecord
  BY <1>2 DEF ChannelRecord
<1>4. ch' \in [Channel -> ChannelRecord]
  BY <1>1, <1>2, <1>3, SetType DEF Finish
<1>5. routes' \in [Channel -> Id \cup {NoId}]
  <2>1. CASE UNCHANGED routes
    BY <2>1 DEF TypeOK
  <2> QED
    BY <1>1, <2>1, ReleasedType DEF Finish
<1> QED
  BY <1>4, <1>5 DEF Media, MediaOutcome, TypeOK

LEMMA DispatchType ==
    ASSUME TypeOK, NEW d \in Id, Dispatch(d)
    PROVE  TypeOK'
<1>1. /\ net[d] \in Seq(Message) /\ net[d] # <<>>
      /\ Head(net[d]) \in Message /\ Tail(net[d]) \in Seq(Message)
  BY DEF TypeOK, Dispatch
<1>2. net' \in [Id -> Seq(Message)]
  BY <1>1 DEF TypeOK, Dispatch
<1>3. ASSUME NEW S \in SUBSET Channel, SendTo(Lowest(S), Head(net[d]))
      PROVE  disp' \in {<<>>} \cup {<<x>> : x \in [to : Channel, msg : Message]}
  BY <1>1, <1>3, LowestIs DEF SendTo
<1>4. CASE DispatchKnown(d)
  <2>1. disp' \in {<<>>} \cup {<<x>> : x \in [to : Channel, msg : Message]}
    BY <1>3, <1>4 DEF DispatchKnown, RouteFind
  <2> QED
    BY <1>2, <1>4, <2>1 DEF Dispatch, DispatchKnown, TypeOK
<1>5. CASE DispatchNew(d)
  <2>1. disp' \in {<<>>} \cup {<<x>> : x \in [to : Channel, msg : Message]}
    BY <1>3, <1>5 DEF Dispatch, DispatchNew, RouteAllocate, TypeOK
  <2>2. reply' \in [Callers -> {"none", "180", "200", "4xx"}]
    BY <1>5 DEF DispatchNew, TypeOK
  <2>3. routes' \in [Channel -> Id \cup {NoId}]
    BY <1>5 DEF DispatchNew, TypeOK
  <2> QED
    BY <1>2, <2>1, <2>2, <2>3 DEF Dispatch, TypeOK
<1> QED
  BY <1>4, <1>5 DEF Dispatch

LEMMA FarEndType ==
    ASSUME TypeOK,
           NEW d \in Id,
           \/ d \in Callers /\ (Invite(d) \/ HearResponse(d))
           \/ Respond(d) \/ PeerHangsUp(d) \/ Lose(d)
    PROVE  TypeOK'
<1> USE DEF Requests, Responses
<1>1. CASE d \in Callers /\ Invite(d)
  <2>1. net' \in [Id -> Seq(Message)]
    BY <1>1, EmitType DEF Invite
  <2>2. invites' \in [Callers -> 0 .. MaxInvites]
    BY <1>1, ChannelsAssumption DEF ChannelsAssumption, Invite, TypeOK
  <2>3. peer' \in [Id -> {"idle", "inviting", "ringing", "talking", "done"}]
    BY <1>1 DEF Invite, Becomes, TypeOK
  <2> QED
    BY <1>1, <2>1, <2>2, <2>3 DEF Invite, Inside, TypeOK
<1>2. CASE d \in Callers /\ HearResponse(d)
  <2>1. net' \in [Id -> Seq(Message)]
    BY <1>2, EmitType DEF HearResponse, TypeOK
  <2>2. /\ peer' \in [Id -> {"idle", "inviting", "ringing", "talking", "done"}]
        /\ reply' \in [Callers -> {"none", "180", "200", "4xx"}]
    BY <1>2 DEF HearResponse, Becomes, TypeOK
  <2> QED
    BY <1>2, <2>1, <2>2 DEF HearResponse, TypeOK
<1>3. CASE Respond(d)
  <2>1. net' \in [Id -> Seq(Message)]
    BY <1>3, EmitType DEF Respond
  <2>2. peer' \in [Id -> {"idle", "inviting", "ringing", "talking", "done"}]
    BY <1>3 DEF Respond, Becomes, TypeOK
  <2> QED
    BY <1>3, <2>1, <2>2 DEF Respond, Inside, TypeOK
<1>4. CASE PeerHangsUp(d)
  <2>1. net' \in [Id -> Seq(Message)]
    BY <1>4, EmitType DEF PeerHangsUp
  <2>2. peer' \in [Id -> {"idle", "inviting", "ringing", "talking", "done"}]
    BY <1>4 DEF PeerHangsUp, Becomes, TypeOK
  <2> QED
    BY <1>4, <2>1, <2>2 DEF PeerHangsUp, Inside, TypeOK
<1>5. CASE Lose(d)
  <2>1. net' \in [Id -> Seq(Message)]
    <3>1. net[d] \in Seq(Message) /\ net[d] # <<>>
      BY <1>5 DEF Lose, TypeOK
    <3>2. Tail(net[d]) \in Seq(Message)
      BY <3>1
    <3> QED
      BY <1>5, <3>2 DEF Lose, TypeOK
  <2> QED
    BY <1>5, <2>1 DEF Lose, Inside, TypeOK
<1> QED
  BY <1>1, <1>2, <1>3, <1>4, <1>5

LEMMA ForwardType ==
    ASSUME TypeOK, Forward
    PROVE  TypeOK'
<1>1. PICK x \in [to : Channel, msg : Message] : disp = <<x>>
  BY DEF TypeOK, Forward
<1>2. disp[1].to \in Channel /\ disp[1].msg \in Message
  BY <1>1
<1>3. /\ ipc[disp[1].to] \in Seq(Message)
      /\ Len(ipc[disp[1].to]) < IpcCap /\ IpcCap \in Nat
  BY <1>2, ChannelsAssumption DEF ChannelsAssumption, TypeOK, Forward
<1>4. /\ Append(ipc[disp[1].to], disp[1].msg) \in Seq(Message)
      /\ Len(Append(ipc[disp[1].to], disp[1].msg)) <= IpcCap
  BY <1>2, <1>3
<1> QED
  BY <1>2, <1>4 DEF TypeOK, Forward

LEMMA InitType == Init => TypeOK
<1> SUFFICES ASSUME Init PROVE TypeOK
  OBVIOUS
<1>1. NewChannel \in ChannelRecord
  BY RingsBound DEF NewChannel, ChannelRecord
<1> QED
  BY <1>1, ChannelsAssumption DEF ChannelsAssumption, Init, TypeOK, Id

LEMMA NextType == TypeOK /\ [Next]_vars => TypeOK'
<1> SUFFICES ASSUME TypeOK, [Next]_vars PROVE TypeOK'
  OBVIOUS
<1>1. CASE \E d \in Id : Dispatch(d) \/ PeerHangsUp(d) \/ Lose(d)
  BY <1>1, DispatchType, FarEndType
<1>2. CASE Forward
  BY <1>2, ForwardType
<1>3. CASE \E i \in Channel : Pass(i)
  BY <1>3, SipType, UserType, MediaType DEF Pass
<1>4. CASE \E c \in Callers : Invite(c) \/ HearResponse(c)
  BY <1>4, FarEndType DEF Id
<1>5. CASE \E o \in Callees : Respond(o)
  BY <1>5, FarEndType DEF Id
<1>6. CASE UNCHANGED vars
  BY <1>6 DEF vars, TypeOK
<1> QED
  BY <1>1, <1>2, <1>3, <1>4, <1>5, <1>6 DEF Next

(* The dispatcher's message is always for a channel of the pool, sockets   *)
(* never hold more than they can, and every field of a channel stays in    *)
(* its type, whatever the callers, the terminal and the network do.        *)
THEOREM ChannelTypes == Spec => []TypeOK
BY InitType, NextType, PTL DEF Spec

-----------------------------------------------------------------------------
(* Messages on their way *)

LEMMA RangeTail ==
    ASSUME NEW S, NEW s \in Seq(S), s # <<>>
    PROVE  /\ Head(s) \in Range(s) /\ Head(s) = s[1] /\ 1 \in DOMAIN s
           /\ Range(Tail(s)) \subseteq Range(s)
           /\ \A k \in DOMAIN Tail(s) : k + 1 \in DOMAIN s /\ k \in Nat /\ Tail(s)[k] = s[k + 1]
<1>1. /\ Len(s) \in Nat \ {0} /\ DOMAIN s = 1 .. Len(s) /\ Head(s) = s[1]
      /\ Tail(s) \in Seq(S) /\ Len(Tail(s)) = Len(s) - 1
      /\ DOMAIN Tail(s) = 1 .. Len(Tail(s))
      /\ \A k \in 1 .. Len(Tail(s)) : Tail(s)[k] = s[k + 1]
  BY HeadTailProperties, EmptySeq, LenProperties
<1>2. \A k \in DOMAIN Tail(s) : k + 1 \in DOMAIN s /\ k \in Nat /\ Tail(s)[k] = s[k + 1]
  BY <1>1
<1> QED
  BY <1>1, <1>2 DEF Range

LEMMA RangeAppend ==
    ASSUME NEW S, NEW s \in Seq(S), NEW e \in S
    PROVE  /\ Range(Append(s, e)) = Range(s) \cup {e}
           /\ \A k \in DOMAIN Append(s, e) :
                /\ k \in Nat
                /\ \/ k \in DOMAIN s /\ Append(s, e)[k] = s[k]
                   \/ Append(s, e)[k] = e /\ \A l \in DOMAIN s : l < k
<1>1. /\ Len(s) \in Nat /\ DOMAIN s = 1 .. Len(s)
      /\ Append(s, e) \in Seq(S) /\ Len(Append(s, e)) = Len(s) + 1
      /\ DOMAIN Append(s, e) = 1 .. Len(s) + 1
      /\ \A k \in 1 .. Len(s) : Append(s, e)[k] = s[k]
      /\ Append(s, e)[Len(s) + 1] = e
  BY AppendProperties, LenProperties
<1>2. \A k \in DOMAIN Append(s, e) :
        /\ k \in Nat
        /\ \/ k \in DOMAIN s /\ Append(s, e)[k] = s[k]
           \/ Append(s, e)[k] = e /\ \A l \in DOMAIN s : l < k
  BY <1>1
<1>3. Range(Append(s, e)) \subseteq Range(s) \cup {e}
  BY <1>2 DEF Range
<1>4. e \in Range(Append(s, e)) /\ Range(s) \subseteq Range(Append(s, e))
  BY <1>1 DEF Range
<1> QED
  BY <1>2, <1>3, <1>4

\* An INVITE is a caller's, a response comes from a number that was dialled,
\* and a call's messages are its own.
WellAddressed(m) ==
    /\ m.kind = "INVITE" => m.id \in Callers
    /\ m.kind \in Responses => m.id \in Callees

Addressed ==
    /\ \A d \in Id : \A m \in Range(net[d]) : m.id = d /\ WellAddressed(m)
    /\ \A i \in Channel : \A m \in Range(ipc[i]) : WellAddressed(m)
    /\ \A k \in DOMAIN disp : WellAddressed(disp[k].msg)

LEMMA EmitRange ==
    ASSUME TypeOK, NEW d \in Id, NEW kind \in Requests \cup Responses, Emit(d, kind)
    PROVE  /\ Range(net'[d]) = Range(net[d]) \cup {[kind |-> kind, id |-> d]}
           /\ \A e \in Id \ {d} : net'[e] = net[e]
<1>1. [kind |-> kind, id |-> d] \in Message /\ net[d] \in Seq(Message)
  BY DEF Message, TypeOK
<1> QED
  BY <1>1, RangeAppend DEF Emit, TypeOK

LEMMA TakingRange ==
    ASSUME TypeOK, NEW i \in Channel, NEW kind, Taking(i, kind)
    PROVE  /\ \A j \in Channel : Range(ipc'[j]) \subseteq Range(ipc[j])
           /\ Head(ipc[i]) \in Range(ipc[i]) /\ Head(ipc[i]).kind = kind
<1>1. ipc[i] \in Seq(Message) /\ ipc[i] # <<>>
  BY TakingType DEF TypeOK
<1> QED
  BY <1>1, RangeTail DEF Taking, TypeOK

LEMMA SipShrinks ==
    ASSUME TypeOK, NEW i \in Channel, Sip(i)
    PROVE  \E kind \in Requests \cup Responses : Taking(i, kind)
BY DEF Sip, ResponseIgnored, ResponseRefuses, ResponseAccepts, InviteAgain, InviteRefused,
       InviteRings, Ack, Bye, Requests, Responses

LEMMA PassKeepsPath ==
    ASSUME TypeOK, NEW i \in Channel, Pass(i)
    PROVE  /\ net' = net /\ disp' = disp
           /\ \A j \in Channel : Range(ipc'[j]) \subseteq Range(ipc[j])
<1>1. CASE Sip(i)
  <2>1. \A j \in Channel : Range(ipc'[j]) \subseteq Range(ipc[j])
    BY <1>1, SipShrinks, TakingRange
  <2> QED
    BY <1>1, <2>1 DEF Sip, ResponseIgnored, ResponseRefuses, ResponseAccepts, InviteAgain,
                      InviteRefused, InviteRings, Ack, Bye, Outside
<1>2. CASE User(i)
  BY <1>2 DEF User
<1>3. CASE Media(i)
  BY <1>3 DEF Media, MediaOutcome
<1> QED
  BY <1>1, <1>2, <1>3 DEF Pass

LEMMA DispatchMoves ==
    ASSUME TypeOK, NEW d \in Id, Dispatch(d)
    PROVE  /\ Head(net[d]) \in Range(net[d])
           /\ Range(net'[d]) \subseteq Range(net[d])
           /\ \A e \in Id \ {d} : net'[e] = net[e]
           /\ disp = <<>> /\ ipc' = ipc
           /\ disp' = <<>> \/ \E i \in Channel : disp' = <<[to |-> i, msg |-> Head(net[d])]>>
<1>1. net[d] \in Seq(Message) /\ net[d] # <<>>
  BY DEF TypeOK, Dispatch
<1>2. ASSUME NEW S \in SUBSET Channel, SendTo(Lowest(S), Head(net[d]))
      PROVE  disp' = <<>> \/ \E i \in Channel : disp' = <<[to |-> i, msg |-> Head(net[d])]>>
  BY <1>2, LowestIs DEF SendTo
<1>3. disp' = <<>> \/ \E i \in Channel : disp' = <<[to |-> i, msg |-> Head(net[d])]>>
  BY <1>2 DEF Dispatch, DispatchKnown, DispatchNew, RouteFind, RouteAllocate
<1> QED
  BY <1>1, <1>3, RangeTail DEF TypeOK, Dispatch

LEMMA ForwardMoves ==
    ASSUME TypeOK, Forward
    PROVE  /\ net' = net /\ disp' = <<>>
           /\ 1 \in DOMAIN disp /\ disp[1].to \in Channel /\ disp[1].msg \in Message
           /\ ipc[disp[1].to] \in Seq(Message)
           /\ ipc'[disp[1].to] = Append(ipc[disp[1].to], disp[1].msg)
           /\ Range(ipc'[disp[1].to]) = Range(ipc[disp[1].to]) \cup {disp[1].msg}
           /\ \A j \in Channel \ {disp[1].to} : ipc'[j] = ipc[j]
<1>1. PICK x \in [to : Channel, msg : Message] : disp = <<x>>
  BY DEF TypeOK, Forward
<1>2. disp[1].to \in Channel /\ disp[1].msg \in Message /\ 1 \in DOMAIN disp
  BY <1>1
<1>3. ipc[disp[1].to] \in Seq(Message)
  BY <1>2 DEF TypeOK
<1> QED
  BY <1>2, <1>3, RangeAppend DEF Forward, TypeOK

LEMMA NextAddressed == TypeOK /\ Addressed /\ [Next]_vars => Addressed'
<1> SUFFICES ASSUME TypeOK, Addressed, [Next]_vars PROVE Addressed'
  OBVIOUS
<1>1. ASSUME /\ \A e \in Id : Range(net'[e]) \subseteq Range(net[e])
             /\ disp' \in {disp, <<>>}
             /\ \A j \in Channel : Range(ipc'[j]) \subseteq Range(ipc[j])
      PROVE  Addressed'
  <2>1. \A k \in DOMAIN disp' : k \in DOMAIN disp /\ disp'[k] = disp[k]
    BY <1>1
  <2> QED
    BY <1>1, <2>1 DEF Addressed, WellAddressed
<1> USE DEF Requests, Responses
<1>2. ASSUME NEW d \in Id, Dispatch(d) PROVE Addressed'
  <2>1. \A e \in Id : Range(net'[e]) \subseteq Range(net[e])
    BY <1>2, DispatchMoves
  <2>2. WellAddressed(Head(net[d])) /\ ipc' = ipc
    BY <1>2, DispatchMoves DEF Addressed
  <2>3. CASE disp' = <<>>
    BY <1>1, <2>1, <2>2, <2>3
  <2>4. CASE \E i \in Channel : disp' = <<[to |-> i, msg |-> Head(net[d])]>>
    <3>1. \A k \in DOMAIN disp' : disp'[k].msg = Head(net[d])
      BY <2>4
    <3> QED
      BY <2>1, <2>2, <3>1 DEF Addressed, WellAddressed
  <2> QED
    BY <1>2, <2>3, <2>4, DispatchMoves
<1>3. CASE Forward
  <2>1. WellAddressed(disp[1].msg)
    BY <1>3, ForwardMoves DEF Addressed
  <2>2. \A j \in Channel : \A m \in Range(ipc'[j]) : m \in Range(ipc[j]) \/ m = disp[1].msg
    BY <1>3, ForwardMoves
  <2> QED
    BY <1>3, <2>1, <2>2, ForwardMoves DEF Addressed, WellAddressed
<1>4. ASSUME NEW i \in Channel, Pass(i) PROVE Addressed'
  BY <1>1, <1>4, PassKeepsPath
<1>5. ASSUME NEW d \in Id, NEW kind \in Requests \cup Responses, Emit(d, kind),
             kind = "INVITE" => d \in Callers,
             kind \in Responses => d \in Callees,
             UNCHANGED <<disp, ipc>>
      PROVE  Addressed'
  <2>1. /\ Range(net'[d]) = Range(net[d]) \cup {[kind |-> kind, id |-> d]}
        /\ \A e \in Id \ {d} : net'[e] = net[e]
    BY <1>5, EmitRange
  <2>2. WellAddressed([kind |-> kind, id |-> d])
    BY <1>5 DEF WellAddressed
  <2> QED
    BY <1>5, <2>1, <2>2 DEF Addressed, WellAddressed
<1>6. ASSUME NEW c \in Callers, Invite(c) \/ HearResponse(c) PROVE Addressed'
  BY <1>1, <1>5, <1>6 DEF Invite, HearResponse, Inside, Id
<1>7. ASSUME NEW o \in Callees, Respond(o) PROVE Addressed'
  BY <1>5, <1>7 DEF Respond, Inside, Id
<1>8. ASSUME NEW d \in Id, PeerHangsUp(d) PROVE Addressed'
  BY <1>5, <1>8 DEF PeerHangsUp, Inside
<1>9. ASSUME NEW d \in Id, Lose(d) PROVE Addressed'
  <2>1. net[d] \in Seq(Message) /\ net[d] # <<>>
    BY <1>9 DEF Lose, TypeOK
  <2> QED
    BY <1>1, <1>9, <2>1, RangeTail DEF Lose, Inside, TypeOK
<1>10. CASE UNCHANGED vars
  BY <1>1, <1>10 DEF vars
<1> QED
  BY <1>2, <1>3, <1>4, <1>6, <1>7, <1>8, <1>9, <1>10 DEF Next

-----------------------------------------------------------------------------
(* The terminal and the call *)

\* What holds of a channel at each part of its pass.  A BYE ends the call a
\* part earlier than the carrier drops, so only between passes does the
\* terminal's carrier imply the call; nothing may ring or be answered
\* in between, or the new call would inherit the old one's carrier.
Sound(r, part) ==
    /\ r.pending => r.dialog \in Callers
    /\ r.call => ~r.pending
    /\ r.dialing /\ r.dialog \in Callees => ~r.call /\ ~r.pending
    /\ r.online = r.pty_carrier
    /\ r.pty_carrier => r.connect_reported /\ ~r.pending
    /\ r.pty_carrier /\ r.call => r.acked
    /\ r.pty_carrier /\ part = "poll" => r.call

TerminalInv == \A i \in Channel : Sound(ch[i], pc[i])

LEMMA TerminalStep ==
    ASSUME TypeOK, TerminalInv, NEW i \in Channel, NEW r, NEW part,
           Set(i, r), pc' = [pc EXCEPT ![i] = part], Sound(r, part)
    PROVE  TerminalInv'
BY DEF TerminalInv, TypeOK, Set

LEMMA SipTerminal ==
    ASSUME TypeOK, Addressed, TerminalInv, NEW i \in Channel, Sip(i)
    PROVE  TerminalInv'
<1> DEFINE r == ch[i]
           m == Head(ipc[i])
<1> USE DEF Requests, Responses
<1>1. r \in ChannelRecord /\ Sound(r, pc[i]) /\ pc[i] \in {"poll", "user", "media"}
  BY DEF TypeOK, TerminalInv
<1>2. PICK kind \in Requests \cup Responses : Taking(i, kind)
  BY SipShrinks
<1>3. m \in Message /\ WellAddressed(m) /\ m.kind = kind /\ pc[i] = "poll"
  BY <1>2, TakingType, TakingRange DEF Addressed
<1>4. CASE UNCHANGED <<ch, pc>>
  BY <1>4 DEF TerminalInv
<1>5. [pc EXCEPT ![i] = "poll"] = pc
  BY <1>3 DEF TypeOK
<1>6. CASE ResponseRefuses(i)
  <2>1. r.dialing /\ r.dialog \in Callees
    BY <1>3, <1>6 DEF ResponseRefuses, ForUs, WellAddressed, Taking
  <2>2. ~r.call /\ ~r.pending /\ ~r.pty_carrier /\ r.online = FALSE
    BY <1>1, <1>3, <2>1 DEF Sound, ChannelRecord
  <2>3. Sound(Undialled(r), "poll") /\ Sound(NoCarrier(Undialled(r)), "poll")
    BY <1>1, <2>2 DEF Sound, Undialled, NoCarrier, ChannelRecord
  <2> QED
    BY <1>5, <1>6, <2>3, TerminalStep DEF ResponseRefuses, Continue
<1>7. CASE ResponseAccepts(i)
  <2>1. r.dialing /\ r.dialog \in Callees
    BY <1>3, <1>7 DEF ResponseAccepts, ForUs, WellAddressed, Taking
  <2>2. ~r.call /\ ~r.pending /\ ~r.pty_carrier /\ r.online = FALSE
    BY <1>1, <1>3, <2>1 DEF Sound, ChannelRecord
  <2> DEFINE q == [r EXCEPT !.dialing = FALSE, !.call = TRUE, !.acked = TRUE,
                            !.connect_reported = FALSE]
  <2>3. Sound(q, "poll")
    BY <1>1, <2>2 DEF Sound, ChannelRecord
  <2> QED
    BY <1>5, <1>7, <2>3, TerminalStep DEF ResponseAccepts, Continue
<1>8. CASE InviteRings(i)
  <2> DEFINE q == [r EXCEPT !.pending = TRUE, !.dialog = m.id, !.asked = FALSE]
  <2>1. ~r.call /\ ~r.pty_carrier /\ r.online = FALSE /\ m.id \in Callers
    BY <1>1, <1>3, <1>8 DEF InviteRings, Sound, WellAddressed, Taking, ChannelRecord
  <2>2. m.id \notin Callees
    BY <2>1, ChannelsAssumption DEF ChannelsAssumption
  <2>3. Sound(Ring(q), "user")
    BY <1>1, <2>1, <2>2 DEF Sound, Ring, ChannelRecord
  <2> QED
    BY <1>8, <2>3, TerminalStep DEF InviteRings, Proceed
<1>9. CASE Ack(i)
  <2>1. Sound(r, "user") /\ Sound([r EXCEPT !.acked = TRUE], "user")
    BY <1>1, <1>3 DEF Sound, ChannelRecord
  <2> QED
    BY <1>9, <2>1, TerminalStep DEF Ack, Proceed
<1>10. CASE Bye(i)
  <2>1. Sound(r, "user")
    BY <1>1, <1>3 DEF Sound, ChannelRecord
  <2>2. CASE r.pty_carrier
    <3>1. Sound(Ended(r), "user")
      BY <1>1, <2>2 DEF Sound, Ended, ChannelRecord
    <3> QED
      BY <1>10, <2>1, <2>2, <3>1, TerminalStep DEF Bye, Proceed
  <2>3. CASE ~r.pty_carrier
    <3>1. Sound(NoCarrier(Ended(r)), "user")
      BY <1>1, <2>3 DEF Sound, Ended, NoCarrier, ChannelRecord
    <3> QED
      BY <1>10, <2>1, <2>3, <3>1, TerminalStep DEF Bye, Proceed
  <2> QED
    BY <2>2, <2>3
<1> QED
  BY <1>4, <1>6, <1>7, <1>8, <1>9, <1>10
     DEF Sip, ResponseIgnored, InviteAgain, InviteRefused, Continue

\* A command reaches the terminal's interpreter only off line or off call:
\* a terminal whose carrier and call are up sends user data.
LEMMA CommandTerminal ==
    ASSUME TypeOK, TerminalInv, NEW i \in Channel, NEW r \in AfterCommand(i)
    PROVE  Sound(r, "media") /\ Sound(Ring(r), "media")
<1>1. ch[i] \in ChannelRecord /\ Sound(ch[i], pc[i]) /\ pc[i] \in {"poll", "user", "media"}
  BY DEF TypeOK, TerminalInv
<1>2. Sound(ch[i], "media")
  BY <1>1 DEF Sound
<1>3. r # ch[i] => ~(ch[i].pty_carrier /\ ch[i].call)
  BY <1>1 DEF AfterCommand, HasData, Sound, ChannelRecord
<1>4. ASSUME ~(ch[i].pty_carrier /\ ch[i].call)
      PROVE  Sound(HangUp(ch[i]), "media")
  BY <1>1, <1>2, <1>4 DEF Sound, HangUp, Ended, ChannelRecord
<1>5. Sound(r, "media")
  <2>1. CASE r = HangUp(ch[i]) /\ r # ch[i]
    BY <1>3, <1>4, <2>1
  <2>2. CASE \/ \E n \in S0Values : r = [ch[i] EXCEPT !.s0 = n]
             \/ r = [ch[i] EXCEPT !.rings = 0]
             \/ r = [ch[i] EXCEPT !.answer_requested = TRUE, !.asked = TRUE]
             \/ r = [ch[i] EXCEPT !.dial_requested = TRUE]
    BY <1>1, <1>2, <2>2 DEF Sound, ChannelRecord
  <2> QED
    BY <1>2, <2>1, <2>2 DEF AfterCommand
<1>6. r \in ChannelRecord
  BY AfterTypes
<1> QED
  BY <1>5, <1>6 DEF Sound, Ring, ChannelRecord

LEMMA UserTerminal ==
    ASSUME TypeOK, TerminalInv, NEW i \in Channel, User(i)
    PROVE  TerminalInv'
<1>1. PICK r \in AfterCommand(i) : Dial(i, r) \/ RingAndAnswer(i, r)
  BY DEF User
<1>2. r \in ChannelRecord /\ Ring(r) \in ChannelRecord
  BY AfterTypes, RingType
<1>3. Sound(r, "media") /\ Sound(Ring(r), "media")
  BY CommandTerminal
<1>4. CASE Dial(i, r)
  <2>1. PICK o \in UnusedCallees :
          LET q == [r EXCEPT !.dial_requested = FALSE, !.dialog = o] IN
          Set(i, [q EXCEPT !.dialing = TRUE]) \/ Set(i, q)
    BY <1>4 DEF Dial
  <2> DEFINE q == [r EXCEPT !.dial_requested = FALSE, !.dialog = o]
  <2>2. ~r.call /\ ~r.pending
    BY <1>4 DEF Dial, Busy
  <2>3. Sound(q, "media") /\ Sound([q EXCEPT !.dialing = TRUE], "media")
    BY <1>2, <1>3, <2>2 DEF Sound, ChannelRecord
  <2> QED
    BY <2>1, <2>3, TerminalStep DEF User
<1>5. CASE RingAndAnswer(i, r)
  <2>1. PICK q \in {r, Ring(r)} :
          \/ /\ q.pending
             /\ Set(i, [q EXCEPT !.pending = FALSE, !.answer_requested = FALSE,
                                 !.call = TRUE, !.acked = FALSE, !.asked = FALSE,
                                 !.connect_reported = FALSE])
          \/ Set(i, q)
    BY <1>5 DEF RingAndAnswer
  <2> DEFINE p == [q EXCEPT !.pending = FALSE, !.answer_requested = FALSE, !.call = TRUE,
                            !.acked = FALSE, !.asked = FALSE, !.connect_reported = FALSE]
  <2>2. Sound(q, "media") /\ q \in ChannelRecord
    BY <1>2, <1>3
  <2>3. q.pending => Sound(p, "media")
    <3>1. q.pending => ~q.pty_carrier /\ q.dialog \in Callers /\ q.dialog \notin Callees
      BY <2>2, ChannelsAssumption DEF ChannelsAssumption, Sound
    <3> QED
      BY <2>2, <3>1 DEF Sound, ChannelRecord
  <2> QED
    BY <2>1, <2>2, <2>3, TerminalStep DEF User
<1> QED
  BY <1>1, <1>4, <1>5

\* The carrier drop makes good what the media or a BYE ended.
LEMMA MediaTerminal ==
    ASSUME TypeOK, TerminalInv, NEW i \in Channel, Media(i)
    PROVE  TerminalInv'
<1>1. PICK r \in AfterMedia(i) : \E q \in Trained(r) : Finish(i, CarrierDrop(q))
  BY DEF Media, MediaOutcome
<1>2. PICK q \in Trained(r) : Finish(i, CarrierDrop(q))
  BY <1>1
<1>3. /\ ch[i] \in ChannelRecord /\ r \in ChannelRecord /\ q \in ChannelRecord
      /\ Sound(ch[i], "media")
  BY AfterTypes, RecordTypes DEF TypeOK, TerminalInv, Sound
<1> DEFINE Dropping(x) == x.pty_carrier /\ Sound([x EXCEPT !.online = x.pty_carrier], "media")
<1>4. Sound(r, "media") \/ (~r.call /\ Dropping(r))
  <2>1. CASE r = ch[i]
    BY <1>3, <2>1
  <2>2. CASE r = Ended(ch[i])
    BY <1>3, <2>2 DEF Sound, Ended, ChannelRecord
  <2>3. CASE r = NoCarrier(Ended(ch[i]))
    <3>1. ~r.call
      BY <1>3, <2>3 DEF NoCarrier, Ended, ChannelRecord
    <3> QED
      BY <1>3, <2>3, <3>1 DEF Sound, NoCarrier, Ended, ChannelRecord
  <2> QED
    BY <2>1, <2>2, <2>3 DEF AfterMedia
<1>5. Sound(q, "media") \/ (~q.call /\ Dropping(q))
  <2>1. CASE q = r
    BY <1>4, <2>1
  <2>2. CASE q # r
    <3>1. r.call /\ r.acked /\ ~r.connect_reported
      BY <2>2 DEF Trained
    <3>2. q = [r EXCEPT !.online = TRUE, !.rings = 0, !.connect_reported = TRUE,
                        !.pty_carrier = TRUE]
      BY <2>2 DEF Trained
    <3> QED
      BY <1>3, <1>4, <3>1, <3>2 DEF Sound, ChannelRecord
  <2> QED
    BY <2>1, <2>2
<1>6. Sound(CarrierDrop(q), "poll")
  <2>1. CASE q.pty_carrier /\ ~q.call
    <3>1. Sound(Dropped(q), "poll")
      BY <1>3, <1>5, <2>1 DEF Sound, Dropped, NoCarrier, ChannelRecord
    <3> QED
      BY <2>1, <3>1 DEF CarrierDrop
  <2>2. CASE ~(q.pty_carrier /\ ~q.call)
    <3>1. Sound(q, "poll")
      BY <1>3, <1>5, <2>2 DEF Sound, ChannelRecord
    <3> QED
      BY <2>2, <3>1 DEF CarrierDrop
  <2> QED
    BY <2>1, <2>2
<1>7. CarrierDrop(q) \in ChannelRecord
  BY <1>3, RecordTypes
<1>8. Idle(CarrierDrop(q)) => Sound([CarrierDrop(q) EXCEPT !.dialog = NoId], "poll")
  BY <1>6, <1>7 DEF Sound, Idle, ChannelRecord
<1> QED
  BY <1>2, <1>6, <1>8, TerminalStep DEF Finish, Media, MediaOutcome

LEMMA NextTerminal == TypeOK /\ Addressed /\ TerminalInv /\ [Next]_vars => TerminalInv'
<1> SUFFICES ASSUME TypeOK, Addressed, TerminalInv, [Next]_vars PROVE TerminalInv'
  OBVIOUS
<1>1. CASE UNCHANGED <<ch, pc>>
  BY <1>1 DEF TerminalInv
<1>2. CASE \E i \in Channel : Pass(i)
  BY <1>2, SipTerminal, UserTerminal, MediaTerminal DEF Pass
<1>3. [Next]_vars => \/ UNCHANGED <<ch, pc>>
                     \/ \E i \in Channel : Pass(i)
  BY DEF Next, vars, Dispatch, PeerHangsUp, Lose, Forward, Invite, HearResponse, Respond, Inside
<1> QED
  BY <1>1, <1>2, <1>3

LEMMA InitTerminal == Init => Addressed /\ TerminalInv
<1> SUFFICES ASSUME Init PROVE Addressed /\ TerminalInv
  OBVIOUS
<1>1. Range(<<>>) = {} /\ DOMAIN disp = {}
  BY DEF Range, Init
<1>2. Addressed
  BY <1>1 DEF Init, Addressed
<1>3. Sound(NewChannel, "poll")
  BY ChannelsAssumption DEF ChannelsAssumption, Sound, NewChannel
<1> QED
  BY <1>2, <1>3 DEF Init, TerminalInv

(* However calls end, by BYE, hang-up, silence, a gap or a call that is    *)
(* never acknowledged, between two passes of a channel thread its terminal *)
(* is on line exactly while CONNECT stands for a call that is still up     *)
(* (main.c: the `continue`s skip the carrier drop, the next pass makes it).*)
THEOREM TerminalFollowsCall == Spec => []TerminalMatchesCall
<1> DEFINE IInv == TypeOK /\ Addressed /\ TerminalInv
<1>1. Init => IInv
  BY InitType, InitTerminal
<1>2. IInv /\ [Next]_vars => IInv'
  BY NextType, NextAddressed, NextTerminal
<1>3. IInv => TerminalMatchesCall
  BY DEF TerminalInv, Sound, TerminalMatchesCall
<1> QED
  BY <1>1, <1>2, <1>3, PTL DEF Spec

-----------------------------------------------------------------------------
(* What a pass does to the channel's call and its route *)

\* A part of channel i's pass touches nothing of another channel.
OthersKept(i) ==
    /\ UNCHANGED <<net, disp, invites>>
    /\ \A j \in Channel \ {i} : ch'[j] = ch[j] /\ routes'[j] = routes[j] /\ ipc'[j] = ipc[j]

KeepsCall(i) ==
    /\ ipc'[i] = ipc[i] \/ (ipc[i] # <<>> /\ ipc'[i] = Tail(ipc[i]))
    /\ ch'[i].dialog = ch[i].dialog /\ (Busy(ch'[i]) => Busy(ch[i]))
    /\ routes'[i] = routes[i]

FreesCall(i) ==
    /\ ipc'[i] = ipc[i] \/ (ipc[i] # <<>> /\ ipc'[i] = Tail(ipc[i]))
    /\ ch'[i].dialog = NoId /\ ~Busy(ch'[i])
    /\ routes'[i] = IF routes[i] = ch[i].dialog THEN NoId ELSE routes[i]

DialsCall(i) ==
    /\ ipc'[i] = ipc[i]
    /\ \E o \in Callees :
         /\ peer[o] = "idle" /\ peer'[o] # "idle" /\ ch'[i].dialog = o
         /\ \/ routes[i] \in {NoId, o} /\ routes'[i] = o
            \/ ~Busy(ch'[i]) /\ routes'[i] = routes[i]

RingsCall(i) ==
    /\ ipc[i] # <<>> /\ ipc'[i] = Tail(ipc[i])
    /\ Head(ipc[i]).kind = "INVITE" /\ ch'[i].dialog = Head(ipc[i]).id
    /\ ~ch[i].call /\ ~ch[i].pending /\ ch'[i].pending
    /\ routes'[i] = routes[i]

PassOutcome(i) == KeepsCall(i) \/ FreesCall(i) \/ DialsCall(i) \/ RingsCall(i)

LEMMA SetKeeps ==
    ASSUME TypeOK, NEW i \in Channel, NEW r \in ChannelRecord, Set(i, r)
    PROVE  ch'[i] = r /\ \A j \in Channel \ {i} : ch'[j] = ch[j]
BY DEF TypeOK, Set

LEMMA SipOutcome ==
    ASSUME TypeOK, Addressed, TerminalInv, NEW i \in Channel, Sip(i)
    PROVE  OthersKept(i) /\ PassOutcome(i)
<1> USE DEF Requests, Responses
<1>0. PICK r, m : r = ch[i] /\ m = Head(ipc[i])
  OBVIOUS
<1>1. r \in ChannelRecord /\ [ch EXCEPT ![i] = r] = ch /\ Sound(r, pc[i])
  BY <1>0 DEF TypeOK, TerminalInv
<1>2. PICK kind \in Requests \cup Responses : Taking(i, kind)
  BY SipShrinks
<1>3. /\ m \in Message /\ m.id \in Id /\ m.kind = kind /\ WellAddressed(m)
      /\ ipc[i] # <<>> /\ ipc'[i] = Tail(ipc[i])
      /\ \A j \in Channel \ {i} : ipc'[j] = ipc[j]
  BY <1>0, <1>2, TakingType, TakingRange DEF Addressed, Taking, TypeOK
<1>4. UNCHANGED <<disp, net, invites>>
  BY DEF Sip, ResponseIgnored, ResponseRefuses, ResponseAccepts, InviteAgain,
         InviteRefused, InviteRings, Ack, Bye, Outside
<1>5. ASSUME NEW q \in ChannelRecord, Set(i, q), UNCHANGED routes,
             q.dialog = r.dialog, Busy(q) => Busy(r)
      PROVE  OthersKept(i) /\ PassOutcome(i)
  <2>1. ch'[i] = q /\ \A j \in Channel \ {i} : ch'[j] = ch[j]
    BY <1>5, SetKeeps
  <2>2. OthersKept(i)
    BY <1>3, <1>4, <1>5, <2>1 DEF OthersKept
  <2>3. KeepsCall(i)
    BY <1>0, <1>3, <1>5, <2>1 DEF KeepsCall
  <2> QED
    BY <2>2, <2>3 DEF PassOutcome
<1>6. CASE ResponseIgnored(i) \/ InviteAgain(i) \/ InviteRefused(i)
  <2>1. Set(i, r) /\ UNCHANGED routes
    BY <1>1, <1>6 DEF ResponseIgnored, InviteAgain, InviteRefused, Set
  <2> QED
    BY <1>1, <1>5, <2>1
<1>7. CASE ResponseAccepts(i)
  <2>1. PICK q : q = [r EXCEPT !.dialing = FALSE, !.call = TRUE, !.acked = TRUE,
                               !.connect_reported = FALSE]
    OBVIOUS
  <2>2. Set(i, q) /\ r.dialing /\ UNCHANGED routes
    BY <1>0, <1>7, <2>1 DEF ResponseAccepts
  <2>3. q \in ChannelRecord /\ q.dialog = r.dialog /\ Busy(r)
    BY <1>1, <2>1, <2>2 DEF ChannelRecord, Busy
  <2> QED
    BY <1>5, <2>2, <2>3
<1>8. CASE Ack(i)
  <2>1. PICK q \in {r, [r EXCEPT !.acked = TRUE]} : Set(i, q)
    BY <1>0, <1>8 DEF Ack
  <2>2. q \in ChannelRecord /\ q.dialog = r.dialog /\ (Busy(q) <=> Busy(r))
    BY <1>1 DEF ChannelRecord, Busy
  <2> QED
    BY <1>5, <1>8, <2>1, <2>2 DEF Ack
<1>9. CASE Bye(i)
  <2>1. PICK q \in {r, Ended(r), NoCarrier(Ended(r))} : Set(i, q)
    BY <1>0, <1>9 DEF Bye
  <2>2. q \in ChannelRecord
    BY <1>1, RecordTypes
  <2>3. q.dialog = r.dialog /\ (Busy(q) => Busy(r))
    BY <1>1 DEF ChannelRecord, Busy, Ended, NoCarrier
  <2> QED
    BY <1>5, <1>9, <2>1, <2>2, <2>3 DEF Bye
<1>10. CASE ResponseRefuses(i)
  <2>1. PICK q \in {Undialled(r), NoCarrier(Undialled(r))} : Set(i, q)
    BY <1>0, <1>10 DEF ResponseRefuses
  <2>2. q \in ChannelRecord
    BY <1>1, RecordTypes
  <2>3. q.dialog = NoId /\ ~q.dialing /\ q.call = r.call /\ q.pending = r.pending
    BY <1>1 DEF Undialled, NoCarrier, ChannelRecord
  <2>4. r.dialing /\ r.dialog \in Callees
    BY <1>0, <1>3, <1>10 DEF ResponseRefuses, ForUs, WellAddressed, Taking
  <2>5. ~Busy(q)
    BY <1>1, <2>3, <2>4 DEF Busy, Sound
  <2>6. /\ ch'[i] = q /\ \A j \in Channel \ {i} : ch'[j] = ch[j]
        /\ routes' = Released(i, r.dialog)
    BY <1>0, <1>10, <2>1, <2>2, SetKeeps DEF ResponseRefuses
  <2>7. /\ routes'[i] = IF routes[i] = r.dialog THEN NoId ELSE routes[i]
        /\ \A j \in Channel \ {i} : routes'[j] = routes[j]
    BY <2>6 DEF Released, TypeOK
  <2>8. FreesCall(i)
    BY <1>0, <1>3, <2>3, <2>5, <2>6, <2>7 DEF FreesCall
  <2> QED
    BY <1>3, <1>4, <2>6, <2>7, <2>8 DEF OthersKept, PassOutcome
<1>11. CASE InviteRings(i)
  <2>1. PICK q : q = [r EXCEPT !.pending = TRUE, !.dialog = m.id, !.asked = FALSE]
    OBVIOUS
  <2>2. q \in ChannelRecord /\ q.dialog = m.id /\ q.pending
    BY <1>1, <1>3, <2>1 DEF ChannelRecord
  <2>3. Ring(q) \in ChannelRecord /\ Ring(q).dialog = m.id /\ Ring(q).pending
    BY <2>2, RingType DEF Ring, ChannelRecord
  <2>4. Set(i, Ring(q)) /\ ~r.call /\ ~r.pending /\ m.kind = "INVITE" /\ UNCHANGED routes
    BY <1>0, <1>11, <2>1 DEF InviteRings, Taking
  <2>5. ch'[i] = Ring(q) /\ \A j \in Channel \ {i} : ch'[j] = ch[j]
    BY <2>3, <2>4, SetKeeps
  <2>6. RingsCall(i)
    BY <1>0, <1>3, <2>3, <2>4, <2>5 DEF RingsCall
  <2> QED
    BY <1>3, <1>4, <2>4, <2>5, <2>6 DEF OthersKept, PassOutcome
<1> QED
  BY <1>6, <1>7, <1>8, <1>9, <1>10, <1>11 DEF Sip

\* No command and no verdict of the media names another call or starts one.
LEMMA SameCall ==
    ASSUME TypeOK, NEW i \in Channel, NEW r \in AfterCommand(i) \cup AfterMedia(i)
    PROVE  /\ r \in ChannelRecord /\ r.dialog = ch[i].dialog
           /\ Busy(r) => Busy(ch[i])
<1>1. ch[i] \in ChannelRecord /\ r \in ChannelRecord
  BY AfterTypes DEF TypeOK
<1>2. CASE r \in {ch[i], HangUp(ch[i]), Ended(ch[i]), NoCarrier(Ended(ch[i]))}
  BY <1>1, <1>2 DEF HangUp, Ended, NoCarrier, Busy, ChannelRecord
<1>3. CASE \/ \E n \in S0Values : r = [ch[i] EXCEPT !.s0 = n]
           \/ r = [ch[i] EXCEPT !.rings = 0]
           \/ r = [ch[i] EXCEPT !.answer_requested = TRUE, !.asked = TRUE]
           \/ r = [ch[i] EXCEPT !.dial_requested = TRUE]
  BY <1>1, <1>3 DEF Busy, ChannelRecord
<1> QED
  BY <1>1, <1>2, <1>3 DEF AfterCommand, AfterMedia

LEMMA UserOutcome ==
    ASSUME TypeOK, NEW i \in Channel, User(i)
    PROVE  OthersKept(i) /\ PassOutcome(i)
<1>1. PICK r \in AfterCommand(i) : Dial(i, r) \/ RingAndAnswer(i, r)
  BY DEF User
<1>2. /\ r \in ChannelRecord /\ Ring(r) \in ChannelRecord
      /\ r.dialog = ch[i].dialog /\ (Busy(r) => Busy(ch[i]))
  BY SameCall, RingType
<1>3. UNCHANGED <<net, disp, ipc, invites>>
  BY DEF User
<1>4. CASE RingAndAnswer(i, r)
  <2>1. PICK q \in {r, Ring(r)} :
          \/ /\ q.pending
             /\ Set(i, [q EXCEPT !.pending = FALSE, !.answer_requested = FALSE,
                                 !.call = TRUE, !.acked = FALSE, !.asked = FALSE,
                                 !.connect_reported = FALSE])
          \/ Set(i, q)
    BY <1>4 DEF RingAndAnswer
  <2>2. UNCHANGED routes
    BY <1>4 DEF RingAndAnswer
  <2>3. q \in ChannelRecord /\ q.dialog = r.dialog /\ (Busy(q) <=> Busy(r))
    BY <1>2 DEF Ring, Busy, ChannelRecord
  <2>4. PICK p : p = [q EXCEPT !.pending = FALSE, !.answer_requested = FALSE, !.call = TRUE,
                               !.acked = FALSE, !.asked = FALSE, !.connect_reported = FALSE]
    OBVIOUS
  <2>5. p \in ChannelRecord /\ p.dialog = q.dialog /\ (q.pending => Busy(q))
    BY <2>3, <2>4 DEF Busy, ChannelRecord
  <2>6. PICK n \in ChannelRecord : Set(i, n) /\ n.dialog = r.dialog /\ (Busy(n) => Busy(r))
    BY <2>1, <2>3, <2>4, <2>5
  <2>7. ch'[i] = n /\ \A j \in Channel \ {i} : ch'[j] = ch[j]
    BY <2>6, SetKeeps
  <2>8. KeepsCall(i)
    BY <1>2, <1>3, <2>2, <2>6, <2>7 DEF KeepsCall
  <2> QED
    BY <1>3, <2>2, <2>7, <2>8 DEF OthersKept, PassOutcome
<1>5. CASE Dial(i, r)
  <2>1. PICK o \in UnusedCallees :
          LET q == [r EXCEPT !.dial_requested = FALSE, !.dialog = o] IN
          \/ /\ RouteClaim(i, o) /\ routes' = [routes EXCEPT ![i] = o]
             /\ Set(i, [q EXCEPT !.dialing = TRUE])
             /\ peer' = [peer EXCEPT ![o] = "inviting"]
          \/ /\ Set(i, q) /\ UNCHANGED routes
             /\ peer' = [peer EXCEPT ![o] = "done"]
    BY <1>5 DEF Dial
  <2>2. o \in Callees /\ o \in Id /\ peer[o] = "idle" /\ ~Busy(r)
    BY <1>5 DEF UnusedCallees, Id, Dial
  <2>3. PICK q : q = [r EXCEPT !.dial_requested = FALSE, !.dialog = o]
    OBVIOUS
  <2>4. q.dialog = o /\ q \in ChannelRecord /\ ~Busy(q)
    BY <1>2, <2>2, <2>3 DEF Busy, ChannelRecord
  <2>5. PICK p : p = [q EXCEPT !.dialing = TRUE]
    OBVIOUS
  <2>6. p \in ChannelRecord /\ p.dialog = o
    BY <2>4, <2>5 DEF ChannelRecord
  <2>7. CASE Set(i, q) /\ UNCHANGED routes /\ peer' = [peer EXCEPT ![o] = "done"]
    <3>1. ch'[i] = q /\ \A j \in Channel \ {i} : ch'[j] = ch[j]
      BY <2>4, <2>7, SetKeeps
    <3>2. DialsCall(i)
      BY <1>3, <2>2, <2>4, <2>7, <3>1 DEF DialsCall, TypeOK
    <3> QED
      BY <1>3, <2>7, <3>1, <3>2 DEF OthersKept, PassOutcome
  <2>8. CASE /\ RouteClaim(i, o) /\ routes' = [routes EXCEPT ![i] = o]
             /\ Set(i, p) /\ peer' = [peer EXCEPT ![o] = "inviting"]
    <3>1. ch'[i] = p /\ \A j \in Channel \ {i} : ch'[j] = ch[j]
      BY <2>6, <2>8, SetKeeps
    <3>2. routes'[i] = o /\ \A j \in Channel \ {i} : routes'[j] = routes[j]
      BY <2>8 DEF TypeOK
    <3>3. DialsCall(i)
      BY <1>3, <2>2, <2>6, <2>8, <3>1, <3>2 DEF DialsCall, RouteClaim, TypeOK
    <3> QED
      BY <1>3, <3>1, <3>2, <3>3 DEF OthersKept, PassOutcome
  <2> QED
    BY <2>1, <2>3, <2>5, <2>7, <2>8
<1> QED
  BY <1>1, <1>4, <1>5

LEMMA MediaPassOutcome ==
    ASSUME TypeOK, NEW i \in Channel, Media(i)
    PROVE  OthersKept(i) /\ PassOutcome(i)
<1>1. PICK r \in AfterMedia(i) : \E q \in Trained(r) : Finish(i, CarrierDrop(q))
  BY DEF Media, MediaOutcome
<1>2. PICK q \in Trained(r) : Finish(i, CarrierDrop(q))
  BY <1>1
<1>3. PICK p : p = CarrierDrop(q)
  OBVIOUS
<1>4. UNCHANGED <<net, disp, ipc, invites>>
  BY DEF Media, MediaOutcome
<1>5. /\ r \in ChannelRecord /\ q \in ChannelRecord /\ p \in ChannelRecord
      /\ r.dialog = ch[i].dialog /\ (Busy(r) => Busy(ch[i]))
  BY <1>3, SameCall, RecordTypes
<1>6. p.dialog = r.dialog /\ (Busy(p) <=> Busy(r))
  <2>1. q.dialog = r.dialog /\ (Busy(q) <=> Busy(r))
    BY <1>5 DEF Trained, Busy, ChannelRecord
  <2>2. p.dialog = q.dialog /\ (Busy(p) <=> Busy(q))
    BY <1>3, <1>5 DEF CarrierDrop, Dropped, NoCarrier, Busy, ChannelRecord
  <2> QED
    BY <2>1, <2>2
<1>7. CASE Idle(p) /\ p.dialog # NoId
  <2>1. PICK n : n = [p EXCEPT !.dialog = NoId]
    OBVIOUS
  <2>2. n \in ChannelRecord /\ ~Busy(n) /\ n.dialog = NoId
    BY <1>5, <1>7, <2>1 DEF Busy, Idle, ChannelRecord
  <2>3. Set(i, n) /\ routes' = Released(i, ch[i].dialog)
    BY <1>2, <1>3, <1>5, <1>6, <1>7, <2>1 DEF Finish
  <2>4. ch'[i] = n /\ \A j \in Channel \ {i} : ch'[j] = ch[j]
    BY <2>2, <2>3, SetKeeps
  <2>5. /\ routes'[i] = IF routes[i] = ch[i].dialog THEN NoId ELSE routes[i]
        /\ \A j \in Channel \ {i} : routes'[j] = routes[j]
    BY <2>3 DEF Released, TypeOK
  <2>6. FreesCall(i)
    BY <1>4, <2>2, <2>4, <2>5 DEF FreesCall
  <2> QED
    BY <1>4, <2>4, <2>5, <2>6 DEF OthersKept, PassOutcome
<1>8. CASE ~(Idle(p) /\ p.dialog # NoId)
  <2>1. Set(i, p) /\ UNCHANGED routes
    BY <1>2, <1>3, <1>8 DEF Finish
  <2>2. ch'[i] = p /\ \A j \in Channel \ {i} : ch'[j] = ch[j]
    BY <1>5, <2>1, SetKeeps
  <2>3. KeepsCall(i)
    BY <1>4, <1>5, <1>6, <2>1, <2>2 DEF KeepsCall
  <2> QED
    BY <1>4, <2>1, <2>2, <2>3 DEF OthersKept, PassOutcome
<1> QED
  BY <1>7, <1>8

-----------------------------------------------------------------------------
(* The one INVITE of a call, from its caller to its channel *)

CallerInvite == {m \in Message : m.kind = "INVITE" /\ m.id \in Callers}

Sending(m)     == \E k \in DOMAIN disp : disp[k].msg = m
InSocket(m)    == \E i \in Channel : m \in Range(ipc[i])
OnItsWay(m)    == m \in Range(net[m.id]) \/ Sending(m) \/ InSocket(m)
Single(s, m)   == \A k, l \in DOMAIN s : s[k] = m /\ s[l] = m => k = l
NoDialog(d)    == \A i \in Channel : ch[i].dialog # d

\* The INVITE is in one place; from the dispatcher on it has its channel's
\* route, which stays because no channel's dialog names the call before the
\* INVITE is taken, and which the channel has for as long as it is busy.
OnePlace(m) ==
    /\ Single(net[m.id], m) /\ \A i \in Channel : Single(ipc[i], m)
    /\ m \in Range(net[m.id]) => ~Sending(m) /\ ~InSocket(m)
    /\ Sending(m) => ~InSocket(m)
Routed(m) ==
    /\ \A k \in DOMAIN disp : disp[k].msg = m => routes[disp[k].to] = m.id
    /\ \A i \in Channel : m \in Range(ipc[i]) => routes[i] = m.id
    /\ \A i \in Channel : ch[i].dialog = m.id /\ Busy(ch[i]) => routes[i] = m.id
Untaken(m) ==
    /\ OnItsWay(m) => NoDialog(m.id)
    /\ invites[m.id] = 0 => ~OnItsWay(m) /\ NoDialog(m.id)

SentOnce == \A m \in CallerInvite :
                invites[m.id] <= 1 => OnePlace(m) /\ Routed(m) /\ Untaken(m)

BusyNamed     == \A i \in Channel : Busy(ch[i]) => ch[i].dialog # NoId
DialledOwns   == \A i \in Channel :
                     Busy(ch[i]) /\ ch[i].dialog \in Callees => routes[i] = ch[i].dialog
RoutesDiffer  == \A i, j \in Channel : routes[i] = routes[j] /\ routes[i] # NoId => i = j
RoutesDialled == \A i \in Channel : routes[i] \in Callees => peer[routes[i]] # "idle"

RouteInv == BusyNamed /\ DialledOwns /\ RoutesDiffer /\ RoutesDialled

LEMMA IdsApart ==
    /\ NoId \notin Callers /\ NoId \notin Callees
    /\ \A c \in Callers : c \notin Callees /\ c \in Id
    /\ \A m \in CallerInvite : m \in Message /\ m.id \in Id /\ m.id # NoId /\ m.id \notin Callees
BY ChannelsAssumption DEF ChannelsAssumption, Id, CallerInvite

LEMMA SingleTail ==
    ASSUME NEW S, NEW s \in Seq(S), s # <<>>, NEW m, Single(s, m)
    PROVE  /\ Single(Tail(s), m)
           /\ Head(s) = m => m \notin Range(Tail(s))
<1>1. /\ Head(s) = s[1] /\ 1 \in DOMAIN s
      /\ \A k \in DOMAIN Tail(s) : k + 1 \in DOMAIN s /\ k \in Nat /\ Tail(s)[k] = s[k + 1]
  BY RangeTail
<1>2. ASSUME NEW k \in DOMAIN Tail(s), NEW l \in DOMAIN Tail(s), Tail(s)[k] = m, Tail(s)[l] = m
      PROVE  k = l
  <2>1. k + 1 = l + 1
    BY <1>1, <1>2 DEF Single
  <2> QED
    BY <1>1, <2>1
<1>3. ASSUME Head(s) = m, NEW k \in DOMAIN Tail(s) PROVE Tail(s)[k] # m
  <2>1. k # 0
    BY LenProperties, HeadTailProperties
  <2>2. k + 1 # 1
    BY <1>1, <2>1
  <2> QED
    BY <1>1, <1>3, <2>2 DEF Single
<1> QED
  BY <1>2, <1>3 DEF Single, Range

LEMMA SingleAppend ==
    ASSUME NEW S, NEW s \in Seq(S), NEW e \in S, NEW m, Single(s, m),
           m \in Range(s) => e # m
    PROVE  Single(Append(s, e), m)
<1> SUFFICES ASSUME NEW k \in DOMAIN Append(s, e), NEW l \in DOMAIN Append(s, e),
                    Append(s, e)[k] = m, Append(s, e)[l] = m
             PROVE  k = l
  BY DEF Single
<1>1. /\ Len(s) \in Nat /\ DOMAIN s = 1 .. Len(s)
      /\ DOMAIN Append(s, e) = 1 .. Len(s) + 1
      /\ \A n \in 1 .. Len(s) : Append(s, e)[n] = s[n]
      /\ Append(s, e)[Len(s) + 1] = e
  BY AppendProperties, LenProperties
<1>2. CASE e = m
  <2>1. \A n \in 1 .. Len(s) : Append(s, e)[n] # m
    BY <1>1, <1>2 DEF Range
  <2> QED
    BY <1>1, <2>1
<1>3. CASE e # m
  <2>1. k \in 1 .. Len(s) /\ l \in 1 .. Len(s)
    BY <1>1, <1>3
  <2> QED
    BY <1>1, <2>1 DEF Single
<1> QED
  BY <1>2, <1>3

\* The far ends as a pass leaves them: only a number being dialled is touched.
LEMMA PassPeers ==
    ASSUME TypeOK, NEW i \in Channel, Pass(i)
    PROVE  /\ \A c \in Callers : peer'[c] = peer[c]
           /\ \A o \in Callees : peer[o] # "idle" => peer'[o] # "idle"
<1>1. CASE Sip(i)
  BY <1>1 DEF Sip, ResponseIgnored, ResponseRefuses, ResponseAccepts, InviteAgain,
              InviteRefused, InviteRings, Ack, Bye, Outside
<1>2. CASE User(i)
  <2>1. PICK r \in AfterCommand(i) : Dial(i, r) \/ RingAndAnswer(i, r)
    BY <1>2 DEF User
  <2>2. CASE Dial(i, r)
    <3>1. PICK o \in UnusedCallees : \/ peer' = [peer EXCEPT ![o] = "inviting"]
                                     \/ peer' = [peer EXCEPT ![o] = "done"]
      BY <2>2 DEF Dial
    <3>2. o \in Callees /\ o \notin Callers
      BY ChannelsAssumption DEF ChannelsAssumption, UnusedCallees
    <3> QED
      BY <3>1, <3>2 DEF TypeOK, Id
  <2>3. CASE RingAndAnswer(i, r)
    BY <2>3 DEF RingAndAnswer
  <2> QED
    BY <2>1, <2>2, <2>3
<1>3. CASE Media(i)
  BY <1>3 DEF Media, MediaOutcome
<1> QED
  BY <1>1, <1>2, <1>3 DEF Pass

\* What a pass does to the routes leaves every call that is still up its own.
LEMMA PassRoutes ==
    ASSUME TypeOK, Addressed, RouteInv, NEW i \in Channel, Pass(i),
           OthersKept(i), PassOutcome(i)
    PROVE  RouteInv'
<1>1. /\ \A j \in Channel \ {i} : ch'[j] = ch[j] /\ routes'[j] = routes[j]
      /\ \A o \in Callees : peer[o] # "idle" => peer'[o] # "idle"
  BY PassPeers DEF OthersKept
<1>2. CASE KeepsCall(i)
  BY <1>1, <1>2 DEF KeepsCall, RouteInv, BusyNamed, DialledOwns, RoutesDiffer, RoutesDialled
<1>3. CASE FreesCall(i)
  <2>1. BusyNamed' /\ DialledOwns'
    BY <1>1, <1>3 DEF FreesCall, RouteInv, BusyNamed, DialledOwns
  <2>2. RoutesDiffer' /\ RoutesDialled'
    BY <1>1, <1>3, IdsApart DEF FreesCall, RouteInv, RoutesDiffer, RoutesDialled
  <2> QED
    BY <2>1, <2>2 DEF RouteInv
<1>4. CASE DialsCall(i)
  <2>1. PICK o \in Callees :
          /\ peer[o] = "idle" /\ peer'[o] # "idle" /\ ch'[i].dialog = o
          /\ \/ routes'[i] = o
             \/ ~Busy(ch'[i]) /\ routes'[i] = routes[i]
    BY <1>4 DEF DialsCall
  <2>2. \A j \in Channel : routes[j] # o
    BY <2>1 DEF RouteInv, RoutesDialled
  <2>3. BusyNamed' /\ DialledOwns'
    BY <1>1, <2>1, IdsApart DEF RouteInv, BusyNamed, DialledOwns
  <2>4. RoutesDiffer' /\ RoutesDialled'
    BY <1>1, <2>1, <2>2 DEF RouteInv, RoutesDiffer, RoutesDialled
  <2> QED
    BY <2>3, <2>4 DEF RouteInv
<1>5. CASE RingsCall(i)
  <2>1. Head(ipc[i]) \in Range(ipc[i])
    BY <1>5, RangeTail DEF RingsCall, TypeOK
  <2>2. ch'[i].dialog \in Callers /\ routes'[i] = routes[i]
    BY <1>5, <2>1 DEF RingsCall, Addressed, WellAddressed
  <2>3. BusyNamed' /\ DialledOwns'
    BY <1>1, <2>2, IdsApart DEF RouteInv, BusyNamed, DialledOwns
  <2>4. RoutesDiffer' /\ RoutesDialled'
    BY <1>1, <2>2 DEF RouteInv, RoutesDiffer, RoutesDialled
  <2> QED
    BY <2>3, <2>4 DEF RouteInv
<1> QED
  BY <1>2, <1>3, <1>4, <1>5 DEF PassOutcome

\* A pass that does not take the INVITE leaves what is known of it.
LEMMA PassLeaves ==
    ASSUME TypeOK, Addressed, RouteInv, NEW i \in Channel, OthersKept(i), PassOutcome(i),
           NEW m \in CallerInvite, OnePlace(m), Routed(m), Untaken(m),
           ipc'[i] = ipc[i] \/ Head(ipc[i]) # m
    PROVE  OnePlace(m)' /\ Routed(m)' /\ Untaken(m)'
<1>1. /\ \A j \in Channel \ {i} : ch'[j] = ch[j] /\ routes'[j] = routes[j] /\ ipc'[j] = ipc[j]
      /\ UNCHANGED <<net, disp, invites>>
  BY DEF OthersKept
<1>2. ipc[i] \in Seq(Message)
  BY DEF TypeOK
<1>3. Single(ipc'[i], m) /\ Range(ipc'[i]) \subseteq Range(ipc[i])
  <2>1. ipc'[i] = ipc[i] \/ (ipc[i] # <<>> /\ ipc'[i] = Tail(ipc[i]))
    BY DEF PassOutcome, KeepsCall, FreesCall, DialsCall, RingsCall
  <2> QED
    BY <1>2, <2>1, SingleTail, RangeTail DEF OnePlace
<1>4. (Sending(m)' <=> Sending(m)) /\ (InSocket(m)' => InSocket(m))
  BY <1>1, <1>3 DEF Sending, InSocket
<1>5. OnePlace(m)'
  BY <1>1, <1>3, <1>4 DEF OnePlace, Single
<1>6. OnItsWay(m)' => OnItsWay(m)
  BY <1>1, <1>4 DEF OnItsWay
<1>7. /\ ch'[i].dialog = m.id => KeepsCall(i)
      /\ routes[i] = m.id => routes'[i] = m.id \/ (FreesCall(i) /\ ch[i].dialog = m.id)
  <2>1. CASE KeepsCall(i)
    BY <2>1 DEF KeepsCall
  <2>2. CASE FreesCall(i)
    BY <2>2, IdsApart DEF FreesCall
  <2>3. CASE DialsCall(i)
    BY <2>3, IdsApart DEF DialsCall
  <2>4. CASE RingsCall(i)
    <3>1. ipc[i] # <<>> /\ ipc'[i] = Tail(ipc[i]) /\ Head(ipc[i]).kind = "INVITE"
      BY <2>4 DEF RingsCall
    <3>2. Head(ipc[i]) \in Message /\ Len(Tail(ipc[i])) # Len(ipc[i])
      BY <1>2, <3>1, LenProperties, HeadTailProperties, EmptySeq
    <3>3. Head(ipc[i]) # m
      BY <3>1, <3>2
    <3>4. ch'[i].dialog # m.id
      BY <2>4, <3>1, <3>2, <3>3 DEF RingsCall, CallerInvite, Message
    <3> QED
      BY <2>4, <3>4 DEF RingsCall
  <2> QED
    BY <2>1, <2>2, <2>3, <2>4 DEF PassOutcome
<1>8. NoDialog(m.id) => NoDialog(m.id)'
  BY <1>1, <1>7 DEF NoDialog, KeepsCall
<1>9. Untaken(m)'
  BY <1>1, <1>6, <1>8 DEF Untaken
<1>10. OnItsWay(m) => \A j \in Channel : routes[j] = m.id => routes'[j] = m.id
  BY <1>1, <1>7 DEF Untaken, NoDialog
<1>11. \A k \in DOMAIN disp' : disp'[k].msg = m => routes'[disp'[k].to] = m.id
  <2>1. \A k \in DOMAIN disp : disp[k].to \in Channel
    BY DEF TypeOK
  <2> QED
    BY <1>1, <1>10, <2>1 DEF Routed, OnItsWay, Sending
<1>12. \A j \in Channel : m \in Range(ipc'[j]) => routes'[j] = m.id
  <2>1. \A j \in Channel : m \in Range(ipc'[j]) => m \in Range(ipc[j])
    BY <1>1, <1>3
  <2> QED
    BY <1>10, <2>1 DEF Routed, OnItsWay, InSocket
<1>13. ASSUME NEW j \in Channel, ch'[j].dialog = m.id, Busy(ch'[j]) PROVE routes'[j] = m.id
  <2>1. CASE j = i
    BY <1>7, <1>13, <2>1 DEF KeepsCall, Routed
  <2>2. CASE j # i
    BY <1>1, <1>13, <2>2 DEF Routed
  <2> QED
    BY <2>1, <2>2
<1> QED
  BY <1>5, <1>9, <1>11, <1>12, <1>13 DEF Routed

\* The pass that takes it takes the only one, and has the route.
LEMMA PassTakes ==
    ASSUME TypeOK, Addressed, RouteInv, NEW i \in Channel, OthersKept(i), PassOutcome(i),
           NEW m \in CallerInvite, OnePlace(m), Routed(m), Untaken(m),
           ipc[i] # <<>>, Head(ipc[i]) = m, ipc'[i] = Tail(ipc[i])
    PROVE  OnePlace(m)' /\ Routed(m)' /\ Untaken(m)'
<1>1. /\ \A j \in Channel \ {i} : ch'[j] = ch[j] /\ routes'[j] = routes[j] /\ ipc'[j] = ipc[j]
      /\ UNCHANGED <<net, disp, invites>>
  BY DEF OthersKept
<1>2. ipc[i] \in Seq(Message) /\ m \in Range(ipc[i])
  BY RangeTail DEF TypeOK
<1>3. Single(ipc'[i], m) /\ m \notin Range(ipc'[i])
  BY <1>2, SingleTail DEF OnePlace
<1>4. /\ InSocket(m) /\ ~Sending(m) /\ m \notin Range(net[m.id]) /\ NoDialog(m.id)
      /\ routes[i] = m.id /\ invites[m.id] # 0
  BY <1>2 DEF OnePlace, Untaken, OnItsWay, InSocket, Routed
<1>5. ASSUME NEW j \in Channel \ {i} PROVE m \notin Range(ipc'[j])
  <2>1. routes[j] # m.id
    BY <1>4, IdsApart DEF RouteInv, RoutesDiffer
  <2> QED
    BY <1>1, <2>1 DEF Routed
<1>6. ~Sending(m)' /\ ~InSocket(m)'
  BY <1>1, <1>3, <1>4, <1>5 DEF Sending, InSocket
<1>7. OnePlace(m)' /\ Untaken(m)'
  <2>1. net'[m.id] = net[m.id] /\ invites'[m.id] = invites[m.id]
    BY <1>1
  <2>2. ~OnItsWay(m)'
    BY <1>4, <1>6, <2>1 DEF OnItsWay
  <2>3. \A j \in Channel : Single(ipc'[j], m)
    BY <1>1, <1>3 DEF OnePlace
  <2>4. Single(net'[m.id], m)
    BY <2>1 DEF OnePlace
  <2>5. OnePlace(m)'
    BY <1>6, <2>3, <2>4 DEF OnePlace, Single
  <2> QED
    BY <1>4, <2>1, <2>2, <2>5 DEF Untaken
<1>8. ASSUME NEW j \in Channel, ch'[j].dialog = m.id PROVE routes'[j] = m.id
  <2>1. j = i
    BY <1>1, <1>4, <1>8 DEF NoDialog
  <2>2. routes'[i] = routes[i]
    BY <1>4, <1>8, <2>1, IdsApart
       DEF PassOutcome, KeepsCall, FreesCall, DialsCall, RingsCall, NoDialog
  <2> QED
    BY <1>4, <2>1, <2>2
<1>9. /\ \A k \in DOMAIN disp' : disp'[k].msg # m
      /\ \A j \in Channel : m \notin Range(ipc'[j])
  BY <1>6 DEF Sending, InSocket
<1> QED
  BY <1>7, <1>8, <1>9 DEF Routed

LEMMA PassSent ==
    ASSUME TypeOK, Addressed, TerminalInv, RouteInv, SentOnce, NEW i \in Channel, Pass(i)
    PROVE  RouteInv' /\ SentOnce'
<1>1. OthersKept(i) /\ PassOutcome(i)
  BY SipOutcome, UserOutcome, MediaPassOutcome DEF Pass
<1>2. RouteInv'
  BY <1>1, PassRoutes
<1>3. ASSUME NEW m \in CallerInvite, invites'[m.id] <= 1
      PROVE  OnePlace(m)' /\ Routed(m)' /\ Untaken(m)'
  <2>1. OnePlace(m) /\ Routed(m) /\ Untaken(m)
    BY <1>1, <1>3 DEF OthersKept, SentOnce
  <2>2. ipc'[i] = ipc[i] \/ (ipc[i] # <<>> /\ ipc'[i] = Tail(ipc[i]))
    BY <1>1 DEF PassOutcome, KeepsCall, FreesCall, DialsCall, RingsCall
  <2>3. CASE ipc'[i] = ipc[i] \/ Head(ipc[i]) # m
    BY <1>1, <2>1, <2>3, PassLeaves
  <2>4. CASE ipc[i] # <<>> /\ ipc'[i] = Tail(ipc[i]) /\ Head(ipc[i]) = m
    BY <1>1, <2>1, <2>4, PassTakes
  <2> QED
    BY <2>2, <2>3, <2>4
<1> QED
  BY <1>2, <1>3 DEF SentOnce, CallerInvite

-----------------------------------------------------------------------------
(* What the dispatcher does to the routes *)

SendsNothing(d)  == disp' = <<>> /\ routes' = routes
SendsToOwner(d)  == \E i \in Channel : /\ disp' = <<[to |-> i, msg |-> Head(net[d])]>>
                                       /\ routes[i] = d /\ routes' = routes
SendsToNew(d)    == \E i \in Channel : /\ disp' = <<[to |-> i, msg |-> Head(net[d])]>>
                                       /\ routes[i] = NoId /\ d \in Callers
                                       /\ \A j \in Channel : routes[j] # d
                                       /\ routes' = [routes EXCEPT ![i] = d]

LEMMA DispatchOutcome ==
    ASSUME TypeOK, Addressed, NEW d \in Id, Dispatch(d)
    PROVE  SendsNothing(d) \/ SendsToOwner(d) \/ SendsToNew(d)
<1>1. disp = <<>> /\ Head(net[d]).id = d /\ WellAddressed(Head(net[d]))
  BY DispatchMoves DEF Addressed
<1>2. CASE DispatchKnown(d)
  <2>1. \/ RouteFind(d) = NoChannel
        \/ RouteFind(d) # NoChannel /\ RouteFind(d) \in Channel /\ routes[RouteFind(d)] = d
    BY LowestIs DEF RouteFind
  <2> QED
    BY <1>2, <2>1 DEF DispatchKnown, SendTo, SendsNothing, SendsToOwner
<1>3. CASE DispatchNew(d)
  <2>1. d \in Callers /\ \A j \in Channel : routes[j] # d
    <3>1. {j \in Channel : routes[j] = d} = {}
      BY <1>3, LowestIs DEF DispatchNew, RouteFind
    <3> QED
      BY <1>1, <1>3, <3>1 DEF DispatchNew, WellAddressed
  <2>2. CASE UNCHANGED <<routes, disp>>
    BY <1>1, <2>2 DEF SendsNothing
  <2>3. CASE \E i : /\ i = RouteAllocate(d) /\ SendTo(i, Head(net[d]))
                    /\ IF i = NoChannel THEN UNCHANGED routes
                                        ELSE routes' = [routes EXCEPT ![i] = d]
    <3>1. PICK i : /\ i = Lowest({j \in Channel : routes[j] = NoId})
                   /\ SendTo(i, Head(net[d]))
                   /\ IF i = NoChannel THEN UNCHANGED routes
                                       ELSE routes' = [routes EXCEPT ![i] = d]
      BY <1>3, <2>3 DEF RouteAllocate, DispatchNew
    <3>2. i = NoChannel \/ (i \in Channel /\ routes[i] = NoId /\ i # NoChannel)
      BY <3>1, LowestIs
    <3>3. CASE i = NoChannel
      BY <3>1, <3>3 DEF SendTo, SendsNothing
    <3>4. CASE i \in Channel /\ routes[i] = NoId /\ i # NoChannel
      BY <2>1, <3>1, <3>4 DEF SendTo, SendsToNew
    <3> QED
      BY <3>2, <3>3, <3>4
  <2> QED
    BY <1>3, <2>2, <2>3 DEF DispatchNew
<1> QED
  BY <1>2, <1>3 DEF Dispatch

LEMMA DispatchRoutes ==
    ASSUME TypeOK, Addressed, RouteInv, NEW d \in Id, Dispatch(d)
    PROVE  /\ RouteInv'
           /\ \A i \in Channel : routes[i] # NoId => routes'[i] = routes[i]
<1>1. UNCHANGED <<ch, peer>>
  BY DEF Dispatch
<1>2. CASE routes' = routes
  BY <1>1, <1>2 DEF RouteInv, BusyNamed, DialledOwns, RoutesDiffer, RoutesDialled
<1>3. CASE SendsToNew(d)
  <2>1. PICK i \in Channel : /\ routes[i] = NoId /\ d \in Callers
                             /\ \A j \in Channel : routes[j] # d
                             /\ routes' = [routes EXCEPT ![i] = d]
    BY <1>3 DEF SendsToNew
  <2>2. routes'[i] = d /\ \A j \in Channel \ {i} : routes'[j] = routes[j]
    BY <2>1 DEF TypeOK
  <2>3. BusyNamed' /\ DialledOwns'
    BY <1>1, <2>1, <2>2, IdsApart DEF RouteInv, BusyNamed, DialledOwns
  <2>4. RoutesDiffer' /\ RoutesDialled'
    BY <1>1, <2>1, <2>2, IdsApart DEF RouteInv, RoutesDiffer, RoutesDialled
  <2> QED
    BY <2>1, <2>2, <2>3, <2>4 DEF RouteInv
<1> QED
  BY <1>2, <1>3, DispatchOutcome DEF SendsNothing, SendsToOwner

LEMMA DispatchSent ==
    ASSUME TypeOK, Addressed, RouteInv, NEW d \in Id, Dispatch(d),
           NEW m \in CallerInvite, OnePlace(m), Routed(m), Untaken(m)
    PROVE  OnePlace(m)' /\ Routed(m)' /\ Untaken(m)'
<1>1. /\ UNCHANGED <<ch, ipc, invites>> /\ disp = <<>>
      /\ net[d] \in Seq(Message) /\ net[d] # <<>> /\ net'[d] = Tail(net[d])
      /\ \A e \in Id \ {d} : net'[e] = net[e]
  BY DEF Dispatch, TypeOK
<1>2. /\ Head(net[d]).id = d /\ Head(net[d]) \in Range(net[d])
      /\ Range(net'[d]) \subseteq Range(net[d])
      /\ \A k \in DOMAIN disp' : disp'[k].msg = Head(net[d])
  BY DispatchMoves DEF Addressed
<1>3. /\ \A i \in Channel : routes[i] # NoId => routes'[i] = routes[i]
      /\ \A k \in DOMAIN disp' : routes'[disp'[k].to] = d
  <2>1. CASE SendsNothing(d)
    BY <2>1 DEF SendsNothing
  <2>2. CASE SendsToOwner(d)
    BY <2>2 DEF SendsToOwner
  <2>3. CASE SendsToNew(d)
    BY <2>3 DEF SendsToNew, TypeOK
  <2> QED
    BY <2>1, <2>2, <2>3, DispatchOutcome, DispatchRoutes
<1>4. m.id \in Id /\ m.id # NoId
  BY IdsApart
<1>5. /\ Single(net'[m.id], m) /\ (m \in Range(net'[m.id]) => m \in Range(net[m.id]))
      /\ Head(net[d]) = m => m \notin Range(net'[m.id])
  BY <1>1, <1>2, <1>4, SingleTail DEF OnePlace
<1>6. InSocket(m)' <=> InSocket(m)
  BY <1>1 DEF InSocket
<1>7. NoDialog(m.id)' <=> NoDialog(m.id)
  BY <1>1 DEF NoDialog
<1>8. Sending(m)' => Head(net[d]) = m
  BY <1>2 DEF Sending
<1>9. Head(net[d]) = m => /\ m.id = d /\ OnItsWay(m) /\ ~InSocket(m)
                          /\ NoDialog(m.id) /\ invites[m.id] # 0
  BY <1>2 DEF OnePlace, OnItsWay, Untaken
<1>10. OnePlace(m)'
  BY <1>1, <1>5, <1>6, <1>8, <1>9 DEF OnePlace, Single
<1>11. OnItsWay(m)' => OnItsWay(m)
  BY <1>5, <1>6, <1>8, <1>9 DEF OnItsWay
<1>12. Untaken(m)'
  BY <1>1, <1>7, <1>11 DEF Untaken
<1>13. \A k \in DOMAIN disp' : disp'[k].msg = m => routes'[disp'[k].to] = m.id
  BY <1>2, <1>3
<1>14. /\ \A i \in Channel : m \in Range(ipc'[i]) => routes'[i] = m.id
       /\ \A i \in Channel : ch'[i].dialog = m.id /\ Busy(ch'[i]) => routes'[i] = m.id
  BY <1>1, <1>3, <1>4 DEF Routed
<1> QED
  BY <1>10, <1>12, <1>13, <1>14 DEF Routed

LEMMA ForwardSent ==
    ASSUME TypeOK, Forward, NEW m \in CallerInvite, OnePlace(m), Routed(m), Untaken(m)
    PROVE  OnePlace(m)' /\ Routed(m)' /\ Untaken(m)'
<1>1. PICK x, j : x = disp[1].msg /\ j = disp[1].to
  OBVIOUS
<1>2. /\ UNCHANGED <<net, routes, ch, invites>> /\ disp' = <<>>
      /\ 1 \in DOMAIN disp /\ j \in Channel /\ x \in Message
      /\ ipc[j] \in Seq(Message) /\ ipc'[j] = Append(ipc[j], x)
      /\ Range(ipc'[j]) = Range(ipc[j]) \cup {x}
      /\ \A i \in Channel \ {j} : ipc'[i] = ipc[i]
  BY <1>1, ForwardMoves DEF Forward
<1>3. ~Sending(m)' /\ (x = m => Sending(m))
  BY <1>1, <1>2 DEF Sending
<1>4. x = m => /\ m \notin Range(net[m.id]) /\ m \notin Range(ipc[j]) /\ routes[j] = m.id
  BY <1>1, <1>2, <1>3 DEF OnePlace, InSocket, Routed
<1>5. \A i \in Channel : Single(ipc'[i], m)
  <2>1. Single(ipc[j], m)
    BY <1>2 DEF OnePlace
  <2>2. Single(ipc'[j], m)
    BY <1>2, <1>4, <2>1, SingleAppend
  <2> QED
    BY <1>2, <2>2 DEF OnePlace
<1>6. InSocket(m)' => InSocket(m) \/ x = m
  BY <1>2 DEF InSocket
<1>7. OnItsWay(m)' => OnItsWay(m)
  BY <1>2, <1>3, <1>6 DEF OnItsWay
<1>8. NoDialog(m.id)' <=> NoDialog(m.id)
  BY <1>2 DEF NoDialog
<1>9. OnePlace(m)'
  BY <1>2, <1>3, <1>4, <1>5, <1>6 DEF OnePlace, Single
<1>10. Untaken(m)'
  BY <1>2, <1>7, <1>8 DEF Untaken
<1>11. \A i \in Channel : m \in Range(ipc'[i]) => routes[i] = m.id
  BY <1>2, <1>4 DEF Routed
<1>12. Routed(m)'
  BY <1>2, <1>11 DEF Routed
<1> QED
  BY <1>9, <1>10, <1>12

-----------------------------------------------------------------------------
(* The far ends: a caller's first INVITE is nowhere else *)

LEMMA OutsideSent ==
    ASSUME TypeOK, UNCHANGED <<routes, disp, ipc, ch>>,
           NEW m \in CallerInvite, OnePlace(m), Routed(m), Untaken(m),
           invites'[m.id] = invites[m.id], Single(net'[m.id], m),
           m \in Range(net'[m.id]) => m \in Range(net[m.id])
    PROVE  OnePlace(m)' /\ Routed(m)' /\ Untaken(m)'
<1>1. /\ Sending(m)' <=> Sending(m)
      /\ InSocket(m)' <=> InSocket(m)
      /\ NoDialog(m.id)' <=> NoDialog(m.id)
  BY DEF Sending, InSocket, NoDialog
<1>2. OnePlace(m)' /\ Untaken(m)'
  BY <1>1 DEF OnePlace, Untaken, OnItsWay, Single
<1>3. Routed(m)'
  BY DEF Routed
<1> QED
  BY <1>2, <1>3

LEMMA InviteSent ==
    ASSUME TypeOK, SentOnce, NEW c \in Callers, Invite(c),
           NEW m \in CallerInvite, m.id = c, invites'[c] <= 1
    PROVE  OnePlace(m)' /\ Routed(m)' /\ Untaken(m)'
<1>1. /\ UNCHANGED <<routes, disp, ipc, ch>> /\ Emit(c, "INVITE")
      /\ invites[c] \in Nat /\ invites'[c] = invites[c] + 1 /\ c \in Id
  BY DEF Invite, Inside, TypeOK, Id
<1>2. invites[c] = 0 /\ invites'[c] = 1
  BY <1>1
<1>3. OnePlace(m) /\ ~OnItsWay(m) /\ NoDialog(c)
  BY <1>2 DEF SentOnce, Untaken
<1>4. m = [kind |-> "INVITE", id |-> c] /\ m \in Message
  BY DEF CallerInvite, Message
<1>5. net[c] \in Seq(Message) /\ net'[c] = Append(net[c], m)
  BY <1>1, <1>4 DEF Emit, TypeOK
<1>6. m \notin Range(net[c]) /\ Single(net[c], m)
  BY <1>3 DEF OnItsWay, OnePlace
<1>7. Single(net'[c], m)
  BY <1>4, <1>5, <1>6, SingleAppend
<1>8. ~Sending(m)' /\ ~InSocket(m)' /\ NoDialog(c)'
  BY <1>1, <1>3 DEF OnItsWay, Sending, InSocket, NoDialog
<1>9. OnePlace(m)' /\ Untaken(m)'
  BY <1>1, <1>2, <1>3, <1>7, <1>8 DEF OnePlace, Untaken, Single
<1>10. Routed(m)'
  BY <1>8 DEF Routed, Sending, InSocket, NoDialog
<1> QED
  BY <1>9, <1>10

LEMMA FarEndRoutes ==
    ASSUME TypeOK, RouteInv,
           \/ \E d \in Id : PeerHangsUp(d) \/ Lose(d)
           \/ \E c \in Callers : Invite(c) \/ HearResponse(c)
           \/ \E o \in Callees : Respond(o)
    PROVE  RouteInv'
<1>1. /\ UNCHANGED <<routes, ch>>
      /\ \A o \in Callees : peer[o] # "idle" => peer'[o] # "idle"
  BY DEF PeerHangsUp, Lose, Invite, HearResponse, Respond, Becomes, Inside, TypeOK, Id
<1> QED
  BY <1>1 DEF RouteInv, BusyNamed, DialledOwns, RoutesDiffer, RoutesDialled

LEMMA FarEndSent ==
    ASSUME TypeOK, SentOnce,
           \/ \E d \in Id : PeerHangsUp(d) \/ Lose(d)
           \/ \E c \in Callers : Invite(c) \/ HearResponse(c)
           \/ \E o \in Callees : Respond(o)
    PROVE  SentOnce'
<1> USE DEF Requests, Responses
<1>1. \A m \in CallerInvite : m.id \in Id /\ m.kind = "INVITE" /\ net[m.id] \in Seq(Message)
  BY IdsApart DEF CallerInvite, TypeOK
<1>2. ASSUME NEW d \in Id, NEW kind \in Requests \cup Responses, Emit(d, kind), kind # "INVITE",
             UNCHANGED <<routes, disp, ipc, ch, invites>>
      PROVE  SentOnce'
  <2> SUFFICES ASSUME NEW m \in CallerInvite, OnePlace(m), Routed(m), Untaken(m)
               PROVE  OnePlace(m)' /\ Routed(m)' /\ Untaken(m)'
    BY <1>2 DEF SentOnce, CallerInvite
  <2>1. PICK e : e = [kind |-> kind, id |-> d]
    OBVIOUS
  <2>2. /\ e \in Message /\ e # m /\ net'[d] = Append(net[d], e)
        /\ \A x \in Id \ {d} : net'[x] = net[x]
    BY <1>1, <1>2, <2>1 DEF Message, Emit, TypeOK
  <2>3. Single(net[m.id], m)
    BY DEF OnePlace
  <2>4. CASE m.id = d
    <3>1. net[d] \in Seq(Message) /\ Single(net[d], m)
      BY <1>1, <2>3, <2>4
    <3>2. Single(net'[d], m) /\ Range(net'[d]) = Range(net[d]) \cup {e}
      BY <2>2, <3>1, SingleAppend, RangeAppend
    <3> QED
      BY <1>2, <2>2, <2>4, <3>2, OutsideSent
  <2>5. CASE m.id # d
    <3>1. net'[m.id] = net[m.id]
      BY <1>1, <2>2, <2>5
    <3> QED
      BY <1>2, <2>3, <3>1, OutsideSent
  <2> QED
    BY <2>4, <2>5
<1>3. ASSUME UNCHANGED <<net, routes, disp, ipc, ch, invites>> PROVE SentOnce'
  <2> SUFFICES ASSUME NEW m \in CallerInvite, OnePlace(m), Routed(m), Untaken(m)
               PROVE  OnePlace(m)' /\ Routed(m)' /\ Untaken(m)'
    BY <1>3 DEF SentOnce, CallerInvite
  <2> QED
    BY <1>3, OutsideSent DEF OnePlace
<1>4. ASSUME NEW d \in Id, PeerHangsUp(d) PROVE SentOnce'
  BY <1>2, <1>4 DEF PeerHangsUp, Inside
<1>5. ASSUME NEW d \in Id, Lose(d) PROVE SentOnce'
  <2> SUFFICES ASSUME NEW m \in CallerInvite, OnePlace(m), Routed(m), Untaken(m)
               PROVE  OnePlace(m)' /\ Routed(m)' /\ Untaken(m)'
    BY <1>5 DEF SentOnce, CallerInvite, Lose
  <2>1. /\ net[d] # <<>> /\ net'[d] = Tail(net[d]) /\ net[d] \in Seq(Message)
        /\ \A x \in Id \ {d} : net'[x] = net[x]
        /\ UNCHANGED <<routes, disp, ipc, ch, invites>>
    BY <1>5 DEF Lose, Inside, TypeOK
  <2>2. Single(net'[m.id], m) /\ (m \in Range(net'[m.id]) => m \in Range(net[m.id]))
    BY <1>1, <2>1, SingleTail, RangeTail DEF OnePlace
  <2> QED
    BY <2>1, <2>2, OutsideSent
<1>6. ASSUME NEW c \in Callers, Invite(c) PROVE SentOnce'
  <2>1. /\ UNCHANGED <<routes, disp, ipc, ch>> /\ Emit(c, "INVITE") /\ c \in Id
        /\ invites' = [invites EXCEPT ![c] = @ + 1]
    BY <1>6 DEF Invite, Inside, Id
  <2> SUFFICES ASSUME NEW m \in CallerInvite, invites'[m.id] <= 1
               PROVE  OnePlace(m)' /\ Routed(m)' /\ Untaken(m)'
    BY DEF SentOnce, CallerInvite
  <2>2. CASE m.id = c
    BY <1>6, <2>2, InviteSent
  <2>3. CASE m.id # c
    <3>1. net'[m.id] = net[m.id] /\ invites'[m.id] = invites[m.id]
      BY <1>1, <2>1, <2>3, EmitRange DEF TypeOK, CallerInvite
    <3>2. OnePlace(m) /\ Routed(m) /\ Untaken(m)
      BY <3>1 DEF SentOnce
    <3> QED
      BY <2>1, <3>1, <3>2, OutsideSent DEF OnePlace
  <2> QED
    BY <2>2, <2>3
<1>7. ASSUME NEW c \in Callers, HearResponse(c) PROVE SentOnce'
  <2>1. c \in Id /\ UNCHANGED <<routes, disp, ipc, ch, invites>>
        /\ (Emit(c, "ACK") \/ UNCHANGED net)
    BY <1>7 DEF HearResponse, Id
  <2> QED
    BY <1>2, <1>3, <2>1
<1>8. ASSUME NEW o \in Callees, Respond(o) PROVE SentOnce'
  <2>1. o \in Id /\ UNCHANGED <<routes, disp, ipc, ch, invites>>
        /\ \E k \in Responses : Emit(o, k)
    BY <1>8 DEF Respond, Inside, Id
  <2> QED
    BY <1>2, <2>1
<1> QED
  BY <1>4, <1>5, <1>6, <1>7, <1>8

-----------------------------------------------------------------------------
(* The call and its channel *)

LEMMA InitRoutes == Init => RouteInv /\ SentOnce
<1> SUFFICES ASSUME Init PROVE RouteInv /\ SentOnce
  OBVIOUS
<1>1. \A i \in Channel : /\ routes[i] = NoId /\ ipc[i] = <<>>
                         /\ ch[i].dialog = NoId /\ ~Busy(ch[i])
  BY DEF Init, NewChannel, Busy
<1>2. RouteInv
  BY <1>1, IdsApart DEF RouteInv, BusyNamed, DialledOwns, RoutesDiffer, RoutesDialled
<1>3. ASSUME NEW m \in CallerInvite PROVE OnePlace(m) /\ Routed(m) /\ Untaken(m)
  <2>1. net[m.id] = <<>> /\ disp = <<>> /\ m.id # NoId
    BY IdsApart DEF Init
  <2>2. m \notin Range(net[m.id]) /\ ~Sending(m) /\ ~InSocket(m) /\ NoDialog(m.id)
    BY <1>1, <2>1 DEF Range, Sending, InSocket, NoDialog
  <2>3. Single(net[m.id], m) /\ \A i \in Channel : Single(ipc[i], m)
    BY <1>1, <2>1 DEF Single
  <2> QED
    BY <2>2, <2>3 DEF OnePlace, Routed, Untaken, OnItsWay, Sending, InSocket, NoDialog
<1> QED
  BY <1>2, <1>3 DEF SentOnce

LEMMA NextRoutes ==
    TypeOK /\ Addressed /\ TerminalInv /\ RouteInv /\ SentOnce /\ [Next]_vars
      => RouteInv' /\ SentOnce'
<1> SUFFICES ASSUME TypeOK, Addressed, TerminalInv, RouteInv, SentOnce, [Next]_vars
             PROVE  RouteInv' /\ SentOnce'
  OBVIOUS
<1>1. ASSUME NEW d \in Id, Dispatch(d) PROVE RouteInv' /\ SentOnce'
  <2>1. UNCHANGED invites
    BY <1>1 DEF Dispatch
  <2>2. SentOnce'
    BY <1>1, <2>1, DispatchSent DEF SentOnce, CallerInvite
  <2> QED
    BY <1>1, <2>2, DispatchRoutes
<1>2. CASE Forward
  <2>1. UNCHANGED <<invites, routes, ch, peer>>
    BY <1>2 DEF Forward
  <2>2. SentOnce'
    BY <1>2, <2>1, ForwardSent DEF SentOnce, CallerInvite
  <2> QED
    BY <2>1, <2>2 DEF RouteInv, BusyNamed, DialledOwns, RoutesDiffer, RoutesDialled
<1>3. ASSUME NEW i \in Channel, Pass(i) PROVE RouteInv' /\ SentOnce'
  BY <1>3, PassSent
<1>4. CASE \/ \E d \in Id : PeerHangsUp(d) \/ Lose(d)
           \/ \E c \in Callers : Invite(c) \/ HearResponse(c)
           \/ \E o \in Callees : Respond(o)
  BY <1>4, FarEndRoutes, FarEndSent
<1>5. CASE UNCHANGED vars
  <2>1. RouteInv'
    BY <1>5 DEF vars, RouteInv, BusyNamed, DialledOwns, RoutesDiffer, RoutesDialled
  <2>2. SentOnce'
    BY <1>5, OutsideSent DEF vars, SentOnce, CallerInvite, OnePlace
  <2> QED
    BY <2>1, <2>2
<1> QED
  BY <1>1, <1>2, <1>3, <1>4, <1>5 DEF Next

LEMMA CallOwnsRoute ==
    ASSUME TypeOK, RouteInv, SentOnce, NEW i \in Channel, Busy(ch[i]), AskedOnce(ch[i].dialog)
    PROVE  ch[i].dialog \in Id /\ routes[i] = ch[i].dialog
<1>1. ch[i].dialog \in Id
  BY DEF RouteInv, BusyNamed, TypeOK, ChannelRecord
<1>2. CASE ch[i].dialog \in Callees
  BY <1>1, <1>2 DEF RouteInv, DialledOwns
<1>3. CASE ch[i].dialog \in Callers
  <2>1. PICK m : m = [kind |-> "INVITE", id |-> ch[i].dialog]
    OBVIOUS
  <2>2. m \in CallerInvite /\ m.id = ch[i].dialog
    BY <1>1, <1>3, <2>1 DEF CallerInvite, Message, Requests
  <2>3. Routed(m)
    BY <1>3, <2>2 DEF SentOnce, AskedOnce
  <2> QED
    BY <1>1, <2>2, <2>3 DEF Routed
<1> QED
  BY <1>1, <1>2, <1>3 DEF Id

LEMMA RouteInvFinds == TypeOK /\ RouteInv /\ SentOnce => BusyIsFound
<1> SUFFICES ASSUME TypeOK, RouteInv, SentOnce, NEW i \in Channel,
                    Busy(ch[i]), AskedOnce(ch[i].dialog)
             PROVE  RouteFind(ch[i].dialog) = i
  BY DEF BusyIsFound
<1>1. ch[i].dialog \in Id /\ routes[i] = ch[i].dialog
  BY CallOwnsRoute
<1>2. {j \in Channel : routes[j] = ch[i].dialog} = {i}
  BY <1>1, ChannelsAssumption DEF RouteInv, RoutesDiffer, ChannelsAssumption, Id
<1> QED
  BY <1>2, LowestIs DEF RouteFind

\* A pass may only dial a number nobody was given, so a busy channel's route
\* is never the one it takes.
LEMMA NextKeepsRoute ==
    ASSUME TypeOK, Addressed, TerminalInv, RouteInv, [Next]_vars,
           NEW i \in Channel, OwnsRoute(i), Busy(ch'[i])
    PROVE  \/ UNCHANGED <<routes[i], ch[i].dialog>>
           \/ ch[i].dialing /\ ~ch[i].pending /\ ch'[i].pending
<1>1. Busy(ch[i]) /\ routes[i] = ch[i].dialog /\ routes[i] # NoId
  BY DEF OwnsRoute, RouteInv, BusyNamed
<1>2. ASSUME NEW d \in Id, Dispatch(d) PROVE UNCHANGED <<routes[i], ch[i].dialog>>
  <2>1. ch' = ch
    BY <1>2 DEF Dispatch
  <2> QED
    BY <1>1, <1>2, <2>1, DispatchRoutes
<1>3. CASE Pass(i)
  <2>1. PassOutcome(i)
    BY <1>3, SipOutcome, UserOutcome, MediaPassOutcome DEF Pass
  <2>2. ~DialsCall(i) /\ ~FreesCall(i)
    BY <1>1 DEF DialsCall, FreesCall, RouteInv, RoutesDialled
  <2>3. CASE KeepsCall(i)
    BY <2>3 DEF KeepsCall
  <2>4. CASE RingsCall(i)
    BY <1>1, <2>4 DEF RingsCall, Busy
  <2> QED
    BY <2>1, <2>2, <2>3, <2>4 DEF PassOutcome
<1>4. ASSUME NEW j \in Channel \ {i}, Pass(j) PROVE UNCHANGED <<routes[i], ch[i].dialog>>
  <2>1. OthersKept(j)
    BY <1>4, SipOutcome, UserOutcome, MediaPassOutcome DEF Pass
  <2> QED
    BY <2>1 DEF OthersKept
<1>5. CASE Forward \/ UNCHANGED vars
  BY <1>5 DEF Forward, vars
<1>6. CASE \/ \E d \in Id : PeerHangsUp(d) \/ Lose(d)
           \/ \E c \in Callers : Invite(c) \/ HearResponse(c)
           \/ \E o \in Callees : Respond(o)
  BY <1>6 DEF PeerHangsUp, Lose, Invite, HearResponse, Respond, Inside
<1> QED
  BY <1>2, <1>3, <1>4, <1>5, <1>6 DEF Next

(* In a pool of any size, a channel busy with a call that was asked for    *)
(* once is the one route_find gives for it: no dial, release or hang-up    *)
(* takes the route between the dispatcher's allocation and the arrival of  *)
(* the INVITE, nor afterwards while the call lasts.                        *)
THEOREM BusyChannelIsFound == Spec => []BusyIsFound
<1> DEFINE Inv == TypeOK /\ Addressed /\ TerminalInv /\ RouteInv /\ SentOnce
<1>1. Init => Inv
  BY InitType, InitTerminal, InitRoutes
<1>2. Inv /\ [Next]_vars => Inv'
  BY NextType, NextAddressed, NextTerminal, NextRoutes
<1>3. Inv => BusyIsFound
  BY RouteInvFinds
<1> QED
  BY <1>1, <1>2, <1>3, PTL DEF Spec

(* However often INVITEs are repeated and commands typed, a channel that   *)
(* owns its call's route keeps both until the call is over; only a call    *)
(* that is still being dialled can be rung over by an INVITE.              *)
THEOREM CallKeepsRoute == Spec => RouteKept
<1> DEFINE Inv == TypeOK /\ Addressed /\ TerminalInv /\ RouteInv /\ SentOnce
           Kept == \A i \in Channel :
                     OwnsRoute(i) /\ Busy(ch[i])' =>
                       \/ UNCHANGED <<routes[i], ch[i].dialog>>
                       \/ ch[i].dialing /\ ~ch[i].pending /\ ch'[i].pending
<1>1. Init => Inv
  BY InitType, InitTerminal, InitRoutes
<1>2. Inv /\ [Next]_vars => Inv'
  BY NextType, NextAddressed, NextTerminal, NextRoutes
<1>3. Inv /\ [Next]_vars => Kept
  BY NextKeepsRoute
<1>4. Spec => [][Kept]_vars
  BY <1>1, <1>2, <1>3, PTL DEF Spec
<1> QED
  BY <1>4 DEF RouteKept

=============================================================================
