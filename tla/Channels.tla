------------------------------ MODULE Channels ------------------------------
(***************************************************************************)
(* The SIP dispatcher thread, the route table it shares with the channel   *)
(* threads, and each channel's dialog, terminal and carrier (main.c).      *)
(*                                                                         *)
(* The dispatcher reads one message at a time off the SIP socket, finds or *)
(* allocates the channel of its Call-ID under the mutex, and only then     *)
(* sends it down that channel's datagram socket, where it may block.  A    *)
(* channel thread's pass has three parts, which are three actions here:    *)
(* the SIP message, whose handler often ends the pass with `continue`; the *)
(* terminal, dialling, ringing and answering; and the media, ending with   *)
(* the carrier drop and the release of the route.  Each part touches the   *)
(* route table at most once.                                               *)
(*                                                                         *)
(* A Call-ID is a member of Callers (calls from outside) or Callees (the   *)
(* IDs drawn by ATD); the far end of each is modelled as a SIP user agent  *)
(* that repeats INVITE until it hears an answer.  Packets of one call stay *)
(* in order and may be lost.  Clocks are left out: a timer may fire on any *)
(* pass.  INVITEs sent out are not lost, so their repetition is left out.  *)
(***************************************************************************)
EXTENDS Naturals, Integers, Sequences, FiniteSetsExt, Functions

CONSTANTS
    Callers,      \* Call-IDs of incoming calls
    Callees,      \* Call-IDs of outgoing calls, one for each number dialled
    NoId,         \* a cleared call_id
    N,            \* channels in the pool
    S0Values,     \* what ATS0 is set to
    Odd,          \* callers whose SDP the two threads may judge differently
    Losable,      \* kinds of message the network may lose
    IpcCap,       \* datagrams a channel's socket holds
    MaxInvites    \* bound on how often one caller sends INVITE

ASSUME ChannelsAssumption ==
    /\ N \in Nat \ {0} /\ IpcCap \in Nat \ {0} /\ MaxInvites \in Nat \ {0}
    /\ Callers \cap Callees = {} /\ NoId \notin Callers \cup Callees
    /\ S0Values \subseteq 0 .. 255 /\ Odd \subseteq Callers

VARIABLES
    routes,  \* the Call-ID each channel is reserved for, NoId when it is not
    disp,    \* what the dispatcher is about to send: empty or one [to, msg]
    ipc,     \* messages in each channel's socket
    pc,      \* the part of its pass each channel is at
    ch,      \* each channel's state
    net,     \* messages of each call on their way to the SIP socket
    peer,    \* state of the far end of each call
    invites, \* INVITEs each caller has sent
    reply    \* the last response sent to each caller

vars == <<routes, disp, ipc, pc, ch, net, peer, invites, reply>>

Channel   == 0 .. N - 1
Id        == Callers \cup Callees
MaxRings  == Max(S0Values \cup {1}) - 1   \* more rings need not be told apart
Requests  == {"INVITE", "ACK", "BYE"}
Responses == {"1xx", "2xx", "busy", "failed", "ignored"}
Message   == [kind : Requests \cup Responses, id : Id]

(* `asked` is history: someone or S0 asked for the pending call's answer   *)
ChannelRecord ==
    [call : BOOLEAN, acked : BOOLEAN, pending : BOOLEAN, dialing : BOOLEAN,
     answer_requested : BOOLEAN, dial_requested : BOOLEAN, asked : BOOLEAN,
     connect_reported : BOOLEAN, pty_carrier : BOOLEAN, online : BOOLEAN,
     rings : 0 .. MaxRings, s0 : S0Values \cup {1}, dialog : Id \cup {NoId}]

(* Every field keeps its type, and the dispatcher only sends to channels.  *)
TypeOK ==
    /\ routes \in [Channel -> Id \cup {NoId}]
    /\ disp \in {<<>>} \cup {<<d>> : d \in [to : Channel, msg : Message]}
    /\ ipc \in [Channel -> Seq(Message)] /\ \A i \in Channel : Len(ipc[i]) <= IpcCap
    /\ pc \in [Channel -> {"poll", "user", "media"}]
    /\ ch \in [Channel -> ChannelRecord]
    /\ net \in [Id -> Seq(Message)]
    /\ peer \in [Id -> {"idle", "inviting", "ringing", "talking", "done"}]
    /\ invites \in [Callers -> 0 .. MaxInvites]
    /\ reply \in [Callers -> {"none", "180", "200", "4xx"}]

NewChannel ==
    [call |-> FALSE, acked |-> FALSE, pending |-> FALSE, dialing |-> FALSE,
     answer_requested |-> FALSE, dial_requested |-> FALSE, asked |-> FALSE,
     connect_reported |-> FALSE, pty_carrier |-> FALSE, online |-> FALSE,
     rings |-> 0, s0 |-> 1, dialog |-> NoId]

Init ==
    /\ routes = [i \in Channel |-> NoId] /\ disp = <<>>
    /\ ipc = [i \in Channel |-> <<>>] /\ pc = [i \in Channel |-> "poll"]
    /\ ch = [i \in Channel |-> NewChannel]
    /\ net = [d \in Id |-> <<>>] /\ peer = [d \in Id |-> "idle"]
    /\ invites = [c \in Callers |-> 0] /\ reply = [c \in Callers |-> "none"]

-----------------------------------------------------------------------------
(* The route table, each function under route_mutex                        *)

NoChannel == -1
Lowest(S) == IF S = {} THEN NoChannel ELSE Min(S)

RouteFind(d) == Lowest({i \in Channel : routes[i] = d})
RouteAllocateMiss(d) ==   \* mutant: the loop's end taken for a channel
    IF \A i \in Channel : routes[i] # NoId THEN N
    ELSE Lowest({i \in Channel : routes[i] = NoId})
RouteAllocate(d) == IF RouteFind(d) # NoChannel THEN RouteFind(d)
                    ELSE Lowest({i \in Channel : routes[i] = NoId})

RouteClaimAny(i, d) == TRUE   \* mutant: the channel's own route is taken as is
RouteClaim(i, d)    == routes[i] \in {NoId, d}

Released(i, d) == IF routes[i] = d THEN [routes EXCEPT ![i] = NoId] ELSE routes

-----------------------------------------------------------------------------
(* The dispatcher: one message taken off the socket, then sent on          *)

Emit(d, kind) == net' = [net EXCEPT ![d] = Append(@, [kind |-> kind, id |-> d])]

SendTo(i, m) == disp' = IF i = NoChannel THEN <<>> ELSE <<[to |-> i, msg |-> m]>>

DispatchKnown(d) ==
    /\ Head(net[d]).kind # "INVITE" \/ RouteFind(d) # NoChannel
    /\ SendTo(RouteFind(d), Head(net[d]))
    /\ UNCHANGED <<routes, reply>>

DispatchNew(d) ==
    /\ Head(net[d]).kind = "INVITE" /\ RouteFind(d) = NoChannel
    /\ \/ LET i == RouteAllocate(d) IN
          /\ SendTo(i, Head(net[d]))
          /\ IF i = NoChannel
             THEN reply' = [reply EXCEPT ![d] = "4xx"] /\ UNCHANGED routes
             ELSE routes' = [routes EXCEPT ![i] = d] /\ UNCHANGED reply
       \/ /\ d \in Odd   \* 488 from the dispatcher
          /\ reply' = [reply EXCEPT ![d] = "4xx"]
          /\ UNCHANGED <<routes, disp>>

Dispatch(d) ==
    /\ disp = <<>> /\ net[d] # <<>>
    /\ net' = [net EXCEPT ![d] = Tail(@)]
    /\ DispatchKnown(d) \/ DispatchNew(d)
    /\ UNCHANGED <<ipc, pc, ch, peer, invites>>

ForwardOrDrop ==   \* mutant: a full socket loses the message
    /\ disp # <<>> /\ disp' = <<>>
    /\ ipc' = [ipc EXCEPT ![disp[1].to] =
                 IF Len(@) < IpcCap THEN Append(@, disp[1].msg) ELSE @]
    /\ UNCHANGED <<routes, pc, ch, net, peer, invites, reply>>
Forward ==
    /\ disp # <<>> /\ Len(ipc[disp[1].to]) < IpcCap
    /\ ipc' = [ipc EXCEPT ![disp[1].to] = Append(@, disp[1].msg)]
    /\ disp' = <<>>
    /\ UNCHANGED <<routes, pc, ch, net, peer, invites, reply>>

-----------------------------------------------------------------------------
(* What the handlers do to a channel's own state                           *)

Busy(r)    == r.call \/ r.pending \/ r.dialing
HasData(r) == r.online /\ r.call /\ r.acked    \* terminal bytes are user data

(* at_ring_caller: answers by itself when S0 rings have been counted       *)
Ring(r) ==
    LET n   == r.rings + 1
        due == r.s0 > 0 /\ n >= r.s0
    IN [r EXCEPT !.rings = Min({n, MaxRings}), !.answer_requested = @ \/ due, !.asked = @ \/ due]

NoCarrier(r) == [r EXCEPT !.online = FALSE, !.rings = 0]
Ended(r)     == [r EXCEPT !.call = FALSE, !.acked = FALSE]
Undialled(r) == [r EXCEPT !.dialing = FALSE, !.dialog = NoId]

(* ATH: neither answer_requested, dial_requested nor the rings are cleared *)
HangUp(r) == [Ended(r) EXCEPT !.pending = FALSE, !.dialing = FALSE, !.asked = FALSE]

DroppedOnline(r) ==   \* mutant: the terminal is left on line
    [r EXCEPT !.s0 = 1, !.pty_carrier = FALSE, !.connect_reported = FALSE]
(* The carrier drop: the terminal's settings are made anew                 *)
Dropped(r) == [NoCarrier(r) EXCEPT !.s0 = 1, !.pty_carrier = FALSE,
                                   !.connect_reported = FALSE]
CarrierDrop(r) == IF r.pty_carrier /\ ~r.call THEN Dropped(r) ELSE r

-----------------------------------------------------------------------------
(* First part of the pass: one SIP message.  Proceed goes on with the      *)
(* pass, Continue starts the next one.                                     *)

Taking(i, kind) ==
    /\ pc[i] = "poll" /\ ipc[i] # <<>> /\ Head(ipc[i]).kind = kind
    /\ ipc' = [ipc EXCEPT ![i] = Tail(@)]

Set(i, r)    == ch' = [ch EXCEPT ![i] = r]
Answers(d, code) == reply' = IF d \in Callers THEN [reply EXCEPT ![d] = code] ELSE reply
Continue(i)  == pc' = pc
Proceed(i)   == pc' = [pc EXCEPT ![i] = "user"]

ForUs(i)     == Head(ipc[i]).id = ch[i].dialog
Outside      == UNCHANGED <<disp, net, peer, invites>>

ResponseIgnored(i) ==
    /\ \/ \E k \in {"1xx", "ignored"} : Taking(i, k)
       \/ \E k \in {"2xx", "busy", "failed"} : Taking(i, k) /\ ~(ch[i].dialing /\ ForUs(i))
    /\ Continue(i) /\ Outside /\ UNCHANGED <<ch, routes, reply>>

ResponseRefuses(i) ==
    /\ \/ Taking(i, "busy") /\ Set(i, Undialled(ch[i]))
       \/ Taking(i, "failed") /\ Set(i, NoCarrier(Undialled(ch[i])))
    /\ ch[i].dialing /\ ForUs(i)
    /\ routes' = Released(i, ch[i].dialog)
    /\ Continue(i) /\ Outside /\ UNCHANGED reply

ResponseAccepts(i) ==
    /\ Taking(i, "2xx") /\ ch[i].dialing /\ ForUs(i)
    /\ Set(i, [ch[i] EXCEPT !.dialing = FALSE, !.call = TRUE, !.acked = TRUE,
                            !.connect_reported = FALSE])
    /\ Continue(i) /\ Outside /\ UNCHANGED <<routes, reply>>

(* INVITE: a repeated one is answered again; a second call is refused; an  *)
(* offer the parser or inet_pton refuses ends the pass with the route kept *)
InviteAgain(i) ==
    /\ Taking(i, "INVITE") /\ ForUs(i) /\ (ch[i].call \/ ch[i].pending)
    /\ Answers(ch[i].dialog, IF ch[i].call THEN "200" ELSE "180")
    /\ Continue(i) /\ Outside /\ UNCHANGED <<ch, routes>>

InviteRefused(i) ==
    /\ Taking(i, "INVITE")
    /\ LET d == Head(ipc[i]).id IN
       \/ (ch[i].call \/ ch[i].pending) /\ ~ForUs(i) /\ Answers(d, "4xx")
       \/ ~(ch[i].call \/ ch[i].pending) /\ d \in Odd /\ Answers(d, "4xx")
       \/ ~(ch[i].call \/ ch[i].pending) /\ d \in Odd /\ UNCHANGED reply
    /\ Continue(i) /\ Outside /\ UNCHANGED <<ch, routes>>

InviteRings(i) ==
    /\ Taking(i, "INVITE") /\ ~ch[i].call /\ ~ch[i].pending
    /\ LET d == Head(ipc[i]).id IN
       /\ Set(i, Ring([ch[i] EXCEPT !.pending = TRUE, !.dialog = d, !.asked = FALSE]))
       /\ Answers(d, "180")
    /\ Proceed(i) /\ Outside /\ UNCHANGED routes

Ack(i) ==
    /\ Taking(i, "ACK")
    /\ Set(i, IF ch[i].call /\ ForUs(i) THEN [ch[i] EXCEPT !.acked = TRUE] ELSE ch[i])
    /\ Proceed(i) /\ Outside /\ UNCHANGED <<routes, reply>>

Bye(i) ==
    /\ Taking(i, "BYE")
    /\ Set(i, IF ~(ch[i].call /\ ForUs(i)) THEN ch[i]
              ELSE IF ch[i].pty_carrier THEN Ended(ch[i]) ELSE NoCarrier(Ended(ch[i])))
    /\ Proceed(i) /\ Outside /\ UNCHANGED <<routes, reply>>

Sip(i) ==
    \/ ResponseIgnored(i) \/ ResponseRefuses(i) \/ ResponseAccepts(i)
    \/ InviteAgain(i) \/ InviteRefused(i) \/ InviteRings(i) \/ Ack(i) \/ Bye(i)

-----------------------------------------------------------------------------
(* Second part: a terminal command, then dialling, ringing and answering   *)

UnusedCallees == {o \in Callees : peer[o] = "idle"}
WantsToDial   == {i \in Channel : ch[i].dial_requested}

(* What at_feed may make of the bytes read: r itself when there are none,  *)
(* when they are user data, or when the command is without consequence     *)
AfterCommand(i) ==
    LET r == ch[i] IN
    {r} \cup {q \in {[r EXCEPT !.s0 = n] : n \in S0Values}
                 \cup {[r EXCEPT !.rings = 0]}                            \* ATZ
                 \cup {[r EXCEPT !.answer_requested = TRUE, !.asked = TRUE] :
                         x \in IF r.pending THEN {1} ELSE {}}             \* ATA
                 \cup {[r EXCEPT !.dial_requested = TRUE] :
                         x \in IF Cardinality(UnusedCallees) > Cardinality(WantsToDial)
                               THEN {1} ELSE {}}                          \* ATD
                 \cup {HangUp(r)} :                                       \* ATH
               ~HasData(r)}

(* dialog_id is overwritten before the route is claimed                    *)
Dial(i, r) ==
    /\ r.dial_requested /\ ~Busy(r)
    /\ \E o \in UnusedCallees :
         LET q == [r EXCEPT !.dial_requested = FALSE, !.dialog = o] IN
         IF RouteClaim(i, o)
         THEN /\ routes' = [routes EXCEPT ![i] = o]
              /\ Set(i, [q EXCEPT !.dialing = TRUE])
              /\ peer' = [peer EXCEPT ![o] = "inviting"]
         ELSE /\ Set(i, q) /\ UNCHANGED routes
              /\ peer' = [peer EXCEPT ![o] = "done"]
    /\ UNCHANGED reply

RingAndAnswer(i, r) ==
    /\ ~(r.dial_requested /\ ~Busy(r))
    /\ \E q \in {r} \cup (IF r.pending THEN {Ring(r)} ELSE {}) :
         IF q.pending /\ q.answer_requested
         THEN /\ Set(i, [q EXCEPT !.pending = FALSE, !.answer_requested = FALSE,
                                  !.call = TRUE, !.acked = FALSE, !.asked = FALSE,
                                  !.connect_reported = FALSE])
              /\ Answers(q.dialog, "200")
         ELSE Set(i, q) /\ UNCHANGED reply
    /\ UNCHANGED <<routes, peer>>

User(i) ==
    /\ pc[i] = "user" \/ (pc[i] = "poll" /\ ipc[i] = <<>>)
    /\ \E r \in AfterCommand(i) : Dial(i, r) \/ RingAndAnswer(i, r)
    /\ pc[i] = "poll" => ch' # ch   \* else the pass is at its third part
    /\ pc' = [pc EXCEPT ![i] = "media"]
    /\ UNCHANGED <<disp, ipc, net, invites>>

-----------------------------------------------------------------------------
(* Third part: the media's verdict on the call, CONNECT, the carrier drop  *)
(* and the release of the route                                            *)

AfterMedia(i) ==
    {ch[i]} \cup {q \in {Ended(ch[i]),                  \* no ACK, or RTP ceased
                         NoCarrier(Ended(ch[i]))} :     \* a gap on V.34
                    ch[i].call}

Trained(r) == {r} \cup {q \in {[r EXCEPT !.online = TRUE, !.rings = 0,
                                         !.connect_reported = TRUE, !.pty_carrier = TRUE]} :
                          r.call /\ r.acked /\ ~r.connect_reported}

IdleRinging(r) == ~r.call /\ ~r.dialing   \* mutant: a ringing call is taken for none
Idle(r)        == ~r.call /\ ~r.pending /\ ~r.dialing

Finish(i, r) ==
    IF Idle(r) /\ r.dialog # NoId
    THEN routes' = Released(i, r.dialog) /\ Set(i, [r EXCEPT !.dialog = NoId])
    ELSE UNCHANGED routes /\ Set(i, r)

MediaOutcome(i, outcomes) ==
    /\ pc[i] = "media" \/ (pc[i] = "poll" /\ ipc[i] = <<>>)
    /\ \E r \in outcomes : \E q \in Trained(r) : Finish(i, CarrierDrop(q))
    /\ pc' = [pc EXCEPT ![i] = "poll"]
    /\ UNCHANGED <<disp, ipc, net, peer, invites, reply>>

Media(i) == MediaOutcome(i, AfterMedia(i))

(* The 32 s timer of a call whose ACK never came                           *)
NoAck(i) == ch[i].call /\ ~ch[i].acked /\ MediaOutcome(i, {Ended(ch[i])})

-----------------------------------------------------------------------------
(* The far ends and the network                                            *)

Becomes(d, state) == peer' = [peer EXCEPT ![d] = state]
Inside            == UNCHANGED <<routes, disp, ipc, pc, ch, reply>>

Invite(c) ==
    /\ peer[c] \in {"idle", "inviting"} /\ invites[c] < MaxInvites
    /\ Emit(c, "INVITE") /\ Becomes(c, "inviting")
    /\ invites' = [invites EXCEPT ![c] = @ + 1] /\ Inside

HearResponse(c) ==
    /\ peer[c] \in {"inviting", "ringing"} /\ reply' = [reply EXCEPT ![c] = "none"]
    /\ \/ reply[c] = "180" /\ Becomes(c, "ringing") /\ UNCHANGED net
       \/ reply[c] = "200" /\ Becomes(c, "talking") /\ Emit(c, "ACK")
       \/ reply[c] = "4xx" /\ Becomes(c, "done") /\ UNCHANGED net
    /\ UNCHANGED <<routes, disp, ipc, pc, ch, invites>>

Respond(o) ==
    /\ \/ peer[o] = "inviting" /\ Emit(o, "1xx") /\ Becomes(o, "ringing")
       \/ peer[o] \in {"inviting", "ringing"} /\ Emit(o, "2xx") /\ Becomes(o, "talking")
       \/ /\ peer[o] \in {"inviting", "ringing"}
          /\ \E k \in {"busy", "failed", "ignored"} : Emit(o, k)
          /\ Becomes(o, "done")
    /\ UNCHANGED invites /\ Inside

PeerHangsUp(d) ==
    /\ peer[d] = "talking" /\ Emit(d, "BYE") /\ Becomes(d, "done")
    /\ UNCHANGED invites /\ Inside

Lose(d) ==
    /\ net[d] # <<>> /\ Head(net[d]).kind \in Losable
    /\ net' = [net EXCEPT ![d] = Tail(@)]
    /\ UNCHANGED <<peer, invites>> /\ Inside

Pass(i) == Sip(i) \/ User(i) \/ Media(i)

Next ==
    \/ \E d \in Id : Dispatch(d) \/ PeerHangsUp(d) \/ Lose(d)
    \/ Forward
    \/ \E i \in Channel : Pass(i)
    \/ \E c \in Callers : Invite(c) \/ HearResponse(c)
    \/ \E o \in Callees : Respond(o)

Spec == Init /\ [][Next]_vars

(* The threads keep running, the dispatcher reads what has arrived, and a  *)
(* call nobody acknowledges times out.  The timer needs the strong form: a *)
(* thread's pass is elsewhere in between.  From poll a pass owes nothing   *)
(* but its message, and the far ends and the terminal nothing at all.      *)
PassGoesOn(i) == pc[i] # "poll" /\ (User(i) \/ Media(i))

Fairness ==
    /\ WF_vars(Forward) /\ \A d \in Id : WF_vars(Dispatch(d))
    /\ \A i \in Channel : WF_vars(Sip(i)) /\ WF_vars(PassGoesOn(i)) /\ SF_vars(NoAck(i))

FairSpec == Spec /\ Fairness

-----------------------------------------------------------------------------
(* A call is asked for once when its caller has not repeated the INVITE;  *)
(* a Call-ID is drawn anew for every number dialled.                       *)
AskedOnce(d) == d \in Callers => invites[d] <= 1
OwnsRoute(i) == Busy(ch[i]) /\ routes[i] = ch[i].dialog

(* A channel busy with a call that was asked for once, by INVITE or by     *)
(* ATD, is the one the dispatcher finds for it: neither a dial between the *)
(* dispatcher's allocation and the INVITE's arrival nor the release of an  *)
(* earlier call takes the route (main.c:437, 222, 388).  A repeated INVITE *)
(* that comes after the release is what CallIsFound is about.              *)
BusyIsFound ==
    \A i \in Channel :
        Busy(ch[i]) /\ AskedOnce(ch[i].dialog) => RouteFind(ch[i].dialog) = i

(* A channel that owns its call's route keeps it, and no other call, until *)
(* that call is over, however often INVITEs are repeated; only a call      *)
(* still being dialled may be rung over, by an INVITE left in the socket   *)
(* (main.c:207 refuses it for `call` and `pending`, not for `dialing`).    *)
RouteKept ==
    [][\A i \in Channel :
         OwnsRoute(i) /\ Busy(ch[i])' =>
           \/ UNCHANGED <<routes[i], ch[i].dialog>>
           \/ ch[i].dialing /\ ~ch[i].pending /\ ch'[i].pending]_vars

(* Between passes the terminal is on line exactly while CONNECT has been   *)
(* reported for a call that is still up, whichever way calls end.          *)
TerminalMatchesCall ==
    \A i \in Channel : pc[i] = "poll" =>
        /\ ch[i].online = ch[i].pty_carrier
        /\ ch[i].pty_carrier => ch[i].call /\ ch[i].acked /\ ch[i].connect_reported

(* A channel with nothing to do is in the pool: its route is free.         *)
NoLostChannel ==
    \A i \in Channel :
        pc[i] = "poll" /\ ipc[i] = <<>> /\ disp = <<>> /\ ch[i].dialog = NoId
          => routes[i] = NoId

(* The dispatcher finds a channel for the messages of every call that is   *)
(* up, so that its ACK and BYE arrive.                                     *)
CallIsFound == \A i \in Channel : ch[i].call => RouteFind(ch[i].dialog) # NoChannel

(* A ringing call is only about to be answered if ATA was typed or S0      *)
(* rings were counted for this very call.                                  *)
AnswerIsAsked ==
    \A i \in Channel : ch[i].pending /\ ch[i].answer_requested => ch[i].asked

(* A far end that has hung up does not keep the channel that holds its     *)
(* call's route in the call: the BYE reaches it, or ACK and timer end it.  *)
ByeFreesChannel ==
    \A d \in Id : peer[d] = "done" ~>
        \A i \in Channel : ~(ch[i].call /\ ch[i].dialog = d /\ routes[i] = d)


=============================================================================
