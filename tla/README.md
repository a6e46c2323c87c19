# Formal models of SIP Softmodem

SIP Softmodem answers and places telephone calls over SIP/RTP and plays the
modem at either end of the audio. This directory holds TLA+ modules of its
control logic, TLC configurations that check them on small instances, and
proofs that hold for every value of the constants. Source paths below are
relative to `src/src/`.

To check a run: `tlc -workers 2 -config MCChannels.cfg MCChannels`
To check a proof: `tlapm V42ArqProofs.tla`

## 1. The system

One process. The main thread is the *dispatcher*: it reads the SIP socket and
passes each message, over a datagram socket pair, to the *channel thread* whose
call it belongs to. A table of routes (`routes[]`, one Call-ID a channel) under
a mutex is the only memory the threads share on purpose (`sip.c`'s `strtok` is
a second, by accident). A channel thread owns a PTY, an RTP socket, a jitter
buffer and one modem of each kind; its loop handles one SIP message, one RTP
packet and one read from the terminal a pass and runs the media every 20 ms.

| component | state it keeps | operations | speaks with |
|---|---|---|---|
| dispatcher (`main.c:419`) | message in hand | look up or allocate a route, send on, refuse (486, 488, 403), answer OPTIONS | far ends (UDP), routes, channel sockets |
| routes (`main.c:62`) | a Call-ID per channel | find, allocate, claim, release | dispatcher and channels, under a mutex |
| channel dialog (`main.c:180`) | call, acked, pending, dialing, dialog_id, stored 180 and 200 | INVITE, ACK, BYE, responses; dial, ring, answer, time out, release | dispatcher, terminal, media |
| terminal (`at.c`) | line, S0, rings, online, numbers | feed, ring, connected, no_carrier | channel dialog |
| jitter buffer (`jitter.c`) | 128 slots, cursor, queued, missing_ticks | put, get, reset | RTP receive, media tick |
| V.42 ARQ (`v42_arq.c`) | V(S), V(A), V(R), two rings, reply, T401 | write, read, next, receive, advance | session, peer's ARQ |
| V.42 link (`v42_link.c`) | state, one pending frame, T401 | next, receive, advance, disconnect | session |
| V.42 session, XID (`v42_session.c`, `v42_xid.c`) | phase, negotiated parameters, XID timer | next, receive, write, read, advance | link, ARQ, stream |
| V.42 stream and glue (`v42_stream.c`, `v42_v32.c`) | bit ring, frame ring, pending bytes | send, receive, pump | session, V.32 |
| V.8 (`v8_session.c`, `v8.c`, `main.c:249-298`) | phase, menus, deadline; octets, ANSam and CJ counters of the media pass | menu, CJ, ANSam, advance | peer's V.8, channel |
| V.22bis (`v22_handshake.c`) | transmit state, rate, deadline | event, advance | peer's handshake |
| V.32/V.32bis (`v32_startup.c`, `v32_session.c`, `v42_v32.c`) | phase, reversals and timer, rate words, E, marking, session queue | start-up, retrain, data | peer, media tick |
| V.34 (`v34_*.c`) | phase 2 to 4, probe results, INFO and MP, mode, rates, byte rings | INFO exchange, ranging, probing, training, MP, B1, data | peer, media tick |
| signal processing, coding | filters, trellis, CRCs | sample by sample | the above |

Hard behaviours: two threads that look up, allocate and release routes in
separate critical sections; flags that outlive the pass or the call they were
set in; UDP that loses, repeats and reorders; T401 racing late answers;
numbers modulo 128 and 65536; timers whose retries run out; two ends that must
come to agree step by step over a line whose delay neither knows, each deciding
from its own half of what was exchanged; bytes handed over from queue to queue
while the modem under them changes or retrains. PROJECT.json lists each at its
line under `hazards`, with the properties that watch it.

What makes each component correct:

- routes and channels: a busy channel is the one the dispatcher finds for its
  call, and keeps the route until the call is over; an idle one is in the pool;
  answers are asked for; the terminal is on line exactly during a reported call.
- jitter buffer: what is played is the stream in order; media waiting is
  neither overwritten nor left; a reported gap is a loss.
- V.42: the ends agree on windows; each direction is an ordered pipe;
  nothing outstanding is released early or stranded; what is written arrives.
- V.8: ends that have chosen have chosen the same.
- V.34: phase 2 gives both ends the same mode and the exact round trip, phase 4
  the same rates; no end fails in a call that should work; CONNECT comes at
  both ends, with the rate in use; bytes arrive in order.
- V.32: retraining ends with both ends in data and keeps the session queue.

## 2. Modules

| module | models | how |
|---|---|---|
| `Jitter` | `jitter.c` | variables are the fields of `struct jitter`; `Put`, `Get` (its three outcomes), `Reset` are the functions. `out` is what the last get returned |
| `Playout` | nothing: the promise | abstract in-order playout: each position once, played or reported missing |
| `MediaStream` | `main.c:217-247` around the buffer | a sender numbering packets modulo `SeqMod`, a network, both 20 ms clocks, call after call; `PlaysInOrder` is `Playout` under `next <- pos` |
| `V42Arq` | `v42_arq.c` | operators on a record of the struct's fields; a chunk stands for a slot's octets |
| `V42ArqEnd` | one ARQ end | any peer: `AnyFrame` delivers any kind and number at any time |
| `V42Link` | `v42_link.c` | operators on a record. `v42_link_disconnect` is left out: nothing in `src/` calls it |
| `OrderedPipe` | nothing: the promise | chunks are read in the order they were written |
| `V42Session` | `v42_session.c`, `v42_xid.c`, order of work of `v42_v32.c` | two sessions made of `V42Link` and `V42Arq` over two lossy FIFO lines; both directions are `OrderedPipe` |
| `Channels` | `main.c` dispatcher, routes and channel loop; `at.c` events | see below |
| `V34Caps` | `v34_caps.c`, `v34_phase2.c`, `v34_mp.c`, `v34_framing.c`, `v34_timing.c` | operators: rates, symbol clocks, projection, duplex selection, mode, MP negotiation |
| `V34Phase2` | `v34_phase2_session.c`, `_ranging.c`, `_probe_exchange.c`, the tone, INFO and probe detectors | operators on a record for one end; time in quanta of 40 samples |
| `V34Training` | `v34_session.c` and the streams and receivers under it, `v34_b1_data_link.c`, `v34_data_channel.c` | phases 3 and 4, B1 and data; time in packets, stages as long as the symbol rate makes them |
| `V34Modem` | `v34_modem_session.c` | phase 2, then training, then data; the ring of early bytes |
| `V8Call` | `v8_session.c`, `v8.c`, V.8 part of the media pass | one end of V.8, packet by packet |
| `V32Session` | `v32_session.c` as `v32_session_start_standard` starts it, `v32_startup.c`, rate words and E | one end, in blocks of 160 samples |
| `StandardModem` | nothing in `src/`: the modem at the far end of a V.32 call | what V.32 section 5.4 has an answerer do and the code expects of it |
| `ChannelModem` | the branches of `main.c:221`, `268-270`, `302-303`, `370-371` on the modem family | one operator per call into a modem |
| `ModemCall` | `main.c:196`, `231-310`, `370-372` at both ends of a line | see below |
| `MC*` | | constants of the instances |
| `ModArithmetic`, `*Proofs` | | lemmas and theorems |

`ModemCall`. `end[e]` is what a channel's thread keeps of the call, `line[e]`
the packets on their way to `e`. A step is a media pass (`Pass`): the packet at the
head of the queue goes to V.8 or to the modem, V.8 moves on or starts the modem, and
one packet goes out, in the order of the code. A queue of n packets is a delay of
n passes; the jitter buffer keeps the order (`MediaStream`), so a delay only
grows (`Late`: nothing to play in this pass) or loses a packet (`Gap`, which
drops V.34, and `RetrainGap`, which makes V.32 ask to retrain). Passes of the two ends
alternate: both are paced by a 20 ms clock. A packet is a record
of what the other end can tell about it (which tone or reversal each quantum of
40 samples has, which part of INFO, how far training has come, which rate words,
which chunks of data), so every detector's block size and count is in the model
while the samples are not. A read hands over all that came in with a packet: a chunk
stands for the bytes of one block or superframe.

`Channels`. `Dispatch` takes a message off the socket and decides its channel;
`Forward` sends it and waits while that socket is full. A channel's pass is
three actions: `Sip` (one disjunct per handler; those that `continue` in the
code leave `pc` at "poll", the others go on), `User` (terminal command, then
dial or ring and answer) and `Media` (verdict on the call, CONNECT, carrier
drop, release). Each part touches the route table at most once, so no
interleaving on it is lost by taking a part as one step. A pass in which the terminal part
does nothing goes straight to the media part, which changes nothing observable.
`ch[i]` holds the local variables of `channel_main` and the fields of
`struct at_modem` that matter; `asked` is a history variable. Training is a
free choice (`Trained`), as is the media's verdict (`AfterMedia`).

Definitions in the modules whose comments say "wrong" or "mutant" are plausible
mistakes, each placed before the definition it would replace; nothing uses them
except the mutation checks listed in PROJECT.json.

## 3. Runs

| run | instance | shows |
|---|---|---|
| `MCMediaStream` | 4 slots, numbers mod 16 from 13 (they wrap), 7 packets a call, start at 2, gap after 3 ticks, packets up to 2 places late or in order, 1 duplicate | `MediaTypeOK`, `QueuedIsHeld`, `PlaysInOrder`, `WaitingMediaIsKept`, `GapIsLoss`, `HeldMediaIsReached` |
| `MCMediaFutureGap` | the same | *violated* `FutureMediaProvesGap`: `jitter.c:19` says future media proves the gap, but `queued` also counts late packets of the past |
| `MCV42ArqEnd` | numbers mod 4, windows 1 to 3, any frames | `TypeOK`, `OutstandingKept` |
| `MCSesTransfer` | linked ends, full windows, 5 chunks one way, 2 losses, T401 at any time, receive ring of 2 | `TypeOK`, `AckIsHonest`, `NeverStranded`, `OrderedForAns` |
| `MCSesDelivery` | from XID, different windows, 4 + 1 chunks both ways, 3 losses against 3 retries, T401 longer than a round trip, UA not lost | `WindowsAgree`, `NeverGivesUp`, `BothConnect`, `EverythingArrives` |
| `MCSesLostUA` | one loss, UA may be it | *violated* `BothConnect`: the answerer is connected by sending its UA and drops the SABME that T401 repeats |
| `MCChannels` | 1 channel, 1 caller (INVITE up to three times, SDP the two threads may judge differently), 1 dialled call, ACK may be lost | `TypeOK`, `BusyIsFound`, `TerminalMatchesCall`, `RouteKept`, `ByeFreesChannel` |
| `MCChanLate` | 2 channels, 1 caller (INVITE twice), no losses | *violated* `CallIsFound`: ATH releases the route while a repeated INVITE waits in the socket; the call answered from it has no route, so its ACK and BYE are dropped (`src/README.md:317-318`) |
| `MCChanLost` | 2 channels, 2 numbers dialled | *violated* `NoLostChannel`: ATD, ATD, ATH loses the channel until restart |
| `MCChanAnswer` | 1 channel, 2 callers | *violated* `AnswerIsAsked`: a cancelled automatic answer answers the next call |
| `MCModemCall` | 164 calls: V.34 over delays of 1 to 13 packets each way, pairs of 8 speeds, 5 x 5 line qualities at two speeds, no V.8 at the answerer, 2 chunks both ways early or after CONNECT, one late packet or one gap at any moment; V.32 and V.32bis at 5 rates against a standard modem, one gap, one request of the far end, both at any moment, a chunk written while the modem retrains | `TypeOK`, `SameFamily`, `ModesMirror`, `RoundTripMeasured`, `RatesAgree`, `WorkableNeverFails`, `OnlySilenceWaits`, `ReportedRateIsUsed`, `Ordered`, `BothConnect`, `ConnectIsMutual`, `RetrainRecovers`, `EverythingArrives` |
| `MCV32Standard` | two channels of this program that agree on V.32, at 4800 and 9600 bit/s | *violated* `TwoProcessesConnect` (`README.md:44-46`): the answerer stays in AC, the caller in AA |

`MCV32Standard` was compared with the program itself: `make
integration-v32-test` fails, after V.8 the caller prints "V.32 startup AA" and the
answerer "AC" until the test gives up, while `make integration-test`, over
V.22bis, passes.

Deadlock is not checked in the runs whose behaviours are bounded by what is written or
called (sessions and channels) and in `MCModemCall`, where an idle end without
carrier only passes silence on: they may stop once everything is done.

Why the bounds are enough. Jitter: the ring is smaller than the stream, the
numbers wrap within a call and between calls, and reordering is wider than the
start threshold. V.42: the largest window the code admits (modulus less
one), more chunks than numbers, more losses than the smaller window and both
fewer and as many as retries. Channels: `MCChannels` has one channel that an
incoming and an outgoing call compete for, each message kind in flight, a socket of
one message so that the dispatcher blocks, an INVITE repeated twice (one in the
socket, one in the dispatcher's hands), and commands and timers in every pass.
Liveness with a second channel is beyond five minutes of TLC; that no channel
disturbs another's route is proved for any pool (section 4), and the runs that look
for violations, where a channel or route is lost, have two.

Modem calls: ten packets are what `jitter.c:12` waits for before it plays, so
delays of 10 and 13 are those of a real call, 1 and 3 those of the loopback
tests; early writes are those of `tests/test_v34_modem_session.c:57`. Every pair of
neighbouring speeds at which a symbol rate or a rate mask ends is in the set. One
late packet or gap at *any* moment reaches each window of the start-up. `TimerCap`
(200 quanta), `StreamCap` (26 packets), `EchoCap` (3000 symbols),
`LegacyTone` and `LegacySilence` (the 2.6 s and 75 ms of `main.c:299-300`) bound counters
whose larger values the code treats alike; `DeferredRxPackets` is
`V34_DEFERRED_RX_PACKETS`.

Environment assumptions, all named constants:

- `Prompt`: T401 runs only when nothing sent is still to be answered, i.e. it
  is longer than a round trip. The code does not guarantee this: T401 is 1000 ms at
  every rate (`v42_arq.c:6`), and `v42_v32.c:32` puts up to eight frames at
  once into the bit ring, behind which the peer's acknowledgement waits. With full windows
  both ways that is 1.7 s at 4800 bit/s. So `NeverGivesUp`, `BothConnect`
  and `EverythingArrives`, and the theorem `LossesAreSurvived`, speak of calls whose
  rate and load keep a round trip below a second; at a slow rate with full windows the
  retries can be spent with no loss at all. What holds without `Prompt`,
  with T401 at any moment, is in `MCSesTransfer`: order, honest
  acknowledgements, nothing stranded.
- `Losable`: kinds of message or frame that may be lost. UA is excluded from
  `MCSesDelivery` and the result of losing it is `MCSesLostUA`. `MCChannels` loses
  ACK, the request whose loss a 200 never sent again makes final.
- Nothing is assumed about when callers repeat INVITE or calls are given up.
  A call whose INVITE was sent once (`AskedOnce`) is found for as long as it
  lasts (`BusyIsFound`); one asked for again need not be, which is the violation
  `MCChanLate` shows. `RouteKept` holds for both.
- `ModemCall`: a packet that arrives is heard as it was sent (line noise is
  signal processing); the caller of V.32 talks to `StandardModem`, whose V.8 is like
  this program's.
- `MaxFlight`, `MaxLate`, `MaxDup`, `MaxLead`, `MaxLag`, `MaxOver`: how far a
  network reorders and how far two 20 ms clocks part.

Fairness. Playout ticks: the media loop's deadline always comes while the call
is up. V.42: every media pass advances timers, pumps frames, delivers and
reads; writers and losses owe nothing. Channels: threads go on with a pass they
have begun and take a message that waits, the dispatcher reads what has
arrived, and a call without ACK times out (strongly fair, since the pass is
elsewhere in between); far ends, terminal and training owe nothing. Modem
calls: weak fairness of the turn, since each end's media pass comes every 20 ms as
long as the process runs; terminals, late packets, gaps and retrain requests owe nothing.

## 4. Proofs

All are for every value of the constants, from the assumptions named in the
modules and nothing else.

- `JitterProofs`: `BufferInvariant`, `BufferTypes`, `BufferCount`. The
  inductive invariant `IInv` joins the types with `queued = Cardinality(Held)`:
  neither stands alone, since the count stays a natural number only while it is
  the number of slots in use. Assumes that the ring, the number space, the
  threshold and the gap delay are positive.
- `MediaStreamProofs`: `StreamInvariant`, `StreamTypes`, `StreamCount`, and the
  refinement `StreamPlaysInOrder`. `SInv` adds that the cursor is the number of
  position `pos` and every held packet carries the number of its own position;
  that two positions of one call never share a number (`Seq16Unique`, from
  `ModArithmetic`) is what makes a comparison of numbers one of positions.
  `GapsAreLosses` and `WaitingMediaStays` prove the two action properties.
  They need `KInv`: which slot a held packet is in, and that on a path that
  keeps the order nothing behind the newest arrival is still on its way.
  `WaitingMediaStays` assumes `RingIsWideEnough`: reordering by less than a
  ring, and a ring size that divides the number space, as 128 does 65536.
  Otherwise two positions less than a ring apart could meet in a slot.
- `V42ArqProofs`: `ArqInvariant`, `ArqTypes`, `ArqKeepsOutstanding`. The
  invariant says that no more than a window of chunks is unacknowledged and that
  the chunks kept are exactly those from V(A) up to V(S). It
  holds against any peer, so a wrong or stale N(R) loses nothing.
- `V42SessionProofs`: `SessionTypes`, `AcknowledgedMeansReceived`,
  `SomethingMovesIt`, `WindowsAreAgreed`, `LossesAreSurvived`, and the
  refinements `AnswererReadsInOrder` and `OriginatorReadsInOrder` of
  `OrderedPipe` (the run `MCSesTransfer` checks the first; the second is the
  same promise for the other line): every invariant of the sessions' runs. `SessionInv` has three
  parts besides the types. `Handshake` says, for each phase an end can be in,
  what its peer can be in and which XID, SABME and UA can be on the line.
  `FlowInv` gives every number its position in the stream: what V(A), the send
  cursor, V(S) and V(R) stand for, that every I frame on the line carries the
  chunk of its position and every N(R) a position from V(A) up to V(R), and that
  what is on the line lies within a window, so that numbers modulo M are never
  ambiguous. `NoneStranded` says that T401 runs when all that is
  unacknowledged has been sent.
  For these, nothing is assumed about which frames are lost, about T401 or about
  the writers; only `SessionAssumption` (windows below the modulus).
  `LossesAreSurvived` (`NeverGivesUp`) assumes `Bearable`, each part of which it needs:
  T401 outlasts a round trip (`Prompt`, which the fixed 1000 ms do not guarantee, see
  section 3); no more frames are lost than there are retries;
  the UA is not lost (`MCSesLostUA` shows what happens otherwise); and the receive
  ring takes all that is written. Past a full ring whose reader is slow, T401
  fires without any loss, and the sender fails after its last retry.
  `MCSesDelivery` runs under the same hypotheses. The argument is that every retry
  is paid for by a loss of its own. During XID and SABME/UA there is at most one
  frame at a time, held, on the line or owed as the answer, and while there is one,
  T401 cannot run out (`Stages`). During the transfer, a direction that has used as
  many retries as frames were lost is intact (`Paying`, `Sound`): the chunks on the
  line followed by those from the send cursor on leave none out, and if anything is
  unacknowledged when all has been sent, an acknowledgement of all the peer has is
  owed or on its way. A sound direction with nothing on the line has
  nothing unacknowledged (`SoundIsDone`), so when T401 does run out, an unpaid loss remains.
- `ChannelsProofs`: `ChannelTypes`, `TerminalFollowsCall`, `BusyChannelIsFound`
  and `CallKeepsRoute`, for any pool, calls and sockets, with no hypothesis on
  callers, terminals or timers. What a pass can do to its call and route is one of
  four things (`PassOutcome`: it keeps the call, frees it, dials, or rings).
  `RouteInv` says that a busy channel has a dialog, that a dialled call owns its
  route, that no two channels have one call's route, and that the route of a
  number drawn by ATD names no number still to be drawn. `SentOnce` follows the
  one INVITE of a call that was asked for once from the network to the dispatcher
  to the channel's socket: it is in one place, from the dispatcher on its channel
  has the route, and until it is taken no channel's dialog names the call
  (`Untaken`). The last is what the race of lookup and release needs: a release or
  a dial names the dialog of its own channel, so it cannot touch the route of a
  call whose INVITE is still on its way. With a second INVITE on its way the
  dialog does name the call and the release takes the route (`MCChanLate`).
  `CallKeepsRoute` needs `RouteInv` only and so holds for repeated INVITEs too; its
  one exception is a call being dialled that an INVITE rings over, as
  `main.c:207` looks at `call` and `pending` but not at `dialing`.
- `V34Proofs`: `NegotiationAgrees` and `NegotiationIsBestAllowed`, for every
  pair of MPs: the two ends compute the rates separately, so agreement is the
  symmetry of `v34_mp0_negotiate_rates`. That a set of rates has a highest one, which
  `Max` needs, comes from the well-foundedness of <. Then, as lemmas, what one V.34
  modem keeps (`ModemInv(c, m, S, F)`) when what it hears of Phase 2 is in S and the
  MPs it hears are in F: the INFO1 it has accepted was said, its training uses
  the mode of the two, its rates are those of its own MP and one in F. `Said` and
  `Settled` are what it contributes itself, and no step takes anything out of
  them (`ModemStep`). `SelectedPairIsBest`: of the pairs of symbol rates that both
  directions can use, the answerer's choice in INFO1a has the highest sum of rates
  and, of those, the highest slower rate. Last, how far a modem is in Phase 4
  (`Session4`): it has sent no packet beyond the end of its Phase 4, reaches
  `b1data` only when it has sent and heard all of it, and has put aside nothing but
  silence, if all it was offered meanwhile is silence (`MayHear4`).
- `ModemCallProofs`, for any set of calls: `BothChooseTheSame` (`SameFamily`),
  `ModesAreMirrored` (`ModesMirror`), `RatesAreAgreed` (`RatesAgree`),
  `ReportedRateIsTheUsedOne` (`ReportedRateIsUsed`) and `OnlySilenceIsPutAside`
  (`OnlySilenceWaits`). `CallInv`
  says what a menu on the line contains: the caller's its own offer, the
  answerer's the modes both offer, so each end works out the same joint menu
  though it never hears the other's result; an answerer cannot send a menu before
  it has heard the caller's. No modem sends a menu, in any state, hence the
  final `OTHER` in the `Generate` operators, which is the code's final branch.
  `DataInv` says that each modem has `ModemInv` against what the other end has
  `Told` and `Agreed` by now, and that so does every packet on the line; a packet
  sent earlier stays good because both sets only grow, so neither the delay nor a
  late packet matters. `RateInv`, for the rate of CONNECT: every V.32 rate word on
  the line, R1 or R3, of this program or the far end, has the same highest rate in
  common with what the receiver may use (`JointRate`), so retraining cannot change
  the rate, however often and from whichever end; a V.32 end that faces no V.32
  modem never gets past its tones. With V.34 the rate told from Phase 2 is the
  slower direction of the mode, the modes mirror each other, and MP, whose masks
  hold every rate up to the configured speed, leaves the slower one alone. No
  packet count enters.
  `WaitInv`, for what waits: it counts Phase 4 at either end and on the line. The
  line carries its packets in rising order, behind one of them only Phase 4, B1,
  data and silence, and nothing of the link before the end it goes to has sent all
  of its own Phase 4. An end that has heard all of Phase 4 has heard all that the
  other has sent (`AllHeard`, from the mirrored symbol rates), so the next thing it
  can hear before it has finished itself is silence (`HeadWaits`). Assumes
  `SetupsAssumption`: known families, delays of a packet or more, speeds that are
  natural numbers.

A packet of Phase 2 is four quanta (`QuantaPerPacket`) that the model folds over
the receiver, and Phase 4 ends with a fold over the packets put aside. An
induction over such data is out of the prover's reach as a library theorem takes
the induction hypothesis as an operator; `V34Proofs` goes round it: `FoldsTrace` gives
a fold's intermediate values as a function on the naturals, and the set of
indices at which the invariant holds is closed under successor
(`NatSetInduction`, from the well-foundedness of <).

Model-checked only. All liveness: the prover reasons neither about fairness nor
about ENABLED. `ByeFreesChannel`, whose leads-to is liveness.
In `ModemCall`, `RoundTripMeasured` and `WorkableNeverFails` depend on how many
packets each stage lasts against the delay, quantum by quantum, for which there
is no short invariant. Its `TypeOK` bounds the line and the chunks by
constants of the checked calls. `Ordered` holds for the calls of the run and not
for every call: with V.32, and without LAPM, what the data pump holds when retraining begins
is lost. No module uses RECURSIVE operators.

## 5. Not modelled

Signal processing, coding and CRCs (real-valued or stateless, with unit tests of
their own); SIP and SDP text; AT line editing, result texts and echo; INVITEs
sent again while dialling; CANCEL, which the program ignores; process start,
signals and shutdown; packets of a foreign RTP stream; reordering within one
SIP call; `at.c`'s rings left over from a call given up.

V.21, V.22 and V.22bis have no control of their own beyond a handshake of five
events that signal processing reports. The V.32 start-up without
`v32_session_start_standard`, with the state machine of `v32_retrain.c`, is
reached from tests only. The bit and frame rings of `v42_stream.c` are left out:
their loss is the loss that `V42Session` already has, and after V.8 the program never
uses LAPM (`main.c:163` does not offer it).

Left to do:

1. `Ordered` proved for V.34 calls along the lines of `WaitInv`: the chunks on
   the line are those written and not yet taken, in order.
2. Writing at V.32bis while the modem retrains (`v32_session.c:825`), with the
   promise of `README.md:53-54` as the property.
3. `V42Stream` under `V42Session`'s ends; FAILED that nobody reports.
