------------------------------ MODULE V42ArqEnd ------------------------------
(***************************************************************************)
(* One end of the ARQ against any peer at all: frames of every kind and    *)
(* number, in any order, between writes, reads, transmissions and T401     *)
(* expiries of its own in any order.                                       *)
(***************************************************************************)
EXTENDS V42Arq

CONSTANT Windows   \* the windows that may have been negotiated

ASSUME WindowsAssumption == Windows \subseteq 1 .. M - 1

VARIABLE arq

TypeOK == arq \in ArqRecord(Windows)

Init == \E w \in Windows : arq = NewArq(w)

WriteChunk  == \E d \in Data : CanWrite(arq) /\ arq' = Write(arq, d)
ReadChunk   == CanRead(arq) /\ arq' = Read(arq)
Transmit    == HasFrame(arq) /\ arq' = SendNext(arq)
AnyFrame    == \E f \in IFrame \cup SFrame : arq' = Receive(arq, f)
T401Expires == CanExpire(arq) /\ ~arq.failed /\ arq' = Expire(arq)

Next == WriteChunk \/ ReadChunk \/ Transmit \/ AnyFrame \/ T401Expires

Spec == Init /\ [][Next]_arq

(***************************************************************************)
(* No peer, however it numbers its frames, can make the sender lose or     *)
(* overwrite a chunk it may have to send again: the chunks kept are        *)
(* exactly those from V(A) up to V(S), and never more than the window.     *)
(***************************************************************************)
OutstandingKept ==
    /\ Unacked(arq) <= arq.window
    /\ \A n \in Num : arq.tx[n] # NoChunk <=> Dist(arq.va, n) < Unacked(arq)

==============================================================================
