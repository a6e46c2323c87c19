------------------------------- MODULE Playout -------------------------------
(***************************************************************************)
(* What a playout buffer promises the modem behind it.  From the packet    *)
(* the call joins at, every position of the sender's stream is accounted   *)
(* for exactly once and in order, either by its own media or by one gap.   *)
(* Nothing is played twice, out of order, or under the wrong position.     *)
(***************************************************************************)
EXTENDS Integers

VARIABLES
    joined,  \* a first packet has been heard
    next,    \* the position the modem hears next
    heard    \* what the last tick gave it

vars == <<joined, next, heard>>

Init == joined = FALSE /\ next = 0 /\ heard = <<"wait">>

Join ==
    /\ ~joined
    /\ joined' = TRUE
    /\ next' \in Nat
    /\ UNCHANGED heard

Hear ==
    /\ joined
    /\ heard' \in {<<"play", next>>, <<"gap">>}
    /\ next' = next + 1
    /\ UNCHANGED joined

Silence == heard' = <<"wait">> /\ UNCHANGED <<joined, next>>

HangUp == joined' = FALSE /\ next' = 0 /\ heard' = <<"wait">>

Next == Join \/ Hear \/ Silence \/ HangUp

Spec == Init /\ [][Next]_vars
==============================================================================
