----------------------------- MODULE MCChannels -----------------------------
(* One or two channels; at most two calls from outside and two dialled.    *)
EXTENDS Channels

CONSTANTS c1, c2, o1, o2
=============================================================================
