---------------------------- MODULE MCV42ArqEnd ----------------------------
(* One end of the ARQ against any peer, numbers modulo four, every window. *)
EXTENDS V42ArqEnd
=============================================================================
