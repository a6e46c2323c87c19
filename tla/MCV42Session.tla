---------------------------- MODULE MCV42Session ----------------------------
(***************************************************************************)
(* Instances of V42Session.  Numbers run modulo four with windows up to    *)
(* three, the largest the code admits, and more chunks than numbers.       *)
(***************************************************************************)
EXTENDS V42Session

\* The window sizes each end asks for.
EvenWindows == [e \in Ends |-> [k_tx |-> 2, k_rx |-> 2]]
FullWindows == [e \in Ends |-> [k_tx |-> 3, k_rx |-> 3]]
MixedWindows ==
    [e \in Ends |-> IF e = "orig" THEN [k_tx |-> 3, k_rx |-> 1] ELSE [k_tx |-> 2, k_rx |-> 2]]

\* The chunks each end writes.
OneWay   == [e \in Ends |-> IF e = "orig" THEN 5 ELSE 0]
BothWays == [e \in Ends |-> IF e = "orig" THEN 4 ELSE 1]
Silent   == [e \in Ends |-> 0]
=============================================================================
