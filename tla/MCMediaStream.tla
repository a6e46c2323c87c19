--------------------------- MODULE MCMediaStream ---------------------------
(***************************************************************************)
(* Instances of MediaStream.  The streams start three numbers before the   *)
(* sequence space wraps, on rings that the stream laps at least once.      *)
(***************************************************************************)
EXTENDS MediaStream
=============================================================================
