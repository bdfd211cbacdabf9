-------------------------- MODULE MCClockCrossing --------------------------
(***************************************************************************)
(* ClockCrossing with two buffers each way, requests that run round the    *)
(* receive RAM, and bus edges three to five MAC edges apart: 31.25 and 125 *)
(* MHz at any phase.                                                       *)
(***************************************************************************)
EXTENDS ClockCrossing
=============================================================================
