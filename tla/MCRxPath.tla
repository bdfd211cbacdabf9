------------------------------ MODULE MCRxPath ------------------------------
(***************************************************************************)
(* RxPath with few, short frames: enough of them to fill the RAM, lose a   *)
(* request and wrap round the ring.                                        *)
(***************************************************************************)
EXTENDS RxPath
=============================================================================
