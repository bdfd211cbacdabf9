------------------------------ MODULE MCTxPath ------------------------------
(***************************************************************************)
(* TxPath on small rings, with the internal RAM quiet or with packets of   *)
(* two lengths in it.                                                      *)
(***************************************************************************)
EXTENDS TxPath

MCNoLengths == {}
MCLengths   == {1, 2}
=============================================================================
