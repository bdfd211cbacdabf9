----------------------------- MODULE MCChipsBus -----------------------------
(***************************************************************************)
(* ChipsBus with two registers: one whole, which block and FIFO calls may  *)
(* reach, and one that is written whole and read through a mask of its     *)
(* upper bit.  Under every fault the first may only be read.               *)
(***************************************************************************)
EXTENDS ChipsBus

Plain   == [addr |-> "a", mask |-> {0, 1}, read |-> TRUE, write |-> TRUE]
Status  == [addr |-> "a", mask |-> {0, 1}, read |-> TRUE, write |-> FALSE]
Control == [addr |-> "b", mask |-> {1}, read |-> TRUE, write |-> TRUE]

MCRegisters == {"a", "b"}
MCItems     == {Plain, Control}
FaultItems  == {Status, Control}
MCData      == {{0, 1}}
MCWholeMask == {0, 1}
=============================================================================
