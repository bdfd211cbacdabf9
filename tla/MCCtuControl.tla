---------------------------- MODULE MCCtuControl ----------------------------
(***************************************************************************)
(* CtuControl with packets of at most two words, so that a transfer of     *)
(* three takes two of them, and an address table of the trigger FIFO, the *)
(* register behind it, which here may be written as a block too, and one   *)
(* under a mask.                                                           *)
(***************************************************************************)
EXTENDS CtuControl

MCItems == {[addr |-> 0, masked |-> FALSE, read |-> TRUE, write |-> TRUE],
            [addr |-> 1, masked |-> FALSE, read |-> FALSE, write |-> TRUE],
            [addr |-> 2, masked |-> TRUE, read |-> TRUE, write |-> TRUE]}

\* Nothing, and an assertion that a block writes to the second address and a FIFO
\* write takes back.
MCDataLists == {<<>>, <<0, 1, 0>>}
=============================================================================
