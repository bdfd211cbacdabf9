---------------------------- MODULE RegisterFile ----------------------------
(***************************************************************************)
(* Registers as the bus side sees them: what a list of single-register     *)
(* reads and writes does to them and what it answers.  A value is the set  *)
(* of its bits that are 1.                                                 *)
(*                                                                         *)
(* A request element is a record with fields op, item (an entry of the     *)
(* address table) and data.  Of one word, FIFO types do what plain ones do.*)
(***************************************************************************)
EXTENDS Integers, Sequences, SequencesExt, FiniteSetsExt

Reading == {"read", "fiforead"}
Writing == {"write", "fifowrite"}

\* The registers after the first k elements of es: each holds what the last write
\* to it wrote.  A write is a plain write of the whole register; it ignores the
\* mask of the item.
Writes(es, a, k) == {i \in 1 .. k : es[i].op \in Writing /\ es[i].item.addr = a}

After(regs, es, k) ==
    [a \in DOMAIN regs |-> IF Writes(es, a, k) = {} THEN regs[a]
                           ELSE es[Max(Writes(es, a, k))].data]

\* The bodies of the answers to the first k elements: the value read, or nothing.
Bodies(regs, es, k) ==
    [i \in 1 .. k |->
        IF es[i].op \in Reading THEN <<After(regs, es, i - 1)[es[i].item.addr]>>
        ELSE <<>>]

\* AddressTableItem.shiftDataFromMask: the bits under the mask, moved down to bit 0.
shiftDataFromMask(item, data) == {b - Min(item.mask) : b \in data \cap item.mask}

=============================================================================
