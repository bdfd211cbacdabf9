----------------------------- MODULE BufferFifo -----------------------------
(***************************************************************************)
(* What a packet RAM promises its two users: a first-in first-out queue of *)
(* at most Capacity whole packets.  A packet is named by the buffer that   *)
(* holds it.  The reader takes the packet at the head, works on it for a   *)
(* while, and only then is its buffer given back; meanwhile the writer may *)
(* add packets, each in a buffer that holds none.                          *)
(***************************************************************************)
EXTENDS Naturals, Sequences

CONSTANTS Slots, None

VARIABLES
    queue,      \* packets held, oldest first
    current     \* the packet the reader works on, or None

fifoVars == <<queue, current>>

Held == {queue[i] : i \in 1 .. Len(queue)}

FifoInit ==
    /\ queue = <<>>
    /\ current = None

\* What the writer does in a step: nothing, or one packet into an empty slot.
Put(q, r) == r = q \/ \E s \in Slots \ Held : r = Append(q, s)

Start ==
    /\ current = None
    /\ queue # <<>>
    /\ current' = Head(queue)
    /\ Put(queue, queue')

Finish ==
    /\ current # None
    /\ queue # <<>>
    /\ current = Head(queue)
    /\ current' = None
    /\ Put(Tail(queue), queue')

Fill ==
    /\ Put(queue, queue')
    /\ UNCHANGED current

FifoNext == Start \/ Finish \/ Fill

FifoSpec == FifoInit /\ [][FifoNext]_fifoVars

=============================================================================
