----------------------------- MODULE BufferRing -----------------------------
(***************************************************************************)
(* The buffer selector as the two receive-side instances of                *)
(* udp_if_flat.vhd use it (internal_ram_selector and rx_ram_selector, both *)
(* with req_resend tied to '0'), and what it owes its writer and reader:   *)
(* no buffer is owned by both, and packets leave in the order of arrival.  *)
(*                                                                         *)
(* The surroundings keep two rules.  written is pulsed only while busy is  *)
(* '0': udp_rxtransactor_if and udp_rxram_mux both drop a packet that met  *)
(* busy.  sent is pulsed only while the reader has a buffer, once for each *)
(* req_send.                                                               *)
(***************************************************************************)
EXTENDS BufferSelector, Sequences

CONSTANT None

ASSUME NoneAssumption == None \notin Buffers

VARIABLE order      \* history: buffers written and not yet sent, oldest first

ringVars == <<selVars, order>>

RingInit ==
    /\ SelInit
    /\ order = <<>>

Tick(written, we, sent) ==
    /\ written => ~busy
    /\ sent => sending
    /\ Clock(written, we, sent, {})
    /\ order' = LET kept == IF sent THEN Tail(order) ELSE order
                IN  IF written THEN Append(kept, write_sig) ELSE kept

RingNext == \E written, we, sent \in BOOLEAN : Tick(written, we, sent)

RingSpec == RingInit /\ [][RingNext]_ringVars

\* mac_clk never stops, and the reader finishes every packet it is given
\* (transactor_if always reaches ST_DONE, udp_tx_mux always runs to the last
\* byte), whatever the writer does meanwhile.
ReaderFinishes == \E written, we \in BOOLEAN : Tick(written, we, TRUE)

RingFairSpec ==
    RingSpec /\ WF_ringVars(RingNext) /\ WF_ringVars(ReaderFinishes)

-----------------------------------------------------------------------------
RingTypeOK ==
    /\ SelTypeOK
    /\ order \in Seq(Buffers)

\* free and send_pending are set and cleared by two separate processes: they
\* stay complements of each other, even when written and sent meet on an edge.
FreeOrPending == free = Buffers \ send_pending

\* A buffer offered to the writer (busy = '0') is free: what the writer puts
\* in it disturbs no packet still to be sent.
WriterOwnsFreeBuffer == ~busy => write_sig \in free

\* The packet being sent is the oldest one not yet sent.  Each pointer scans
\* the ring on its own, one buffer per clock, and yet neither can overtake.
SendsOldest == sending => (order # <<>> /\ send_sig = Head(order))

\* Every packet written is waiting to be sent exactly once, and nothing else is.
PendingIsOrder ==
    /\ send_pending = {order[i] : i \in 1 .. Len(order)}
    /\ \A i, j \in 1 .. Len(order) : order[i] = order[j] => i = j

\* A written buffer does not stay unsent for ever.
EveryPacketSent == \A b \in Buffers : b \in send_pending ~> b \notin send_pending

\* The writer does not wait for ever for a buffer.
WriterGetsBuffer == busy ~> ~busy

\* Neither the packets nor the writer starve.
NobodyStarves == EveryPacketSent /\ WriterGetsBuffer

\* The ring implements the queue of whole packets its users rely on.
Fifo == INSTANCE BufferFifo WITH
            Slots <- Buffers,
            queue <- order,
            current <- IF sending THEN send_sig ELSE None

ImplementsFifo == Fifo!FifoSpec

-----------------------------------------------------------------------------
\* The inductive invariant.  Pending buffers are consecutive on the ring; the
\* reader, when looking for work, stands on no pending buffer but the oldest;
\* the writer, when looking for room, stands on a pending buffer or on the one
\* after the newest, which is where it must stop.
Consecutive == \A i \in 1 .. Len(order) - 1 : order[i + 1] = NextBuf(order[i])

ReaderFindsOldest ==
    \A i \in 2 .. Len(order) : send_sig # order[i]

WriterFindsNext ==
    order # <<>> =>
        \/ write_sig = NextBuf(order[Len(order)])
        \/ busy /\ write_sig \in send_pending

RingInv ==
    /\ RingTypeOK
    /\ FreeOrPending
    /\ WriterOwnsFreeBuffer
    /\ SendsOldest
    /\ PendingIsOrder
    /\ Consecutive
    /\ ReaderFindsOldest
    /\ WriterFindsNext

=============================================================================
