--------------------------- MODULE BufferSelector ---------------------------
(***************************************************************************)
(* The multi-buffer bookkeeping of the IPbus UDP core,                     *)
(* HDLs/IPbus/udp_buffer_selector.vhd.  A packet RAM is split into NBuf    *)
(* buffers (2**BUFWIDTH in the code).  A writer fills the buffer at        *)
(* write_sig, a reader empties the one at send_sig, and both pointers walk *)
(* the ring on their own.                                                  *)
(*                                                                         *)
(* Every process of the entity is clocked by mac_clk and reads the values  *)
(* the signals had before the edge, so one rising edge is one action,      *)
(* Clock, whose parameters are the values of the input ports at the edge.  *)
(* The three bit vectors of the code are the sets of the buffers whose bit *)
(* is '1'.                                                                 *)
(***************************************************************************)
EXTENDS Naturals

CONSTANT NBuf       \* 2**BUFWIDTH

ASSUME NBufAssumption == NBuf \in Nat \ {0}

VARIABLES
    free,           \* buffers the writer may take
    clean,          \* buffers holding one whole packet, so fit for a resend
    send_pending,   \* buffers waiting to be sent, or being sent
    write_sig,      \* the buffer under the writer
    send_sig,       \* the buffer under the reader
    sending,        \* the reader is working on send_sig
    busy,           \* the writer has no buffer yet
    req_send        \* one-clock pulse that starts the reader

selVars == <<free, clean, send_pending, write_sig, send_sig, sending, busy,
             req_send>>

Buffers == 0 .. NBuf - 1

\* Mutated form, to test the properties: the pointer does not wrap.
NextBufNoWrap(b) == b + 1

NextBuf(b) == IF b = NBuf - 1 THEN 0 ELSE b + 1

SelTypeOK ==
    /\ free \subseteq Buffers
    /\ clean \subseteq Buffers
    /\ send_pending \subseteq Buffers
    /\ write_sig \in Buffers
    /\ send_sig \in Buffers
    /\ sending \in BOOLEAN
    /\ busy \in BOOLEAN
    /\ req_send \in BOOLEAN

\* The registers after rst_macclk.
SelInit ==
    /\ free = Buffers
    /\ clean = {}
    /\ send_pending = {}
    /\ write_sig = 0
    /\ send_sig = 0
    /\ sending = FALSE
    /\ busy = TRUE
    /\ req_send = FALSE

-----------------------------------------------------------------------------
\* The buffers this edge hands to the reader: the one just written, and the
\* one a resend asks for, provided it is clean.
Taken(written, resend) ==
    {b \in Buffers : (written /\ b = write_sig) \/ (b \in resend /\ b \in clean)}

\* The buffer this edge gives back; applied after Taken, so it wins.
Released(sent) == {b \in Buffers : sent /\ b = send_sig}

\* Mutated form: the buffer just sent is not given back.
FreeBlockLeaks(written, sent, resend) == free' = free \ Taken(written, resend)

FreeBlock(written, sent, resend) ==
    free' = (free \ Taken(written, resend)) \cup Released(sent)

\* Mutated form: a buffer stays clean while it is written over.
CleanBlockStale(written, we) ==
    clean' = IF written THEN clean \cup {write_sig} ELSE clean

CleanBlock(written, we) ==
    clean' = IF written THEN clean \cup {write_sig}
             ELSE IF we THEN clean \ {write_sig}
             ELSE clean

\* Mutated form: elsif in place of the second if.
SendPendingBlockElsif(written, sent, resend) ==
    send_pending' = IF sent THEN send_pending \ Released(sent)
                    ELSE send_pending \cup Taken(written, resend)

\* Mutated form: a resend takes the buffer, but does not have it sent.
SendPendingBlockNoResend(written, sent, resend) ==
    send_pending' = (send_pending \cup Taken(written, {})) \ Released(sent)

SendPendingBlock(written, sent, resend) ==
    send_pending' = (send_pending \cup Taken(written, resend)) \ Released(sent)

\* Mutated form: the writer is let go before its buffer is free.
BusyBlockUnchecked(written) == busy' = IF busy THEN FALSE ELSE written

BusyBlock(written) ==
    busy' = IF busy /\ write_sig \in free THEN FALSE ELSE busy \/ written

ReqSendBlock(sent) ==
    /\ req_send' = (~sending /\ send_sig \in send_pending)
    /\ sending' = (req_send' \/ (sending /\ ~sent))

WriteBlock ==
    write_sig' = IF busy /\ write_sig \notin free THEN NextBuf(write_sig)
                 ELSE write_sig

\* Mutated form: the reader's pointer moves on although a packet waits there.
SendBlockRunsOn == send_sig' = IF ~sending THEN NextBuf(send_sig) ELSE send_sig

SendBlock ==
    send_sig' = IF ~sending /\ send_sig \notin send_pending
                THEN NextBuf(send_sig)
                ELSE send_sig

\* One rising edge of mac_clk.  resend is {} when req_resend is '0' and
\* {resend_buf} when it is '1'.
Clock(written, we, sent, resend) ==
    /\ FreeBlock(written, sent, resend)
    /\ CleanBlock(written, we)
    /\ SendPendingBlock(written, sent, resend)
    /\ BusyBlock(written)
    /\ ReqSendBlock(sent)
    /\ WriteBlock
    /\ SendBlock

=============================================================================
