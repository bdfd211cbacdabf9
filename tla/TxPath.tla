------------------------------- MODULE TxPath -------------------------------
(***************************************************************************)
(* The path of an IPbus reply from the transactor to the Ethernet MAC, and *)
(* the resend of a reply that the client misses: the transmit RAM with its *)
(* buffer selector, udp_txtransactor_if_simple.vhd, and the multiplexer    *)
(* that shares the MAC with the internal RAM, as wired in udp_if_flat.vhd. *)
(* One action is one rising edge of mac_clk.                               *)
(*                                                                         *)
(* Requests are numbered as the reliable packet ids number them.  A reply  *)
(* is represented in the RAM by the number of its request, in two parts:   *)
(* the header, which carries the id, and the rest.  The transactor and the *)
(* clock crossing are represented by when they write; the client by the    *)
(* window it keeps, and by asking again for replies it has not got.        *)
(***************************************************************************)
EXTENDS BufferSelector, TxMux, Sequences

CONSTANTS
    LastByteWaits,  \* the MAC may keep the last byte of a packet waiting
    Window,         \* requests the client lets be unanswered
    MaxId,          \* bound: requests in a behaviour
    MaxResends      \* bound: resend requests in a behaviour

ASSUME TxAssumption == /\ LastByteWaits \in BOOLEAN
                       /\ Window \in Nat \ {0}
                       /\ MaxId \in Nat
                       /\ MaxResends \in Nat
                       /\ UdpEnd = 1

VARIABLES
    ram,            \* transmit RAM: buffer -> the reply each part belongs to
    wr,             \* what the transactor is doing: see WriterStates
    we_buf,         \* the two synchronising registers of we; the 2nd is we_125
    done,           \* replies completed
    pkt_id_buf,     \* the id last sent from each buffer
    ipbus_out,      \* id of ipbus_out_hdr while ipbus_out_valid is '1', or 0
    req_resend,     \* registered pulse: resend_buf is to be sent again
    resend_buf,
    req_not_found,  \* registered pulse: no buffer holds the reply asked for
    udpram_sent,    \* registered pulse: udpram_busy has fallen
    last_udpram_busy

VARIABLES           \* the selector of the internal RAM
    i_free, i_clean, i_send_pending, i_write_sig, i_send_sig, i_sending, i_busy,
    i_req_send

VARIABLES
    requested,      \* client: the newest request sent
    got,            \* client: replies that have reached it
    resends,        \* client: resend requests sent
    wire,           \* history: the reply each part of the packet on the wire is of
    transmitted,    \* history: replies that went out whole
    asked,          \* history: the id of the resend request looked up last clock, or 0
    lengths,        \* history: lengths of the packets in the internal RAM, in order
    i_order         \* history: and their buffers

iVars      == <<i_free, i_clean, i_send_pending, i_write_sig, i_send_sig,
                i_sending, i_busy, i_req_send>>
replyVars  == <<ram, wr, we_buf, done, pkt_id_buf, ipbus_out, req_resend,
                resend_buf, req_not_found, udpram_sent, last_udpram_busy>>
clientVars == <<requested, got, resends>>
txHistory  == <<wire, transmitted, asked, lengths, i_order>>
txVars     == <<selVars, muxVars, iVars, replyVars, clientVars, txHistory>>

\* internal_ram_selector.
Internal == INSTANCE BufferSelector WITH
           NBuf <- NInt, free <- i_free, clean <- i_clean,
           send_pending <- i_send_pending, write_sig <- i_write_sig,
           send_sig <- i_send_sig, sending <- i_sending, busy <- i_busy,
           req_send <- i_req_send

Ids          == 1 .. MaxId
WriterStates == {"idle", "start", "hdr", "rest"}
Parts        == [hdr : 0 .. MaxId, rest : 0 .. MaxId]
Nothing      == [hdr |-> 0, rest |-> 0]

TxInit ==
    /\ SelInit /\ MuxInit /\ Internal!SelInit
    /\ ram = [b \in Buffers |-> Nothing]
    /\ wr = "idle" /\ we_buf = <<FALSE, FALSE>> /\ done = 0
    /\ pkt_id_buf = [b \in Buffers |-> 0] /\ ipbus_out = 0
    /\ req_resend = FALSE /\ resend_buf = 0 /\ req_not_found = FALSE
    /\ udpram_sent = FALSE /\ last_udpram_busy = FALSE
    /\ requested = 0 /\ got = {} /\ resends = 0
    /\ wire = Nothing /\ transmitted = {} /\ asked = 0
    /\ lengths = <<>> /\ i_order = <<>>

-----------------------------------------------------------------------------
\* The transactor's side.  A reply is begun when the crossing shows busy = '0'.
\* The bus clock is so slow that we_125 is up before the first word is in the
\* RAM, and down again before tx_ram_written.
we_125         == we_buf[2]

WriterStep(next, contents) ==
    /\ wr' = next
    /\ ram' = [ram EXCEPT ![write_sig] = contents]

Idle   == UNCHANGED <<wr, ram>>
Begin  == wr = "idle" /\ ~busy /\ done < requested /\ WriterStep("start", ram[write_sig])
Header == wr = "start" /\ we_125
          /\ WriterStep("hdr", [ram[write_sig] EXCEPT !.hdr = done + 1])
Rest   == wr = "hdr" /\ WriterStep("rest", [ram[write_sig] EXCEPT !.rest = done + 1])
Finish == wr = "rest" /\ ~we_buf[1] /\ ~we_125 /\ WriterStep("idle", ram[write_sig])

Writer(written) ==
    /\ IF written THEN Finish ELSE Idle \/ Begin \/ Header \/ Rest
    /\ we_buf' = <<wr \in {"start", "hdr"}, we_buf[1]>>
    /\ done' = IF written THEN done + 1 ELSE done

\* pkt_id_block: the id is noted as the header is sent.  Mutated form: for the
\* buffer under the writer.
pkt_id_block_writer ==
    pkt_id_buf' = IF ipbus_out # 0 THEN [pkt_id_buf EXCEPT ![write_sig] = ipbus_out]
                  ELSE pkt_id_buf

pkt_id_block ==
    pkt_id_buf' = IF ipbus_out # 0 THEN [pkt_id_buf EXCEPT ![send_sig] = ipbus_out]
                  ELSE pkt_id_buf

\* resend_block.  id is resend_pkt_id while pkt_resend is '1', and 0 otherwise;
\* of several buffers the last one is taken.
resend_block(id) ==
    LET matches == {b \in clean : id # 0 /\ pkt_id_buf[b] = id}
    IN  /\ req_resend' = (matches # {})
        /\ req_not_found' = (id # 0 /\ matches = {})
        /\ resend_buf' = IF matches = {} THEN 0
                         ELSE CHOOSE b \in matches : \A c \in matches : c <= b

sent_block ==
    /\ udpram_sent' = (last_udpram_busy /\ ~udpram_busy)
    /\ last_udpram_busy' = udpram_busy

\* The parts of the packet as the multiplexer reads them, and do_ipbus_hdr.
ReadRam(mac_tx_ready) ==
    LET reads == state = 5 /\ udpram_active /\ taken(mac_tx_ready)
    IN  /\ wire' = IF state = 1 THEN Nothing
                   ELSE IF reads /\ addr = 0 THEN [wire EXCEPT !.hdr = ram[send_sig].hdr]
                   ELSE IF reads THEN [wire EXCEPT !.rest = ram[send_sig].rest]
                   ELSE wire
        /\ ipbus_out' = IF reads /\ addr = 0 THEN ram[send_sig].hdr ELSE 0

\* The client.  It sends a request only while fewer than Window of those before
\* are unanswered, and asks again for any reply it has not got.  A packet sent
\* may reach it at any time or never.
Request == /\ requested < MaxId
           /\ \A n \in Ids : n + Window <= requested + 1 => n \in got
           /\ requested' = requested + 1
           /\ UNCHANGED <<got, resends>>

Receive == \E n \in transmitted \ got : /\ got' = got \cup {n}
                                        /\ UNCHANGED <<requested, resends>>

AskAgain(id) == /\ id \in (1 .. requested) \ got
                /\ resends < MaxResends
                /\ resends' = resends + 1
                /\ UNCHANGED <<requested, got>>

Client(id) ==
    IF id # 0 THEN AskAgain(id)
    ELSE Request \/ Receive \/ UNCHANGED clientVars

\* length is that of a packet completed in the internal RAM, whose writer
\* (udp_rxram_mux.vhd) keeps off while that RAM is busy, or 0.
InternalRam(length) ==
    /\ length # 0 => ~i_busy
    /\ Internal!Clock(length # 0, FALSE, rxram_sent, {})
    /\ input_block(i_write_sig, length # 0, length)
    /\ output_block(i_req_send, i_send_sig)
    /\ busy_block
    /\ LET Passed(q, item) == LET kept == IF rxram_sent THEN Tail(q) ELSE q
                              IN  IF length # 0 THEN Append(kept, item) ELSE kept
       IN  lengths' = Passed(lengths, length) /\ i_order' = Passed(i_order, i_write_sig)

TxClock(written, id, length, mac_tx_ready) ==
    /\ state = 7 /\ ~LastByteWaits => mac_tx_ready
    /\ Writer(written)
    /\ Client(id)
    /\ InternalRam(length)
    /\ Clock(written, we_125, udpram_sent, {b \in {resend_buf} : req_resend})
    /\ pkt_id_block /\ resend_block(id) /\ sent_block
    /\ rx_event /\ udp_event(req_send) /\ state_machine(mac_tx_ready)
    /\ ReadRam(mac_tx_ready)
    /\ transmitted' = IF state = 6 /\ taken(mac_tx_ready) /\ wire.hdr = wire.rest
                      THEN transmitted \cup ({wire.hdr} \ {0})
                      ELSE transmitted
    /\ asked' = id

TxNext ==
    \E written, mac_tx_ready \in BOOLEAN, id \in 0 .. MaxId,
       length \in IntLengths \cup {0} :
        TxClock(written, id, length, mac_tx_ready)

TxSpec == TxInit /\ [][TxNext]_txVars

\* mac_clk never stops, the MAC takes what it is offered, and the transactor
\* finishes what it began.
TxFairSpec ==
    /\ TxSpec
    /\ WF_txVars(\E w \in BOOLEAN, i \in 0 .. MaxId, l \in IntLengths \cup {0} :
                     TxClock(w, i, l, TRUE))

-----------------------------------------------------------------------------
TxTypeOK ==
    /\ SelTypeOK /\ MuxTypeOK /\ Internal!SelTypeOK
    /\ ram \in [Buffers -> Parts]
    /\ wr \in WriterStates
    /\ we_buf \in BOOLEAN \X BOOLEAN
    /\ done \in 0 .. MaxId
    /\ pkt_id_buf \in [Buffers -> 0 .. MaxId]
    /\ ipbus_out \in 0 .. MaxId
    /\ {req_resend, req_not_found, udpram_sent, last_udpram_busy} \subseteq BOOLEAN
    /\ resend_buf \in Buffers
    /\ requested \in 0 .. MaxId
    /\ got \subseteq Ids
    /\ resends \in 0 .. MaxResends
    /\ wire \in Parts
    /\ transmitted \subseteq Ids
    /\ asked \in 0 .. MaxId

\* A packet that leaves is one reply, never parts of two: the transactor does
\* not write into the buffer that is being sent.
WireWhole == state \in {6, 7} => wire.hdr = wire.rest

\* A reply that was completed has gone out, or waits whole to go out.
NoReplyLost ==
    \A n \in 1 .. done :
        n \in transmitted
        \/ \E b \in send_pending : ram[b] = [hdr |-> n, rest |-> n]

\* What a resend request finds is the reply it asked for, or one that is going
\* out anyway.
ResendMatches ==
    req_resend => (ram[resend_buf].hdr = asked \/ resend_buf \in send_pending)

\* The multiplexer sends only what a selector gave it: no packet twice, none
\* after its buffer was given back.
SendsWhatIsPending ==
    /\ udpram_active => (sending /\ send_sig \in send_pending)
    /\ rxram_active => (i_sending /\ i_send_sig \in i_send_pending)

\* A packet of the internal RAM ends where its own length says, although the
\* length travels apart from it.
InternalOwnLength ==
    (rxram_active /\ state = 6) => (lengths # <<>> /\ end_addr = Head(lengths))

\* All of these: the multiplexer finds neither an old flag nor an old length.
MuxInv == TxTypeOK /\ SendsWhatIsPending /\ InternalOwnLength

\* Every reply completed goes out, whatever the internal RAM has to send: again
\* and again there is none left.
EveryReplySent == []<>(1 .. done \subseteq transmitted)

\* A reply that was asked for again and found is sent again, unless it was
\* being sent when it was asked for.
ResendIsSent ==
    \A b \in Buffers :
        (req_resend /\ resend_buf = b /\ ~(sending /\ send_sig = b))
            ~> (udpram_active /\ send_sig = b)

\* Both: a reply goes out, and once more when it was asked for again.
RepliesGoOut == EveryReplySent /\ ResendIsSent

=============================================================================
