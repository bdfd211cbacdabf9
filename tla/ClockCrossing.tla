--------------------------- MODULE ClockCrossing ---------------------------
(***************************************************************************)
(* udp_clock_crossing_if.vhd: the handshakes between the packet buffers,   *)
(* which live in the clock of the Ethernet MAC, and the transactor, which  *)
(* lives in the slower clock of the bus, composed with what they connect:  *)
(* the selectors of the receive and of the transmit RAM on one side, the   *)
(* transactor's packet machine and its read side on the other.             *)
(*                                                                         *)
(* There are two actions, the rising edges of the two clocks.  From one    *)
(* bus edge to the next there are MinMac to MaxMac MAC edges.  Edges that  *)
(* fall together are taken in either order, which is what a synchroniser   *)
(* settling to the old or to the new value comes to for one bit.  A buffer *)
(* number has several bits: if it changed at the MAC edge just before, the *)
(* bus clock may sample any value.                                         *)
(*                                                                         *)
(* A shift register is a tuple, its bit 0 first.                           *)
(***************************************************************************)
EXTENDS FallThroughRam, FiniteSets

CONSTANTS
    NBuf,           \* 2**BUFWIDTH
    MinMac,         \* fewest MAC edges from one bus edge to the next
    MaxMac          \* most

ASSUME CrossingAssumption == /\ NBuf \in Nat \ {0}
                             /\ MinMac \in Nat
                             /\ MaxMac \in Nat \ {0}
                             /\ MinMac <= MaxMac
                             /\ Banks = 0 .. NBuf - 1

VARIABLES           \* mac_clk: rx_ram_selector
    r_free, r_clean, r_send_pending, r_write_sig, r_send_sig, r_sending, r_busy,
    r_req_send

VARIABLES           \* mac_clk: tx_ram_selector
    t_free, t_clean, t_send_pending, t_write_sig, t_send_sig, t_sending, t_busy,
    t_req_send

VARIABLES           \* mac_clk: the crossing
    req_send_tff, last_busy, busy_up_tff, busy_down_tff, we_buf,
    pkt_done_read_buf, pkt_done_write_buf, rx_ram_sent, tx_ram_written

VARIABLES           \* ipb_clk: the crossing
    pkt_done_r_tff, pkt_done_w_tff, req_send_buf, pkt_rdy_buf, pkt_rdy,
    busy_up_buf, busy_down_buf, busy_buf, busy,
    rx_read_buf_buf, tx_write_buf_buf, tx_write_buffer

VARIABLES           \* ipb_clk: transactor_if
    tstate,
    rx_next,        \* in ST_BODY: the machine takes a word of the request
    tx_we           \* in ST_BODY: it writes a word of the reply

VARIABLES
    macs,           \* MAC edges since the last bus edge
    moved,          \* the buffer numbers that changed at the last MAC edge
    stage,          \* history: where the request under the reader is
    partial         \* history: buffers with words of an unfinished reply

rxSelVars   == <<r_free, r_clean, r_send_pending, r_write_sig, r_send_sig,
                 r_sending, r_busy, r_req_send>>
txSelVars   == <<t_free, t_clean, t_send_pending, t_write_sig, t_send_sig,
                 t_sending, t_busy, t_req_send>>
macVars     == <<req_send_tff, last_busy, busy_up_tff, busy_down_tff, we_buf,
                 pkt_done_read_buf, pkt_done_write_buf, rx_ram_sent,
                 tx_ram_written>>
ipbVars     == <<pkt_done_r_tff, pkt_done_w_tff, req_send_buf, pkt_rdy_buf,
                 pkt_rdy, busy_up_buf, busy_down_buf, busy_buf, busy,
                 rx_read_buf_buf, tx_write_buf_buf, tx_write_buffer, tstate,
                 rx_next, tx_we, ftVars>>
ccVars      == <<rxSelVars, txSelVars, macVars, ipbVars, macs, moved, stage,
                 partial>>

Rx == INSTANCE BufferSelector WITH
          free <- r_free, clean <- r_clean, send_pending <- r_send_pending,
          write_sig <- r_write_sig, send_sig <- r_send_sig,
          sending <- r_sending, busy <- r_busy, req_send <- r_req_send

Tx == INSTANCE BufferSelector WITH
          free <- t_free, clean <- t_clean, send_pending <- t_send_pending,
          write_sig <- t_write_sig, send_sig <- t_send_sig,
          sending <- t_sending, busy <- t_busy, req_send <- t_req_send

States == {"IDLE", "FIRST", "HDR", "PREBODY", "BODY", "DONE", "GAP"}

Zeros == <<FALSE, FALSE, FALSE>>

\* r(1 downto 0) & b, and the two oldest bits compared.
Shift(r, b) == <<b, r[1], r[2]>>
Edge(r)     == r[3] # r[2]

\* The outputs of the transactor.
pkt_done == tstate = "DONE"
we       == tstate \in {"HDR", "DONE"} \/ (tstate = "BODY" /\ tx_we)
dnext    == tstate \in {"FIRST", "HDR"} \/ (tstate = "BODY" /\ rx_next)
we_125   == we_buf[2]

CcInit ==
    /\ FtInit /\ Rx!SelInit /\ Tx!SelInit
    /\ req_send_tff = FALSE /\ last_busy = FALSE
    /\ busy_up_tff = FALSE /\ busy_down_tff = FALSE
    /\ we_buf = <<FALSE, FALSE>>
    /\ pkt_done_read_buf = Zeros /\ pkt_done_write_buf = Zeros
    /\ rx_ram_sent = FALSE /\ tx_ram_written = FALSE
    /\ pkt_done_r_tff = Zeros /\ pkt_done_w_tff = Zeros
    /\ req_send_buf = Zeros /\ pkt_rdy_buf = Zeros /\ pkt_rdy = FALSE
    /\ busy_up_buf = Zeros /\ busy_down_buf = Zeros
    /\ busy_buf = <<FALSE, FALSE, FALSE, FALSE>> /\ busy = FALSE
    /\ bank = 0 /\ rx_read_buf_buf = 0
    /\ tx_write_buf_buf = 0 /\ tx_write_buffer = 0
    /\ tstate = "IDLE" /\ rx_next = FALSE /\ tx_we = FALSE
    /\ macs = 0 /\ moved = {} /\ stage = "none" /\ partial = {}

-----------------------------------------------------------------------------
\* Rising edge of mac_clk.
\* Mutated form: the level of the toggle for its change.
pkt_done_mac_clk_level ==
    /\ rx_ram_sent' = Edge(pkt_done_read_buf)
    /\ tx_ram_written' = pkt_done_write_buf[3]
    /\ pkt_done_read_buf' = Shift(pkt_done_read_buf, pkt_done_r_tff[3])
    /\ pkt_done_write_buf' = Shift(pkt_done_write_buf, pkt_done_w_tff[3])

pkt_done_mac_clk ==
    /\ rx_ram_sent' = Edge(pkt_done_read_buf)
    /\ tx_ram_written' = Edge(pkt_done_write_buf)
    /\ pkt_done_read_buf' = Shift(pkt_done_read_buf, pkt_done_r_tff[3])
    /\ pkt_done_write_buf' = Shift(pkt_done_write_buf, pkt_done_w_tff[3])

req_send_mac_clk == req_send_tff' = (req_send_tff # r_req_send)

we_mac_clk == we_buf' = <<we, we_buf[1]>>

busy_mac_clk ==
    /\ busy_up_tff' = (busy_up_tff # (t_busy /\ ~last_busy))
    /\ busy_down_tff' = (busy_down_tff # (last_busy /\ ~t_busy))
    /\ last_busy' = t_busy

\* written: pkt_rcvd, pulsed only while the RAM is not busy (RxPath).
\* sent: udpram_sent, pulsed only while a reply is being sent (TxPath).
MacEdge(written, sent) ==
    /\ macs < MaxMac
    /\ written => ~r_busy
    /\ sent => t_sending
    /\ Rx!Clock(written, FALSE, rx_ram_sent, {})
    /\ Tx!Clock(tx_ram_written, we_125, sent, {})
    /\ pkt_done_mac_clk /\ req_send_mac_clk /\ we_mac_clk /\ busy_mac_clk
    /\ macs' = macs + 1
    /\ moved' = {n \in {"rx"} : r_send_sig' # r_send_sig}
                  \cup {n \in {"tx"} : t_write_sig' # t_write_sig}
    /\ stage' = IF r_req_send THEN "offered"
                ELSE IF rx_ram_sent THEN "none"
                ELSE stage
    /\ partial' = IF tx_ram_written THEN partial \ {t_write_sig} ELSE partial
    /\ UNCHANGED ipbVars

-----------------------------------------------------------------------------
\* Rising edge of ipb_clk.
pkt_done_ipb_clk ==
    /\ pkt_done_r_tff' = Shift(pkt_done_r_tff, pkt_done_r_tff[1] # pkt_done)
    /\ pkt_done_w_tff' = Shift(pkt_done_w_tff, pkt_done_w_tff[1] # pkt_done)

req_send_buf_ipb_clk == req_send_buf' = Shift(req_send_buf, req_send_tff)

\* Mutated form: pkt_rdy is not withdrawn by pkt_done.
pkt_rdy_ipb_clk_kept ==
    /\ pkt_rdy_buf' = Shift(pkt_rdy_buf, Edge(req_send_buf) \/ pkt_rdy_buf[1])
    /\ pkt_rdy' = pkt_rdy_buf'[3]

\* pkt_rdy_buf is a variable of the process: pkt_rdy takes its new value.
pkt_rdy_ipb_clk ==
    /\ pkt_rdy_buf' = IF pkt_done THEN Zeros
                      ELSE Shift(pkt_rdy_buf, Edge(req_send_buf) \/ pkt_rdy_buf[1])
    /\ pkt_rdy' = pkt_rdy_buf'[3]

busy_up_down_ipb_clk ==
    /\ busy_up_buf' = Shift(busy_up_buf, busy_up_tff)
    /\ busy_down_buf' = Shift(busy_down_buf, busy_down_tff)

\* Mutated form: a rise and a fall of busy seen together count as a rise.
busy_ipb_clk_elsif ==
    LET raised == pkt_done \/ Edge(busy_up_buf)
        b      == [i \in 1 .. 4 |-> raised \/ busy_buf[i]]
    IN  /\ busy' = b[4]
        /\ busy_buf' = <<b[1] /\ (raised \/ ~Edge(busy_down_buf)), b[1], b[2], b[3]>>

\* So is busy_buf.
busy_ipb_clk ==
    LET raised == pkt_done \/ Edge(busy_up_buf)
        b      == [i \in 1 .. 4 |-> raised \/ busy_buf[i]]
    IN  /\ busy' = b[4]
        /\ busy_buf' = <<b[1] /\ ~Edge(busy_down_buf), b[1], b[2], b[3]>>

\* What is sampled of a buffer number that may be changing.
Sampled(n, value) == IF n \in moved THEN Banks ELSE {value}

buffers_ipb_clk ==
    /\ rx_read_buf_buf' \in Sampled("rx", r_send_sig)
    /\ tx_write_buf_buf' \in Sampled("tx", t_write_sig)
    /\ bank' = rx_read_buf_buf
    /\ tx_write_buffer' = tx_write_buf_buf

\* transactor_if: a request has any contents, so every branch on them is open.
Leads ==
    [IDLE    |-> IF ~dinit /\ ~dinit_d THEN {"FIRST"} ELSE {"IDLE"},
     FIRST   |-> {"HDR", "PREBODY", "DONE"},
     HDR     |-> {"HDR", "PREBODY", "DONE"},
     PREBODY |-> {"PREBODY", "BODY"},
     BODY    |-> {"BODY", "DONE"},
     DONE    |-> {"GAP"},
     GAP     |-> {"IDLE"}]

transactor_if ==
    /\ tstate' \in Leads[tstate]
    /\ rx_next' \in BOOLEAN /\ tx_we' \in BOOLEAN
    /\ tstate' # "BODY" => (~rx_next' /\ ~tx_we')
    /\ dinit' = ~(pkt_rdy' /\ ~busy')
    /\ FtClock(dnext)

IpbEdge ==
    /\ macs >= MinMac
    /\ macs' = 0
    /\ pkt_done_ipb_clk /\ req_send_buf_ipb_clk /\ pkt_rdy_ipb_clk
    /\ busy_up_down_ipb_clk /\ busy_ipb_clk
    /\ buffers_ipb_clk /\ transactor_if
    /\ stage' = IF tstate = "IDLE" /\ tstate' = "FIRST" THEN "begun" ELSE stage
    /\ partial' = IF we THEN partial \cup {tx_write_buffer} ELSE partial
    /\ UNCHANGED <<rxSelVars, txSelVars, macVars, moved>>

CcNext == (\E written, sent \in BOOLEAN : MacEdge(written, sent)) \/ IpbEdge

CcSpec == CcInit /\ [][CcNext]_ccVars

\* Neither clock stops, the MAC sends every reply in the end, and the transactor
\* finishes every request: the packet machine does not stay in a state for ever.
MovesOn == tstate \in {"HDR", "PREBODY", "BODY"} => tstate' # tstate

CcFairSpec ==
    /\ CcSpec
    /\ SF_ccVars(\E written \in BOOLEAN : MacEdge(written, t_sending))
    /\ SF_ccVars(IpbEdge /\ MovesOn)

-----------------------------------------------------------------------------
CcTypeOK ==
    /\ FtTypeOK /\ Rx!SelTypeOK /\ Tx!SelTypeOK
    /\ macs \in 0 .. MaxMac
    /\ rx_read_buf_buf \in Banks /\ tx_write_buf_buf \in Banks
    /\ tx_write_buffer \in Banks
    /\ tstate \in States

start == ~dinit

\* While a packet is offered to the transactor, the buffer numbers on its side
\* are the MAC side's: the request is read from the buffer that was sent, and the
\* reply goes to a buffer its writer owns.
OwnBuffers ==
    start => /\ bank = r_send_sig /\ r_sending /\ r_send_sig \in r_send_pending
             /\ tx_write_buffer = t_write_sig /\ t_write_sig \in t_free
             /\ ~t_busy

\* Both: every register in its range, and what is offered in its own buffer.
CcInv == CcTypeOK /\ OwnBuffers

\* A request is begun once each time it is sent, and given back once each time it
\* was begun; its reply is reported once, by a writer that has a buffer.
CrossOnce ==
    /\ r_req_send => stage = "none"
    /\ (tstate = "IDLE" /\ start /\ ~dinit_d) => stage = "offered"
    /\ rx_ram_sent => (stage = "begun" /\ r_sending)
    /\ tx_ram_written => (~t_busy /\ t_write_sig \in t_free)

\* No buffer passes for a whole reply, fit to be resent, while words of a newer
\* one are written over it.
CleanIsWhole == t_clean \cap partial = {}

\* What the read side relies on: see FtEdge.
OffersSettled == [][FtEdge(dnext)]_ftVars

\* While requests wait, one more is read, answered and given back in the end: no
\* pulse is lost between the clocks, and the two sides never wait for each other.
RequestsDrain == r_send_pending # {} ~> rx_ram_sent

=============================================================================
