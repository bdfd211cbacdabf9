------------------------------- MODULE RxPath -------------------------------
(***************************************************************************)
(* The path of an IPbus request from the Ethernet MAC to the transactor:   *)
(* udp_rxtransactor_if_simple.vhd, the receive RAM and its buffer          *)
(* selector, as wired in udp_if_flat.vhd.  One action is one rising edge   *)
(* of mac_clk.                                                             *)
(*                                                                         *)
(* Every frame on the wire is written to the RAM while it arrives, byte by *)
(* byte, because what it is becomes known only as its header is parsed     *)
(* (pkt_drop_payload, udp_packet_parser.vhd).  A frame that turns out to   *)
(* be an IPbus request ends with payload_send; one the parser refuses      *)
(* stops writing and ends with the next rx_reset alone.  One that ends     *)
(* with a MAC error is not refused but stuck: waiting for its checksum     *)
(* (cksum_pending) it holds payload_we up, through rx_reset, until the     *)
(* next frame.  A byte of a frame is represented by the number of the      *)
(* frame, its address by the place of the write in the frame.              *)
(***************************************************************************)
EXTENDS BufferSelector, Sequences

CONSTANTS
    FrameLen,       \* writes a frame makes to the RAM
    ClosingByte,    \* the first of them after its last byte: checksum, at address 4
    QuietClocks,    \* fewest clocks from the end of a frame to the next one
    MaxFrames       \* bound: frames on the wire in a behaviour

ASSUME RxAssumption == /\ FrameLen \in Nat
                       /\ ClosingByte \in 2 .. FrameLen - 1
                       /\ QuietClocks \in Nat
                       /\ MaxFrames \in Nat

VARIABLES
    phase,              \* what the wire is doing: see Phases
    pos,                \* write of the frame on payload_data, or clocks waited
    stuck,              \* the frame ended with a MAC error, payload_we still up
    frame,              \* number of the frame on the wire, or of the last one
    ram_ok,             \* the frame has met no busy RAM so far
    pkt_rcvd,           \* registered pulse: request complete
    rxpayload_dropped,  \* registered pulse: request lost
    ram,                \* the receive RAM: buffer, address -> byte
    owner,              \* history: the request each buffer was filled with
    order,              \* history: buffers filled and not yet sent, oldest first
    delivered,          \* history: what the transactor was given last
    room,               \* history: clocks since the RAM was last full, capped
    roomAtStart         \* history: room when the frame on the wire began

wireVars == <<phase, pos, stuck, frame>>
ifVars   == <<ram_ok, pkt_rcvd, rxpayload_dropped>>
histVars == <<owner, order, delivered, room, roomAtStart>>
rxVars   == <<selVars, wireVars, ifVars, ram, histVars>>

Phases  == {"gap", "first", "body", "end", "send", "quiet"}
Frames  == 0 .. MaxFrames
Bytes   == 1 .. FrameLen
RoomCap == NBuf + 2

\* The bytes that only the request itself writes: all but those at the addresses
\* rx_reset puts out, 12 (of the first byte) and once, after a MAC error, 4.
Kept == Bytes \ {1, ClosingByte}

RxInit ==
    /\ SelInit
    /\ phase = "gap" /\ pos = 2 /\ stuck = FALSE /\ frame = 0
    /\ ram_ok = TRUE /\ pkt_rcvd = FALSE /\ rxpayload_dropped = FALSE
    /\ ram = [b \in Buffers |-> [k \in Bytes |-> 0]]
    /\ owner = [b \in Buffers |-> 0]
    /\ order = <<>>
    /\ delivered = 0
    /\ room = RoomCap
    /\ roomAtStart = RoomCap

-----------------------------------------------------------------------------
\* The input ports, as the MAC and udp_build_payload drive them.
payload_we   == phase = "body" \/ stuck
payload_send == phase = "send"
rx_reset     == phase = "gap"

rx_wea == payload_we /\ ram_ok

\* The address stays at the last byte (of a frame with a MAC error) until rx_reset
\* sets it to 4, as that frame still asks, and from then on to 12.
payload_addr ==
    CASE phase = "body"                           -> pos
      [] phase \in {"gap", "first"} /\ pos = 1    -> ClosingByte
      [] phase \in {"gap", "first"} /\ pos = 2    -> 1
      [] OTHER                                    -> ClosingByte - 1

\* udp_do_rx_reset and udp_build_payload: the course of one frame.
Wire(p, n) == phase' = p /\ pos' = n

ResetClocks == IF pos = 0 THEN 1 ELSE 2

\* Its first byte ends rx_reset, a clock before it is on payload_data.
BeginFrame == /\ phase = "gap" /\ frame < MaxFrames /\ Wire("first", ResetClocks)
              /\ frame' = frame + 1 /\ UNCHANGED stuck

FirstByte == phase = "first" /\ Wire("body", 1) /\ stuck' = FALSE

NextByte == phase = "body" /\ pos < FrameLen /\ Wire("body", pos + 1)

\* The parser finds the frame is not for the transactor.
Reject == phase = "body" /\ Wire("quiet", 0)

\* The MAC flags the frame at its last byte: there is nothing to send, but
\* cksum_pending is set all the same.
MacError == phase = "body" /\ pos = ClosingByte - 1 /\ Wire("quiet", 0) /\ stuck' = TRUE

EndOfFrame == phase = "body" /\ pos = FrameLen /\ Wire("end", 0)

AfterFrame ==
    \/ phase = "end" /\ Wire("send", 0)
    \/ phase = "send" /\ Wire("quiet", 0)
    \/ phase = "quiet" /\ pos < QuietClocks /\ Wire("quiet", pos + 1)
    \/ phase = "quiet" /\ pos = QuietClocks /\ Wire("gap", 0)
    \/ phase = "gap" /\ Wire("gap", ResetClocks)

WireStep ==
    \/ BeginFrame
    \/ (FirstByte \/ MacError) /\ UNCHANGED frame
    \/ (NextByte \/ Reject \/ EndOfFrame \/ AfterFrame) /\ UNCHANGED <<stuck, frame>>

\* Mutated forms of RamStatus: busy is not looked at, is forgotten with the next
\* byte, or is remembered from one frame to the next.
RamStatusBlind ==
    IF rx_reset
    THEN ram_ok' = TRUE /\ pkt_rcvd' = FALSE /\ rxpayload_dropped' = FALSE
    ELSE pkt_rcvd' = payload_send /\ rxpayload_dropped' = FALSE /\ ram_ok' = TRUE

RamStatusForgets ==
    LET ok == IF payload_we THEN ~busy ELSE ram_ok
    IN  IF rx_reset
        THEN ram_ok' = TRUE /\ pkt_rcvd' = FALSE /\ rxpayload_dropped' = FALSE
        ELSE /\ pkt_rcvd' = (payload_send /\ ok)
             /\ rxpayload_dropped' = (payload_send /\ ~ok)
             /\ ram_ok' = (payload_send \/ ok)

RamStatusNoReset ==
    LET ok == ram_ok /\ ~(payload_we /\ busy)
    IN  /\ pkt_rcvd' = (payload_send /\ ok)
        /\ rxpayload_dropped' = (payload_send /\ ~ok)
        /\ ram_ok' = (payload_send \/ ok)

\* ram_status: refuse a request any byte of which met a busy RAM.
RamStatus ==
    LET ok == ram_ok /\ ~(payload_we /\ busy)
    IN  IF rx_reset
        THEN ram_ok' = TRUE /\ pkt_rcvd' = FALSE /\ rxpayload_dropped' = FALSE
        ELSE /\ pkt_rcvd' = (payload_send /\ ok)
             /\ rxpayload_dropped' = (payload_send /\ ~ok)
             /\ ram_ok' = (payload_send \/ ok)

\* The RAM's write port: rx_full_addra is write_buf & payload_addr.
RamWrite ==
    ram' = IF rx_wea THEN [ram EXCEPT ![write_sig][payload_addr] = frame] ELSE ram

\* What the transactor finds in a buffer: the request its kept bytes make up, or no
\* request (0) when they are of different frames.
Content(b) == LET m == ram[b][FrameLen]
              IN  IF \A k \in Kept : ram[b][k] = m THEN m ELSE 0

History(sent) ==
    /\ owner' = IF pkt_rcvd THEN [owner EXCEPT ![write_sig] = frame] ELSE owner
    /\ order' = LET kept == IF sent THEN Tail(order) ELSE order
                IN  IF pkt_rcvd THEN Append(kept, write_sig) ELSE kept
    /\ delivered' = IF sent THEN Content(send_sig) ELSE delivered
    /\ room' = IF free = {} THEN 0 ELSE IF room < RoomCap THEN room + 1 ELSE room
    /\ roomAtStart' = IF phase = "first" THEN room ELSE roomAtStart

RxClock(sent) ==
    /\ sent => sending
    /\ WireStep
    /\ RamStatus
    /\ RamWrite
    /\ Clock(pkt_rcvd, rx_wea, sent, {})
    /\ History(sent)

RxNext == \E sent \in BOOLEAN : RxClock(sent)

RxSpec == RxInit /\ [][RxNext]_rxVars

-----------------------------------------------------------------------------
RxTypeOK ==
    /\ SelTypeOK
    /\ phase \in Phases
    /\ pos \in 0 .. FrameLen + QuietClocks
    /\ stuck \in BOOLEAN
    /\ frame \in Frames
    /\ ram_ok \in BOOLEAN /\ pkt_rcvd \in BOOLEAN /\ rxpayload_dropped \in BOOLEAN
    /\ ram \in [Buffers -> [Bytes -> Frames]]
    /\ owner \in [Buffers -> Frames]
    /\ delivered \in Frames
    /\ room \in 0 .. RoomCap /\ roomAtStart \in 0 .. RoomCap

\* The selector's rule for its writer is kept here: a request is announced
\* (pkt_rcvd, wired to written) only while the writer really has a buffer.
WrittenOnlyWithBuffer == pkt_rcvd => (~busy /\ write_sig \in free)

\* Both: the receive side keeps to its ranges and to the selector's rule.
RxInv == RxTypeOK /\ WrittenOnlyWithBuffer

\* All bytes of a request still to be read are its own, but for those at the two
\* addresses rx_reset puts out, however many frames went by since: no frame is split
\* over two buffers or written over the body of a waiting one, not even a frame with
\* a MAC error, which goes on writing through the rx_reset after it.
PendingBodyIntact ==
    \A b \in send_pending : \A k \in Kept : ram[b][k] = owner[b]

\* Every byte of a request still to be read is its own.
PendingIntact == \A b \in send_pending : \A k \in Bytes : ram[b][k] = owner[b]

\* A request is lost only if, when it began, every buffer was in use or had
\* been until so recently that the writer had not yet come round to the free one.
DropOnlyWhenFull == rxpayload_dropped => roomAtStart < RoomCap

\* The requests handed to the transactor are whole (the kept bytes, that is), in
\* order and not repeated.
Stream == INSTANCE PacketStream WITH
              accepted <- {owner[b] : b \in send_pending},
              last <- IF \A b \in Buffers : owner[b] = 0 THEN 0
                      ELSE CHOOSE m \in {owner[b] : b \in Buffers} :
                               \A b \in Buffers : owner[b] <= m

ImplementsStream == Stream!StreamSpec

=============================================================================
