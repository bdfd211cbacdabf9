---------------------------- MODULE TxPathProofs ----------------------------
(***************************************************************************)
(* The transmit multiplexer sends what a selector gave it, once, and each  *)
(* packet of the internal RAM to its own length: for any number of buffers *)
(* in either RAM, packets of any length, and a MAC, a transactor and a     *)
(* client of any pace.  The internal RAM's selector is used here as        *)
(* BufferRing assumes, so that what is proved of BufferRing applies to it. *)
(*                                                                         *)
(* The transmit RAM's selector is not: a resend puts a buffer back that    *)
(* the writer may be about to take.  The second half proves that replies   *)
(* are neither mixed nor lost, and that a resend finds the reply it asked  *)
(* for, while the client's window and its resends fit in the buffers       *)
(* together.                                                               *)
(***************************************************************************)
EXTENDS TxPath, FiniteSets, FiniteSetTheorems, WellFoundedInduction, TLAPS

\* internal_ram_selector as a BufferRing, with what is proved of it.
Ring == INSTANCE BufferRingProofs WITH
            NBuf <- NInt, None <- NInt, free <- i_free, clean <- i_clean,
            send_pending <- i_send_pending, write_sig <- i_write_sig,
            send_sig <- i_send_sig, sending <- i_sending, busy <- i_busy,
            req_send <- i_req_send, order <- i_order

\* A reply is begun only when the client asked for it.
WriterHasRequest == wr # "idle" => done < requested

\* How far the packet is: within its length while it is streamed, at its beginning
\* otherwise; and the two RAMs are never active together.
Position ==
    /\ state = 5 => addr <= (IF udpram_active THEN UdpEnd ELSE end_addr)
    /\ state # 5 => addr = 0
    /\ rxram_active => state \in 3 .. 6
    /\ udpram_active => state \in 2 .. 6
    /\ ~(rxram_active /\ udpram_active)

\* The handshake of a selector with the multiplexer.  While the reader works,
\* one token goes round: req_send, the busy flag, its fall, and sent.  active and
\* its register are up only within the busy flag.
Handshake(works, req, flag, last_flag, sent, active, last_active) ==
    /\ req => works /\ ~flag /\ ~last_flag /\ ~sent
    /\ flag \/ last_flag => works /\ ~sent
    /\ sent => works
    /\ active \/ last_active => flag

UdpHandshake ==
    /\ Handshake(sending, req_send, udpram_busy, last_udpram_busy, udpram_sent,
                 udpram_active, last_udpram_active)
    /\ (last_udpram_active /\ ~udpram_active) => state = 7
    /\ sending => send_sig \in send_pending

\* The internal RAM's has one place more, the shim's send pulse.
RxHandshake ==
    /\ Handshake(i_sending, rxram_send_x, rxram_busy, last_rxram_busy, rxram_sent,
                 rxram_active, last_rxram_active)
    /\ (last_rxram_active /\ ~rxram_active) => state = 7
    /\ i_req_send => i_sending /\ ~rxram_send_x /\ ~rxram_busy /\ ~last_rxram_busy /\ ~rxram_sent

\* Where the length of the packet under the reader is.
LengthTravels ==
    /\ Len(lengths) = Len(i_order)
    /\ lengths \in Seq(IntLengths)
    /\ \A i \in 1 .. Len(lengths) : lengths[i] = end_address_buf[i_order[i]]
    /\ rxram_send_x => rxram_end_addr_x = lengths[1]
    /\ rxram_busy => rxram_end_addr = lengths[1]
    /\ rxram_active => end_addr = lengths[1]

IInv == /\ TxTypeOK /\ WriterHasRequest /\ Position /\ UdpHandshake
        /\ Ring!RingInv /\ RxHandshake /\ LengthTravels

-----------------------------------------------------------------------------
\* A set of buffers has a largest one.
LEMMA LargestBuffer ==
    ASSUME NEW S \in SUBSET Buffers, S # {}
    PROVE  \E b \in S : \A c \in S : c <= b
<1> DEFINE T == {n \in Nat : NBuf - 1 - n \in S}
<1>1. T \subseteq Nat /\ T # {}
    <2>1. PICK b \in S : TRUE
        OBVIOUS
    <2>2. NBuf - 1 - b \in T
        BY NBufAssumption DEF Buffers
    <2> QED BY <2>2
<1>2. \E n \in T : \A m \in T : ~ (<<m, n>> \in OpToRel(<, Nat))
    BY <1>1, NatLessThanWellFounded, WFMin
<1>3. PICK n \in T : \A m \in T : ~(m < n)
    BY <1>2 DEF OpToRel
<1>4. \A c \in S : c <= NBuf - 1 - n
    <2> SUFFICES ASSUME NEW c \in S PROVE c <= NBuf - 1 - n
        OBVIOUS
    <2>1. NBuf - 1 - c \in T
        BY NBufAssumption DEF Buffers
    <2> QED BY <1>3, <2>1, NBufAssumption DEF Buffers
<1> QED BY <1>4

\* The assumptions of BufferRing about its constants hold of the internal RAM.
LEMMA RingAssumptions == Ring!NBufAssumption /\ Ring!NoneAssumption
BY MuxAssumption DEF Ring!Buffers

\* The registers after reset satisfy the invariant.
LEMMA InvInit == TxInit => IInv
<1> SUFFICES ASSUME TxInit PROVE IInv
    OBVIOUS
<1> USE DEF TxInit
<1>1. Ring!RingInv
    <2>1. Ring!RingInit
        BY DEF Internal!SelInit, Internal!Buffers, Ring!RingInit, Ring!SelInit, Ring!Buffers
    <2> QED BY <2>1, Ring!RingInvInit, RingAssumptions
<1>2. TxTypeOK
    <2>0. 0 \in Buffers /\ 0 \in Internal!Buffers /\ 0 \in Ends /\ \E m \in Ends : 0 \in 0 .. m
        BY NBufAssumption, MuxAssumption DEF Buffers, Internal!Buffers, Ends
    <2>1. SelTypeOK
        BY <2>0 DEF SelInit, SelTypeOK
    <2>2. Internal!SelTypeOK
        BY <2>0 DEF Internal!SelInit, Internal!SelTypeOK
    <2>3. MuxTypeOK
        <3>1. MuxInit /\ 0 \in 0 .. 7
            OBVIOUS
        <3>2. end_address_buf \in [0 .. NInt - 1 -> Ends]
            BY <2>0, <3>1 DEF MuxInit
        <3> HIDE DEF TxInit
        <3> QED BY <2>0, <3>1, <3>2, Zenon DEF MuxInit, MuxTypeOK
    <2>4. 0 \in 0 .. MaxId /\ 0 \in 0 .. MaxResends
        BY TxAssumption
    <2>5. Nothing \in Parts
        BY <2>4 DEF Nothing, Parts
    <2> QED BY <2>0, <2>1, <2>2, <2>3, <2>4, <2>5 DEF TxTypeOK, WriterStates
<1>3. WriterHasRequest /\ Position
    BY DEF WriterHasRequest, Position, MuxInit
<1>4. UdpHandshake /\ RxHandshake
    BY DEF UdpHandshake, RxHandshake, Handshake, SelInit, Internal!SelInit, MuxInit
<1>5. LengthTravels
    BY DEF LengthTravels, MuxInit
<1> QED BY <1>1, <1>2, <1>3, <1>4, <1>5 DEF IInv

-----------------------------------------------------------------------------
\* The multiplexer and its flags keep to their ranges.
LEMMA MuxStep ==
    ASSUME MuxTypeOK, Position, NEW length \in IntLengths \cup {0}, NEW ready \in BOOLEAN,
           rx_event, udp_event(req_send), state_machine(ready),
           input_block(i_write_sig, length # 0, length),
           output_block(i_req_send, i_send_sig), busy_block,
           i_write_sig \in 0 .. NInt - 1, i_send_sig \in 0 .. NInt - 1,
           req_send \in BOOLEAN, i_req_send \in BOOLEAN
    PROVE  MuxTypeOK' /\ Position'
<1> DEFINE end == IF udpram_active THEN UdpEnd ELSE end_addr
<1>1. /\ state \in 0 .. 7 /\ end_addr \in Ends /\ addr \in Nat /\ UdpEnd \in Ends
      /\ Ends \subseteq Nat /\ 0 \in Ends
      /\ {mac_tx_valid, rxram_active, udpram_active, rxram_busy, udpram_busy} \subseteq BOOLEAN
      /\ rxram_end_addr \in Ends
    <2>1. Ends \subseteq Nat /\ 0 \in Ends /\ UdpEnd \in Ends
        BY MuxAssumption DEF Ends
    <2>2. PICK m \in Ends : addr \in 0 .. m
        BY DEF MuxTypeOK
    <2>3. addr \in Nat
        BY <2>1, <2>2
    <2> QED BY <2>1, <2>3 DEF MuxTypeOK
<1>2. /\ state' \in 0 .. 7 /\ end_addr' \in Ends /\ mac_tx_valid' \in BOOLEAN
      /\ rxram_active' \in BOOLEAN /\ udpram_active' \in BOOLEAN
    <2>1. CASE Reset0
        <3>1. state' \in 0 .. 7 /\ end_addr' \in Ends
            BY <1>1, <2>1 DEF Reset0
        <3> QED BY <2>1, <3>1, Zenon DEF Reset0
    <2>2. CASE Choose
        BY <1>1, <2>2 DEF Choose
    <2>3. CASE Prefetch
        BY <1>1, <2>3 DEF Prefetch
    <2>4. CASE Stream(ready)
        BY <1>1, <2>4 DEF Stream
    <2>5. CASE LastButOne(ready)
        <3>1. state' \in 0 .. 7 /\ end_addr' \in Ends
            BY <1>1, <2>5 DEF LastButOne
        <3>2. {mac_tx_valid, rxram_active, udpram_active} \subseteq BOOLEAN
            BY <1>1
        <3> QED BY <2>5, <3>1, <3>2, Zenon DEF LastButOne
    <2>6. CASE LastByte(ready)
        <3>1. state' \in 0 .. 7 /\ end_addr' \in Ends
            BY <1>1, <2>6 DEF LastByte
        <3>2. {mac_tx_valid, rxram_active, udpram_active} \subseteq BOOLEAN
            BY <1>1
        <3> QED BY <2>6, <3>1, <3>2, Zenon DEF LastByte
    <2> QED BY <2>1, <2>2, <2>3, <2>4, <2>5, <2>6 DEF state_machine
<1>3. /\ {last_rxram_active', last_udpram_active', rxram_busy', udpram_busy', rxram_send_x',
          rxram_sent', last_rxram_busy'} \subseteq BOOLEAN
      /\ rxram_end_addr' \in Ends /\ rxram_end_addr_x' \in Ends
      /\ end_address_buf' \in [0 .. NInt - 1 -> Ends]
    BY <1>1 DEF MuxTypeOK, rx_event, udp_event, EventFlag, input_block, output_block, busy_block, Ends
<1>4. Position'
    <2>1. /\ rxram_active' => state' \in 3 .. 6
          /\ udpram_active' => state' \in 2 .. 6
          /\ ~(rxram_active' /\ udpram_active')
        BY <1>1 DEF Position, state_machine, Reset0, Choose, Prefetch, Stream, LastButOne, LastByte
    <2>2. state' # 5 => addr' = 0
        BY <1>1 DEF Position, state_machine, Reset0, Choose, Prefetch, Stream, LastButOne, LastByte
    <2>3. ASSUME state' = 5 PROVE addr' <= (IF udpram_active' THEN UdpEnd ELSE end_addr')
        <3>1. CASE state = 5
            <4>1. Stream(ready) /\ addr <= end
                BY <3>1, <1>1 DEF Position, state_machine, Reset0, Choose, Prefetch, LastButOne, LastByte
            <4>2. end \in Nat
                BY <1>1
            <4> QED BY <1>1, <2>3, <4>1, <4>2 DEF Stream
        <3>2. CASE state # 5
            <4>1. addr' = 0
                BY <1>1, <2>3, <3>2 DEF Position, state_machine, Reset0, Choose, Prefetch, Stream,
                   LastButOne, LastByte
            <4> QED BY <1>1, <1>2, <4>1
        <3> QED BY <3>1, <3>2
    <2> QED BY <2>1, <2>2, <2>3 DEF Position
<1>5. \E m \in Ends : addr' \in 0 .. m
    <2>1. addr' \in Nat
        BY <1>1 DEF state_machine, Reset0, Choose, Prefetch, Stream, LastButOne, LastByte
    <2> QED BY <1>1, <1>2, <1>4, <2>1 DEF Position
<1> QED BY <1>2, <1>3, <1>4, <1>5 DEF MuxTypeOK

\* The selector of the internal RAM makes a step of BufferRing.
LEMMA RingStep ==
    ASSUME IInv, NEW length \in IntLengths \cup {0}, InternalRam(length)
    PROVE  /\ Ring!Tick(length # 0, FALSE, rxram_sent)
           /\ Ring!RingInv'
<1>1. rxram_sent \in BOOLEAN /\ (rxram_sent => i_sending)
    BY DEF IInv, RxHandshake, Handshake, TxTypeOK, MuxTypeOK
<1>2. Ring!Clock(length # 0, FALSE, rxram_sent, {})
    BY DEF InternalRam, Internal!Clock, Internal!FreeBlock, Internal!CleanBlock,
       Internal!SendPendingBlock, Internal!BusyBlock, Internal!ReqSendBlock, Internal!WriteBlock,
       Internal!SendBlock, Internal!Taken, Internal!Released, Internal!Buffers, Internal!NextBuf,
       Ring!Clock, Ring!FreeBlock, Ring!CleanBlock, Ring!SendPendingBlock, Ring!BusyBlock,
       Ring!ReqSendBlock, Ring!WriteBlock, Ring!SendBlock, Ring!Taken, Ring!Released,
       Ring!Buffers, Ring!NextBuf
<1>3. Ring!Tick(length # 0, FALSE, rxram_sent)
    BY <1>1, <1>2 DEF InternalRam, Ring!Tick
<1>4. Ring!RingNext
    BY <1>1, <1>3 DEF Ring!RingNext
<1> QED BY <1>3, <1>4, Ring!RingInvStep, RingAssumptions DEF IInv

-----------------------------------------------------------------------------
\* The flags are Boolean, for the steps below.
LEMMA Booleans ==
    ASSUME TxTypeOK
    PROVE  /\ {sending, req_send, i_sending, i_req_send, udpram_active, rxram_active,
               last_udpram_active, last_rxram_active, udpram_busy, rxram_busy,
               last_udpram_busy, last_rxram_busy, udpram_sent, rxram_sent,
               rxram_send_x} \subseteq BOOLEAN
           /\ state \in 0 .. 7
BY DEF TxTypeOK, SelTypeOK, MuxTypeOK, Internal!SelTypeOK

\* How the two active registers move: up only from state 1 and within the busy
\* flag, down only into state 7, and not changed in it.
LEMMA ActiveStep ==
    ASSUME TxTypeOK, Position, NEW ready \in BOOLEAN, state_machine(ready)
    PROVE  /\ udpram_active' => udpram_active \/ (udpram_busy /\ state = 1)
           /\ rxram_active' => rxram_active \/ (rxram_busy /\ state = 1)
           /\ (udpram_active /\ ~udpram_active') => state' = 7
           /\ (rxram_active /\ ~rxram_active') => state' = 7
<1>1. /\ {udpram_active, rxram_active, udpram_busy, rxram_busy} \subseteq BOOLEAN
      /\ udpram_active \/ rxram_active => state \in 2 .. 6
    BY Booleans DEF Position
<1>2. CASE Reset0
    BY <1>1, <1>2 DEF Reset0
<1>3. CASE Choose
    BY <1>1, <1>3 DEF Choose
<1>4. CASE Prefetch
    BY <1>1, <1>4 DEF Prefetch
<1>5. CASE Stream(ready)
    BY <1>1, <1>5 DEF Stream
<1>6. CASE LastButOne(ready)
    BY <1>1, <1>6 DEF LastButOne
<1>7. CASE LastByte(ready)
    BY <1>1, <1>7 DEF LastByte
<1> QED BY <1>2, <1>3, <1>4, <1>5, <1>6, <1>7 DEF state_machine

\* The selector starts its reader only when it is not working.
LEMMA ReaderStep ==
    ASSUME IInv, NEW sent, sent \in BOOLEAN, NEW written, NEW we, NEW resend,
           Clock(written, we, sent, resend)
    PROVE  /\ req_send' => ~sending /\ sending'
           /\ sending /\ ~sent => sending'
           /\ sending' => (sending /\ ~sent) \/ req_send'
BY Booleans DEF IInv, Clock, ReqSendBlock

\* The token of the transmit RAM goes one place on, or stays.
LEMMA UdpHandshakeStep ==
    ASSUME IInv, NEW written, NEW resend, NEW ready \in BOOLEAN,
           Clock(written, we_125, udpram_sent, resend),
           udp_event(req_send), state_machine(ready), sent_block
    PROVE  UdpHandshake'
<1>1. TxTypeOK /\ Position /\ UdpHandshake
    BY DEF IInv
<1>2. /\ {sending, req_send, udpram_active, last_udpram_active, udpram_busy,
          last_udpram_busy, udpram_sent} \subseteq BOOLEAN
    BY <1>1, Booleans
<1>3. /\ req_send' = (~sending /\ send_sig \in send_pending)
      /\ sending' = (req_send' \/ (sending /\ ~udpram_sent))
    BY DEF Clock, ReqSendBlock
<1>4. /\ udpram_busy' = (req_send \/ (udpram_busy /\ ~(last_udpram_active /\ ~udpram_active)))
      /\ last_udpram_active' = udpram_active
      /\ udpram_sent' = (last_udpram_busy /\ ~udpram_busy)
      /\ last_udpram_busy' = udpram_busy
    BY DEF udp_event, EventFlag, Falls, sent_block
<1>5. /\ udpram_active' => udpram_active \/ (udpram_busy /\ state = 1)
      /\ (udpram_active /\ ~udpram_active') => state' = 7
    BY <1>1, ActiveStep
<1>6. last_udpram_active /\ ~udpram_active => state = 7
    BY <1>1 DEF UdpHandshake
<1>7. Handshake(sending, req_send, udpram_busy, last_udpram_busy, udpram_sent,
                udpram_active, last_udpram_active)
    BY <1>1 DEF UdpHandshake
<1>8. Handshake(sending', req_send', udpram_busy', last_udpram_busy', udpram_sent',
                udpram_active', last_udpram_active')
    <2>1. req_send' => sending' /\ ~udpram_busy' /\ ~last_udpram_busy' /\ ~udpram_sent'
        BY <1>2, <1>3, <1>4, <1>7 DEF Handshake
    <2>2. udpram_busy' \/ last_udpram_busy' => sending' /\ ~udpram_sent'
        BY <1>2, <1>3, <1>4, <1>7 DEF Handshake
    <2>3. udpram_sent' => sending'
        BY <1>2, <1>3, <1>4, <1>7 DEF Handshake
    <2>4. udpram_active' \/ last_udpram_active' => udpram_busy'
        BY <1>2, <1>4, <1>5, <1>6, <1>7 DEF Handshake
    <2> QED BY <2>1, <2>2, <2>3, <2>4 DEF Handshake
<1>9. sending' => send_sig' \in send_pending'
    <2> SUFFICES ASSUME sending' PROVE send_sig' \in send_pending'
        OBVIOUS
    <2>1. send_sig \in send_pending /\ send_sig' = send_sig
        BY <1>1, <1>2, <1>3 DEF UdpHandshake, Clock, SendBlock
    <2>2. ~udpram_sent
        BY <1>1, <1>2, <1>3 DEF UdpHandshake, Handshake
    <2> QED BY <2>1, <2>2 DEF Clock, SendPendingBlock, Released
<1>10. (last_udpram_active' /\ ~udpram_active') => state' = 7
    BY <1>2, <1>4, <1>5
<1> QED BY <1>8, <1>9, <1>10 DEF UdpHandshake, Handshake

\* So does that of the internal RAM, through the shim.
LEMMA RxHandshakeStep ==
    ASSUME IInv, NEW length \in IntLengths \cup {0}, NEW ready \in BOOLEAN,
           InternalRam(length), rx_event, state_machine(ready)
    PROVE  RxHandshake'
<1>1. TxTypeOK /\ Position /\ RxHandshake
    BY DEF IInv
<1>2. /\ {i_sending, i_req_send, rxram_send_x, rxram_active, last_rxram_active, rxram_busy,
          last_rxram_busy, rxram_sent} \subseteq BOOLEAN
    BY <1>1, Booleans
<1>3. /\ i_req_send' = (~i_sending /\ i_send_sig \in i_send_pending)
      /\ i_sending' = (i_req_send' \/ (i_sending /\ ~rxram_sent))
    BY DEF InternalRam, Internal!Clock, Internal!ReqSendBlock
<1>4. /\ rxram_busy' = (rxram_send_x \/ (rxram_busy /\ ~(last_rxram_active /\ ~rxram_active)))
      /\ last_rxram_active' = rxram_active
      /\ rxram_send_x' = i_req_send
      /\ rxram_sent' = (last_rxram_busy /\ ~rxram_busy)
      /\ last_rxram_busy' = rxram_busy
    BY DEF InternalRam, rx_event, EventFlag, Falls, output_block, busy_block
<1>5. /\ rxram_active' => rxram_active \/ (rxram_busy /\ state = 1)
      /\ (rxram_active /\ ~rxram_active') => state' = 7
    BY <1>1, ActiveStep
<1>6. last_rxram_active /\ ~rxram_active => state = 7
    BY <1>1 DEF RxHandshake
<1>7. /\ Handshake(i_sending, rxram_send_x, rxram_busy, last_rxram_busy, rxram_sent,
                   rxram_active, last_rxram_active)
      /\ i_req_send => i_sending /\ ~rxram_send_x /\ ~rxram_busy /\ ~last_rxram_busy /\ ~rxram_sent
    BY <1>1 DEF RxHandshake
<1>8. Handshake(i_sending', rxram_send_x', rxram_busy', last_rxram_busy', rxram_sent',
                rxram_active', last_rxram_active')
    <2>1. rxram_send_x' => i_sending' /\ ~rxram_busy' /\ ~last_rxram_busy' /\ ~rxram_sent'
        BY <1>2, <1>3, <1>4, <1>7 DEF Handshake
    <2>2. rxram_busy' \/ last_rxram_busy' => i_sending' /\ ~rxram_sent'
        BY <1>2, <1>3, <1>4, <1>7 DEF Handshake
    <2>3. rxram_sent' => i_sending'
        BY <1>2, <1>3, <1>4, <1>7 DEF Handshake
    <2>4. rxram_active' \/ last_rxram_active' => rxram_busy'
        BY <1>2, <1>4, <1>5, <1>6, <1>7 DEF Handshake
    <2> QED BY <2>1, <2>2, <2>3, <2>4 DEF Handshake
<1>9. i_req_send' => /\ i_sending' /\ ~rxram_send_x' /\ ~rxram_busy'
                     /\ ~last_rxram_busy' /\ ~rxram_sent'
    BY <1>2, <1>3, <1>4, <1>7 DEF Handshake
<1>10. (last_rxram_active' /\ ~rxram_active') => state' = 7
    BY <1>2, <1>4, <1>5
<1> QED BY <1>8, <1>9, <1>10 DEF RxHandshake, Handshake

\* A packet's length stays that of its buffer until it is sent: the buffer the
\* next length is written for is no waiting packet's.
LEMMA LengthStep ==
    ASSUME IInv, NEW length \in IntLengths \cup {0}, NEW ready \in BOOLEAN,
           InternalRam(length), rx_event, state_machine(ready)
    PROVE  LengthTravels'
<1>1. TxTypeOK /\ Position /\ RxHandshake /\ LengthTravels /\ Ring!RingInv
    BY DEF IInv
<1>2. /\ {i_sending, i_req_send, rxram_send_x, rxram_active, last_rxram_active, rxram_busy,
          last_rxram_busy, rxram_sent} \subseteq BOOLEAN
      /\ i_order \in Seq(0 .. NInt - 1) /\ lengths \in Seq(IntLengths)
      /\ Len(lengths) = Len(i_order) /\ i_write_sig \in 0 .. NInt - 1
      /\ end_address_buf \in [0 .. NInt - 1 -> Ends]
    BY <1>1, Booleans DEF Ring!RingInv, Ring!RingTypeOK, Ring!SelTypeOK, Ring!Buffers,
       LengthTravels, TxTypeOK, MuxTypeOK
<1>3. rxram_sent => i_sending /\ ~rxram_send_x /\ ~i_req_send /\ ~rxram_busy
    BY <1>1, <1>2 DEF RxHandshake, Handshake
<1>4. i_sending => Len(lengths) > 0 /\ i_send_sig = i_order[1]
    BY <1>1, <1>2 DEF Ring!RingInv, Ring!SendsOldest
<1>5. length # 0 => \A i \in 1 .. Len(i_order) : i_order[i] # i_write_sig
    BY <1>1, <1>2 DEF InternalRam, Ring!RingInv, Ring!WriterOwnsFreeBuffer, Ring!FreeOrPending,
       Ring!PendingIsOrder
<1>6. \A i \in 1 .. Len(lengths) : lengths[i] = end_address_buf'[i_order[i]]
    BY <1>1, <1>2, <1>5 DEF InternalRam, input_block, LengthTravels
<1>7. length # 0 => length \in IntLengths /\ end_address_buf'[i_write_sig] = length
    BY <1>2 DEF InternalRam, input_block
<1> DEFINE kept  == IF rxram_sent THEN Tail(lengths) ELSE lengths
           ikept == IF rxram_sent THEN Tail(i_order) ELSE i_order
<1>8. /\ lengths' = IF length # 0 THEN Append(kept, length) ELSE kept
      /\ i_order' = IF length # 0 THEN Append(ikept, i_write_sig) ELSE ikept
    BY DEF InternalRam
<1>9. /\ kept \in Seq(IntLengths) /\ ikept \in Seq(0 .. NInt - 1) /\ Len(kept) = Len(ikept)
      /\ \A i \in 1 .. Len(kept) : kept[i] = end_address_buf'[ikept[i]]
    <2>1. CASE rxram_sent
        <3>1. lengths # <<>> /\ i_order # <<>>
            BY <1>2, <1>3, <1>4, <2>1
        <3>2. /\ kept \in Seq(IntLengths) /\ ikept \in Seq(0 .. NInt - 1)
              /\ Len(kept) = Len(lengths) - 1 /\ Len(ikept) = Len(lengths) - 1
              /\ \A i \in 1 .. Len(kept) : kept[i] = lengths[i + 1] /\ ikept[i] = i_order[i + 1]
            BY <1>2, <2>1, <3>1
        <3>3. \A i \in 1 .. Len(kept) : i + 1 \in 1 .. Len(lengths)
            BY <1>2, <3>2
        <3> QED BY <1>6, <3>2, <3>3
    <2>2. CASE ~rxram_sent
        BY <1>2, <1>6, <2>2
    <2> QED BY <2>1, <2>2
<1>10. /\ lengths' \in Seq(IntLengths) /\ Len(lengths') = Len(i_order')
       /\ \A i \in 1 .. Len(lengths') : lengths'[i] = end_address_buf'[i_order'[i]]
    <2> HIDE DEF kept, ikept
    <2>1. CASE length # 0
        BY <1>2, <1>7, <1>8, <1>9, <2>1
    <2>2. CASE length = 0
        BY <1>8, <1>9, <2>2
    <2> QED BY <2>1, <2>2
<1>11. (i_sending /\ ~rxram_sent) => lengths'[1] = lengths[1]
    BY <1>2, <1>4, <1>8
<1>12. rxram_send_x' => rxram_end_addr_x' = lengths'[1]
    <2> SUFFICES ASSUME rxram_send_x' PROVE rxram_end_addr_x' = lengths'[1]
        OBVIOUS
    <2>1. i_req_send /\ i_sending /\ ~rxram_sent
        BY <1>1, <1>2 DEF InternalRam, output_block, RxHandshake
    <2>2. rxram_end_addr_x' = end_address_buf[i_order[1]]
        BY <1>4, <2>1 DEF InternalRam, output_block
    <2>3. lengths[1] = end_address_buf[i_order[1]]
        BY <1>1, <1>2, <1>4, <2>1 DEF LengthTravels
    <2> QED BY <1>11, <2>1, <2>2, <2>3
<1>13. rxram_busy => i_sending /\ ~rxram_sent
    BY <1>1, <1>2 DEF RxHandshake, Handshake
<1>14. rxram_busy' => rxram_end_addr' = lengths'[1]
    <2> SUFFICES ASSUME rxram_busy' PROVE rxram_end_addr' = lengths'[1]
        OBVIOUS
    <2>1. CASE rxram_send_x
        <3>1. i_sending /\ ~rxram_sent
            BY <1>1, <1>2, <2>1 DEF RxHandshake, Handshake
        <3>2. rxram_end_addr' = lengths[1]
            BY <1>1, <2>1 DEF rx_event, LengthTravels
        <3> QED BY <1>11, <3>1, <3>2
    <2>2. CASE ~rxram_send_x
        <3>1. rxram_busy /\ rxram_end_addr' = rxram_end_addr
            BY <1>2, <2>2 DEF rx_event, EventFlag
        <3> QED BY <1>1, <1>11, <1>13, <3>1 DEF LengthTravels
    <2> QED BY <2>1, <2>2
<1>15. rxram_active' => end_addr' = lengths'[1]
    <2> SUFFICES ASSUME rxram_active' PROVE end_addr' = lengths'[1]
        OBVIOUS
    <2>1. rxram_active \/ (rxram_busy /\ state = 1)
        BY <1>1, ActiveStep
    <2>2. CASE rxram_active
        <3>1. state \in 3 .. 6 /\ ~udpram_active /\ rxram_busy
            BY <1>1, <1>2, <2>2 DEF Position, RxHandshake, Handshake
        <3>2. end_addr' = end_addr
            <4>1. Reset0 \/ Prefetch \/ LastButOne(ready) \/ LastByte(ready) => end_addr' = end_addr
                BY DEF Reset0, Prefetch, LastButOne, LastByte
            <4>2. Stream(ready) => end_addr' = end_addr
                BY <3>1 DEF Stream
            <4>3. ~Choose
                BY <3>1 DEF Choose
            <4> QED BY <4>1, <4>2, <4>3 DEF state_machine
        <3> QED BY <1>1, <1>11, <1>13, <2>2, <3>1, <3>2 DEF LengthTravels
    <2>3. CASE rxram_busy /\ state = 1
        <3>1. end_addr' = rxram_end_addr
            BY <2>3 DEF state_machine, Reset0, Choose, Prefetch, Stream, LastButOne, LastByte
        <3> QED BY <1>1, <1>11, <1>13, <2>3, <3>1 DEF LengthTravels
    <2> QED BY <2>1, <2>2, <2>3
<1> QED BY <1>10, <1>12, <1>14, <1>15 DEF LengthTravels

-----------------------------------------------------------------------------
\* The selector of the transmit RAM keeps to its buffers.
LEMMA SelStep ==
    ASSUME SelTypeOK, NEW written \in BOOLEAN, NEW we \in BOOLEAN, NEW sent \in BOOLEAN,
           NEW resend, Clock(written, we, sent, resend)
    PROVE  SelTypeOK'
<1>1. NextBuf(write_sig) \in Buffers /\ NextBuf(send_sig) \in Buffers
    BY NBufAssumption DEF NextBuf, Buffers, SelTypeOK
<1> QED BY <1>1 DEF SelTypeOK, Clock, FreeBlock, CleanBlock, SendPendingBlock, BusyBlock,
        ReqSendBlock, WriteBlock, SendBlock, Taken, Released

\* Only a reply that was asked for is completed.
LEMMA WriterStays ==
    ASSUME TxTypeOK, WriterHasRequest, NEW written \in BOOLEAN, NEW id \in 0 .. MaxId,
           Writer(written), Client(id)
    PROVE  /\ WriterHasRequest'
           /\ done' \in 0 .. MaxId /\ requested' \in 0 .. MaxId
           /\ wr' \in WriterStates /\ we_buf' \in BOOLEAN \X BOOLEAN
           /\ ram' \in [Buffers -> Parts]
<1>1. /\ done \in 0 .. MaxId /\ requested \in 0 .. MaxId /\ MaxId \in Nat
      /\ wr \in WriterStates /\ we_buf \in BOOLEAN \X BOOLEAN /\ ram \in [Buffers -> Parts]
    BY TxAssumption DEF TxTypeOK
<1>2. requested' \in 0 .. MaxId /\ requested' >= requested
    BY <1>1 DEF Client, AskAgain, Request, Receive, clientVars
<1>3. we_buf' \in BOOLEAN \X BOOLEAN
    <2>1. \A up, last \in BOOLEAN : <<up, last>> \in BOOLEAN \X BOOLEAN
        OBVIOUS
    <2>2. (wr \in {"start", "hdr"}) \in BOOLEAN
        OBVIOUS
    <2>3. we_buf[1] \in BOOLEAN
        BY <1>1
    <2>4. we_buf' = <<wr \in {"start", "hdr"}, we_buf[1]>>
        BY Zenon DEF Writer
    <2> QED BY <2>1, <2>2, <2>3, <2>4, Zenon
<1>4. CASE written
    <2>1. wr = "rest" /\ wr' = "idle" /\ ram' = [ram EXCEPT ![write_sig] = ram[write_sig]]
          /\ done' = done + 1
        BY <1>4 DEF Writer, Finish, WriterStep
    <2>2. done' \in 0 .. MaxId
        BY <1>1, <2>1 DEF WriterHasRequest
    <2>3. ram' \in [Buffers -> Parts]
        BY <1>1, <2>1
    <2> QED BY <1>3, <1>2, <2>1, <2>2, <2>3 DEF WriterHasRequest, WriterStates
<1>5. CASE ~written
    <2>1. done' = done
        BY <1>5 DEF Writer
    <2>3. CASE Idle
        BY <1>3, <1>1, <1>2, <2>1, <2>3 DEF Idle, WriterHasRequest
    <2>4. CASE Begin
        <3>1. done < requested /\ wr' = "start" /\ ram' = [ram EXCEPT ![write_sig] = ram[write_sig]]
            BY <2>4 DEF Begin, WriterStep
        <3>2. ram' \in [Buffers -> Parts]
            BY <1>1, <3>1
        <3> QED BY <1>3, <1>1, <1>2, <2>1, <3>1, <3>2 DEF WriterHasRequest, WriterStates
    <2>5. CASE Header
        <3>1. wr # "idle" /\ wr' = "hdr" /\ done < requested
            BY <2>5 DEF Header, WriterStep, WriterHasRequest
        <3>2. \A b \in Buffers : [ram[b] EXCEPT !.hdr = done + 1] \in Parts
            BY <1>1, <3>1 DEF Parts
        <3>3. ram' \in [Buffers -> Parts]
            BY <1>1, <2>5, <3>2 DEF Header, WriterStep, TxTypeOK, SelTypeOK
        <3> QED BY <1>3, <1>1, <1>2, <2>1, <3>1, <3>3 DEF WriterHasRequest, WriterStates
    <2>6. CASE Rest
        <3>1. wr # "idle" /\ wr' = "rest" /\ done < requested
            BY <2>6 DEF Rest, WriterStep, WriterHasRequest
        <3>2. \A b \in Buffers : [ram[b] EXCEPT !.rest = done + 1] \in Parts
            BY <1>1, <3>1 DEF Parts
        <3>3. ram' \in [Buffers -> Parts]
            BY <1>1, <2>6, <3>2 DEF Rest, WriterStep, TxTypeOK, SelTypeOK
        <3> QED BY <1>3, <1>1, <1>2, <2>1, <3>1, <3>3 DEF WriterHasRequest, WriterStates
    <2> QED BY <1>5, <2>3, <2>4, <2>5, <2>6 DEF Writer
<1> QED BY <1>4, <1>5

\* The registers of the reply path and the client keep to their ranges.
LEMMA TypeStep ==
    ASSUME IInv, NEW written \in BOOLEAN, NEW id \in 0 .. MaxId,
           NEW length \in IntLengths \cup {0}, NEW ready \in BOOLEAN,
           TxClock(written, id, length, ready), MuxTypeOK', Internal!SelTypeOK'
    PROVE  TxTypeOK' /\ WriterHasRequest'
<1>1. TxTypeOK /\ WriterHasRequest /\ MaxId \in Nat /\ MaxResends \in Nat
    BY TxAssumption DEF IInv
<1>2. /\ WriterHasRequest' /\ wr' \in WriterStates /\ we_buf' \in BOOLEAN \X BOOLEAN
      /\ done' \in 0 .. MaxId /\ requested' \in 0 .. MaxId /\ ram' \in [Buffers -> Parts]
    BY <1>1, WriterStays DEF TxClock
<1>3. SelTypeOK'
    <2>1. we_125 \in BOOLEAN /\ udpram_sent \in BOOLEAN /\ SelTypeOK
        BY <1>1 DEF we_125, TxTypeOK
    <2> QED BY <2>1, SelStep DEF TxClock
<1>4. /\ send_sig \in Buffers /\ ram \in [Buffers -> Parts] /\ wire \in Parts
      /\ clean \subseteq Buffers /\ pkt_id_buf \in [Buffers -> 0 .. MaxId]
      /\ ipbus_out \in 0 .. MaxId /\ 0 \in Buffers
    BY <1>1, NBufAssumption DEF TxTypeOK, SelTypeOK, Buffers
<1>5. pkt_id_buf' \in [Buffers -> 0 .. MaxId]
    BY <1>4 DEF TxClock, pkt_id_block
<1>6. wire' \in Parts /\ ipbus_out' \in 0 .. MaxId
    <2>1. Nothing \in Parts /\ ram[send_sig] \in Parts /\ ram[send_sig].hdr \in 0 .. MaxId
          /\ ram[send_sig].rest \in 0 .. MaxId
        BY <1>1, <1>4 DEF Parts, Nothing
    <2>2. /\ [wire EXCEPT !.hdr = ram[send_sig].hdr] \in Parts
          /\ [wire EXCEPT !.rest = ram[send_sig].rest] \in Parts
        BY <1>4, <2>1 DEF Parts
    <2>3. wire' \in Parts
        BY <1>4, <2>1, <2>2 DEF TxClock, ReadRam
    <2>4. ipbus_out' \in 0 .. MaxId
        BY <1>1, <2>1 DEF TxClock, ReadRam
    <2> QED BY <2>3, <2>4
<1>7. resend_buf' \in Buffers /\ {req_resend', req_not_found'} \subseteq BOOLEAN
    <2> DEFINE matches == {b \in clean : id # 0 /\ pkt_id_buf[b] = id}
    <2>1. /\ req_resend' = (matches # {}) /\ req_not_found' = (id # 0 /\ matches = {})
          /\ resend_buf' = IF matches = {} THEN 0
                           ELSE CHOOSE b \in matches : \A c \in matches : c <= b
        BY DEF TxClock, resend_block
    <2>2. matches \subseteq Buffers
        BY <1>4
    <2> HIDE DEF matches
    <2>3. resend_buf' \in Buffers
        BY <1>4, <2>1, <2>2, LargestBuffer
    <2> QED BY <2>1, <2>3
<1>8. {udpram_sent', last_udpram_busy'} \subseteq BOOLEAN
    BY <1>1 DEF TxClock, sent_block, TxTypeOK, MuxTypeOK
<1>9. got' \subseteq Ids /\ resends' \in 0 .. MaxResends
    BY <1>1 DEF TxClock, Client, AskAgain, Request, Receive, clientVars, TxTypeOK
<1>10. transmitted' \subseteq Ids /\ asked' \in 0 .. MaxId
    <2>1. {wire.hdr} \ {0} \subseteq Ids
        BY <1>1, <1>4 DEF Parts, Ids
    <2>2. transmitted' \subseteq Ids
        BY <1>1, <2>1, Zenon DEF TxClock, TxTypeOK
    <2>3. asked' \in 0 .. MaxId
        BY <1>1 DEF TxClock, TxTypeOK
    <2> QED BY <2>2, <2>3
<1> QED BY <1>2, <1>3, <1>5, <1>6, <1>7, <1>8, <1>9, <1>10 DEF TxTypeOK

\* Every edge keeps it.
LEMMA InvStep == IInv /\ [TxNext]_txVars => IInv'
<1> SUFFICES ASSUME IInv, [TxNext]_txVars PROVE IInv'
    OBVIOUS
<1>1. CASE UNCHANGED txVars
    <2>1. /\ UNCHANGED <<selVars, muxVars, iVars, replyVars, clientVars>>
          /\ UNCHANGED <<wire, transmitted, asked, lengths, i_order>>
        BY <1>1 DEF txVars, txHistory
    <2>2. UNCHANGED Ring!ringVars
        BY <2>1 DEF iVars, Ring!ringVars, Ring!selVars
    <2>3. Ring!RingInv'
        BY <2>2, Ring!RingInvStep, RingAssumptions DEF IInv
    <2>4. TxTypeOK'
        BY <2>1 DEF IInv, selVars, muxVars, smVars, flagVars, shimVars, iVars, replyVars,
           clientVars, TxTypeOK, SelTypeOK, MuxTypeOK, Internal!SelTypeOK, Internal!Buffers
    <2>5. WriterHasRequest' /\ Position' /\ UdpHandshake' /\ RxHandshake' /\ LengthTravels'
        BY <2>1 DEF IInv, selVars, muxVars, smVars, flagVars, shimVars, iVars, replyVars,
           clientVars, WriterHasRequest, Position, UdpHandshake, RxHandshake, Handshake, LengthTravels
    <2> QED BY <2>3, <2>4, <2>5 DEF IInv
<1>2. ASSUME NEW written \in BOOLEAN, NEW ready \in BOOLEAN, NEW id \in 0 .. MaxId,
             NEW length \in IntLengths \cup {0}, TxClock(written, id, length, ready)
      PROVE  IInv'
    <2> USE <1>2
    <2>1. /\ InternalRam(length) /\ rx_event /\ udp_event(req_send) /\ state_machine(ready)
          /\ sent_block
          /\ Clock(written, we_125, udpram_sent, {b \in {resend_buf} : req_resend})
        BY DEF TxClock
    <2>2. Ring!RingInv'
        BY <2>1, RingStep
    <2>3. Internal!SelTypeOK'
        BY <2>2 DEF Ring!RingInv, Ring!RingTypeOK, Ring!SelTypeOK, Ring!Buffers,
           Internal!SelTypeOK, Internal!Buffers
    <2>4. MuxTypeOK' /\ Position'
        <3>1. /\ MuxTypeOK /\ Position /\ i_write_sig \in 0 .. NInt - 1
              /\ i_send_sig \in 0 .. NInt - 1 /\ req_send \in BOOLEAN /\ i_req_send \in BOOLEAN
            BY DEF IInv, TxTypeOK, SelTypeOK, Internal!SelTypeOK, Internal!Buffers
        <3>2. /\ input_block(i_write_sig, length # 0, length)
              /\ output_block(i_req_send, i_send_sig) /\ busy_block
            BY <2>1 DEF InternalRam
        <3> QED BY <2>1, <3>1, <3>2, MuxStep
    <2>5. TxTypeOK' /\ WriterHasRequest'
        BY <2>3, <2>4, TypeStep
    <2>6. UdpHandshake'
        BY <2>1, UdpHandshakeStep
    <2>7. RxHandshake' /\ LengthTravels'
        BY <2>1, RxHandshakeStep, LengthStep
    <2> QED BY <2>2, <2>4, <2>5, <2>6, <2>7 DEF IInv
<1> QED BY <1>1, <1>2 DEF TxNext

\* The invariant holds for buffers, lengths, requests and resends of any number,
\* and whatever the MAC, the transactor and the client do.
THEOREM TxInvariant == TxSpec => []IInv
BY InvInit, InvStep, PTL DEF TxSpec

\* The multiplexer sends only a packet its selector is waiting to have sent, and
\* of the internal RAM the oldest one, to that packet's own length, although the
\* length reaches it in three hand-overs and the buffer number in another way.
THEOREM TxMuxSendsItsOwn == TxSpec => []MuxInv
<1>1. IInv => MuxInv
    <2> SUFFICES ASSUME IInv PROVE MuxInv
        OBVIOUS
    <2>1. TxTypeOK /\ RxHandshake /\ UdpHandshake /\ LengthTravels /\ Ring!RingInv
        BY DEF IInv
    <2>2. i_sending => Len(i_order) > 0 /\ i_send_sig = i_order[1] /\ i_send_sig \in i_send_pending
        BY <2>1 DEF Ring!RingInv, Ring!SendsOldest, Ring!PendingIsOrder, Ring!RingTypeOK
    <2>3. SendsWhatIsPending
        BY <2>1, <2>2, Booleans DEF SendsWhatIsPending, UdpHandshake, RxHandshake, Handshake
    <2>4. InternalOwnLength
        BY <2>1, <2>2, Booleans DEF InternalOwnLength, RxHandshake, Handshake, LengthTravels
    <2> QED BY <2>1, <2>3, <2>4 DEF MuxInv
<1> QED BY <1>1, TxInvariant, PTL

\* The two RAMs share the multiplexer, but the internal RAM's selector behaves
\* as the ring on its own: so all that is proved of that holds here too, with the
\* multiplexer's pulses in place of any reader's.
THEOREM InternalRamIsRing == TxSpec => Ring!RingSpec
<1>1. TxInit => Ring!RingInit
    BY DEF TxInit, Internal!SelInit, Internal!Buffers, Ring!RingInit, Ring!SelInit, Ring!Buffers
<1>2. IInv /\ [TxNext]_txVars => [Ring!RingNext]_(Ring!ringVars)
    <2> SUFFICES ASSUME IInv, [TxNext]_txVars PROVE [Ring!RingNext]_(Ring!ringVars)
        OBVIOUS
    <2>1. CASE UNCHANGED txVars
        BY <2>1 DEF txVars, txHistory, iVars, Ring!ringVars, Ring!selVars
    <2>2. ASSUME NEW written \in BOOLEAN, NEW ready \in BOOLEAN, NEW id \in 0 .. MaxId,
                 NEW length \in IntLengths \cup {0}, TxClock(written, id, length, ready)
          PROVE  Ring!RingNext
        <3>1. Ring!Tick(length # 0, FALSE, rxram_sent)
            BY <2>2, RingStep DEF TxClock
        <3>2. rxram_sent \in BOOLEAN
            BY Booleans DEF IInv
        <3> QED BY <3>1, <3>2 DEF Ring!RingNext
    <2> QED BY <2>1, <2>2 DEF TxNext
<1> QED BY <1>1, <1>2, TxInvariant, PTL DEF TxSpec, Ring!RingSpec

\* And so its packets are a queue of whole packets.
THEOREM InternalRamIsFifo == TxSpec => Ring!ImplementsFifo
<1>1. Ring!RingSpec => Ring!ImplementsFifo
    BY RingAssumptions, Ring!RingImplementsFifo
<1> QED BY <1>1, InternalRamIsRing, PTL

-----------------------------------------------------------------------------
(***************************************************************************)
(* The replies, when window and resends together fit in the buffers.       *)
(***************************************************************************)

\* What a reader may count on: what waits to be sent is in no hands but its own.
WriterInFree ==
    /\ free = Buffers \ send_pending
    /\ ~busy => write_sig \in free
    /\ wr # "idle" => ~busy

\* What is in the buffers: each holds one reply, and each reply is in one buffer.
Contents ==
    /\ \A b, c \in Buffers : ram[b].rest = ram[c].rest /\ ram[b].rest # 0 => b = c
    /\ \A b \in Buffers :
          /\ ram[b].rest <= done \/ (b = write_sig /\ wr = "rest")
          /\ ram[b].hdr = ram[b].rest \/ (b = write_sig /\ wr = "hdr")
    /\ wr = "hdr" => ram[write_sig].hdr = done + 1
    /\ wr = "rest" => ram[write_sig] = [hdr |-> done + 1, rest |-> done + 1]
    /\ \A b \in send_pending : ram[b].rest # 0

\* What has been read of the packet that is being sent.
OnTheWire ==
    /\ state \in {2, 3, 4} => wire = Nothing
    /\ state \in {5, 6} /\ ~udpram_active => wire = Nothing
    /\ state = 5 /\ udpram_active /\ addr # 0 => wire.hdr = ram[send_sig].hdr
    /\ state = 6 /\ udpram_active => wire = ram[send_sig]
    /\ state = 7 => wire.hdr = wire.rest
    /\ ipbus_out # 0 =>
          state = 5 /\ udpram_active /\ ipbus_out = ram[send_sig].hdr

\* The packet has gone out and the reader does not know it yet: three clocks.
Leaving  == last_udpram_active /\ ~udpram_active
Left     == last_udpram_busy /\ ~udpram_busy
Gone     == Leaving \/ Left \/ udpram_sent

Replies ==
    /\ Gone => ram[send_sig].rest \in transmitted
    /\ transmitted \subseteq 1 .. done
    /\ got \subseteq transmitted
    /\ done <= requested
    /\ \A n \in 1 .. done : n \in transmitted \/ \E b \in send_pending : ram[b].rest = n
    /\ \A n \in Ids : n + Window <= requested => n \in got

BaseInv == WriterInFree /\ Contents /\ OnTheWire /\ Replies

-----------------------------------------------------------------------------
\* A resend is still to come, or to take effect.
Resendable == resends < MaxResends \/ req_resend

\* The resends that have taken effect.
TookEffect == resends - (IF req_resend THEN 1 ELSE 0)

\* The client may still be without reply k.
Recent(k) == k \in 1 .. done /\ k + Window > done

\* On the way round the ring from b to w there is c.
Between(b, c, w) == IF b < w THEN b < c /\ c < w ELSE b < c \/ c < w

\* The writer has just finished this buffer, and is about to leave it.
JustWritten == busy /\ write_sig \in send_pending /\ ram[write_sig].rest = done

\* Where the writer is to look for room.
Looks == IF JustWritten THEN NextBuf(write_sig) ELSE write_sig

\* Behind a recent reply, as far as the writer has come, are newer replies only,
\* but for buffers the writer passed by: those a resend had taken.
Ordered(revived, w) ==
    \A b, c \in Buffers :
        Recent(ram[b].rest) /\ b # c /\ Between(b, c, w) =>
            ram[c].rest > ram[b].rest \/ c \in revived

\* What waits to be sent and was never sent again is recent: the client cannot
\* have gone on without it.
FirstTime(revived) ==
    \A b \in send_pending \ revived :
        LET k == ram[b].rest
        IN  \/ k \notin transmitted
            \/ b = send_sig /\ \/ Leaving /\ k \notin got
                               \/ Left /\ requested < k + Window
                               \/ udpram_sent /\ done < k + Window

\* An id noted of a buffer is that of the reply in it, or out of date.
Noted ==
    \A b \in Buffers :
        /\ pkt_id_buf[b] \in 0 .. done
        /\ pkt_id_buf[b] = 0 \/ pkt_id_buf[b] = ram[b].rest \/ pkt_id_buf[b] + Window <= done

\* A resend finds the whole reply.
Found ==
    req_resend => /\ asked \in 1 .. done /\ asked \notin got
                  /\ ram[resend_buf] = [hdr |-> asked, rest |-> asked]

ResendInv ==
    Resendable =>
        /\ Noted /\ Found
        /\ \E revived \in SUBSET Buffers :
              /\ Cardinality(revived) <= TookEffect
              /\ Ordered(revived, Looks) /\ FirstTime(revived)

ReplyInv == BaseInv /\ ResendInv
-----------------------------------------------------------------------------
\* What the theorems about replies assume of the client.
WindowFits == Window + MaxResends <= NBuf

\* The ranges the proofs below need, in one place.
LEMMA Ranges ==
    ASSUME TxTypeOK
    PROVE  /\ NBuf \in Nat /\ NBuf > 0 /\ MaxId \in Nat /\ MaxResends \in Nat
           /\ Window \in Nat /\ Window > 0
           /\ Buffers = 0 .. NBuf - 1
           /\ free \subseteq Buffers /\ clean \subseteq Buffers /\ send_pending \subseteq Buffers
           /\ write_sig \in Buffers /\ send_sig \in Buffers /\ resend_buf \in Buffers
           /\ {busy, sending, req_send, req_resend} \subseteq BOOLEAN
           /\ done \in 0 .. MaxId /\ requested \in 0 .. MaxId /\ resends \in 0 .. MaxResends
           /\ ram \in [Buffers -> Parts] /\ pkt_id_buf \in [Buffers -> 0 .. MaxId]
           /\ asked \in 0 .. MaxId /\ wire \in Parts
           /\ \A b \in Buffers : ram[b].hdr \in 0 .. MaxId /\ ram[b].rest \in 0 .. MaxId
<1>1. /\ ram \in [Buffers -> Parts] /\ pkt_id_buf \in [Buffers -> 0 .. MaxId]
      /\ done \in 0 .. MaxId /\ requested \in 0 .. MaxId /\ resends \in 0 .. MaxResends
      /\ asked \in 0 .. MaxId /\ wire \in Parts /\ resend_buf \in Buffers /\ req_resend \in BOOLEAN
    BY DEF TxTypeOK
<1>2. \A b \in Buffers : ram[b].hdr \in 0 .. MaxId /\ ram[b].rest \in 0 .. MaxId
    BY <1>1 DEF Parts
<1>3. /\ free \subseteq Buffers /\ clean \subseteq Buffers /\ send_pending \subseteq Buffers
      /\ write_sig \in Buffers /\ send_sig \in Buffers
      /\ busy \in BOOLEAN /\ sending \in BOOLEAN /\ req_send \in BOOLEAN
    BY DEF TxTypeOK, SelTypeOK
<1> QED BY <1>1, <1>2, <1>3, NBufAssumption, TxAssumption DEF Buffers

\* The buffers are NBuf, and without one of them one fewer.
LEMMA OtherBuffers ==
    ASSUME NEW w \in Buffers
    PROVE  /\ IsFiniteSet(Buffers \ {w}) /\ Cardinality(Buffers \ {w}) = NBuf - 1
           /\ IsFiniteSet(Buffers)
<1>1. IsFiniteSet(Buffers) /\ Cardinality(Buffers) = NBuf
    <2>1. 0 \in Int /\ NBuf - 1 \in Int /\ 0 <= NBuf - 1 + 1
        BY NBufAssumption
    <2>2. IsFiniteSet(0 .. NBuf - 1) /\ Cardinality(0 .. NBuf - 1) = NBuf - 1 - 0 + 1
        BY <2>1, FS_Interval, NBufAssumption
    <2> QED BY <2>2, NBufAssumption DEF Buffers
<1> QED BY <1>1, FS_RemoveElement

\* The newer replies are few enough to count.
LEMMA FewNewer ==
    ASSUME TxTypeOK, Contents, NEW k \in 1 .. done, NEW S \in SUBSET Buffers,
           \A c \in S : ram[c].rest \in k + 1 .. done
    PROVE  IsFiniteSet(S) /\ Cardinality(S) <= done - k
<1>1. done \in Nat /\ k \in Nat /\ k + 1 \in Int /\ k <= done
    BY Ranges
<1>2. IsFiniteSet(k + 1 .. done) /\ Cardinality(k + 1 .. done) = done - k
    BY <1>1, FS_Interval
<1> DEFINE f == [c \in S |-> ram[c].rest]
<1>3. \A c, d \in S : f[c] = f[d] => c = d
    <2> SUFFICES ASSUME NEW c \in S, NEW d \in S, f[c] = f[d] PROVE c = d
        OBVIOUS
    <2>1. ram[c].rest = ram[d].rest /\ ram[c].rest # 0 /\ c \in Buffers /\ d \in Buffers
        BY <1>1
    <2> QED BY <2>1 DEF Contents
<1>4. f \in Injection(S, k + 1 .. done)
    <2>1. f \in [S -> k + 1 .. done]
        OBVIOUS
    <2> QED BY <1>3, <2>1 DEF Injection, IsInjective
<1> HIDE DEF f
<1> QED BY <1>2, <1>4, FS_Injection

\* A buffer that the writer has come round to holds no recent reply: between the
\* two there would be all other buffers, and neither newer replies nor resends are
\* that many.
LEMMA NoRecentAt ==
    ASSUME TxTypeOK, Contents, WindowFits, NEW revived \in SUBSET Buffers,
           Cardinality(revived) <= MaxResends - 1, NEW w \in Buffers, Ordered(revived, w),
           wr = "rest" => w = write_sig
    PROVE  ~Recent(ram[w].rest)
<1> SUFFICES ASSUME Recent(ram[w].rest) PROVE FALSE
    OBVIOUS
<1> DEFINE k == ram[w].rest
           S == {c \in Buffers \ {w} : c \notin revived}
<1>1. /\ k \in 1 .. done /\ k + Window > done /\ done \in Nat /\ Window \in Nat
      /\ MaxResends \in Nat /\ NBuf \in Nat /\ k \in Nat
    BY Ranges DEF Recent
<1>2. \A c \in S : ram[c].rest \in k + 1 .. done
    <2> SUFFICES ASSUME NEW c \in S PROVE ram[c].rest \in k + 1 .. done
        OBVIOUS
    <2>0. c \in Buffers /\ c # w /\ c \notin revived
        OBVIOUS
    <2>1. Between(w, c, w)
        BY <2>0, NBufAssumption DEF Between, Buffers
    <2>2. ram[c].rest > k
        BY <2>0, <2>1 DEF Ordered
    <2>3. ram[c].rest <= done
        <3>1. ram[c].rest <= done \/ (c = write_sig /\ wr = "rest")
            BY <2>0, Zenon DEF Contents
        <3> QED BY <2>0, <3>1
    <2>4. ram[c].rest \in Nat
        <3>1. ram[c].rest \in 0 .. MaxId /\ MaxId \in Nat
            BY <2>0, Ranges
        <3> QED BY <3>1
    <2> QED BY <1>1, <2>2, <2>3, <2>4
<1>3. IsFiniteSet(S) /\ Cardinality(S) <= done - k
    <2> HIDE DEF k
    <2>1. S \in SUBSET Buffers
        OBVIOUS
    <2> HIDE DEF S
    <2> QED BY <1>1, <1>2, <2>1, FewNewer
<1>4. IsFiniteSet(revived) /\ Cardinality(revived) \in Nat
    BY OtherBuffers, FS_Subset, FS_CardinalityType
<1>5. /\ IsFiniteSet(S \cup revived)
      /\ Cardinality(S \cup revived) <= Cardinality(S) + Cardinality(revived)
    <2>1. /\ Cardinality(S \cup revived) =
                Cardinality(S) + Cardinality(revived) - Cardinality(S \cap revived)
          /\ IsFiniteSet(S \cup revived)
        BY <1>3, <1>4, FS_Union
    <2>2. Cardinality(S \cap revived) \in Nat /\ Cardinality(S) \in Nat
        BY <1>3, FS_Intersection, FS_CardinalityType
    <2> QED BY <1>4, <2>1, <2>2
<1>6. Cardinality(Buffers \ {w}) <= Cardinality(S \cup revived)
    <2>1. Buffers \ {w} \subseteq S \cup revived
        OBVIOUS
    <2> QED BY <1>5, <2>1, FS_Subset
<1>7. Cardinality(Buffers \ {w}) = NBuf - 1
    BY OtherBuffers
<1>8. Cardinality(S) \in Nat /\ Cardinality(S \cup revived) \in Nat
    BY <1>3, <1>5, FS_CardinalityType
<1> HIDE DEF k, S
<1> QED BY <1>1, <1>3, <1>4, <1>5, <1>6, <1>7, <1>8 DEF WindowFits

\* A reply the client has not got is recent: the client waits for it.
LEMMA NotGotRecent ==
    ASSUME TxTypeOK, Replies, NEW k \in 1 .. done, k \notin got
    PROVE  Recent(k) /\ requested < k + Window
<1>1. /\ k \in Nat /\ k > 0 /\ k <= done /\ done <= requested /\ requested \in Nat
      /\ Window \in Nat /\ MaxId \in Nat /\ k <= MaxId /\ done \in Nat
    BY Ranges DEF Replies
<1>2. k \in Ids
    BY <1>1 DEF Ids
<1>3. ~(k + Window <= requested)
    BY <1>2 DEF Replies
<1> QED BY <1>1, <1>3 DEF Recent

\* While a resend can still come, fewer than MaxResends have taken effect.
LEMMA SomeLeft ==
    ASSUME TxTypeOK, Resendable
    PROVE  TookEffect \in Int /\ TookEffect <= MaxResends - 1
<1>1. resends \in 0 .. MaxResends /\ MaxResends \in Nat /\ req_resend \in BOOLEAN
    BY Ranges
<1>2. CASE req_resend
    <2>1. TookEffect = resends - 1
        BY <1>2 DEF TookEffect
    <2> QED BY <1>1, <2>1
<1>3. CASE ~req_resend
    <2>1. TookEffect = resends - 0 /\ resends < MaxResends
        BY <1>3 DEF TookEffect, Resendable
    <2> QED BY <1>1, <2>1
<1> QED BY <1>2, <1>3

\* So the writer is not at a recent reply, but for the one it has just finished.
LEMMA WriterAwayFromRecent ==
    ASSUME TxTypeOK, ReplyInv, WindowFits, Resendable
    PROVE  /\ Looks \in Buffers
           /\ \A b \in Buffers : Recent(ram[b].rest) => b # Looks
           /\ ~JustWritten => Looks = write_sig
<1>1. Contents /\ WriterInFree
    BY DEF ReplyInv, BaseInv
<1>2. PICK revived \in SUBSET Buffers :
          Cardinality(revived) <= TookEffect /\ Ordered(revived, Looks)
    BY DEF ReplyInv, ResendInv
<1>3. Cardinality(revived) <= MaxResends - 1
    <2>1. Cardinality(revived) \in Nat /\ MaxResends \in Nat
        BY OtherBuffers, FS_Subset, FS_CardinalityType, Ranges
    <2> QED BY <1>2, <2>1, SomeLeft
<1>4. Looks \in Buffers /\ (~JustWritten => Looks = write_sig)
    <2>1. write_sig \in Buffers
        BY Ranges
    <2>2. NextBuf(write_sig) \in Buffers
        BY <2>1, NBufAssumption DEF NextBuf, Buffers
    <2> QED BY <2>1, <2>2 DEF Looks
<1>5. wr = "rest" => Looks = write_sig
    BY <1>1, <1>4 DEF WriterInFree, JustWritten
<1>6. ~Recent(ram[Looks].rest)
    BY <1>1, <1>2, <1>3, <1>4, <1>5, NoRecentAt
<1> QED BY <1>4, <1>6

\* And what a resend has found is not under the writer, unless just finished.
LEMMA FoundElsewhere ==
    ASSUME TxTypeOK, ReplyInv, WindowFits, req_resend
    PROVE  /\ Recent(asked) /\ ram[resend_buf].rest = asked
           /\ resend_buf \in Buffers /\ resend_buf # Looks
           /\ resend_buf = write_sig => write_sig \in send_pending
<1>1. /\ asked \in 1 .. done /\ asked \notin got
      /\ ram[resend_buf] = [hdr |-> asked, rest |-> asked]
      /\ Resendable /\ Replies
    BY DEF ReplyInv, ResendInv, BaseInv, Resendable, Found
<1>2. Recent(asked) /\ ram[resend_buf].rest = asked /\ resend_buf \in Buffers
    BY <1>1, NotGotRecent, Ranges
<1>3. resend_buf # Looks
    BY <1>1, <1>2, WriterAwayFromRecent
<1>4. resend_buf = write_sig => JustWritten
    BY <1>1, <1>3, WriterAwayFromRecent
<1> QED BY <1>2, <1>3, <1>4 DEF JustWritten

\* What the writer does to the RAM in one clock.
LEMMA RamStep ==
    ASSUME TxTypeOK, BaseInv, NEW written \in BOOLEAN, Writer(written)
    PROVE  /\ \A b \in Buffers : b # write_sig => ram'[b] = ram[b]
           /\ wr = "idle" => ram' = ram
           /\ wr' # "idle" => ~busy
           /\ written => /\ wr = "rest" /\ wr' = "idle" /\ ~busy /\ ram' = ram
                         /\ done' = done + 1
           /\ ~written => done' = done
           /\ ~written => \/ ram' = ram /\ (wr' = wr \/ (wr = "idle" /\ wr' = "start"))
                          \/ /\ wr = "start" /\ wr' = "hdr"
                             /\ ram'[write_sig] = [ram[write_sig] EXCEPT !.hdr = done + 1]
                          \/ /\ wr = "hdr" /\ wr' = "rest"
                             /\ ram'[write_sig] = [ram[write_sig] EXCEPT !.rest = done + 1]
<1>1. ram \in [Buffers -> Parts] /\ write_sig \in Buffers /\ WriterInFree
    BY Ranges DEF BaseInv
<1>2. ASSUME NEW next, NEW contents, WriterStep(next, contents)
      PROVE  /\ wr' = next /\ ram'[write_sig] = contents
             /\ \A b \in Buffers : b # write_sig => ram'[b] = ram[b]
             /\ contents = ram[write_sig] => ram' = ram
    BY <1>1, <1>2 DEF WriterStep
<1>3. CASE written
    <2>1. wr = "rest" /\ WriterStep("idle", ram[write_sig]) /\ done' = done + 1
        BY <1>3 DEF Writer, Finish
    <2> QED BY <1>1, <1>2, <1>3, <2>1 DEF WriterInFree
<1>4. CASE ~written
    <2>1. done' = done
        BY <1>4 DEF Writer
    <2>2. CASE Idle
        BY <1>1, <1>4, <2>1, <2>2 DEF Idle, WriterInFree
    <2>3. CASE Begin
        BY <1>1, <1>2, <1>4, <2>1, <2>3 DEF Begin
    <2>4. CASE Header
        BY <1>1, <1>2, <1>4, <2>1, <2>4 DEF Header, WriterInFree
    <2>5. CASE Rest
        BY <1>1, <1>2, <1>4, <2>1, <2>5 DEF Rest, WriterInFree
    <2> QED BY <1>4, <2>2, <2>3, <2>4, <2>5 DEF Writer
<1> QED BY <1>3, <1>4

\* What the selector does in one clock.
LEMMA SelectorStep ==
    ASSUME IInv, ReplyInv, WindowFits, NEW written \in BOOLEAN, written => ~busy,
           Clock(written, we_125, udpram_sent, {b \in {resend_buf} : req_resend})
    PROVE  /\ \A b \in send_pending' :
                 \/ b \in send_pending
                 \/ written /\ b = write_sig
                 \/ req_resend /\ b = resend_buf
           /\ \A b \in send_pending : b \in send_pending' \/ (udpram_sent /\ b = send_sig)
           /\ udpram_sent => sending /\ send_sig \in send_pending /\ send_sig \notin send_pending'
           /\ written => write_sig \in send_pending' /\ write_sig \notin send_pending
           /\ free' = Buffers \ send_pending'
           /\ ~busy' => write_sig' \in free'
           /\ ~busy => write_sig' = write_sig /\ busy' = written
           /\ busy /\ write_sig \in free => write_sig' = write_sig /\ busy' = FALSE
           /\ busy /\ write_sig \notin free => write_sig' = NextBuf(write_sig) /\ busy' = TRUE
           /\ sending => send_sig' = send_sig
<1>1. TxTypeOK /\ WriterInFree /\ UdpHandshake
    BY DEF IInv, ReplyInv, BaseInv
<1>2. /\ free \subseteq Buffers /\ send_pending \subseteq Buffers /\ write_sig \in Buffers
      /\ send_sig \in Buffers /\ resend_buf \in Buffers
      /\ busy \in BOOLEAN /\ sending \in BOOLEAN /\ udpram_sent \in BOOLEAN
      /\ req_resend \in BOOLEAN
    BY <1>1, Ranges, Booleans
<1>3. /\ udpram_sent => sending /\ send_sig \in send_pending
      /\ sending => send_sig \in send_pending
    BY <1>1, <1>2 DEF UdpHandshake, Handshake
<1> DEFINE T == {b \in Buffers : \/ written /\ b = write_sig
                                 \/ req_resend /\ b = resend_buf /\ b \in clean}
           L == {b \in Buffers : udpram_sent /\ b = send_sig}
<1>4. /\ free' = (free \ T) \cup L /\ send_pending' = (send_pending \cup T) \ L
    <2>1. T = Taken(written, {b \in {resend_buf} : req_resend}) /\ L = Released(udpram_sent)
        BY DEF Taken, Released
    <2> QED BY <2>1 DEF Clock, FreeBlock, SendPendingBlock
<1>5. /\ write_sig' = IF busy /\ write_sig \notin free THEN NextBuf(write_sig) ELSE write_sig
      /\ busy' = IF busy /\ write_sig \in free THEN FALSE ELSE busy \/ written
      /\ sending => send_sig' = send_sig
    <2>1. sending => send_sig' = send_sig
        BY <1>3 DEF Clock, SendBlock
    <2> QED BY <2>1, Zenon DEF Clock, WriteBlock, BusyBlock
<1>6. free = Buffers \ send_pending /\ (~busy => write_sig \in free)
    BY <1>1 DEF WriterInFree
<1>7. T \subseteq Buffers /\ L \subseteq Buffers
    OBVIOUS
<1>8. req_resend /\ resend_buf = write_sig => write_sig \notin free
    BY <1>1, <1>6, FoundElsewhere
<1>9. write_sig \in free /\ ~written => write_sig \in free'
    BY <1>4, <1>8
<1>10. free' = Buffers \ send_pending'
    <2> HIDE DEF T, L
    <2> QED BY <1>2, <1>4, <1>6, <1>7
<1>11. /\ \A b \in send_pending' : b \in send_pending \/ b \in T
       /\ \A b \in send_pending : b \in send_pending' \/ b \in L
       /\ \A b \in L : b \notin send_pending'
       /\ \A b \in T : b \in L \/ b \in send_pending'
    <2> HIDE DEF T, L
    <2> QED BY <1>4
<1>12. written => write_sig \in send_pending' /\ write_sig \notin send_pending
    <2> SUFFICES ASSUME written
                 PROVE  write_sig \in send_pending' /\ write_sig \notin send_pending
        OBVIOUS
    <2>1. write_sig \notin send_pending
        BY <1>6
    <2>2. write_sig \in T /\ write_sig \notin L
        BY <1>2, <1>3, <2>1
    <2> QED BY <1>11, <2>1, <2>2
<1>13. /\ ~busy => write_sig' = write_sig /\ busy' = written
       /\ busy /\ write_sig \in free => write_sig' = write_sig /\ busy' = FALSE
       /\ busy /\ write_sig \notin free => write_sig' = NextBuf(write_sig) /\ busy' = TRUE
    BY <1>2, <1>5
<1>14. ~busy' => write_sig' \in free'
    BY <1>2, <1>6, <1>9, <1>13
<1>15. /\ \A b \in send_pending' :
            b \in send_pending \/ (written /\ b = write_sig) \/ (req_resend /\ b = resend_buf)
       /\ \A b \in send_pending : b \in send_pending' \/ (udpram_sent /\ b = send_sig)
       /\ udpram_sent => sending /\ send_sig \in send_pending /\ send_sig \notin send_pending'
    BY <1>2, <1>3, <1>11
<1> HIDE DEF T, L
<1> QED BY <1>5, <1>10, <1>12, <1>13, <1>14, <1>15

\* Both, of a clock of the whole.
LEMMA ClockStep ==
    ASSUME IInv, ReplyInv, WindowFits, NEW written \in BOOLEAN, NEW id, NEW length, NEW ready,
           TxClock(written, id, length, ready)
    PROVE  /\ TxTypeOK /\ BaseInv /\ Writer(written) /\ (written => ~busy)
           /\ Clock(written, we_125, udpram_sent, {b \in {resend_buf} : req_resend})
<1>1. TxTypeOK /\ BaseInv /\ Writer(written)
    BY DEF IInv, ReplyInv, TxClock
<1>2. written => ~busy
    BY <1>1, RamStep
<1> QED BY <1>1, <1>2 DEF TxClock

\* The writer keeps to a free buffer.
LEMMA WriterInFreeStep ==
    ASSUME IInv, ReplyInv, WindowFits, NEW written \in BOOLEAN, NEW id, NEW length, NEW ready,
           TxClock(written, id, length, ready)
    PROVE  WriterInFree'
<1>1. TxTypeOK /\ BaseInv /\ Writer(written) /\ (written => ~busy)
    BY ClockStep
<1>2. /\ free' = Buffers \ send_pending'
      /\ ~busy' => write_sig' \in free'
      /\ ~busy => busy' = written
    BY ClockStep, SelectorStep
<1>3. wr' # "idle" => ~busy'
    <2>1. wr' # "idle" => ~busy /\ ~written
        BY <1>1, RamStep
    <2> QED BY <1>2, <2>1
<1> QED BY <1>2, <1>3 DEF WriterInFree

\* A packet that waits to be sent is not written over.
LEMMA PendingUnwritten ==
    ASSUME TxTypeOK, BaseInv, NEW written \in BOOLEAN, Writer(written), NEW b \in send_pending
    PROVE  /\ ram'[b] = ram[b] /\ b \in Buffers
           /\ ram[b].hdr = ram[b].rest /\ ram[b].rest \in 1 .. done
<1>1. b \in Buffers /\ (b = write_sig => wr = "idle")
    BY Ranges DEF BaseInv, WriterInFree
<1>2. ram'[b] = ram[b]
    BY <1>1, RamStep
<1>3. ram[b].hdr = ram[b].rest /\ ram[b].rest <= done /\ ram[b].rest # 0
    BY <1>1 DEF BaseInv, Contents
<1>4. ram[b].rest \in 0 .. MaxId /\ done \in 0 .. MaxId /\ MaxId \in Nat
    BY <1>1, Ranges
<1> QED BY <1>1, <1>2, <1>3, <1>4

\* Each buffer holds one reply, and each reply is in one buffer.
LEMMA ContentsStep ==
    ASSUME IInv, ReplyInv, WindowFits, NEW written \in BOOLEAN, NEW id, NEW length, NEW ready,
           TxClock(written, id, length, ready)
    PROVE  Contents'
<1>1. /\ TxTypeOK /\ BaseInv /\ Writer(written) /\ (written => ~busy)
      /\ Contents /\ WriterInFree /\ write_sig \in Buffers /\ send_pending \subseteq Buffers
      /\ done \in Nat
    BY ClockStep, Ranges DEF BaseInv
<1>2. /\ \A b \in send_pending' :
            b \in send_pending \/ (written /\ b = write_sig) \/ (req_resend /\ b = resend_buf)
      /\ ~busy => write_sig' = write_sig
    BY ClockStep, SelectorStep
<1>3. /\ \A b \in Buffers : b # write_sig => ram'[b] = ram[b]
      /\ wr = "idle" => ram' = ram
      /\ wr' # "idle" => ~busy
      /\ written => wr = "rest" /\ wr' = "idle" /\ ~busy /\ ram' = ram /\ done' = done + 1
      /\ ~written => done' = done
      /\ ~written => \/ ram' = ram /\ (wr' = wr \/ (wr = "idle" /\ wr' = "start"))
                     \/ /\ wr = "start" /\ wr' = "hdr"
                        /\ ram'[write_sig] = [ram[write_sig] EXCEPT !.hdr = done + 1]
                     \/ /\ wr = "hdr" /\ wr' = "rest"
                        /\ ram'[write_sig] = [ram[write_sig] EXCEPT !.rest = done + 1]
    BY <1>1, RamStep
<1>4. /\ \A b, c \in Buffers : ram[b].rest = ram[c].rest /\ ram[b].rest # 0 => b = c
      /\ \A b \in Buffers : ram[b].rest <= done \/ (b = write_sig /\ wr = "rest")
      /\ \A b \in Buffers : ram[b].hdr = ram[b].rest \/ (b = write_sig /\ wr = "hdr")
      /\ wr = "hdr" => ram[write_sig].hdr = done + 1
      /\ wr = "rest" => ram[write_sig] = [hdr |-> done + 1, rest |-> done + 1]
      /\ \A b \in send_pending : ram[b].rest # 0
    BY <1>1 DEF Contents
<1>5. /\ \A b \in Buffers : ram[b].hdr \in Nat /\ ram[b].rest \in Nat
      /\ ram[write_sig] \in Parts
    <2>1. MaxId \in Nat /\ ram[write_sig] \in Parts
          /\ \A b \in Buffers : ram[b].hdr \in 0 .. MaxId /\ ram[b].rest \in 0 .. MaxId
        BY <1>1, Ranges
    <2> QED BY <2>1
<1> DEFINE Goal(r, w, d, s) ==
        /\ \A b, c \in Buffers : r[b].rest = r[c].rest /\ r[b].rest # 0 => b = c
        /\ \A b \in Buffers : r[b].rest <= d \/ (b = s /\ w = "rest")
        /\ \A b \in Buffers : r[b].hdr = r[b].rest \/ (b = s /\ w = "hdr")
        /\ w = "hdr" => r[s].hdr = d + 1
        /\ w = "rest" => r[s] = [hdr |-> d + 1, rest |-> d + 1]
<1>6. Goal(ram', wr', done', write_sig')
    <2>1. CASE written
        <3>1. wr = "rest" /\ wr' = "idle" /\ ram' = ram /\ done' = done + 1
            BY <1>3, <2>1
        <3>2. \A b \in Buffers : ram[b].rest <= done + 1
            BY <1>1, <1>4, <1>5, <3>1
        <3> QED BY <1>4, <3>1, <3>2
    <2>2. CASE ~written /\ ram' = ram /\ (wr' = wr \/ (wr = "idle" /\ wr' = "start"))
        <3>1. done' = done /\ (wr' \in {"hdr", "rest"} => wr' = wr /\ write_sig' = write_sig)
            BY <1>2, <1>3, <2>2
        <3>2. wr \in {"hdr", "rest"} => wr' = wr
            BY <2>2
        <3> QED BY <1>4, <2>2, <3>1, <3>2
    <2>3. CASE /\ ~written /\ wr = "start" /\ wr' = "hdr"
               /\ ram'[write_sig] = [ram[write_sig] EXCEPT !.hdr = done + 1]
        <3>1. done' = done /\ write_sig' = write_sig
            BY <1>2, <1>3, <2>3
        <3>2. ram'[write_sig].hdr = done + 1 /\ ram'[write_sig].rest = ram[write_sig].rest
            BY <1>5, <2>3 DEF Parts
        <3>3. \A b \in Buffers : ram'[b].rest = ram[b].rest
            BY <1>3, <3>2
        <3>4. \A b \in Buffers : b # write_sig => ram'[b].hdr = ram[b].hdr
            BY <1>3
        <3>5. \A b, c \in Buffers : ram'[b].rest = ram'[c].rest /\ ram'[b].rest # 0 => b = c
            BY <1>4, <3>3
        <3>6. \A b \in Buffers : ram'[b].rest <= done
            BY <1>4, <2>3, <3>3
        <3>7. \A b \in Buffers : b # write_sig => ram'[b].hdr = ram'[b].rest
            BY <1>4, <2>3, <3>3, <3>4
        <3> QED BY <2>3, <3>1, <3>2, <3>5, <3>6, <3>7
    <2>4. CASE /\ ~written /\ wr = "hdr" /\ wr' = "rest"
               /\ ram'[write_sig] = [ram[write_sig] EXCEPT !.rest = done + 1]
        <3>1. done' = done /\ write_sig' = write_sig
            BY <1>2, <1>3, <2>4
        <3>2. ram'[write_sig] = [hdr |-> done + 1, rest |-> done + 1]
            BY <1>4, <1>5, <2>4 DEF Parts
        <3>3. \A b \in Buffers : b # write_sig => ram'[b] = ram[b] /\ ram[b].rest <= done
            BY <1>3, <1>4, <2>4
        <3>4. \A b \in Buffers : b # write_sig => ram'[b].rest # done + 1
            BY <1>1, <1>5, <3>3
        <3>5. \A b, c \in Buffers : ram'[b].rest = ram'[c].rest /\ ram'[b].rest # 0 => b = c
            BY <1>4, <3>2, <3>3, <3>4
        <3>6. \A b \in Buffers : b # write_sig => ram'[b].hdr = ram'[b].rest
            BY <1>4, <2>4, <3>3
        <3> QED BY <2>4, <3>1, <3>2, <3>3, <3>5, <3>6
    <2> QED BY <1>3, <2>1, <2>2, <2>3, <2>4
<1>7. \A b \in send_pending' : ram'[b].rest # 0
    <2> SUFFICES ASSUME NEW b \in send_pending' PROVE ram'[b].rest # 0
        OBVIOUS
    <2>1. CASE b \in send_pending
        BY <1>1, <1>4, <2>1, PendingUnwritten
    <2>2. CASE written /\ b = write_sig
        BY <1>1, <1>3, <1>4, <2>2
    <2>3. CASE req_resend /\ b = resend_buf
        <3>1. Recent(asked) /\ ram[b].rest = asked /\ b \in Buffers
              /\ (b = write_sig => write_sig \in send_pending)
            BY <1>1, <2>3, FoundElsewhere
        <3>2. ram'[b] = ram[b]
            BY <1>1, <1>3, <3>1, PendingUnwritten
        <3> QED BY <1>1, <3>1, <3>2 DEF Recent
    <2> QED BY <1>2, <2>1, <2>2, <2>3
<1> QED BY <1>6, <1>7 DEF Contents

\* The multiplexer reads both parts of the packet, and they stay as they are.
LEMMA WireStep ==
    ASSUME IInv, ReplyInv, WindowFits, NEW written \in BOOLEAN, NEW id, NEW length,
           NEW ready \in BOOLEAN, TxClock(written, id, length, ready)
    PROVE  OnTheWire'
<1>1. /\ TxTypeOK /\ BaseInv /\ Writer(written) /\ Position /\ UdpHandshake /\ OnTheWire
      /\ state_machine(ready) /\ ReadRam(ready)
    BY ClockStep DEF IInv, BaseInv, TxClock
<1>2. udpram_active => /\ sending /\ send_sig \in send_pending /\ send_sig' = send_sig
                       /\ ram'[send_sig] = ram[send_sig] /\ ram[send_sig].hdr = ram[send_sig].rest
    <2> SUFFICES ASSUME udpram_active
                 PROVE  /\ sending /\ send_sig \in send_pending /\ send_sig' = send_sig
                        /\ ram'[send_sig] = ram[send_sig]
                        /\ ram[send_sig].hdr = ram[send_sig].rest
        OBVIOUS
    <2>1. sending /\ send_sig \in send_pending
        BY <1>1, Booleans DEF UdpHandshake, Handshake
    <2> QED BY <1>1, <2>1, ClockStep, SelectorStep, PendingUnwritten
<1>3. /\ state \in 0 .. 7 /\ addr \in Nat /\ UdpEnd = 1
      /\ {udpram_active, rxram_active} \subseteq BOOLEAN
      /\ ram[send_sig] \in Parts /\ wire \in Parts
    <2>1. \E m \in Ends : addr \in 0 .. m
        BY <1>1 DEF TxTypeOK, MuxTypeOK
    <2>2. \A m \in Ends : m \in Nat
        BY MuxAssumption DEF Ends
    <2>3. addr \in Nat
        BY <2>1, <2>2
    <2> QED BY <1>1, <2>3, Booleans, Ranges, TxAssumption
<1> DEFINE reads == state = 5 /\ udpram_active /\ taken(ready)
<1>4. /\ wire' = IF state = 1 THEN Nothing
                 ELSE IF reads /\ addr = 0 THEN [wire EXCEPT !.hdr = ram[send_sig].hdr]
                 ELSE IF reads THEN [wire EXCEPT !.rest = ram[send_sig].rest]
                 ELSE wire
      /\ ipbus_out' = IF reads /\ addr = 0 THEN ram[send_sig].hdr ELSE 0
    BY <1>1 DEF ReadRam
<1>5. /\ state \in {2, 3, 4} => wire = Nothing
      /\ state \in {5, 6} /\ ~udpram_active => wire = Nothing
      /\ state = 5 /\ udpram_active /\ addr # 0 => wire.hdr = ram[send_sig].hdr
      /\ state = 6 /\ udpram_active => wire = ram[send_sig]
      /\ state = 7 => wire.hdr = wire.rest
    BY <1>1 DEF OnTheWire
<1> DEFINE Wire == /\ state \in {2, 3, 4} => wire = Nothing
                   /\ state \in {5, 6} /\ ~udpram_active => wire = Nothing
                   /\ state = 5 /\ udpram_active /\ addr # 0 => wire.hdr = ram[send_sig].hdr
                   /\ state = 6 /\ udpram_active => wire = ram[send_sig]
                   /\ state = 7 => wire.hdr = wire.rest
<1>6. Wire' /\ (reads /\ addr = 0 => state' = 5 /\ udpram_active')
    <2>1. CASE Reset0
        BY <1>3, <2>1 DEF Reset0
    <2>2. CASE Choose
        BY <1>3, <1>4, <2>2 DEF Choose
    <2>3. CASE Prefetch
        <3>1. /\ state \in {2, 3, 4} /\ state' \in {3, 4, 5} /\ udpram_active' = udpram_active
              /\ wire' = wire /\ addr' = addr
            BY <1>3, <1>4, <2>3 DEF Prefetch
        <3>2. addr = 0 /\ wire = Nothing
            BY <1>1, <1>5, <3>1 DEF Position
        <3> QED BY <3>1, <3>2
    <2>4. CASE Stream(ready)
        <3>1. state = 5 /\ udpram_active' = udpram_active /\ state' \in {5, 6}
            BY <2>4 DEF Stream
        <3>2. CASE ~udpram_active
            BY <1>4, <1>5, <3>1, <3>2
        <3>3. CASE udpram_active /\ ~taken(ready)
            BY <1>2, <1>4, <1>5, <2>4, <3>1, <3>3 DEF Stream
        <3>4. CASE udpram_active /\ taken(ready) /\ addr = 0
            <4>1. state' = 5 /\ wire'.hdr = ram[send_sig].hdr
                BY <1>3, <1>4, <2>4, <3>4 DEF Stream, Parts
            <4> QED BY <1>2, <3>1, <3>4, <4>1
        <3>5. CASE udpram_active /\ taken(ready) /\ addr # 0
            <4>1. addr = 1
                BY <1>1, <1>3, <3>1, <3>5 DEF Position
            <4>2. state' = 6 /\ wire' = [wire EXCEPT !.rest = ram[send_sig].rest]
                BY <1>3, <1>4, <2>4, <3>5, <4>1 DEF Stream
            <4>3. wire' = ram[send_sig]
                BY <1>3, <1>5, <3>1, <3>5, <4>2 DEF Parts
            <4> QED BY <1>2, <3>1, <3>5, <4>2, <4>3
        <3> QED BY <3>2, <3>3, <3>4, <3>5
    <2>5. CASE LastButOne(ready)
        <3>1. /\ state = 6 /\ state' \in {6, 7} /\ wire' = wire
              /\ state' = 6 => udpram_active' = udpram_active
            BY <1>4, <2>5 DEF LastButOne
        <3>2. wire.hdr = wire.rest
            BY <1>2, <1>3, <1>5, <3>1 DEF Nothing
        <3> QED BY <1>2, <1>5, <3>1, <3>2
    <2>6. CASE LastByte(ready)
        BY <1>4, <1>5, <2>6 DEF LastByte
    <2> QED BY <1>1, <2>1, <2>2, <2>3, <2>4, <2>5, <2>6 DEF state_machine
<1>7. ipbus_out' # 0 => state' = 5 /\ udpram_active' /\ ipbus_out' = ram'[send_sig'].hdr
    BY <1>2, <1>4, <1>6
<1> QED BY <1>6, <1>7 DEF OnTheWire

\* How a packet that has gone out comes to be given back.
LEMMA GoneStep ==
    ASSUME IInv, ReplyInv, WindowFits, NEW written \in BOOLEAN, NEW id, NEW length,
           NEW ready \in BOOLEAN, TxClock(written, id, length, ready)
    PROVE  /\ {Leaving, Left, udpram_sent, udpram_active} \subseteq BOOLEAN
           /\ udpram_active \/ Gone => sending /\ send_sig \in send_pending
           /\ Leaving' => state = 6 /\ udpram_active /\ taken(ready)
           /\ Left' => Leaving
           /\ udpram_sent' => Left
           /\ state = 6 /\ taken(ready) /\ udpram_active => Leaving'
           /\ Leaving => Left'
           /\ Left => udpram_sent'
           /\ udpram_active \/ Leaving \/ Left => ~udpram_sent
<1>1. TxTypeOK /\ Position /\ UdpHandshake /\ state_machine(ready)
    BY DEF IInv, TxClock
<1>2. /\ {sending, req_send, udpram_active, last_udpram_active, udpram_busy,
          last_udpram_busy, udpram_sent} \subseteq BOOLEAN
    BY <1>1, Booleans
<1>3. /\ udpram_busy' = (req_send \/ (udpram_busy /\ ~(last_udpram_active /\ ~udpram_active)))
      /\ last_udpram_active' = udpram_active
      /\ udpram_sent' = (last_udpram_busy /\ ~udpram_busy)
      /\ last_udpram_busy' = udpram_busy
    BY DEF TxClock, udp_event, EventFlag, Falls, sent_block
<1>4. /\ Handshake(sending, req_send, udpram_busy, last_udpram_busy, udpram_sent,
                   udpram_active, last_udpram_active)
      /\ sending => send_sig \in send_pending
    BY <1>1 DEF UdpHandshake
<1>5. /\ req_send => ~udpram_busy /\ ~last_udpram_busy /\ ~udpram_sent
      /\ udpram_busy \/ last_udpram_busy => sending /\ ~udpram_sent
      /\ udpram_sent => sending
      /\ udpram_active \/ last_udpram_active => udpram_busy
    BY <1>2, <1>4 DEF Handshake
<1>6. /\ {Leaving, Left, udpram_sent, udpram_active} \subseteq BOOLEAN
      /\ udpram_active \/ Leaving \/ Left => sending /\ ~udpram_sent
    BY <1>2, <1>5 DEF Leaving, Left
<1>7. udpram_active \/ Gone => sending /\ send_sig \in send_pending
    BY <1>4, <1>5, <1>6 DEF Gone
<1>8. /\ udpram_active /\ ~udpram_active' => state = 6 /\ taken(ready)
      /\ state = 6 /\ taken(ready) => ~udpram_active'
    <2>1. udpram_active => state \in 2 .. 6
        BY <1>1 DEF Position
    <2>2. CASE Reset0
        BY <1>2, <2>1, <2>2 DEF Reset0
    <2>3. CASE Choose
        BY <1>2, <2>1, <2>3 DEF Choose
    <2>4. CASE Prefetch
        BY <1>2, <2>1, <2>4 DEF Prefetch
    <2>5. CASE Stream(ready)
        BY <1>2, <2>1, <2>5 DEF Stream
    <2>6. CASE LastButOne(ready)
        BY <1>2, <2>1, <2>6 DEF LastButOne
    <2>7. CASE LastByte(ready)
        BY <1>2, <2>1, <2>7 DEF LastByte
    <2> QED BY <1>1, <2>2, <2>3, <2>4, <2>5, <2>6, <2>7 DEF state_machine
<1>9. /\ Leaving' = (udpram_active /\ ~udpram_active')
      /\ Left' = (udpram_busy /\ ~udpram_busy')
      /\ udpram_sent' = Left
    BY <1>3 DEF Leaving, Left
<1>10. Leaving' => state = 6 /\ udpram_active /\ taken(ready)
    BY <1>2, <1>8, <1>9
<1>11. (Left' => Leaving) /\ (Leaving => Left')
    BY <1>2, <1>3, <1>5, <1>9 DEF Leaving
<1>12. state = 6 /\ taken(ready) /\ udpram_active => Leaving'
    BY <1>2, <1>8, <1>9
<1> QED BY <1>6, <1>7, <1>9, <1>10, <1>11, <1>12

\* What goes out whole in this clock: the reply under the reader, and only that.
LEMMA TransmittedStep ==
    ASSUME IInv, ReplyInv, WindowFits, NEW written \in BOOLEAN, NEW id, NEW length,
           NEW ready \in BOOLEAN, TxClock(written, id, length, ready)
    PROVE  /\ transmitted \subseteq transmitted'
           /\ \A n \in transmitted' : n \in transmitted \/ (Leaving' /\ n = ram[send_sig].rest)
           /\ Leaving' => ram[send_sig].rest \in transmitted'
<1>1. TxTypeOK /\ BaseInv /\ Writer(written) /\ OnTheWire
    BY ClockStep DEF BaseInv
<1>2. transmitted' = IF state = 6 /\ taken(ready) /\ wire.hdr = wire.rest
                     THEN transmitted \cup ({wire.hdr} \ {0}) ELSE transmitted
    BY DEF TxClock
<1>3. state = 6 /\ udpram_active => /\ wire = ram[send_sig] /\ ram[send_sig].rest \in 1 .. done
                                    /\ ram[send_sig].hdr = ram[send_sig].rest
    <2>1. udpram_active => send_sig \in send_pending
        BY GoneStep
    <2> QED BY <1>1, <2>1, PendingUnwritten DEF OnTheWire
<1>4. state = 6 /\ ~udpram_active => wire.hdr = 0
    BY <1>1 DEF OnTheWire, Nothing
<1>5. /\ Leaving' => state = 6 /\ udpram_active /\ taken(ready)
      /\ state = 6 /\ taken(ready) /\ udpram_active => Leaving'
    BY GoneStep
<1>6. \A n \in transmitted' : n \in transmitted \/ (Leaving' /\ n = ram[send_sig].rest)
    <2> SUFFICES ASSUME NEW n \in transmitted', n \notin transmitted
                 PROVE  Leaving' /\ n = ram[send_sig].rest
        OBVIOUS
    <2>1. state = 6 /\ taken(ready) /\ n = wire.hdr /\ n # 0
        BY <1>2
    <2>2. udpram_active
        BY <1>4, <2>1
    <2> QED BY <1>3, <1>5, <2>1, <2>2
<1>7. Leaving' => ram[send_sig].rest \in transmitted'
    <2> SUFFICES ASSUME Leaving' PROVE ram[send_sig].rest \in transmitted'
        OBVIOUS
    <2>1. state = 6 /\ udpram_active /\ taken(ready)
        BY <1>5
    <2>2. wire.hdr = wire.rest /\ wire.hdr = ram[send_sig].rest /\ ram[send_sig].rest # 0
        BY <1>3, <2>1
    <2> QED BY <1>2, <2>1, <2>2
<1> QED BY <1>2, <1>6, <1>7

\* What the client does: it goes on only when it has got the reply a window back.
LEMMA ClientStep ==
    ASSUME TxTypeOK, Replies, NEW id \in 0 .. MaxId, Client(id)
    PROVE  /\ requested' \in Nat /\ requested' >= requested /\ requested' <= requested + 1
           /\ got \subseteq got'
           /\ \A n \in got' : n \in transmitted
           /\ \A n \in Ids : n + Window <= requested' => n \in got
           /\ id = 0 => resends' = resends
           /\ id # 0 => /\ id \in 1 .. requested /\ id \notin got /\ got' = got
                        /\ resends < MaxResends /\ resends' = resends + 1
<1>1. /\ requested \in Nat /\ Window \in Nat /\ MaxId \in Nat /\ got \subseteq transmitted
      /\ \A n \in Ids : n + Window <= requested => n \in got
      /\ \A n \in Ids : n \in Nat
    BY Ranges DEF Replies, Ids
<1>2. CASE id # 0
    BY <1>1, <1>2 DEF Client, AskAgain
<1>3. CASE id = 0 /\ Request
    BY <1>1, <1>3 DEF Request
<1>4. CASE id = 0 /\ Receive
    BY <1>1, <1>4 DEF Receive
<1>5. CASE id = 0 /\ UNCHANGED clientVars
    BY <1>1, <1>5 DEF clientVars
<1> QED BY <1>2, <1>3, <1>4, <1>5 DEF Client

\* No reply is lost, and what the client has was sent.
LEMMA RepliesStep ==
    ASSUME IInv, ReplyInv, WindowFits, NEW written \in BOOLEAN, NEW id \in 0 .. MaxId, NEW length,
           NEW ready \in BOOLEAN, TxClock(written, id, length, ready)
    PROVE  Replies'
<1>1. /\ TxTypeOK /\ BaseInv /\ Writer(written) /\ Replies /\ Contents /\ WriterHasRequest
      /\ Client(id)
    BY ClockStep DEF BaseInv, IInv, TxClock
<1>2. /\ done \in Nat /\ requested \in Nat /\ done <= requested
      /\ written => done' = done + 1 /\ done < requested /\ wr = "rest"
      /\ ~written => done' = done
    BY <1>1, RamStep, Ranges DEF Replies, WriterHasRequest
<1>3. /\ requested' \in Nat /\ requested' >= requested
      /\ \A n \in got' : n \in transmitted
      /\ \A n \in Ids : n + Window <= requested' => n \in got
      /\ got \subseteq got'
    BY <1>1, ClientStep
<1>4. /\ transmitted \subseteq transmitted'
      /\ \A n \in transmitted' : n \in transmitted \/ (Leaving' /\ n = ram[send_sig].rest)
      /\ Leaving' => ram[send_sig].rest \in transmitted'
    BY TransmittedStep
<1>5. Gone' => udpram_active \/ Leaving \/ Left
    BY GoneStep DEF Gone
<1>6. udpram_active \/ Leaving \/ Left =>
          /\ send_sig' = send_sig /\ ram'[send_sig] = ram[send_sig]
          /\ ram[send_sig].rest \in 1 .. done
    <2> SUFFICES ASSUME udpram_active \/ Leaving \/ Left
                 PROVE  /\ send_sig' = send_sig /\ ram'[send_sig] = ram[send_sig]
                        /\ ram[send_sig].rest \in 1 .. done
        OBVIOUS
    <2>1. sending /\ send_sig \in send_pending
        BY GoneStep DEF Gone
    <2> QED BY <1>1, <2>1, ClockStep, SelectorStep, PendingUnwritten
<1>7. Gone' => ram'[send_sig'].rest \in transmitted'
    <2> SUFFICES ASSUME Gone' PROVE ram'[send_sig'].rest \in transmitted'
        OBVIOUS
    <2>1. CASE Leaving'
        BY <1>4, <1>5, <1>6, <2>1
    <2>2. CASE Left' \/ udpram_sent'
        <3>1. Leaving \/ Left
            BY <2>2, GoneStep
        <3>2. ram[send_sig].rest \in transmitted
            BY <1>1, <3>1 DEF Replies, Gone
        <3> QED BY <1>4, <1>6, <3>1, <3>2
    <2> QED BY <2>1, <2>2 DEF Gone
<1>8. transmitted' \subseteq 1 .. done'
    <2>1. \A n \in 1 .. done : n \in 1 .. done'
        BY <1>2
    <2>2. Leaving' => ram[send_sig].rest \in 1 .. done
        BY <1>6, GoneStep
    <2> QED BY <1>1, <1>4, <2>1, <2>2 DEF Replies
<1>9. got' \subseteq transmitted'
    BY <1>3, <1>4
<1>10. done' <= requested'
    BY <1>2, <1>3
<1>11. \A n \in 1 .. done' : n \in transmitted' \/ \E b \in send_pending' : ram'[b].rest = n
    <2> SUFFICES ASSUME NEW n \in 1 .. done', n \notin transmitted'
                 PROVE  \E b \in send_pending' : ram'[b].rest = n
        OBVIOUS
    <2>1. CASE n \in 1 .. done
        <3>1. PICK b \in send_pending : ram[b].rest = n
            BY <1>1, <1>4, <2>1 DEF Replies
        <3>2. ~(udpram_sent /\ b = send_sig)
            <4>1. udpram_sent => ram[send_sig].rest \in transmitted
                BY <1>1 DEF Replies, Gone
            <4> QED BY <1>4, <3>1, <4>1
        <3>3. b \in send_pending'
            BY <1>1, <3>2, ClockStep, SelectorStep
        <3>4. ram'[b] = ram[b]
            BY <1>1, PendingUnwritten
        <3> QED BY <3>1, <3>3, <3>4
    <2>2. CASE n \notin 1 .. done
        <3>1. written /\ n = done + 1
            BY <1>2, <2>2
        <3>2. ram'[write_sig].rest = done + 1 /\ write_sig \in send_pending'
            <4>1. ram' = ram /\ ram[write_sig] = [hdr |-> done + 1, rest |-> done + 1]
                BY <1>1, <1>2, <3>1, RamStep DEF Contents
            <4>2. write_sig \in send_pending'
                BY <1>1, <3>1, ClockStep, SelectorStep
            <4> QED BY <4>1, <4>2
        <3> QED BY <3>1, <3>2
    <2> QED BY <2>1, <2>2
<1>12. \A n \in Ids : n + Window <= requested' => n \in got'
    BY <1>3
<1> QED BY <1>7, <1>8, <1>9, <1>10, <1>11, <1>12 DEF Replies, Ids

\* One buffer further on the way round.
LEMMA OneFurther ==
    ASSUME NEW w \in Buffers
    PROVE  /\ NextBuf(w) \in Buffers
           /\ \A b, c \in Buffers : b # w /\ Between(b, c, NextBuf(w)) => Between(b, c, w) \/ c = w
           /\ \A c \in Buffers : ~Between(w, c, NextBuf(w))
           /\ \A b \in Buffers : ~Between(b, w, w)
BY NBufAssumption DEF Between, NextBuf, Buffers

\* What waits to be sent for the first time is recent.
LEMMA FirstTimeRecent ==
    ASSUME TxTypeOK, BaseInv, NEW revived, FirstTime(revived), NEW b \in send_pending \ revived
    PROVE  Recent(ram[b].rest)
<1>1. ram[b].rest \in 1 .. done
    <2>1. b \in Buffers /\ (b = write_sig => wr = "idle")
        BY Ranges DEF BaseInv, WriterInFree
    <2>2. ram[b].rest <= done /\ ram[b].rest # 0
        BY <2>1 DEF BaseInv, Contents
    <2>3. ram[b].rest \in 0 .. MaxId /\ done \in 0 .. MaxId /\ MaxId \in Nat
        BY <2>1, Ranges
    <2> QED BY <2>2, <2>3
<1> DEFINE k == ram[b].rest
<1>2. k \notin got \/ requested < k + Window \/ done < k + Window
    <2>1. k \notin transmitted \/ k \notin got \/ requested < k + Window \/ done < k + Window
        BY DEF FirstTime
    <2>2. got \subseteq transmitted
        BY DEF BaseInv, Replies
    <2> HIDE DEF k
    <2> QED BY <2>1, <2>2
<1>3. /\ done \in Nat /\ requested \in Nat /\ done <= requested
      /\ k \in Nat /\ Window \in Nat /\ Replies
    <2>1. /\ done \in 0 .. MaxId /\ requested \in 0 .. MaxId /\ MaxId \in Nat /\ Window \in Nat
          /\ Replies /\ done <= requested
        BY Ranges DEF BaseInv, Replies
    <2> HIDE DEF k
    <2>2. k \in 1 .. done
        BY <1>1 DEF k
    <2> QED BY <2>1, <2>2
<1>4. k \notin got => Recent(k)
    BY <1>1, <1>3, NotGotRecent
<1> HIDE DEF k
<1>5. k \in 1 .. done
    BY <1>1 DEF k
<1>6. requested < k + Window \/ done < k + Window => Recent(k)
    BY <1>3, <1>5 DEF Recent
<1> QED BY <1>2, <1>4, <1>6 DEF k

\* The first sending of a reply: it goes out, and the client waits for it, until
\* its buffer is given back.
LEMMA FirstTimeStep ==
    ASSUME IInv, ReplyInv, WindowFits, NEW written \in BOOLEAN, NEW id \in 0 .. MaxId, NEW length,
           NEW ready \in BOOLEAN, TxClock(written, id, length, ready),
           NEW revived, FirstTime(revived), NEW later, revived \subseteq later,
           req_resend => resend_buf \in later
    PROVE  FirstTime(later)'
<1>1. /\ TxTypeOK /\ BaseInv /\ Writer(written) /\ Replies /\ Contents /\ WriterHasRequest
      /\ Client(id)
    BY ClockStep DEF BaseInv, IInv, TxClock
<1>2. SUFFICES ASSUME NEW b \in send_pending' \ later
               PROVE  LET k == ram'[b].rest
                      IN  \/ k \notin transmitted'
                          \/ b = send_sig' /\ \/ Leaving' /\ k \notin got'
                                              \/ Left' /\ requested' < k + Window
                                              \/ udpram_sent' /\ done' < k + Window
    BY DEF FirstTime
<1>3. b \in send_pending \/ (written /\ b = write_sig)
    BY <1>1, ClockStep, SelectorStep
<1>4. /\ \A n \in transmitted' : n \in transmitted \/ (Leaving' /\ n = ram[send_sig].rest)
      /\ transmitted \subseteq 1 .. done
    BY <1>1, TransmittedStep DEF Replies
<1>5. /\ \A n \in got' : n \in transmitted
      /\ \A n \in Ids : n + Window <= requested' => n \in got
      /\ requested' \in Nat
    BY <1>1, ClientStep
<1>6. udpram_active \/ Leaving \/ Left =>
          /\ send_sig' = send_sig /\ send_sig \in send_pending /\ send_sig \in Buffers
          /\ ram[send_sig].rest \in 1 .. done
    <2>1. udpram_active \/ Leaving \/ Left => sending /\ send_sig \in send_pending
        BY GoneStep DEF Gone
    <2> QED BY <1>1, <2>1, ClockStep, SelectorStep, PendingUnwritten
<1>7. done \in Nat /\ requested \in Nat /\ done <= requested /\ Window \in Nat
      /\ MaxId \in Nat /\ done <= MaxId
    <2>1. /\ done \in 0 .. MaxId /\ requested \in 0 .. MaxId /\ MaxId \in Nat /\ Window \in Nat
          /\ done <= requested
        BY <1>1, Ranges DEF Replies
    <2> QED BY <2>1
<1>8. CASE written /\ b = write_sig
    <2>1. ram'[b].rest = done + 1
        <3>1. wr = "rest" /\ ram' = ram
            BY <1>1, <1>8, RamStep
        <3>2. ram[write_sig] = [hdr |-> done + 1, rest |-> done + 1]
            BY <1>1, <3>1 DEF Contents
        <3> QED BY <1>8, <3>1, <3>2
    <2>2. \A n \in transmitted' : n \in 1 .. done
        <3>1. Leaving' => udpram_active
            BY GoneStep
        <3> QED BY <1>4, <1>6, <3>1
    <2>3. ram'[b].rest \notin transmitted'
        BY <1>7, <2>1, <2>2
    <2> QED BY <2>3
<1>9. CASE b \in send_pending
    <2> DEFINE k == ram[b].rest
    <2>1. ram'[b].rest = k /\ k \in 1 .. done /\ b \in Buffers
        BY <1>1, <1>9, PendingUnwritten
    <2>2. k \in Ids /\ k \in Nat
        BY <1>7, <2>1 DEF Ids
    <2>3. \/ k \notin transmitted
          \/ b = send_sig /\ Leaving /\ k \notin got
          \/ b = send_sig /\ Left /\ requested < k + Window
          \/ b = send_sig /\ udpram_sent
        BY <1>9 DEF FirstTime
    <2>4. CASE k \notin transmitted
        <3>1. CASE k \notin transmitted'
            BY <2>1, <3>1
        <3>2. CASE k \in transmitted'
            <4>1. Leaving' /\ k = ram[send_sig].rest
                BY <1>4, <2>4, <3>2
            <4>2. b = send_sig /\ send_sig' = send_sig
                BY <1>1, <1>6, <2>1, <4>1, GoneStep DEF Contents
            <4>3. k \notin got'
                BY <1>5, <2>4
            <4> QED BY <2>1, <4>1, <4>2, <4>3
        <3> QED BY <3>1, <3>2
    <2>5. CASE b = send_sig /\ Leaving /\ k \notin got
        <3>1. Left' /\ b = send_sig'
            BY <1>6, <2>5, GoneStep
        <3>2. requested' < k + Window
            BY <1>5, <1>7, <2>2, <2>5
        <3> QED BY <2>1, <3>1, <3>2
    <2>6. CASE b = send_sig /\ Left /\ requested < k + Window
        <3>1. udpram_sent' /\ b = send_sig'
            BY <1>6, <2>6, GoneStep
        <3>2. done' <= requested
            <4>1. written => done' = done + 1 /\ done < requested
                BY <1>1, RamStep DEF WriterHasRequest
            <4>2. ~written => done' = done
                BY <1>1, RamStep
            <4> QED BY <1>7, <4>1, <4>2
        <3>3. done' < k + Window
            <4>1. done' \in Nat
                BY <1>1, <1>7, RamStep
            <4> QED BY <1>7, <2>2, <2>6, <3>2, <4>1
        <3> QED BY <2>1, <3>1, <3>3
    <2>7. CASE b = send_sig /\ udpram_sent
        BY <1>1, <2>7, ClockStep, SelectorStep
    <2> QED BY <2>3, <2>4, <2>5, <2>6, <2>7
<1> QED BY <1>3, <1>8, <1>9

\* The ids noted, for as long as a resend can come.
LEMMA NotedStep ==
    ASSUME IInv, ReplyInv, WindowFits, NEW written \in BOOLEAN, NEW id \in 0 .. MaxId, NEW length,
           NEW ready \in BOOLEAN, TxClock(written, id, length, ready), Resendable
    PROVE  Noted'
<1>1. /\ TxTypeOK /\ BaseInv /\ Writer(written) /\ Contents /\ Noted /\ OnTheWire /\ WriterInFree
    BY ClockStep DEF BaseInv, ReplyInv, ResendInv
<1>2. /\ pkt_id_buf \in [Buffers -> 0 .. MaxId] /\ done \in Nat /\ Window \in Nat
      /\ write_sig \in Buffers /\ MaxId \in Nat
    <2>1. done \in 0 .. MaxId /\ MaxId \in Nat
        BY <1>1, Ranges
    <2> QED BY <1>1, <2>1, Ranges
<1>3. done' \in Nat /\ done <= done'
    BY <1>1, <1>2, RamStep
<1>4. SUFFICES ASSUME NEW b \in Buffers
               PROVE  /\ pkt_id_buf'[b] \in 0 .. done'
                      /\ \/ pkt_id_buf'[b] = 0
                         \/ pkt_id_buf'[b] = ram'[b].rest
                         \/ pkt_id_buf'[b] + Window <= done'
    BY DEF Noted
<1>5. CASE ipbus_out # 0 /\ b = send_sig
    <2>1. udpram_active /\ ipbus_out = ram[send_sig].hdr
        BY <1>1, <1>5 DEF OnTheWire
    <2>2. send_sig \in send_pending
        BY <2>1, GoneStep
    <2>3. pkt_id_buf'[b] = ipbus_out
        BY <1>2, <1>5 DEF TxClock, pkt_id_block
    <2>4. /\ ram'[b] = ram[b] /\ ram[b].hdr = ram[b].rest /\ ram[b].rest \in 1 .. done
        BY <1>1, <1>5, <2>2, PendingUnwritten
    <2> QED BY <1>2, <1>3, <1>5, <2>1, <2>3, <2>4
<1>6. CASE ~(ipbus_out # 0 /\ b = send_sig)
    <2> DEFINE n == pkt_id_buf[b]
    <2>1. pkt_id_buf'[b] = n
        BY <1>2, <1>6 DEF TxClock, pkt_id_block
    <2>2. n \in 0 .. done /\ (n = 0 \/ n = ram[b].rest \/ n + Window <= done)
        BY <1>1 DEF Noted
    <2>3. n = ram[b].rest /\ n # 0 /\ ~(n + Window <= done) => ram'[b].rest = n
        <3> SUFFICES ASSUME n = ram[b].rest, n # 0, ~(n + Window <= done)
                     PROVE  ram'[b].rest = n
            OBVIOUS
        <3>1. Recent(ram[b].rest)
            <4> HIDE DEF n
            <4> QED BY <1>2, <2>2 DEF Recent
        <3>2. b # Looks
            BY <1>1, <3>1, WriterAwayFromRecent
        <3>3. CASE b # write_sig
            BY <1>1, <3>3, RamStep
        <3>4. CASE b = write_sig
            <4>1. busy
                BY <1>1, <3>2, <3>4, WriterAwayFromRecent DEF JustWritten
            <4>2. ram' = ram
                BY <1>1, <4>1, RamStep DEF WriterInFree
            <4> QED BY <4>2
        <3> QED BY <3>3, <3>4
    <2> HIDE DEF n
    <2>4. n \in 0 .. done' /\ (n + Window <= done => n + Window <= done')
        BY <1>2, <1>3, <2>2
    <2> QED BY <2>1, <2>2, <2>3, <2>4
<1> QED BY <1>5, <1>6

\* What a resend finds is the reply the client asked for, whole.
LEMMA FoundStep ==
    ASSUME IInv, ReplyInv, WindowFits, NEW written \in BOOLEAN, NEW id \in 0 .. MaxId, NEW length,
           NEW ready \in BOOLEAN, TxClock(written, id, length, ready), Resendable
    PROVE  Found'
<1>1. /\ TxTypeOK /\ BaseInv /\ Writer(written) /\ Contents /\ Noted /\ WriterInFree /\ Replies
      /\ Client(id)
    BY ClockStep DEF BaseInv, ReplyInv, ResendInv, TxClock
<1> DEFINE matches == {b \in clean : id # 0 /\ pkt_id_buf[b] = id}
<1>2. /\ req_resend' = (matches # {}) /\ asked' = id
      /\ resend_buf' = IF matches = {} THEN 0
                       ELSE CHOOSE b \in matches : \A c \in matches : c <= b
    BY DEF TxClock, resend_block
<1>3. SUFFICES ASSUME req_resend'
               PROVE  /\ id \in 1 .. done' /\ id \notin got'
                      /\ ram'[resend_buf'] = [hdr |-> id, rest |-> id]
    BY <1>2 DEF Found
<1>4. resend_buf' \in matches
    <2>1. matches \in SUBSET Buffers
        BY <1>1, Ranges
    <2> HIDE DEF matches
    <2> QED BY <1>2, <1>3, <2>1, LargestBuffer
<1> DEFINE b == resend_buf'
<1>5. b \in Buffers /\ id # 0 /\ pkt_id_buf[b] = id
    BY <1>1, <1>4, Ranges
<1> HIDE DEF b, matches
<1>6. id \notin got /\ got' = got
    BY <1>1, <1>5, ClientStep
<1>7. id \in 1 .. done
    <2>1. id \in 0 .. done /\ done \in 0 .. MaxId /\ MaxId \in Nat
        BY <1>1, <1>5, Ranges DEF Noted
    <2> QED BY <1>5, <2>1
<1>8. Recent(id)
    BY <1>1, <1>6, <1>7, NotGotRecent
<1>9. ram[b].rest = id
    <2>1. id + Window > done /\ id \in Nat /\ Window \in Nat /\ done \in Nat
        <3>1. done \in 0 .. MaxId /\ MaxId \in Nat /\ Window \in Nat
            BY <1>1, Ranges
        <3> QED BY <1>7, <1>8, <3>1 DEF Recent
    <2>2. ~(id + Window <= done)
        BY <2>1
    <2> QED BY <1>1, <1>5, <2>2 DEF Noted
<1>10. b # Looks
    BY <1>1, <1>5, <1>8, <1>9, WriterAwayFromRecent
<1>11. b = write_sig => busy
    BY <1>1, <1>10, WriterAwayFromRecent DEF JustWritten
<1>12. ram[b].hdr = id
    BY <1>1, <1>5, <1>9, <1>11 DEF Contents, WriterInFree
<1>13. ram'[b] = ram[b]
    BY <1>1, <1>5, <1>11, RamStep DEF WriterInFree
<1>14. ram[b] = [hdr |-> id, rest |-> id]
    <2>1. ram[b] \in Parts
        BY <1>1, <1>5, Ranges
    <2> QED BY <1>9, <1>12, <2>1 DEF Parts
<1>15. id \in 1 .. done'
    <2>1. done \in 0 .. MaxId /\ MaxId \in Nat
        BY <1>1, Ranges
    <2>2. done' \in Nat /\ done <= done'
        BY <1>1, <2>1, RamStep
    <2> QED BY <1>7, <2>1, <2>2
<1> QED BY <1>6, <1>13, <1>14, <1>15 DEF b

\* The order on the way round, as the writer goes on: it fills a buffer, or passes
\* by one that a resend has taken.
LEMMA OrderedStep ==
    ASSUME IInv, ReplyInv, WindowFits, NEW written \in BOOLEAN, NEW id \in 0 .. MaxId, NEW length,
           NEW ready \in BOOLEAN, TxClock(written, id, length, ready), Resendable, Contents',
           NEW revived \in SUBSET Buffers, Cardinality(revived) <= TookEffect,
           Ordered(revived, Looks), FirstTime(revived),
           NEW later \in SUBSET Buffers, revived \subseteq later
    PROVE  Ordered(later, Looks)'
<1>1. /\ TxTypeOK /\ BaseInv /\ Writer(written) /\ Contents /\ WriterInFree
      /\ (written => ~busy)
    BY ClockStep DEF BaseInv
<1>2. /\ write_sig \in Buffers /\ free \subseteq Buffers /\ busy \in BOOLEAN
      /\ done \in Nat /\ Window \in Nat /\ Window > 0
      /\ \A b \in Buffers : ram[b].rest \in Nat
    <2>1. done \in 0 .. MaxId /\ MaxId \in Nat /\ \A b \in Buffers : ram[b].rest \in 0 .. MaxId
        BY <1>1, Ranges
    <2> QED BY <1>1, <2>1, Ranges
<1>3. /\ Looks \in Buffers /\ (~JustWritten => Looks = write_sig)
      /\ \A b \in Buffers : Recent(ram[b].rest) => b # Looks
    BY <1>1, WriterAwayFromRecent
<1>4. /\ \A b, c \in Buffers :
            Recent(ram[b].rest) /\ b # c /\ Between(b, c, Looks) =>
               ram[c].rest > ram[b].rest \/ c \in later
    BY DEF Ordered
<1>5. /\ ~busy => write_sig' = write_sig /\ busy' = written
      /\ busy /\ write_sig \in free => write_sig' = write_sig /\ busy' = FALSE
      /\ busy /\ write_sig \notin free => write_sig' = NextBuf(write_sig) /\ busy' = TRUE
      /\ written => write_sig \in send_pending'
    BY <1>1, ClockStep, SelectorStep
<1>6. /\ \A b \in Buffers : b # write_sig => ram'[b] = ram[b]
      /\ wr = "idle" => ram' = ram
      /\ ~written => done' = done
      /\ written => ram' = ram /\ done' = done + 1 /\ wr = "rest"
    BY <1>1, RamStep
<1>7. free = Buffers \ send_pending /\ (wr # "idle" => ~busy)
    BY <1>1 DEF WriterInFree
<1>8. SUFFICES ASSUME NEW b \in Buffers, NEW c \in Buffers, Recent(ram[b].rest)', b # c,
                      Between(b, c, Looks')
               PROVE  ram'[c].rest > ram'[b].rest \/ c \in later
    BY DEF Ordered, Between
<1>9. CASE written
    <2>1. Looks = write_sig
        BY <1>1, <1>3, <1>9 DEF JustWritten
    <2>2. ram[write_sig].rest = done + 1
        BY <1>1, <1>6, <1>9 DEF Contents
    <2>3. Looks' = NextBuf(write_sig)
        <3>1. write_sig' = write_sig /\ busy' /\ write_sig' \in send_pending'
              /\ ram'[write_sig'].rest = done'
            BY <1>1, <1>5, <1>6, <1>9, <2>2
        <3>2. JustWritten'
            BY <3>1 DEF JustWritten
        <3> QED BY <3>1, <3>2 DEF Looks, NextBuf
    <2>4. b # write_sig
        BY <1>2, <1>8, <2>3, OneFurther
    <2>5. ram[b].rest <= done /\ ram'[b] = ram[b] /\ ram'[c] = ram[c]
        BY <1>1, <1>6, <1>9, <2>4 DEF Contents
    <2>6. Recent(ram[b].rest)
        <3>1. ram[b].rest \in 1 .. done + 1 /\ ram[b].rest + Window > done + 1
            BY <1>6, <1>8, <1>9, <2>5 DEF Recent
        <3> QED BY <1>2, <2>5, <3>1 DEF Recent
    <2>7. Between(b, c, write_sig) \/ c = write_sig
        BY <1>2, <1>8, <2>3, <2>4, OneFurther
    <2>8. CASE Between(b, c, write_sig)
        BY <1>4, <1>8, <2>1, <2>5, <2>6, <2>8
    <2>9. CASE c = write_sig
        BY <1>2, <2>2, <2>5, <2>9
    <2> QED BY <2>7, <2>8, <2>9
<1>10. ASSUME ~written, Looks' = Looks, Looks = write_sig \/ ram' = ram
       PROVE  ram'[c].rest > ram'[b].rest \/ c \in later
    <2>1. done' = done /\ Between(b, c, Looks)
        BY <1>6, <1>8, <1>10
    <2>2. Recent(ram'[b].rest)
        BY <1>8, <2>1 DEF Recent
    <2>3. CASE ram' = ram
        BY <1>4, <1>8, <2>1, <2>2, <2>3
    <2>4. CASE Looks = write_sig /\ ram' # ram
        <3>1. c # write_sig
            BY <1>2, <2>1, <2>4, OneFurther
        <3>2. b # write_sig
            <4> SUFFICES ASSUME b = write_sig PROVE FALSE
                OBVIOUS
            <4>1. ~Recent(ram[b].rest)
                BY <1>3, <2>4
            <4>2. ram'[write_sig].rest = ram[write_sig].rest \/ ram'[write_sig].rest = done + 1
                <5>1. ram[write_sig] \in Parts
                    BY <1>1, Ranges
                <5> QED BY <1>1, <1>10, <2>4, <5>1, RamStep DEF Parts
            <4>3. ~Recent(done + 1)
                BY <1>2 DEF Recent
            <4> QED BY <2>2, <4>1, <4>2, <4>3
        <3>3. ram'[b] = ram[b] /\ ram'[c] = ram[c]
            BY <1>6, <3>1, <3>2
        <3> QED BY <1>4, <1>8, <2>1, <2>2, <3>3
    <2> QED BY <1>10, <2>3, <2>4
<1>11. CASE ~written /\ ~(busy /\ write_sig \notin free)
    <2>1. write_sig' = write_sig /\ busy' = FALSE
        BY <1>2, <1>5, <1>11
    <2>2. Looks' = write_sig
        BY <2>1 DEF Looks, JustWritten
    <2>3. Looks = write_sig
        BY <1>3, <1>7, <1>11 DEF JustWritten
    <2> QED BY <1>10, <1>11, <2>2, <2>3
<1>12. CASE ~written /\ busy /\ write_sig \notin free
    <2>1. write_sig \in send_pending /\ ram' = ram /\ done' = done
          /\ write_sig' = NextBuf(write_sig) /\ busy'
        BY <1>2, <1>5, <1>6, <1>7, <1>12
    <2>2. \E w \in Buffers : w = write_sig' /\ Ordered(later, w) /\ Ordered(revived, w)
        <3>1. CASE JustWritten
            BY <1>3, <1>4, <2>1, <3>1 DEF Looks, Ordered
        <3>2. CASE ~JustWritten
            <4>1. ~Recent(ram[write_sig].rest)
                BY <1>2, <1>3, <3>2
            <4>2. write_sig \in revived
                BY <1>1, <2>1, <4>1, FirstTimeRecent
            <4>3. ASSUME NEW x \in Buffers, NEW y \in Buffers, Recent(ram[x].rest), x # y,
                         Between(x, y, NextBuf(write_sig))
                  PROVE  ram[y].rest > ram[x].rest \/ y \in revived
                <5>1. x # write_sig
                    BY <4>1, <4>3
                <5>2. Between(x, y, write_sig) \/ y = write_sig
                    BY <1>2, <4>3, <5>1, OneFurther
                <5> QED BY <1>3, <3>2, <4>2, <4>3, <5>2 DEF Ordered
            <4>4. Ordered(revived, NextBuf(write_sig)) /\ Ordered(later, NextBuf(write_sig))
                BY <4>3 DEF Ordered
            <4>5. NextBuf(write_sig) \in Buffers
                BY <1>2, OneFurther
            <4> QED BY <2>1, <4>4, <4>5
        <3> QED BY <3>1, <3>2
    <2>3. PICK w \in Buffers : w = write_sig' /\ Ordered(later, w) /\ Ordered(revived, w)
        BY <2>2
    <2>4. ~Recent(ram[w].rest)
        <3>1. Cardinality(revived) <= MaxResends - 1
            <4>1. Cardinality(revived) \in Nat /\ MaxResends \in Nat
                BY <1>1, <1>2, OtherBuffers, FS_Subset, FS_CardinalityType, Ranges
            <4> QED BY <1>1, <4>1, SomeLeft
        <3>2. wr # "rest"
            BY <1>7, <1>12
        <3> QED BY <1>1, <2>3, <3>1, <3>2, NoRecentAt
    <2>5. ~JustWritten'
        <3> SUFFICES ASSUME JustWritten' PROVE FALSE
            OBVIOUS
        <3>1. ram[w].rest = done /\ w \in send_pending'
            BY <2>1, <2>3 DEF JustWritten
        <3>2. ram[w].rest # 0
            BY <2>1, <3>1 DEF Contents
        <3>3. Recent(done)
            BY <1>2, <3>1, <3>2 DEF Recent
        <3> QED BY <2>4, <3>1, <3>3
    <2>6. Looks' = w
        BY <2>3, <2>5 DEF Looks
    <2>7. Recent(ram[b].rest)
        BY <1>8, <2>1 DEF Recent
    <2> QED BY <1>8, <2>1, <2>3, <2>6, <2>7 DEF Ordered
<1> QED BY <1>9, <1>11, <1>12

\* What keeps the resends apart from the writer, for as long as one can come.
LEMMA ResendStep ==
    ASSUME IInv, ReplyInv, WindowFits, NEW written \in BOOLEAN, NEW id \in 0 .. MaxId, NEW length,
           NEW ready \in BOOLEAN, TxClock(written, id, length, ready), Contents'
    PROVE  ResendInv'
<1>1. SUFFICES ASSUME Resendable'
               PROVE  /\ Noted' /\ Found'
                      /\ \E later \in SUBSET Buffers :
                            /\ Cardinality(later) <= TookEffect'
                            /\ Ordered(later, Looks)' /\ FirstTime(later)'
    BY DEF ResendInv
<1>2. TxTypeOK /\ BaseInv /\ Replies /\ Client(id)
    BY ClockStep DEF BaseInv, TxClock
<1>3. /\ resends \in Nat /\ MaxResends \in Nat /\ req_resend \in BOOLEAN /\ resend_buf \in Buffers
      /\ id = 0 => resends' = resends
      /\ id # 0 => resends < MaxResends /\ resends' = resends + 1
    <2>1. resends \in 0 .. MaxResends /\ MaxResends \in Nat
        BY <1>2, Ranges
    <2> QED BY <1>2, <2>1, Ranges, ClientStep
<1>4. req_resend' \in BOOLEAN /\ (req_resend' => id # 0)
    BY DEF TxClock, resend_block
<1>5. Resendable
    BY <1>1, <1>3, <1>4 DEF Resendable
<1>6. PICK revived \in SUBSET Buffers :
          /\ Cardinality(revived) <= TookEffect
          /\ Ordered(revived, Looks) /\ FirstTime(revived)
    BY <1>5 DEF ReplyInv, ResendInv
<1>0. PICK later \in SUBSET Buffers : later = revived \cup {b \in {resend_buf} : req_resend}
    <2>1. revived \cup {b \in {resend_buf} : req_resend} \in SUBSET Buffers
        BY <1>3
    <2> QED BY <2>1
<1>7. later \in SUBSET Buffers /\ revived \subseteq later /\ (req_resend => resend_buf \in later)
    BY <1>3, <1>0
<1>8. Cardinality(later) <= TookEffect'
    <2>1. IsFiniteSet(revived) /\ Cardinality(revived) \in Nat
        BY <1>3, OtherBuffers, FS_Subset, FS_CardinalityType
    <2>2. Cardinality(later) \in Nat /\ Cardinality(later) <= resends
        <3>1. CASE req_resend
            <4>1. later = revived \cup {resend_buf} /\ TookEffect = resends - 1
                BY <1>0, <3>1 DEF TookEffect
            <4>2. Cardinality(later) \in Nat /\ Cardinality(later) <= Cardinality(revived) + 1
                <5>1. CASE resend_buf \in revived
                    <6>1. later = revived
                        BY <4>1, <5>1
                    <6>2. Cardinality(later) = Cardinality(revived)
                        BY <6>1
                    <6> QED BY <2>1, <6>2
                <5>2. CASE resend_buf \notin revived
                    BY <2>1, <4>1, <5>2, FS_AddElement
                <5> QED BY <5>1, <5>2
            <4> QED BY <1>3, <1>6, <2>1, <4>1, <4>2
        <3>2. CASE ~req_resend
            <4>1. later = revived /\ TookEffect = resends - 0
                BY <1>0, <3>2 DEF TookEffect
            <4> QED BY <1>3, <1>6, <2>1, <4>1
        <3> QED BY <1>3, <3>1, <3>2
    <2>3. TookEffect' = resends' - (IF req_resend' THEN 1 ELSE 0)
        BY DEF TookEffect
    <2>4. CASE id = 0
        BY <1>3, <1>4, <2>2, <2>3, <2>4
    <2>5. CASE id # 0 /\ req_resend'
        BY <1>3, <2>2, <2>3, <2>5
    <2>6. CASE id # 0 /\ ~req_resend'
        BY <1>3, <2>2, <2>3, <2>6
    <2> QED BY <1>4, <2>4, <2>5, <2>6
<1>9. Ordered(later, Looks)'
    BY <1>5, <1>6, <1>7, OrderedStep
<1>10. FirstTime(later)'
    BY <1>6, <1>7, FirstTimeStep
<1>11. Noted' /\ Found'
    BY <1>5, NotedStep, FoundStep
<1> QED BY <1>7, <1>8, <1>9, <1>10, <1>11

\* Nothing is stored, found or sent at first.
LEMMA ReplyInit == TxInit => ReplyInv
<1> SUFFICES ASSUME TxInit PROVE ReplyInv
    OBVIOUS
<1>1. TxTypeOK
    BY InvInit DEF IInv
<1>2. /\ ram = [b \in Buffers |-> Nothing] /\ wr = "idle" /\ done = 0 /\ transmitted = {}
      /\ got = {} /\ requested = 0 /\ wire = Nothing /\ ipbus_out = 0
      /\ pkt_id_buf = [b \in Buffers |-> 0] /\ req_resend = FALSE /\ resends = 0
      /\ free = Buffers /\ send_pending = {} /\ busy = TRUE
      /\ state = 0 /\ udpram_active = FALSE /\ last_udpram_active = FALSE
      /\ last_udpram_busy = FALSE /\ udpram_busy = FALSE /\ udpram_sent = FALSE
    BY DEF TxInit, SelInit, MuxInit
<1> HIDE DEF TxInit
<1>3. \A b \in Buffers : ram[b].rest = 0 /\ ram[b].hdr = 0
    BY <1>2 DEF Nothing
<1>4. WriterInFree
    BY <1>2 DEF WriterInFree
<1>5. Contents
    BY <1>2, <1>3 DEF Contents
<1>6. OnTheWire
    BY <1>2 DEF OnTheWire
<1>7. Replies
    <2>1. ~Gone
        BY <1>2 DEF Gone, Leaving, Left
    <2>2. \A n \in Ids : ~(n + Window <= requested)
        BY <1>2, TxAssumption DEF Ids
    <2> QED BY <1>2, <2>1, <2>2 DEF Replies
<1>8. ResendInv
    <2>1. Noted /\ Found
        BY <1>2 DEF Noted, Found
    <2>2. Cardinality({}) <= TookEffect
        <3>1. TookEffect = 0
            <4>1. ~req_resend /\ resends = 0
                BY <1>2
            <4>2. TookEffect = 0 - 0
                BY <4>1 DEF TookEffect
            <4> QED BY <4>2
        <3>2. Cardinality({}) = 0
            BY FS_EmptySet
        <3> QED BY <3>1, <3>2
    <2>3. Ordered({}, Looks) /\ FirstTime({})
        BY <1>2, <1>3 DEF Ordered, FirstTime, Recent
    <2> QED BY <2>1, <2>2, <2>3 DEF ResendInv
<1> QED BY <1>4, <1>5, <1>6, <1>7, <1>8 DEF ReplyInv, BaseInv

\* Every edge keeps it.
LEMMA ReplyStep == WindowFits /\ IInv /\ ReplyInv /\ [TxNext]_txVars => ReplyInv'
<1> SUFFICES ASSUME WindowFits, IInv, ReplyInv, [TxNext]_txVars PROVE ReplyInv'
    OBVIOUS
<1>1. CASE UNCHANGED txVars
    <2>1. /\ UNCHANGED selVars /\ UNCHANGED muxVars /\ UNCHANGED replyVars
          /\ UNCHANGED clientVars /\ UNCHANGED <<wire, transmitted, asked>>
        BY <1>1 DEF txVars, txHistory
    <2>2. /\ UNCHANGED <<free, send_pending, write_sig, send_sig, busy, ram, wr, done, wire>>
          /\ UNCHANGED <<ipbus_out, pkt_id_buf, req_resend, resend_buf, udpram_sent>>
          /\ UNCHANGED <<state, addr, udpram_active, last_udpram_active, udpram_busy>>
          /\ UNCHANGED <<last_udpram_busy, requested, got, resends, transmitted, asked>>
        BY <2>1 DEF selVars, muxVars, smVars, flagVars, replyVars, clientVars
    <2>3. WriterInFree' /\ Contents' /\ OnTheWire' /\ Replies'
        BY <2>2
        DEF ReplyInv, BaseInv, WriterInFree, Contents, OnTheWire, Replies, Gone, Leaving, Left
    <2>4. ResendInv'
        <3>1. /\ Resendable' = Resendable /\ TookEffect' = TookEffect
              /\ Noted' = Noted /\ Found' = Found
            BY <2>2 DEF Resendable, TookEffect, Noted, Found
        <3>2. \A r : Ordered(r, Looks)' = Ordered(r, Looks) /\ FirstTime(r)' = FirstTime(r)
            BY <2>2
            DEF Ordered, Looks, JustWritten, NextBuf, Recent, FirstTime, Leaving, Left, Between
        <3> QED BY <3>1, <3>2 DEF ReplyInv, ResendInv
    <2> QED BY <2>3, <2>4 DEF ReplyInv, BaseInv
<1>2. ASSUME NEW written \in BOOLEAN, NEW ready \in BOOLEAN, NEW id \in 0 .. MaxId,
             NEW length \in IntLengths \cup {0}, TxClock(written, id, length, ready)
      PROVE  ReplyInv'
    <2>1. WriterInFree' /\ Contents' /\ OnTheWire' /\ Replies'
        BY <1>2, WriterInFreeStep, ContentsStep, WireStep, RepliesStep
    <2>2. ResendInv'
        BY <1>2, <2>1, ResendStep
    <2> QED BY <2>1, <2>2 DEF ReplyInv, BaseInv
<1> QED BY <1>1, <1>2 DEF TxNext

\* What waits to be sent, or is being sent, is one reply.
LEMMA PendingWhole ==
    ASSUME IInv, ReplyInv
    PROVE  /\ \A b \in send_pending :
                 ram[b] = [hdr |-> ram[b].rest, rest |-> ram[b].rest]
           /\ udpram_active => send_sig \in send_pending
<1>1. TxTypeOK /\ UdpHandshake /\ WriterInFree /\ Contents
    BY DEF IInv, ReplyInv, BaseInv
<1>2. ASSUME NEW b \in send_pending
      PROVE  ram[b] = [hdr |-> ram[b].rest, rest |-> ram[b].rest]
    <2>1. b \in Buffers /\ ram[b] \in Parts
        BY <1>1, Ranges
    <2>2. ram[b].hdr = ram[b].rest
        BY <1>1, <1>2, <2>1 DEF Contents, WriterInFree
    <2> QED BY <2>1, <2>2 DEF Parts
<1> QED BY <1>1, <1>2 DEF UdpHandshake, Handshake

\* With a window and resends that fit in the buffers together, the replies are in
\* order: what a reader may count on, at every edge.
THEOREM RepliesInvariant == ASSUME WindowFits PROVE TxSpec => []ReplyInv
<1>1. IInv /\ ReplyInv /\ [TxNext]_txVars => ReplyInv'
    BY ReplyStep
<1> QED BY <1>1, ReplyInit, TxInvariant, PTL DEF TxSpec

\* A packet that leaves is one reply, never parts of two: the transactor does not
\* write into the buffer that is being sent, not even when that buffer is sent again.
THEOREM RepliesWhole == ASSUME WindowFits PROVE TxSpec => []WireWhole
<1>1. IInv /\ ReplyInv => WireWhole
    <2> SUFFICES ASSUME IInv, ReplyInv, state \in {6, 7} PROVE wire.hdr = wire.rest
        BY DEF WireWhole
    <2>1. OnTheWire /\ Contents
        BY DEF ReplyInv, BaseInv
    <2>2. CASE state = 7
        BY <2>1, <2>2 DEF OnTheWire
    <2>3. CASE state = 6 /\ ~udpram_active
        BY <2>1, <2>3 DEF OnTheWire, Nothing
    <2>4. CASE state = 6 /\ udpram_active
        <3>1. wire = ram[send_sig] /\ send_sig \in send_pending
            BY <2>1, <2>4, PendingWhole DEF OnTheWire
        <3>2. ram[send_sig] = [hdr |-> ram[send_sig].rest, rest |-> ram[send_sig].rest]
            BY <3>1, PendingWhole
        <3> QED BY <3>1, <3>2
    <2> QED BY <2>2, <2>3, <2>4
<1> QED BY <1>1, RepliesInvariant, TxInvariant, PTL

\* A reply that was completed has gone out, or waits whole to go out.
THEOREM NoneLost == ASSUME WindowFits PROVE TxSpec => []NoReplyLost
<1>1. IInv /\ ReplyInv => NoReplyLost
    <2> SUFFICES ASSUME IInv, ReplyInv, NEW n \in 1 .. done, n \notin transmitted
                 PROVE  \E b \in send_pending : ram[b] = [hdr |-> n, rest |-> n]
        BY DEF NoReplyLost
    <2>1. PICK b \in send_pending : ram[b].rest = n
        BY DEF ReplyInv, BaseInv, Replies
    <2>2. ram[b] = [hdr |-> n, rest |-> n]
        BY <2>1, PendingWhole
    <2> QED BY <2>2
<1> QED BY <1>1, RepliesInvariant, TxInvariant, PTL

\* What a resend request finds is the reply it asked for, whole.
THEOREM ResendsFindTheirs == ASSUME WindowFits PROVE TxSpec => []ResendMatches
<1>1. IInv /\ ReplyInv => ResendMatches
    BY DEF ReplyInv, ResendInv, Resendable, Found, ResendMatches
<1> QED BY <1>1, RepliesInvariant, TxInvariant, PTL

=============================================================================
