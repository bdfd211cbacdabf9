---------------------------- MODULE RxPathProofs ----------------------------
(***************************************************************************)
(* The receive path hands the transactor a lossy stream of whole requests: *)
(* each at most once, in the order of arrival, intact but for the bytes at *)
(* two addresses, and lost only when the RAM was full.  For any number of  *)
(* buffers, frames of any length and MAC errors; its RAM is a BufferRing,  *)
(* so that what is proved of that applies here.                            *)
(***************************************************************************)
EXTENDS RxPath, WellFoundedInduction, TLAPS

\* free and send_pending stay complements, and a buffer the writer was told it
\* may have is free.
Ownership ==
    /\ free = Buffers \ send_pending
    /\ ~busy => write_sig \in free

\* From the second byte of a frame to its announcement.
Underway == (phase = "body" /\ pos > 1) \/ phase \in {"end", "send"}

\* After a MAC error, until rx_reset lets the address go.
Frozen == stuck /\ (phase = "quiet" \/ (phase = "gap" /\ pos = 0))

\* Where payload_we may be stuck, and how far the address is then.
StuckInGap ==
    /\ stuck => phase \in {"quiet", "gap", "first"}
    /\ phase \in {"gap", "first"} => pos \in 0 .. 2
    /\ phase = "first" => pos # 0

\* A frame that is still accepted after its first byte has a buffer, for as long
\* as it writes elsewhere than rx_reset makes it.
AcceptedHasBuffer == (ram_ok /\ (Underway \/ Frozen)) => ~busy

\* A request is announced in the one clock after payload_send.
AnnouncedAfterSend == pkt_rcvd => (phase = "quiet" /\ pos = 0 /\ ~busy /\ ~stuck)

\* The bytes so far of an accepted frame, but the first one, are in its buffer.
Stored == IF phase = "body" THEN 2 .. pos - 1 ELSE Bytes \ {1}

AcceptedIsStored ==
    /\ phase = "body" => pos \in Bytes
    /\ ((ram_ok /\ Underway) \/ pkt_rcvd) => \A k \in Stored : ram[write_sig][k] = frame

IInv == /\ RxTypeOK /\ Ownership /\ StuckInGap /\ AcceptedHasBuffer /\ AnnouncedAfterSend
        /\ AcceptedIsStored /\ PendingBodyIntact

-----------------------------------------------------------------------------
\* The registers after reset satisfy the invariant.
LEMMA InvInit == RxInit => IInv
<1> SUFFICES ASSUME RxInit PROVE IInv
    OBVIOUS
<1> USE DEF RxInit, SelInit
<1>1. 0 \in Buffers /\ 0 \in Frames /\ 2 \in 0 .. FrameLen + QuietClocks /\ RoomCap \in 0 .. RoomCap
    BY NBufAssumption, RxAssumption DEF Buffers, Frames, RoomCap
<1>2. RxTypeOK
    BY <1>1 DEF RxTypeOK, SelTypeOK, Phases
<1>3. /\ Ownership /\ StuckInGap /\ AcceptedHasBuffer /\ AnnouncedAfterSend
      /\ AcceptedIsStored /\ PendingBodyIntact
    BY DEF Ownership, StuckInGap, AcceptedHasBuffer, AnnouncedAfterSend, AcceptedIsStored,
       PendingBodyIntact, Underway, Frozen
<1> QED BY <1>2, <1>3 DEF IInv

\* The registers stay in their ranges.
LEMMA StepTypeOK ==
    ASSUME RxTypeOK, NEW sent \in BOOLEAN, RxClock(sent)
    PROVE  RxTypeOK'
<1> USE DEF RxTypeOK, RxClock
<1>1. SelTypeOK'
    <2>1. NextBuf(write_sig) \in Buffers /\ NextBuf(send_sig) \in Buffers
        BY NBufAssumption DEF NextBuf, Buffers, SelTypeOK
    <2> QED BY <2>1 DEF SelTypeOK, Clock, FreeBlock, CleanBlock, SendPendingBlock, BusyBlock,
            ReqSendBlock, WriteBlock, SendBlock, Taken, Released
<1>2. /\ phase' \in Phases /\ pos' \in 0 .. FrameLen + QuietClocks
      /\ stuck' \in BOOLEAN /\ frame' \in Frames
    <2> DEFINE top == FrameLen + QuietClocks
    <2>1. /\ FrameLen \in Nat /\ QuietClocks \in Nat /\ MaxFrames \in Nat /\ FrameLen >= 3
          /\ top \in Nat /\ FrameLen <= top /\ QuietClocks <= top
          /\ {0, 1, 2} \subseteq 0 .. top
        BY RxAssumption
    <2>2. /\ WireStep /\ phase \in Phases /\ pos \in 0 .. top /\ stuck \in BOOLEAN
          /\ frame \in 0 .. MaxFrames
        BY DEF Frames
    <2>3. phase' \in Phases
        BY <2>2 DEF WireStep, BeginFrame, FirstByte, NextByte, Reject, MacError, EndOfFrame,
           AfterFrame, Wire, Phases
    <2>4. \/ pos' \in {0, 1, 2}
          \/ pos' = pos + 1 /\ (pos < FrameLen \/ pos < QuietClocks)
        BY <2>2 DEF WireStep, BeginFrame, FirstByte, NextByte, Reject, MacError, EndOfFrame,
           AfterFrame, Wire, ResetClocks
    <2>5. pos' \in 0 .. top
        <3> HIDE DEF top
        <3> QED BY <2>1, <2>2, <2>4
    <2>6. stuck' \in BOOLEAN
        BY <2>2, Zenon DEF WireStep, BeginFrame, FirstByte, MacError
    <2>7. frame' = frame \/ (frame' = frame + 1 /\ frame < MaxFrames)
        BY <2>2 DEF WireStep, BeginFrame
    <2>8. frame' \in Frames
        BY <2>1, <2>2, <2>7 DEF Frames
    <2> QED BY <2>3, <2>5, <2>6, <2>8
<1>3. ram_ok' \in BOOLEAN /\ pkt_rcvd' \in BOOLEAN /\ rxpayload_dropped' \in BOOLEAN
    BY DEF RamStatus, payload_send
<1>4. ram' \in [Buffers -> [Bytes -> Frames]]
    BY DEF RamWrite
<1>5. owner' \in [Buffers -> Frames] /\ delivered' \in Frames
    <2>1. FrameLen \in Bytes /\ send_sig \in Buffers /\ 0 \in Frames
        BY RxAssumption DEF Bytes, SelTypeOK, Frames
    <2>2. ram[send_sig][FrameLen] \in Frames
        BY <2>1
    <2>3. Content(send_sig) \in Frames
        BY <2>1, <2>2 DEF Content
    <2> QED BY <2>1, <2>3 DEF History
<1>6. room' \in 0 .. RoomCap /\ roomAtStart' \in 0 .. RoomCap
    BY NBufAssumption DEF History, RoomCap
<1> QED BY <1>1, <1>2, <1>3, <1>4, <1>5, <1>6

\* What one edge does to the two bit vectors, given that only a writer with a
\* buffer announces a request.
LEMMA StepOwnership ==
    ASSUME IInv, NEW sent \in BOOLEAN, RxClock(sent)
    PROVE  /\ Ownership'
           /\ send_pending' = (send_pending \cup (IF pkt_rcvd THEN {write_sig} ELSE {}))
                                  \ (IF sent THEN {send_sig} ELSE {})
           /\ busy' = IF busy /\ write_sig \in free THEN FALSE ELSE busy \/ pkt_rcvd
           /\ ~busy => write_sig' = write_sig
<1> USE DEF IInv
<1>1. Clock(pkt_rcvd, rx_wea, sent, {}) /\ SelTypeOK /\ pkt_rcvd \in BOOLEAN
    BY DEF RxClock, RxTypeOK
<1>2. send_pending' = (send_pending \cup (IF pkt_rcvd THEN {write_sig} ELSE {}))
                          \ (IF sent THEN {send_sig} ELSE {})
    BY <1>1 DEF Clock, SendPendingBlock, Taken, Released, SelTypeOK
<1>3. free' = (free \ (IF pkt_rcvd THEN {write_sig} ELSE {}))
                  \cup (IF sent THEN {send_sig} ELSE {})
    BY <1>1 DEF Clock, FreeBlock, Taken, Released, SelTypeOK
<1>4. /\ busy' = IF busy /\ write_sig \in free THEN FALSE ELSE busy \/ pkt_rcvd
      /\ write_sig' = IF busy /\ write_sig \notin free THEN NextBuf(write_sig) ELSE write_sig
    BY <1>1 DEF Clock, BusyBlock, WriteBlock
<1>5. free' = Buffers \ send_pending'
    BY <1>1, <1>2, <1>3 DEF Ownership, SelTypeOK
<1>6. ~busy' => write_sig' \in free'
    <2> SUFFICES ASSUME ~busy' PROVE write_sig' \in free'
        OBVIOUS
    <2>1. write_sig \in free /\ write_sig' = write_sig
        BY <1>1, <1>4 DEF Ownership, SelTypeOK
    <2>2. ~pkt_rcvd
        BY <1>1, <1>4 DEF AnnouncedAfterSend, SelTypeOK
    <2> QED BY <1>3, <2>1, <2>2
<1> QED BY <1>1, <1>2, <1>4, <1>5, <1>6 DEF Ownership

\* A frame that is to be announced has its buffer from the second byte on.
LEMMA StepAccepted ==
    ASSUME IInv, NEW sent \in BOOLEAN, RxClock(sent)
    PROVE  StuckInGap' /\ AcceptedHasBuffer' /\ AnnouncedAfterSend'
<1> USE DEF IInv
<1>1. /\ WireStep /\ RamStatus /\ phase \in Phases /\ pos \in Nat /\ FrameLen \in Nat
      /\ {ram_ok, pkt_rcvd, busy, stuck} \subseteq BOOLEAN
    BY RxAssumption DEF RxClock, RxTypeOK, SelTypeOK
<1>2. busy' = IF busy /\ write_sig \in free THEN FALSE ELSE busy \/ pkt_rcvd
    BY StepOwnership
<1>3. AcceptedHasBuffer'
    <2> SUFFICES ASSUME ram_ok', (Underway \/ Frozen)' PROVE ~busy'
        BY DEF AcceptedHasBuffer
    <2>1. phase \in {"body", "end"} \/ (stuck /\ phase = "quiet")
        BY <1>1 DEF Underway, Frozen, StuckInGap, ResetClocks, WireStep, BeginFrame, FirstByte,
           NextByte, Reject, MacError, EndOfFrame, AfterFrame, Wire
    <2>2. ~pkt_rcvd
        BY <2>1 DEF AnnouncedAfterSend
    <2>3. ram_ok /\ (phase # "end" => ~busy)
        BY <1>1, <2>1 DEF RamStatus, rx_reset, payload_send, payload_we
    <2>4. ~busy
        BY <2>1, <2>3 DEF AcceptedHasBuffer, Underway
    <2> QED BY <1>2, <2>2, <2>4
<1>4. AnnouncedAfterSend'
    <2> SUFFICES ASSUME pkt_rcvd' PROVE phase' = "quiet" /\ pos' = 0 /\ ~busy' /\ ~stuck'
        BY DEF AnnouncedAfterSend
    <2>1. phase = "send" /\ ram_ok
        BY <1>1 DEF RamStatus, payload_send
    <2>2. phase' = "quiet" /\ pos' = 0 /\ ~stuck'
        BY <1>1, <2>1 DEF StuckInGap, WireStep, BeginFrame, FirstByte, NextByte, Reject,
           MacError, EndOfFrame, AfterFrame, Wire
    <2>3. ~busy /\ ~pkt_rcvd
        BY <2>1 DEF AcceptedHasBuffer, AnnouncedAfterSend, Underway
    <2> QED BY <1>2, <2>2, <2>3
<1>5. StuckInGap'
    BY <1>1 DEF StuckInGap, ResetClocks, WireStep, BeginFrame, FirstByte, NextByte, Reject,
       MacError, EndOfFrame, AfterFrame, Wire
<1> QED BY <1>3, <1>4, <1>5

\* The bytes of an accepted frame follow each other into one buffer.
LEMMA StepStored ==
    ASSUME IInv, NEW sent \in BOOLEAN, RxClock(sent)
    PROVE  AcceptedIsStored'
<1> USE DEF IInv
<1>1. /\ WireStep /\ RamStatus /\ RamWrite /\ phase \in Phases /\ pos \in Nat
      /\ FrameLen \in Nat \ {0} /\ ram \in [Buffers -> [Bytes -> Frames]] /\ frame \in Nat
      /\ stuck \in BOOLEAN
      /\ write_sig \in Buffers /\ {ram_ok, pkt_rcvd, busy} \subseteq BOOLEAN
    BY RxAssumption DEF RxClock, RxTypeOK, SelTypeOK, Frames
<1>2. ~busy => write_sig' = write_sig
    BY StepOwnership
<1>3. phase' = "body" => pos' \in Bytes
    BY <1>1 DEF WireStep, BeginFrame, FirstByte, NextByte, Reject, MacError, EndOfFrame,
       AfterFrame, Wire, Bytes
<1>4. ASSUME (ram_ok' /\ Underway') \/ pkt_rcvd', NEW k \in Stored'
      PROVE  ram'[write_sig'][k] = frame'
    <2>1. \/ phase = "body" /\ Underway' /\ ~busy
          \/ phase \in {"end", "send"}
        <3>1. CASE pkt_rcvd'
            BY <1>1, <3>1 DEF RamStatus, payload_send
        <3>2. CASE ram_ok' /\ Underway'
            <4>1. phase = "body" \/ phase = "end"
                BY <1>1, <3>2 DEF Underway, WireStep, BeginFrame, FirstByte, NextByte, Reject,
                   MacError, EndOfFrame, AfterFrame, Wire
            <4> QED BY <1>1, <3>2, <4>1 DEF RamStatus, rx_reset, payload_send, payload_we
        <3> QED BY <1>4, <3>1, <3>2
    <2>2. ram_ok /\ frame' = frame
        BY <1>1, <1>4, <2>1 DEF Underway, WireStep, BeginFrame, FirstByte, NextByte, Reject,
           MacError, EndOfFrame, AfterFrame, Wire, RamStatus, rx_reset, payload_send, payload_we
    <2>3. ~busy /\ write_sig' = write_sig
        BY <1>2, <2>1, <2>2 DEF AcceptedHasBuffer, Underway
    <2>4. CASE phase = "body"
        <3>1. pos \in Bytes /\ ram' = [ram EXCEPT ![write_sig][pos] = frame]
            BY <1>1, <2>2, <2>4 DEF AcceptedIsStored, RamWrite, rx_wea, payload_we, payload_addr
        <3>2. k \in Bytes \ {1} /\ k <= pos
            BY <1>1, <1>3, <2>1, <2>4 DEF Stored, Underway, WireStep, BeginFrame, FirstByte,
               NextByte, Reject, MacError, EndOfFrame, AfterFrame, Wire, Bytes
        <3>3. CASE k = pos
            BY <1>1, <2>2, <2>3, <3>1, <3>2, <3>3
        <3>4. CASE k # pos
            <4>1. pos > 1 /\ k \in Stored
                BY <1>1, <2>4, <3>2, <3>4 DEF Stored, Bytes
            <4>2. ram[write_sig][k] = frame
                BY <2>2, <2>4, <4>1 DEF AcceptedIsStored, Underway
            <4> QED BY <1>1, <2>2, <2>3, <3>1, <3>2, <3>4, <4>2
        <3> QED BY <3>3, <3>4
    <2>5. CASE phase \in {"end", "send"}
        <3>1. ram' = ram
            BY <1>1, <2>5 DEF RamWrite, rx_wea, payload_we, StuckInGap
        <3>2. k \in Bytes \ {1} /\ Stored = Bytes \ {1}
            BY <1>1, <2>5 DEF Stored, WireStep, BeginFrame, FirstByte, NextByte, Reject,
               MacError, EndOfFrame, AfterFrame, Wire
        <3> QED BY <2>2, <2>3, <2>5, <3>1, <3>2 DEF AcceptedIsStored, Underway
    <2> QED BY <2>1, <2>4, <2>5
<1> QED BY <1>3, <1>4 DEF AcceptedIsStored

\* Only what is written at the two addresses of rx_reset can go to a buffer the
\* writer does not own.
LEMMA StepBodyIntact ==
    ASSUME IInv, NEW sent \in BOOLEAN, RxClock(sent)
    PROVE  PendingBodyIntact'
<1> USE DEF IInv
<1>1. /\ RamWrite /\ History(sent) /\ phase \in Phases /\ pos \in Nat
      /\ ram \in [Buffers -> [Bytes -> Frames]] /\ owner \in [Buffers -> Frames]
      /\ write_sig \in Buffers /\ send_pending \subseteq Buffers
    BY DEF RxClock, RxTypeOK, SelTypeOK
<1> SUFFICES ASSUME NEW b \in send_pending', NEW k \in Kept
             PROVE  ram'[b][k] = owner'[b]
    BY DEF PendingBodyIntact
<1>2. b \in send_pending \/ (pkt_rcvd /\ b = write_sig)
    <2>1. send_pending' = (send_pending \cup (IF pkt_rcvd THEN {write_sig} ELSE {}))
                              \ (IF sent THEN {send_sig} ELSE {})
        BY StepOwnership
    <2> QED BY <2>1
<1>3. CASE pkt_rcvd
    <2>1. phase = "quiet" /\ ram' = ram /\ owner' = [owner EXCEPT ![write_sig] = frame]
        BY <1>1, <1>3 DEF AnnouncedAfterSend, RamWrite, rx_wea, payload_we, History
    <2>2. ram[write_sig][k] = frame
        BY <1>3, <2>1 DEF AcceptedIsStored, Stored, Kept
    <2>3. b # write_sig => ram[b][k] = owner[b]
        BY <1>2 DEF PendingBodyIntact
    <2> QED BY <1>1, <1>2, <2>1, <2>2, <2>3
<1>4. CASE ~pkt_rcvd
    <2>1. owner' = owner /\ b \in send_pending /\ ram[b][k] = owner[b]
        BY <1>1, <1>2, <1>4 DEF History, PendingBodyIntact
    <2>2. CASE rx_wea /\ payload_addr = k
        <3>1. ram_ok /\ payload_we /\ payload_addr \notin {1, ClosingByte}
            BY <2>2 DEF rx_wea, Kept
        <3>2. ASSUME phase = "body" PROVE ~busy
            <4>1. pos > 1
                BY <1>1, <3>1, <3>2 DEF payload_addr, AcceptedIsStored, Bytes
            <4> QED BY <3>1, <3>2, <4>1 DEF AcceptedHasBuffer, Underway
        <3>3. ASSUME phase # "body" PROVE ~busy
            <4>1. stuck /\ phase \in {"quiet", "gap", "first"}
                BY <3>1, <3>3 DEF payload_we, StuckInGap
            <4>2. CASE phase = "quiet" \/ pos = 0
                <5>1. phase # "first"
                    BY <4>2 DEF StuckInGap
                <5> QED BY <3>1, <4>1, <4>2, <5>1 DEF AcceptedHasBuffer, Frozen
            <4>3. CASE phase # "quiet" /\ pos # 0
                <5>1. pos \in {1, 2}
                    BY <4>1, <4>3 DEF StuckInGap
                <5> QED BY <3>1, <4>1, <4>3, <5>1 DEF payload_addr
            <4> QED BY <4>2, <4>3
        <3>4. ~busy
            BY <3>2, <3>3
        <3>5. b # write_sig
            BY <2>1, <3>4 DEF Ownership
        <3> QED BY <1>1, <2>1, <2>2, <3>5 DEF RamWrite
    <2>3. CASE ~(rx_wea /\ payload_addr = k)
        BY <1>1, <2>1, <2>3 DEF RamWrite
    <2> QED BY <2>2, <2>3
<1> QED BY <1>3, <1>4

\* Every edge keeps it.
LEMMA InvStep == IInv /\ [RxNext]_rxVars => IInv'
<1> SUFFICES ASSUME IInv, [RxNext]_rxVars PROVE IInv'
    OBVIOUS
<1>1. ASSUME NEW sent \in BOOLEAN, RxClock(sent)
      PROVE  IInv'
    <2>1. RxTypeOK'
        BY <1>1, StepTypeOK DEF IInv
    <2>2. Ownership'
        BY <1>1, StepOwnership
    <2> QED BY <1>1, <2>1, <2>2, StepAccepted, StepStored, StepBodyIntact DEF IInv
<1>2. CASE UNCHANGED rxVars
    BY <1>2 DEF rxVars, selVars, wireVars, ifVars, histVars, IInv, RxTypeOK, SelTypeOK,
       Ownership, StuckInGap, AcceptedHasBuffer, AnnouncedAfterSend, AcceptedIsStored,
       PendingBodyIntact, Underway, Frozen, Stored
<1> QED BY <1>1, <1>2 DEF RxNext

\* The inductive invariant of the receive path: from the second byte of a frame to
\* the clock that announces it, it has a buffer of its own or has been refused.
THEOREM RxInvariant == RxSpec => []IInv
<1> QED BY InvInit, InvStep, PTL DEF RxSpec

\* Every register in its range, and a request announced (pkt_rcvd) only while the
\* writer has a free buffer: the rule BufferRing asks of its writer.
THEOREM RxKeepsRule == RxSpec => []RxInv
<1>1. IInv => RxInv
    BY DEF IInv, RxInv, WrittenOnlyWithBuffer, AnnouncedAfterSend, Ownership
<1> QED BY <1>1, RxInvariant, PTL

\* All bytes of a request still to be read but those at the two addresses of rx_reset
\* are its own, whatever frames arrive, are refused by the parser, end with a MAC
\* error or meet a full RAM in the meantime.
THEOREM RxBodyIntact == RxSpec => []PendingBodyIntact
<1>1. IInv => PendingBodyIntact
    BY DEF IInv
<1> QED BY <1>1, RxInvariant, PTL
-----------------------------------------------------------------------------
\* rx_ram_selector as a BufferRing, with what is proved of it.
Ring == INSTANCE BufferRingProofs WITH None <- NBuf

\* The assumptions of BufferRing about its constants hold here.
LEMMA RingAssumptions == Ring!NBufAssumption /\ Ring!NoneAssumption
BY NBufAssumption DEF Ring!NBufAssumption, Ring!NoneAssumption, Ring!Buffers

\* One edge of the receive path is one edge of the ring: the writer is let on only
\* while it has a buffer.
LEMMA StepIsTick ==
    ASSUME IInv, NEW sent \in BOOLEAN, RxClock(sent)
    PROVE  Ring!Tick(pkt_rcvd, rx_wea, sent)
<1>1. Clock(pkt_rcvd, rx_wea, sent, {}) /\ History(sent) /\ (sent => sending) /\ (pkt_rcvd => ~busy)
    BY DEF RxClock, IInv, AnnouncedAfterSend
<1>2. Ring!Clock(pkt_rcvd, rx_wea, sent, {})
    BY <1>1 DEF Clock, FreeBlock, CleanBlock, SendPendingBlock, BusyBlock, ReqSendBlock,
       WriteBlock, SendBlock, Taken, Released, Buffers, NextBuf,
       Ring!Clock, Ring!FreeBlock, Ring!CleanBlock, Ring!SendPendingBlock, Ring!BusyBlock,
       Ring!ReqSendBlock, Ring!WriteBlock, Ring!SendBlock, Ring!Taken, Ring!Released,
       Ring!Buffers, Ring!NextBuf
<1> QED BY <1>1, <1>2 DEF Ring!Tick, History

\* Every step of the path is a step of the ring, or leaves it alone.
LEMMA StepIsRingStep == IInv /\ [RxNext]_rxVars => [Ring!RingNext]_(Ring!ringVars)
<1> SUFFICES ASSUME IInv, [RxNext]_rxVars PROVE [Ring!RingNext]_(Ring!ringVars)
    OBVIOUS
<1>1. CASE UNCHANGED rxVars
    BY <1>1 DEF rxVars, histVars, selVars, Ring!ringVars, Ring!selVars
<1>2. ASSUME NEW sent \in BOOLEAN, RxClock(sent)
      PROVE  Ring!RingNext
    <2>1. Ring!Tick(pkt_rcvd, rx_wea, sent)
        BY <1>2, StepIsTick
    <2>2. pkt_rcvd \in BOOLEAN /\ rx_wea \in BOOLEAN
        BY DEF IInv, RxTypeOK, rx_wea, payload_we
    <2> QED BY <2>1, <2>2 DEF Ring!RingNext
<1> QED BY <1>1, <1>2 DEF RxNext

\* After reset the ring is empty.
LEMMA RingStarts == RxInit => Ring!RingInit
BY DEF RxInit, SelInit, Buffers, Ring!RingInit, Ring!SelInit, Ring!Buffers

\* The receive RAM is used as BufferRing assumes: what is proved of the ring
\* holds of the receive path.
THEOREM RxRamIsRing == RxSpec => Ring!RingSpec
<1> QED BY RingStarts, StepIsRingStep, RxInvariant, PTL DEF RxSpec, Ring!RingSpec

\* The buffers that hold requests are a first-in first-out queue.
THEOREM RxRamIsFifo == RxSpec => Ring!ImplementsFifo
<1>1. Ring!RingSpec => Ring!ImplementsFifo
    BY RingAssumptions, Ring!RingImplementsFifo
<1> QED BY <1>1, RxRamIsRing, PTL

-----------------------------------------------------------------------------
\* Requests wait in the order of their frames.  A frame on its way is newer than
\* all that were accepted, and some buffer holds the newest of those.
OwnersInOrder ==
    /\ \A i, j \in 1 .. Len(order) : i < j => owner[order[i]] < owner[order[j]]
    /\ \A b \in Buffers : owner[b] <= frame
    /\ phase \in {"first", "body", "end", "send"} \/ pkt_rcvd => \A b \in Buffers : owner[b] < frame
    /\ \E c \in Buffers : \A b \in Buffers : owner[b] <= owner[c]

OrderInv == IInv /\ Ring!RingInv /\ OwnersInOrder

\* What one edge does to the queue of buffers and to their requests.
LEMMA StepOrder ==
    ASSUME OrderInv, NEW sent \in BOOLEAN, RxClock(sent)
    PROVE  LET off == IF sent THEN 1 ELSE 0
               add == IF pkt_rcvd THEN 1 ELSE 0
           IN  /\ sent => Len(order) > 0 /\ send_sig = order[1]
               /\ Len(order) \in Nat
               /\ \A i \in 1 .. Len(order) : order[i] \in send_pending
               /\ Len(order') = Len(order) - off + add
               /\ \A i \in 1 .. Len(order') :
                     order'[i] = IF i <= Len(order) - off THEN order[i + off] ELSE write_sig
               /\ pkt_rcvd => write_sig \notin send_pending
               /\ owner' = IF pkt_rcvd THEN [owner EXCEPT ![write_sig] = frame] ELSE owner
<1>1. Ring!Tick(pkt_rcvd, rx_wea, sent) /\ Ring!RingInv /\ IInv
    BY StepIsTick DEF OrderInv
<1>2. pkt_rcvd \in BOOLEAN /\ rx_wea \in BOOLEAN
    BY <1>1 DEF IInv, RxTypeOK, rx_wea, payload_we
<1>3. LET off == IF sent THEN 1 ELSE 0
          add == IF pkt_rcvd THEN 1 ELSE 0
      IN  /\ sent => Len(order) > 0 /\ send_sig = order[1]
          /\ order' \in Seq(Ring!Buffers)
          /\ Len(order') = Len(order) - off + add
          /\ \A i \in 1 .. Len(order') :
                order'[i] = IF i <= Len(order) - off THEN order[i + off] ELSE write_sig
    BY <1>1, <1>2, Ring!TickOrder, RingAssumptions
<1>4. order \in Seq(Ring!Buffers) /\ \A i \in 1 .. Len(order) : order[i] \in send_pending
    BY <1>1 DEF Ring!RingInv, Ring!RingTypeOK, Ring!PendingIsOrder
<1>5. pkt_rcvd => write_sig \notin send_pending
    BY <1>1 DEF IInv, AnnouncedAfterSend, Ownership
<1>6. owner' = IF pkt_rcvd THEN [owner EXCEPT ![write_sig] = frame] ELSE owner
    BY DEF RxClock, History
<1> QED BY <1>3, <1>4, <1>5, <1>6

\* Every edge keeps the requests in order.
LEMMA StepOwnersInOrder ==
    ASSUME OrderInv, NEW sent \in BOOLEAN, RxClock(sent)
    PROVE  OwnersInOrder'
<1> DEFINE off == IF sent THEN 1 ELSE 0
           add == IF pkt_rcvd THEN 1 ELSE 0
           n   == Len(order)
<1>1. /\ n \in Nat /\ (sent => n > 0 /\ send_sig = order[1])
      /\ \A i \in 1 .. n : order[i] \in send_pending
      /\ Len(order') = n - off + add
      /\ \A i \in 1 .. Len(order') :
            order'[i] = IF i <= n - off THEN order[i + off] ELSE write_sig
      /\ pkt_rcvd => write_sig \notin send_pending
      /\ owner' = IF pkt_rcvd THEN [owner EXCEPT ![write_sig] = frame] ELSE owner
    BY StepOrder
<1>2. /\ owner \in [Buffers -> Nat] /\ frame \in Nat /\ write_sig \in Buffers
      /\ send_pending \subseteq Buffers /\ pkt_rcvd \in BOOLEAN /\ phase \in Phases
    BY DEF OrderInv, IInv, RxTypeOK, SelTypeOK, Frames
<1>3. /\ \A i, j \in 1 .. n : i < j => owner[order[i]] < owner[order[j]]
      /\ \A b \in Buffers : owner[b] <= frame
      /\ phase \in {"first", "body", "end", "send"} \/ pkt_rcvd =>
             \A b \in Buffers : owner[b] < frame
      /\ pkt_rcvd => phase = "quiet"
    BY DEF OrderInv, OwnersInOrder, IInv, AnnouncedAfterSend
<1>4. \/ frame' = frame
      \/ frame' = frame + 1 /\ phase = "gap" /\ phase' = "first"
    BY DEF RxClock, WireStep, BeginFrame, Wire
<1>5. phase' \in {"first", "body", "end", "send"} =>
          frame' = frame + 1 \/ phase \in {"first", "body", "end", "send"}
    BY <1>2, <1>4 DEF RxClock, WireStep, BeginFrame, FirstByte, NextByte, Reject, MacError,
       EndOfFrame, AfterFrame, Wire
<1>6. pkt_rcvd' => phase = "send" /\ frame' = frame
    BY <1>4 DEF RxClock, RamStatus, payload_send
<1>7. \A b \in Buffers : owner'[b] <= frame'
    BY <1>1, <1>2, <1>3, <1>4
<1>8. phase' \in {"first", "body", "end", "send"} \/ pkt_rcvd' =>
          \A b \in Buffers : owner'[b] < frame'
    <2>1. CASE pkt_rcvd
        BY <1>2, <1>3, <1>4, <1>5, <1>6, <2>1
    <2>2. CASE ~pkt_rcvd
        BY <1>1, <1>2, <1>3, <1>4, <1>5, <1>6, <2>2
    <2> QED BY <1>2, <2>1, <2>2
<1>9. \E c \in Buffers : \A b \in Buffers : owner'[b] <= owner'[c]
    <2>1. CASE pkt_rcvd
        BY <1>1, <1>2, <1>3, <2>1
    <2>2. CASE ~pkt_rcvd
        BY <1>1, <2>2 DEF OrderInv, OwnersInOrder
    <2> QED BY <1>2, <2>1, <2>2
<1>10. ASSUME NEW i \in 1 .. Len(order'), NEW j \in 1 .. Len(order'), i < j
       PROVE  owner'[order'[i]] < owner'[order'[j]]
    <2>1. /\ i \in Nat /\ j \in Nat /\ i < j /\ i >= 1 /\ j <= n - off + add
          /\ i <= n - off
        BY <1>1, <1>10
    <2>2. i + off \in 1 .. n /\ order'[i] = order[i + off]
        BY <1>1, <2>1
    <2>3. order[i + off] \in send_pending /\ order[i + off] \in Buffers
        BY <1>1, <1>2, <2>2
    <2>4. owner'[order'[i]] = owner[order[i + off]]
        BY <1>1, <1>2, <2>2, <2>3
    <2>5. CASE j <= n - off
        <3>1. j + off \in 1 .. n
            BY <1>1, <2>1, <2>5
        <3>2. order'[j] = order[j + off]
            BY <1>1, <2>5, <3>1
        <3>3. order[j + off] \in send_pending /\ order[j + off] \in Buffers
            BY <1>1, <1>2, <3>1
        <3>4. owner'[order'[j]] = owner[order[j + off]]
            BY <1>1, <1>2, <3>2, <3>3
        <3>5. i + off < j + off
            BY <2>1
        <3> QED BY <1>3, <2>2, <2>4, <3>1, <3>4, <3>5
    <2>6. CASE j > n - off
        <3>1. pkt_rcvd /\ order'[j] = write_sig
            BY <1>1, <2>1, <2>6
        <3>2. owner'[order'[j]] = frame
            BY <1>1, <1>2, <3>1
        <3>3. owner[order[i + off]] < frame
            BY <1>3, <2>3, <3>1
        <3> QED BY <2>4, <3>2, <3>3
    <2> QED BY <1>1, <2>1, <2>5, <2>6
<1> QED BY <1>7, <1>8, <1>9, <1>10 DEF OwnersInOrder

\* The invariant of the queue holds.
THEOREM RxOrdered == RxSpec => []OrderInv
<1>1. RxInit => OrderInv
    <2>1. RxInit => Ring!RingInv
        BY RingStarts, Ring!RingInvInit, RingAssumptions
    <2>2. RxInit => OwnersInOrder
        <3>1. 0 \in Buffers
            BY NBufAssumption DEF Buffers
        <3> QED BY <3>1 DEF RxInit, OwnersInOrder
    <2> QED BY <2>1, <2>2, InvInit DEF OrderInv
<1>2. OrderInv /\ [RxNext]_rxVars => OrderInv'
    <2> SUFFICES ASSUME OrderInv, [RxNext]_rxVars PROVE OrderInv'
        OBVIOUS
    <2>1. IInv'
        BY InvStep DEF OrderInv
    <2>2. Ring!RingInv'
        BY StepIsRingStep, Ring!RingInvStep, RingAssumptions DEF OrderInv
    <2>3. OwnersInOrder'
        <3>1. CASE UNCHANGED rxVars
            BY <3>1 DEF rxVars, wireVars, ifVars, histVars, OrderInv, OwnersInOrder
        <3> QED BY <3>1, StepOwnersInOrder DEF RxNext
    <2> QED BY <2>1, <2>2, <2>3 DEF OrderInv
<1> QED BY <1>1, <1>2, PTL DEF RxSpec
-----------------------------------------------------------------------------
\* The newest request accepted so far, as a function of the buffers' requests.
Newest(o) == IF \A b \in Buffers : o[b] = 0 THEN 0
             ELSE CHOOSE m \in {o[b] : b \in Buffers} : \A b \in Buffers : o[b] <= m

\* It is the request of any buffer whose request is the largest.
LEMMA NewestIs ==
    ASSUME NEW o \in [Buffers -> Nat], NEW c \in Buffers, \A b \in Buffers : o[b] <= o[c]
    PROVE  Newest(o) = o[c]
<1>1. CASE \A b \in Buffers : o[b] = 0
    BY <1>1 DEF Newest
<1>2. CASE ~ \A b \in Buffers : o[b] = 0
    <2> DEFINE P(m) == \A b \in Buffers : o[b] <= m
    <2>1. o[c] \in {o[b] : b \in Buffers} /\ P(o[c])
        OBVIOUS
    <2>2. Newest(o) = CHOOSE m \in {o[b] : b \in Buffers} : P(m)
        BY <1>2 DEF Newest
    <2>3. Newest(o) \in {o[b] : b \in Buffers} /\ P(Newest(o))
        BY <2>1, <2>2
    <2>4. PICK d \in Buffers : Newest(o) = o[d]
        BY <2>3
    <2>5. o[d] <= o[c] /\ o[c] <= o[d]
        BY <2>3, <2>4
    <2> QED BY <2>4, <2>5
<1> QED BY <1>1, <1>2

\* The requests held, and the newest so far, as the stream sees them.
Accepted == {owner[b] : b \in send_pending}
NewestNow == Newest(owner)

\* An edge leaves the requests held as they are, or adds the frame just accepted,
\* which is newer than all: what the stream calls an arrival.
LEMMA StepIsArrival ==
    ASSUME OrderInv, OrderInv', NEW sent \in BOOLEAN, RxClock(sent)
    PROVE  LET held == {owner[b] : b \in send_pending \ (IF sent THEN {send_sig} ELSE {})}
           IN  \/ Accepted' = held /\ NewestNow' = NewestNow
               \/ NewestNow' > NewestNow /\ Accepted' = held \cup {NewestNow'}
<1> DEFINE held == {owner[b] : b \in send_pending \ (IF sent THEN {send_sig} ELSE {})}
           last == Newest(owner)
<1>1. /\ send_pending' = (send_pending \cup (IF pkt_rcvd THEN {write_sig} ELSE {}))
                             \ (IF sent THEN {send_sig} ELSE {})
      /\ pkt_rcvd => write_sig \notin send_pending
      /\ owner' = IF pkt_rcvd THEN [owner EXCEPT ![write_sig] = frame] ELSE owner
      /\ sent => send_sig \in send_pending
    <2>1. sent => send_sig \in send_pending
        <3>1. /\ sent => Len(order) > 0 /\ send_sig = order[1]
              /\ Len(order) \in Nat
              /\ \A i \in 1 .. Len(order) : order[i] \in send_pending
            BY StepOrder
        <3>2. sent => 1 \in 1 .. Len(order)
            BY <3>1
        <3> QED BY <3>1, <3>2
    <2> QED BY <2>1, StepOwnership, StepOrder DEF OrderInv
<1>2. /\ owner \in [Buffers -> Nat] /\ owner' \in [Buffers -> Nat] /\ frame \in Nat
      /\ write_sig \in Buffers /\ send_pending \subseteq Buffers /\ pkt_rcvd \in BOOLEAN
    BY DEF OrderInv, IInv, RxTypeOK, SelTypeOK, Frames
<1>3. CASE ~pkt_rcvd
    <2>1. owner' = owner /\ {owner'[b] : b \in send_pending'} = held
        BY <1>1, <1>3
    <2> QED BY <2>1 DEF Accepted, NewestNow
<1>4. CASE pkt_rcvd
    <2>1. \A b \in Buffers : owner[b] < frame
        BY <1>4 DEF OrderInv, OwnersInOrder
    <2>2. PICK c \in Buffers : \A b \in Buffers : owner[b] <= owner[c]
        BY DEF OrderInv, OwnersInOrder
    <2>3. last = owner[c] /\ last < frame
        BY <1>2, <2>1, <2>2, NewestIs
    <2>4. owner' = [owner EXCEPT ![write_sig] = frame] /\ owner'[write_sig] = frame
        BY <1>1, <1>2, <1>4
    <2>5. \A b \in Buffers : owner'[b] <= owner'[write_sig]
        BY <1>2, <2>1, <2>4
    <2>6. Newest(owner') = frame
        BY <1>2, <2>4, <2>5, NewestIs
    <2>7. send_pending' = (send_pending \ (IF sent THEN {send_sig} ELSE {})) \cup {write_sig}
        BY <1>1, <1>4
    <2>8. \A b \in send_pending : owner'[b] = owner[b]
        BY <1>1, <1>2, <1>4, <2>4
    <2>9. {owner'[b] : b \in send_pending'} = held \cup {frame}
        BY <2>4, <2>7, <2>8
    <2>10. Newest(owner') > Newest(owner)
        BY <1>2, <2>3, <2>6
    <2>11. {owner'[b] : b \in send_pending'} = held \cup {Newest(owner')}
        BY <2>6, <2>9
    <2> QED BY <2>10, <2>11 DEF Accepted, NewestNow
<1> QED BY <1>2, <1>3, <1>4

\* The buffer given back is the oldest: its request is below all others held.
LEMMA OldestIsLeast ==
    ASSUME OrderInv, sending
    PROVE  /\ send_sig \in send_pending
           /\ \A b \in send_pending : owner[send_sig] <= owner[b]
           /\ \A b \in send_pending : owner[b] = owner[send_sig] => b = send_sig
<1>1. /\ order \in Seq(Ring!Buffers) /\ Len(order) > 0 /\ send_sig = order[1]
      /\ send_pending = {order[i] : i \in 1 .. Len(order)}
    BY DEF OrderInv, Ring!RingInv, Ring!RingTypeOK, Ring!SendsOldest, Ring!PendingIsOrder
<1>2. owner \in [Buffers -> Nat] /\ send_pending \subseteq Buffers
    BY DEF OrderInv, IInv, RxTypeOK, SelTypeOK, Frames
<1>3. \A i, j \in 1 .. Len(order) : i < j => owner[order[i]] < owner[order[j]]
    BY DEF OrderInv, OwnersInOrder
<1>4. 1 \in 1 .. Len(order)
    BY <1>1
<1>5. ASSUME NEW b \in send_pending
      PROVE  owner[send_sig] <= owner[b] /\ (owner[b] = owner[send_sig] => b = send_sig)
    <2>1. PICK i \in 1 .. Len(order) : b = order[i]
        BY <1>1
    <2>2. i = 1 \/ 1 < i
        BY <1>1
    <2>3. i # 1 => owner[send_sig] < owner[b]
        BY <1>1, <1>3, <1>4, <2>1, <2>2
    <2> QED BY <1>1, <1>2, <1>4, <1>5, <2>1, <2>3
<1> QED BY <1>1, <1>4, <1>5

\* Every edge is a step of the stream or leaves it alone.
LEMMA StepIsStreamStep ==
    OrderInv /\ OrderInv' /\ [RxNext]_rxVars =>
        [Stream!StreamNext]_(Stream!streamVars)
<1> SUFFICES ASSUME OrderInv, OrderInv', [RxNext]_rxVars
             PROVE  [Stream!StreamNext]_(Stream!streamVars)
    OBVIOUS
<1>1. CASE UNCHANGED rxVars
    BY <1>1 DEF rxVars, selVars, histVars, Stream!streamVars
<1>2. ASSUME NEW sent \in BOOLEAN, RxClock(sent)
      PROVE  Stream!StreamNext
    <2> DEFINE held == {owner[b] : b \in send_pending \ (IF sent THEN {send_sig} ELSE {})}
    <2>1. \/ Accepted' = held /\ NewestNow' = NewestNow
          \/ NewestNow' > NewestNow /\ Accepted' = held \cup {NewestNow'}
        BY <1>2, StepIsArrival
    <2>2. CASE ~sent
        <3>1. delivered' = delivered
            BY <1>2, <2>2 DEF RxClock, History
        <3>2. held = Accepted
            BY <2>2 DEF Accepted
        <3>3. \/ Accepted' = Accepted /\ NewestNow' = NewestNow
              \/ NewestNow' > NewestNow /\ Accepted' = Accepted \cup {NewestNow'}
            BY <2>1, <3>2
        <3>4. Stream!Arrive({owner[b] : b \in send_pending})
            BY <3>3 DEF Stream!Arrive, Accepted, NewestNow, Newest
        <3> QED BY <3>1, <3>4 DEF Stream!StreamNext
    <2>3. CASE sent
        <3>1. sending /\ delivered' = Content(send_sig)
            BY <1>2, <2>3 DEF RxClock, History
        <3>2. /\ send_sig \in send_pending
              /\ \A b \in send_pending : owner[send_sig] <= owner[b]
              /\ \A b \in send_pending : owner[b] = owner[send_sig] => b = send_sig
            BY <3>1, OldestIsLeast
        <3>3. delivered' = owner[send_sig]
            <4>1. FrameLen \in Kept
                BY RxAssumption DEF Kept, Bytes
            <4>2. \A k \in Kept : ram[send_sig][k] = owner[send_sig]
                BY <3>2 DEF OrderInv, IInv, PendingBodyIntact
            <4> QED BY <3>1, <4>1, <4>2 DEF Content
        <3>4. PICK p \in Accepted : p = delivered' /\ \A q \in Accepted : p <= q
            BY <3>2, <3>3 DEF Accepted
        <3>5. held = Accepted \ {p}
            BY <2>3, <3>2, <3>3, <3>4 DEF Accepted
        <3>6. \/ Accepted' = Accepted \ {p} /\ NewestNow' = NewestNow
              \/ NewestNow' > NewestNow /\ Accepted' = (Accepted \ {p}) \cup {NewestNow'}
            BY <2>1, <3>5
        <3>7. Stream!Deliver
            BY <3>4, <3>6 DEF Stream!Deliver, Stream!Arrive, Accepted, NewestNow, Newest
        <3> QED BY <3>7 DEF Stream!StreamNext
    <2> QED BY <2>2, <2>3
<1> QED BY <1>1, <1>2 DEF RxNext

\* The path is a lossy stream: what it accepts reaches the transactor once, in order
\* and, but for the bytes at the two addresses of rx_reset, whole, for any number of
\* buffers and any distance between frames.
THEOREM RxPathIsStream == RxSpec => ImplementsStream
<1>1. RxInit => Stream!StreamInit
    BY DEF RxInit, SelInit, Stream!StreamInit
<1>2. OrderInv /\ OrderInv' /\ [RxNext]_rxVars => [Stream!StreamNext]_(Stream!streamVars)
    BY StepIsStreamStep
<1> QED BY <1>1, <1>2, RxOrdered, PTL DEF RxSpec, ImplementsStream, Stream!StreamSpec
-----------------------------------------------------------------------------
\* How many buffers ahead of w the ring has b.
Ahead(w, b) == IF w <= b THEN b - w ELSE NBuf + b - w

\* A nonempty set of numbers has a least one.
LEMMA LeastOf ==
    ASSUME NEW T, T \subseteq Nat, T # {}
    PROVE  \E n \in T : \A m \in T : n <= m
<1>1. \E n \in T : \A m \in T : ~ (<<m, n>> \in OpToRel(<, Nat))
    BY NatLessThanWellFounded, WFMin, Zenon
<1>2. PICK n \in T : \A m \in T : ~(m < n)
    BY <1>1 DEF OpToRel
<1>3. \A m \in T : n <= m
    <2> SUFFICES ASSUME NEW m \in T PROVE n <= m
        OBVIOUS
    <2>1. m \in Nat /\ n \in Nat /\ ~(m < n)
        BY <1>2
    <2> QED BY <2>1
<1> QED BY <1>3

\* A set of buffers that holds the successor of each of its members holds all.
LEMMA WholeRing ==
    ASSUME NEW S \in SUBSET Buffers, S # {}, \A b \in S : NextBuf(b) \in S
    PROVE  S = Buffers
<1>1. NBuf - 1 \in S
    <2> DEFINE T == {n \in Nat : NBuf - 1 - n \in S}
    <2>1. T \subseteq Nat /\ T # {}
        <3>1. PICK b \in S : TRUE
            OBVIOUS
        <3>2. NBuf - 1 - b \in Nat /\ NBuf - 1 - (NBuf - 1 - b) = b
            BY NBufAssumption DEF Buffers
        <3> QED BY <3>1, <3>2
    <2>2. PICK n \in T : \A m \in T : n <= m
        BY <2>1, LeastOf
    <2>3. CASE n = 0
        <3>1. NBuf - 1 - 0 = NBuf - 1
            BY NBufAssumption
        <3> QED BY <2>2, <2>3, <3>1
    <2>4. CASE n # 0
        <3>1. NBuf - 1 - n \in S /\ NBuf - 1 - n # NBuf - 1 /\ n - 1 \in Nat
            BY <2>2, <2>4, NBufAssumption
        <3>2. NextBuf(NBuf - 1 - n) = NBuf - 1 - (n - 1)
            BY <3>1, NBufAssumption DEF NextBuf
        <3>3. NBuf - 1 - (n - 1) \in S
            BY <3>1, <3>2
        <3>4. n - 1 \in T
            BY <3>1, <3>3
        <3>5. n <= n - 1
            BY <2>2, <3>4
        <3> QED BY <2>2, <3>5
    <2> QED BY <2>3, <2>4
<1>2. 0 \in S
    <2>1. NextBuf(NBuf - 1) = 0
        BY DEF NextBuf
    <2> QED BY <1>1, <2>1
<1>3. ASSUME NEW c \in Buffers, c \notin S
      PROVE  FALSE
    <2> DEFINE T == {n \in Buffers : n \notin S}
    <2>1. T \subseteq Nat /\ T # {}
        BY <1>3 DEF Buffers
    <2>2. PICK n \in T : \A m \in T : n <= m
        BY <2>1, LeastOf
    <2>3. n \in Nat /\ n # 0 /\ n \in Buffers /\ n \notin S /\ n - 1 \in Buffers /\ n - 1 # NBuf - 1
        BY <1>2, <2>2, NBufAssumption DEF Buffers
    <2>4. n - 1 \in S
        <3>1. n - 1 \notin T
            BY <2>2, <2>3
        <3> QED BY <2>3, <3>1
    <2>5. NextBuf(n - 1) = n
        BY <2>3 DEF NextBuf
    <2> QED BY <2>3, <2>4, <2>5
<1> QED BY <1>3

\* After the newest of the waiting buffers, which follow each other round the ring,
\* comes a free one, unless there is none.
LEMMA RoomAfterNewest ==
    ASSUME NEW q \in Seq(Buffers), Len(q) > 0,
           \A i \in 1 .. Len(q) - 1 : q[i + 1] = NextBuf(q[i]),
           NEW b \in Buffers, \A i \in 1 .. Len(q) : q[i] # b
    PROVE  \A i \in 1 .. Len(q) : q[i] # NextBuf(q[Len(q)])
<1> DEFINE S == {q[i] : i \in 1 .. Len(q)}
<1> SUFFICES ASSUME NextBuf(q[Len(q)]) \in S PROVE FALSE
    OBVIOUS
<1>1. S \in SUBSET Buffers /\ S # {}
    <2>1. 1 \in 1 .. Len(q)
        OBVIOUS
    <2> QED BY <2>1
<1>2. ASSUME NEW c \in S PROVE NextBuf(c) \in S
    <2>1. PICK i \in 1 .. Len(q) : c = q[i]
        BY <1>2
    <2>2. CASE i = Len(q)
        BY <2>1, <2>2
    <2>3. CASE i # Len(q)
        <3>1. i \in 1 .. Len(q) - 1 /\ i + 1 \in 1 .. Len(q)
            BY <2>1, <2>3
        <3> QED BY <2>1, <3>1
    <2> QED BY <2>2, <2>3
<1> HIDE DEF S
<1>3. S = Buffers
    BY <1>1, <1>2, WholeRing
<1> QED BY <1>3 DEF S
\* While the writer looks for a buffer, the nearest free one is not far: no farther
\* than the clocks for which none was free allow, or the next one on the ring when
\* the search has just begun, as it does in the quiet after a request.
SearchIsShort ==
    busy => \/ free = {} /\ (room = 0 \/ (phase = "quiet" /\ pos = 1))
            \/ \E b \in free :
                  \/ room + Ahead(write_sig, b) <= NBuf + 1
                  \/ phase = "quiet" /\ pos = 1 /\ Ahead(write_sig, b) <= 1
                  \/ phase = "quiet" /\ pos = 2 /\ b = write_sig
                  \/ phase = "gap" /\ b = write_sig

\* A frame that began when there had long been room has a buffer from the start.
KeptWithRoom ==
    /\ phase = "first" => ram_ok
    /\ phase \in {"body", "end", "send"} /\ roomAtStart = RoomCap => ram_ok /\ ~busy

RoomInv == SearchIsShort /\ KeptWithRoom /\ DropOnlyWhenFull

\* A step of the writer's pointer brings it nearer to any other buffer; none is as
\* far as the ring is long.
LEMMA StepNearer ==
    ASSUME NEW w \in Buffers, NEW b \in Buffers
    PROVE  /\ Ahead(w, b) \in 0 .. NBuf - 1
           /\ b # w => Ahead(NextBuf(w), b) = Ahead(w, b) - 1
           /\ Ahead(w, NextBuf(w)) <= 1
           /\ Ahead(w, w) = 0
BY NBufAssumption DEF Buffers, NextBuf, Ahead

\* The wire moves from the announcement of a request to the next frame one clock at
\* a time.
LEMMA StepQuiet ==
    ASSUME QuietClocks >= 1, RxTypeOK, WireStep
    PROVE  /\ phase = "quiet" /\ pos = 0 => phase' = "quiet" /\ pos' = 1
           /\ phase = "quiet" /\ pos = 1 => (phase' = "quiet" /\ pos' = 2) \/ phase' = "gap"
BY RxAssumption DEF RxTypeOK, WireStep, BeginFrame, FirstByte, NextByte, Reject, MacError,
   EndOfFrame, AfterFrame, Wire

\* A search begins on the buffer just filled: the next one is free, if any is.
LEMMA SearchBegins ==
    ASSUME QuietClocks >= 1, OrderInv, OrderInv', NEW sent \in BOOLEAN, RxClock(sent), pkt_rcvd
    PROVE  SearchIsShort'
<1>1. /\ IInv /\ IInv' /\ Ring!RingInv' /\ pkt_rcvd \in BOOLEAN
    BY DEF OrderInv, IInv, RxTypeOK
<1>2. phase' = "quiet" /\ pos' = 1 /\ write_sig' = write_sig
    BY <1>1, StepQuiet, StepOwnership DEF RxClock, IInv, AnnouncedAfterSend
<1>3. CASE free' = {}
    BY <1>2, <1>3 DEF SearchIsShort
<1>4. CASE free' # {}
    <2>1. /\ Len(order') \in Nat /\ Len(order') > 0 /\ order'[Len(order')] = write_sig
        <3> DEFINE off == IF sent THEN 1 ELSE 0
        <3>1. /\ sent => Len(order) > 0
              /\ Len(order) \in Nat
              /\ Len(order') = Len(order) - off + 1
              /\ \A i \in 1 .. Len(order') :
                    order'[i] = IF i <= Len(order) - off THEN order[i + off] ELSE write_sig
            BY <1>1, StepOrder
        <3>2. Len(order') \in 1 .. Len(order') /\ ~(Len(order') <= Len(order) - off)
            BY <3>1
        <3> QED BY <3>1, <3>2
    <2>2. /\ order' \in Seq(Buffers)
          /\ \A i \in 1 .. Len(order') - 1 : order'[i + 1] = NextBuf(order'[i])
          /\ send_pending' = {order'[i] : i \in 1 .. Len(order')}
        BY <1>1 DEF Ring!RingInv, Ring!RingTypeOK, Ring!Consecutive, Ring!PendingIsOrder,
           Ring!Buffers, Ring!NextBuf, Buffers, NextBuf
    <2>3. free' = Buffers \ send_pending' /\ write_sig \in Buffers
        BY <1>1 DEF IInv, Ownership, RxTypeOK, SelTypeOK
    <2>4. PICK b \in Buffers : b \notin send_pending'
        BY <1>4, <2>3
    <2>5. \A i \in 1 .. Len(order') : order'[i] # b
        BY <2>2, <2>4
    <2>6. \A i \in 1 .. Len(order') : order'[i] # NextBuf(order'[Len(order')])
        BY <2>1, <2>2, <2>5, RoomAfterNewest
    <2>7. NextBuf(write_sig) \in free'
        <3>1. NextBuf(write_sig) \in Buffers
            BY <2>3, NBufAssumption DEF Buffers, NextBuf
        <3> QED BY <2>1, <2>2, <2>3, <2>6, <3>1
    <2>8. Ahead(write_sig', NextBuf(write_sig)) <= 1
        BY <1>2, <2>3, StepNearer
    <2> QED BY <1>2, <2>7, <2>8 DEF SearchIsShort
<1> QED BY <1>3, <1>4

\* A search goes on: the pointer moves toward the free buffer, which stays free.
LEMMA SearchGoesOn ==
    ASSUME QuietClocks >= 1, IInv, SearchIsShort, NEW sent \in BOOLEAN, RxClock(sent), busy, busy'
    PROVE  SearchIsShort'
<1>1. /\ RxTypeOK /\ WireStep /\ History(sent) /\ ~pkt_rcvd
      /\ free \subseteq Buffers /\ write_sig \in Buffers /\ send_sig \in Buffers
      /\ room \in Nat /\ RoomCap = NBuf + 2
    BY DEF IInv, RxTypeOK, SelTypeOK, RxClock, AnnouncedAfterSend, RoomCap
<1>2. /\ free' = free \cup (IF sent THEN {send_sig} ELSE {})
      /\ write_sig \notin free
      /\ write_sig' = NextBuf(write_sig)
      /\ write_sig' \in Buffers
    <2>1. free' = free \cup (IF sent THEN {send_sig} ELSE {})
        BY <1>1 DEF RxClock, Clock, FreeBlock, Taken, Released
    <2>2. write_sig \notin free
        BY StepOwnership
    <2>3. write_sig' = NextBuf(write_sig)
        BY <2>2 DEF RxClock, Clock, WriteBlock
    <2> QED BY <1>1, <2>1, <2>2, <2>3, NBufAssumption DEF NextBuf, Buffers
<1>3. room' = IF free = {} THEN 0 ELSE IF room < RoomCap THEN room + 1 ELSE room
    BY <1>1 DEF History
<1>4. CASE free = {}
    <2>1. room' = 0
        BY <1>3, <1>4
    <2>2. CASE free' = {}
        BY <2>1, <2>2 DEF SearchIsShort
    <2>3. CASE free' # {}
        <3>1. PICK b \in free' : b \in Buffers
            BY <1>1, <1>2, <2>3
        <3>2. Ahead(write_sig', b) \in 0 .. NBuf - 1
            BY <1>2, <3>1, StepNearer
        <3>3. room' + Ahead(write_sig', b) <= NBuf + 1
            BY <2>1, <3>2, NBufAssumption
        <3> QED BY <3>1, <3>3 DEF SearchIsShort
    <2> QED BY <2>2, <2>3
<1>5. CASE free # {}
    <2>1. PICK b \in free :
             \/ room + Ahead(write_sig, b) <= NBuf + 1
             \/ phase = "quiet" /\ pos = 1 /\ Ahead(write_sig, b) <= 1
        BY <1>2, <1>5 DEF SearchIsShort
    <2>2. /\ b \in Buffers /\ b # write_sig /\ b \in free'
          /\ Ahead(write_sig, b) \in 0 .. NBuf - 1
          /\ Ahead(write_sig', b) = Ahead(write_sig, b) - 1
        BY <1>1, <1>2, StepNearer
    <2>3. CASE room + Ahead(write_sig, b) <= NBuf + 1
        <3>1. room' <= room + 1 /\ room' \in Nat
            BY <1>1, <1>3, NBufAssumption
        <3>2. room' + Ahead(write_sig', b) <= NBuf + 1
            BY <1>1, <2>2, <2>3, <3>1, NBufAssumption
        <3> QED BY <2>2, <3>2 DEF SearchIsShort
    <2>4. CASE phase = "quiet" /\ pos = 1 /\ Ahead(write_sig, b) <= 1
        <3>1. b = write_sig'
            <4>1. Ahead(write_sig', b) = 0
                BY <1>2, <2>2, <2>4, StepNearer, NBufAssumption
            <4> QED BY <1>2, <2>2, <4>1, NBufAssumption DEF Ahead, Buffers
        <3>2. (phase' = "quiet" /\ pos' = 2) \/ phase' = "gap"
            BY <1>1, <2>4, StepQuiet
        <3> QED BY <2>2, <3>1, <3>2 DEF SearchIsShort
    <2> QED BY <2>1, <2>3, <2>4
<1> QED BY <1>4, <1>5

\* Every edge keeps the search short, and a frame that began with room keeps its
\* buffer to the end.
LEMMA StepRoom ==
    ASSUME QuietClocks >= 1, OrderInv, OrderInv', RoomInv, NEW sent \in BOOLEAN, RxClock(sent)
    PROVE  RoomInv'
<1>1. /\ IInv /\ IInv' /\ SearchIsShort /\ KeptWithRoom /\ DropOnlyWhenFull
    BY DEF OrderInv, RoomInv
<1>2. /\ WireStep /\ RamStatus /\ phase \in Phases /\ pos \in Nat /\ FrameLen \in Nat \ {0}
      /\ {ram_ok, pkt_rcvd, busy, busy'} \subseteq BOOLEAN
      /\ room \in 0 .. RoomCap /\ roomAtStart \in 0 .. RoomCap /\ RoomCap = NBuf + 2
      /\ free \subseteq Buffers /\ write_sig \in Buffers
      /\ roomAtStart' = IF phase = "first" THEN room ELSE roomAtStart
    BY <1>1, RxAssumption DEF RxClock, IInv, RxTypeOK, SelTypeOK, History, RoomCap
<1>3. busy' = IF busy /\ write_sig \in free THEN FALSE ELSE busy \/ pkt_rcvd
    BY <1>1, StepOwnership
<1>4. SearchIsShort'
    <2>1. CASE ~busy'
        BY <2>1 DEF SearchIsShort
    <2>2. CASE busy' /\ busy
        BY <1>1, <2>2, SearchGoesOn
    <2>3. CASE busy' /\ ~busy
        BY <1>2, <1>3, <2>3, SearchBegins
    <2> QED BY <1>2, <2>1, <2>2, <2>3
<1>5. phase = "first" /\ room = RoomCap => ~busy
    <2> SUFFICES ASSUME phase = "first", room = RoomCap, busy PROVE FALSE
        BY <1>2
    <2>1. PICK b \in free : room + Ahead(write_sig, b) <= NBuf + 1
        BY <1>1, <1>2, NBufAssumption DEF SearchIsShort
    <2>2. Ahead(write_sig, b) \in Nat
        BY <1>2, StepNearer
    <2> QED BY <1>2, <2>1, <2>2, NBufAssumption
<1>6. phase' = "first" => ram_ok'
    <2>1. phase' = "first" => phase = "gap"
        BY <1>2 DEF WireStep, BeginFrame, FirstByte, NextByte, Reject, MacError, EndOfFrame,
           AfterFrame, Wire
    <2> QED BY <1>2, <2>1 DEF RamStatus, rx_reset
<1>7. ASSUME phase' \in {"body", "end", "send"}, roomAtStart' = RoomCap
      PROVE  ram_ok' /\ ~busy'
    <2>1. phase \in {"first", "body", "end"}
        BY <1>2, <1>7 DEF WireStep, BeginFrame, FirstByte, NextByte, Reject, MacError,
           EndOfFrame, AfterFrame, Wire
    <2>2. ram_ok /\ ~busy
        <3>1. CASE phase = "first"
            BY <1>1, <1>2, <1>5, <1>7, <3>1 DEF KeptWithRoom
        <3>2. CASE phase # "first"
            BY <1>1, <1>2, <1>7, <2>1, <3>2 DEF KeptWithRoom
        <3> QED BY <3>1, <3>2
    <2>3. ~pkt_rcvd
        BY <1>1, <2>1 DEF IInv, AnnouncedAfterSend
    <2>4. ram_ok'
        BY <1>2, <2>1, <2>2 DEF RamStatus, rx_reset
    <2> QED BY <1>2, <1>3, <2>2, <2>3, <2>4
<1>8. rxpayload_dropped' => roomAtStart' < RoomCap
    <2> SUFFICES ASSUME rxpayload_dropped', ~(roomAtStart' < RoomCap) PROVE FALSE
        OBVIOUS
    <2>1. phase = "send" /\ ~ram_ok
        BY <1>1, <1>2 DEF RamStatus, payload_send, payload_we, IInv, StuckInGap
    <2>2. roomAtStart = RoomCap
        BY <1>2, <2>1, NBufAssumption
    <2> QED BY <1>1, <2>1, <2>2 DEF KeptWithRoom
<1> QED BY <1>4, <1>6, <1>7, <1>8 DEF RoomInv, KeptWithRoom, DropOnlyWhenFull

\* A request is lost only when, as its frame began, no buffer was free or had been
\* for as long as the writer needs to walk the whole ring: for any number of buffers
\* and frames of any length, with at least one quiet clock between them.
THEOREM RxLosesOnlyWhenFull == QuietClocks >= 1 => (RxSpec => []DropOnlyWhenFull)
<1> SUFFICES ASSUME QuietClocks >= 1 PROVE RxSpec => []DropOnlyWhenFull
    OBVIOUS
<1>1. RxInit => RoomInv
    <2> SUFFICES ASSUME RxInit PROVE RoomInv
        OBVIOUS
    <2>1. write_sig \in free /\ phase = "gap" /\ rxpayload_dropped = FALSE
        BY NBufAssumption DEF RxInit, SelInit, Buffers
    <2> QED BY <2>1 DEF RoomInv, SearchIsShort, KeptWithRoom, DropOnlyWhenFull, Underway
<1>2. OrderInv /\ OrderInv' /\ RoomInv /\ [RxNext]_rxVars => RoomInv'
    <2> SUFFICES ASSUME OrderInv, OrderInv', RoomInv, [RxNext]_rxVars PROVE RoomInv'
        OBVIOUS
    <2>1. CASE UNCHANGED rxVars
        BY <2>1 DEF rxVars, selVars, wireVars, ifVars, histVars, RoomInv, SearchIsShort,
           KeptWithRoom, DropOnlyWhenFull, Underway
    <2> QED BY <2>1, StepRoom DEF RxNext
<1>3. RoomInv => DropOnlyWhenFull
    BY DEF RoomInv
<1> QED BY <1>1, <1>2, <1>3, RxOrdered, PTL DEF RxSpec
=============================================================================
