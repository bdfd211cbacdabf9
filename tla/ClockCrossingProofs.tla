------------------------ MODULE ClockCrossingProofs ------------------------
(***************************************************************************)
(* The two clocks never lose, repeat or misdirect a packet, however many   *)
(* edges of one fall between two of the other: the request goes round the  *)
(* two clock domains as one token, and the rise and the fall of the        *)
(* writer's busy follow it as two more.  Each token is at one place, and   *)
(* what a register holds is said by where the tokens are.  For any number  *)
(* of buffers and, but for the clean ones, any ratio of the clocks.        *)
(*                                                                         *)
(* Before that: the fall-through RAM it reads from shows the right word.   *)
(***************************************************************************)
EXTENDS ClockCrossing, TLAPS

-----------------------------------------------------------------------------
\* The read side of the RAM, by itself: for every depth of the RAM, every set of
\* buffers and every pattern of reading.

\* The address stays within the RAM.
LEMMA NextAddrInRam == \A a \in 0 .. Depth - 1 : NextAddr(a) \in 0 .. Depth - 1
BY FallThroughAssumption DEF NextAddr

\* The registers start in an inductive state.
LEMMA FtInvInit == FtInit => FtInv
<1> SUFFICES ASSUME FtInit
             PROVE  FtInv
    OBVIOUS
<1>1. 0 \in 0 .. Depth - 1
    BY FallThroughAssumption
<1>2. FtTypeOK
    BY <1>1 DEF FtInit, FtTypeOK, Words
<1>3. ShowsNextWord /\ AheadOfWords
    BY DEF FtInit, ShowsNextWord, AheadOfWords
<1> QED BY <1>2, <1>3 DEF FtInv

\* One edge of the clock keeps the invariant, whether or not it takes a word.
LEMMA FtInvStep == FtInv /\ [FtNext]_ftVars => FtInv'
<1> SUFFICES ASSUME FtInv, [FtNext]_ftVars
             PROVE  FtInv'
    OBVIOUS
<1>1. CASE UNCHANGED ftVars
    BY <1>1 DEF ftVars, FtInv, FtTypeOK, ShowsNextWord, AheadOfWords, rxd
<1>2. ASSUME NEW takes \in BOOLEAN, FtEdge(takes)
      PROVE  FtInv'
    <2> USE <1>2 DEF FtEdge, FtClock, FtInv
    <2>1. /\ NextAddr(raddr) \in 0 .. Depth - 1
          /\ NextAddr(popped) \in 0 .. Depth - 1
          /\ 0 \in 0 .. Depth - 1
        BY NextAddrInRam, FallThroughAssumption DEF FtTypeOK
    <2>2. FtTypeOK'
        BY <2>1 DEF FtTypeOK, Words, Raddr, Dsel, Rxf, Ram, LeaveIdle, Offer
    <2>3. ShowsNextWord'
        <3> SUFFICES ASSUME ~dinit', ~dinit_d'
                     PROVE  rxd' = <<bank', popped'>>
            BY DEF ShowsNextWord
        <3>1. ~dinit /\ bank' = bank
            BY DEF Offer
        \* The first clock of a packet: word 0 is on the RAM and goes to rxf.
        <3>2. CASE dinit_d
            BY <3>1, <3>2 DEF AheadOfWords, Dsel, Rxf, rxd
        \* A word is taken, and one was in the clock before: past rxf.
        <3>3. CASE ~dinit_d /\ takes /\ dnext_d
            BY <3>1, <3>3 DEF AheadOfWords, Dsel, Ram, rxd
        \* A word is taken, the first for a while: rxf takes the next one.
        <3>4. CASE ~dinit_d /\ takes /\ ~dnext_d
            BY <3>1, <3>4 DEF AheadOfWords, Dsel, Rxf, rxd
        \* None is taken: the word shown is shown again, from rxf.
        <3>5. CASE ~dinit_d /\ ~takes
            BY <3>1, <3>5 DEF AheadOfWords, ShowsNextWord, Dsel, Rxf, rxd
        <3> QED BY <3>2, <3>3, <3>4, <3>5
    <2>4. AheadOfWords'
        <3>1. (dsel => dnext_d)' /\ (dnext_d => (begun \/ dinit_d))'
            BY DEF Dsel, LeaveIdle
        <3>2. ((~dinit /\ dinit_d) =>
                 raddr = 0 /\ rdata = <<bank, 0>> /\ popped = 0 /\ ~dnext_d /\ ~begun)'
            BY DEF Raddr, Ram, LeaveIdle, Offer
        <3>3. ((~dinit /\ ~dinit_d) =>
                 /\ raddr = NextAddr(popped)
                 /\ rdata = <<bank, IF dnext_d \/ ~begun THEN popped ELSE NextAddr(popped)>>)'
            <4> SUFFICES ASSUME ~dinit', ~dinit_d'
                         PROVE  /\ raddr' = NextAddr(popped')
                                /\ rdata' = <<bank', IF dnext_d' \/ ~begun' THEN popped'
                                                     ELSE NextAddr(popped')>>
                BY DEF NextAddr
            <4>1. ~dinit /\ bank' = bank
                BY DEF Offer
            <4>2. CASE dinit_d
                BY <4>1, <4>2 DEF AheadOfWords, Raddr, Ram, LeaveIdle
            <4>3. CASE ~dinit_d
                BY <4>1, <4>3 DEF AheadOfWords, Raddr, Ram, LeaveIdle
            <4> QED BY <4>2, <4>3
        <3> QED BY <3>1, <3>2, <3>3 DEF AheadOfWords
    <2> QED BY <2>2, <2>3, <2>4
<1> QED BY <1>1, <1>2 DEF FtNext

\* The invariant that says where address and RAM stand ahead of the words.
THEOREM FallThroughInvariant == FtSpec => []FtInv
BY FtInvInit, FtInvStep, PTL DEF FtSpec

\* The machine always sees the next word of its packet: transactor_if's rx_data.
THEOREM FallThroughCorrect == FtSpec => []ShowsNextWord
<1>1. FtInv => ShowsNextWord
    BY DEF FtInv
<1> QED BY <1>1, FallThroughInvariant, PTL

-----------------------------------------------------------------------------
\* The crossing.

\* The one request under way is at place n: 0 nowhere, 1 .. 4 on its way to the
\* bus clock, 5 offered to the transactor or being answered by it, 6 .. 11 done,
\* the word of it on its way back.
RequestAt(n) ==
    /\ r_sending <=> n # 0
    /\ r_req_send <=> n = 1
    /\ (req_send_tff # req_send_buf[1]) <=> n = 2
    /\ (req_send_buf[1] # req_send_buf[2]) <=> n = 3
    /\ Edge(req_send_buf) <=> n = 4
    /\ pkt_rdy_buf[1] <=> n = 5
    /\ (pkt_done_r_tff[1] # pkt_done_r_tff[2]) <=> n = 6
    /\ (pkt_done_r_tff[2] # pkt_done_r_tff[3]) <=> n = 7
    /\ (pkt_done_r_tff[3] # pkt_done_read_buf[1]) <=> n = 8
    /\ (pkt_done_read_buf[1] # pkt_done_read_buf[2]) <=> n = 9
    /\ Edge(pkt_done_read_buf) <=> n = 10
    /\ rx_ram_sent <=> n = 11

\* The word that the writer of the replies has become busy is at place u.
RiseAt(u) ==
    /\ (t_busy /\ ~last_busy) <=> u = 1
    /\ (busy_up_tff # busy_up_buf[1]) <=> u = 2
    /\ (busy_up_buf[1] # busy_up_buf[2]) <=> u = 3
    /\ Edge(busy_up_buf) <=> u = 4

\* The word that it has a buffer again is at place d.
FallAt(d) ==
    /\ (last_busy /\ ~t_busy) <=> d = 1
    /\ (busy_down_tff # busy_down_buf[1]) <=> d = 2
    /\ (busy_down_buf[1] # busy_down_buf[2]) <=> d = 3
    /\ Edge(busy_down_buf) <=> d = 4

Triples == BOOLEAN \X BOOLEAN \X BOOLEAN

RegistersOK ==
    /\ {req_send_buf, pkt_rdy_buf, pkt_done_r_tff, pkt_done_read_buf, busy_up_buf,
        busy_down_buf} \subseteq Triples
    /\ busy_buf \in BOOLEAN \X BOOLEAN \X BOOLEAN \X BOOLEAN
    /\ we_buf \in BOOLEAN \X BOOLEAN
    /\ {req_send_tff, busy_up_tff, busy_down_tff, last_busy, pkt_rdy, busy, rx_next,
        tx_we, rx_ram_sent} \subseteq BOOLEAN

\* pkt_done goes back twice, to the RAM that was read and to the one written.
SameTokens ==
    /\ pkt_done_w_tff = pkt_done_r_tff
    /\ pkt_done_write_buf = pkt_done_read_buf
    /\ tx_ram_written = rx_ram_sent

\* What the place of the request says of the registers that follow it.
RequestLogic(n) ==
    /\ n # 0 => (r_send_sig \in r_send_pending /\ "rx" \notin moved)
    /\ n \in {3, 4, 5} => rx_read_buf_buf = r_send_sig
    /\ n \in {4, 5} => bank = r_send_sig
    /\ pkt_rdy_buf[3] => pkt_rdy_buf[2]
    /\ pkt_rdy_buf[2] => pkt_rdy_buf[1]
    /\ pkt_rdy <=> pkt_rdy_buf[3]
    /\ dinit <=> ~(pkt_rdy /\ ~busy)
    /\ tstate = "GAP" <=> n = 6
    /\ tstate \notin {"IDLE", "GAP"} => (~dinit /\ begun)
    /\ stage = IF n \in {0, 1} THEN "none"
               ELSE IF n <= 5 /\ tstate = "IDLE" THEN "offered" ELSE "begun"

\* The next reply has no buffer yet, as far as the bus clock may know.
Owed(n, d) == t_busy \/ d # 0 \/ n >= 6

\* After reset the transactor's side does not know yet that the writer is busy, but
\* the word of it is ahead of the first request.
Fresh(n, u, d) ==
    /\ u # 0
    /\ n < 5
    /\ t_busy => /\ u = 1 /\ r_busy /\ t_write_sig \in t_free
                 /\ r_send_pending = {} /\ ~r_sending
    /\ d = 1 => (r_send_pending = {} /\ ~r_sending)
    /\ d >= 2 => n <= d

\* busy falls after it rose; busy_buf holds the transactor until it has fallen.
BusyLogic(n, u, d) ==
    /\ t_busy => d = 0
    /\ u # 0 => (t_busy \/ d \in 1 .. u)
    /\ busy_buf[1] => busy_buf[2]
    /\ busy_buf[2] => busy_buf[3]
    /\ busy_buf[3] => busy_buf[4]
    /\ busy_buf[4] => busy
    /\ Owed(n, d) => (busy_buf[1] \/ Fresh(n, u, d))
    /\ ~dinit => ~Owed(n, d)
    /\ n >= 6 => (~t_busy /\ u = 0 /\ d = 0)

\* The number of the buffer for the reply arrives with the fall of busy.
WriterLogic(d) ==
    /\ ~t_busy => (t_write_sig \in t_free /\ "tx" \notin moved)
    /\ d \in {3, 4} => tx_write_buf_buf = t_write_sig
    /\ d = 4 => tx_write_buffer = t_write_sig
    /\ (~t_busy /\ d = 0) => (tx_write_buf_buf = t_write_sig /\ tx_write_buffer = t_write_sig)

Tracked(n, u, d) ==
    /\ RequestAt(n) /\ RiseAt(u) /\ FallAt(d)
    /\ RequestLogic(n) /\ BusyLogic(n, u, d) /\ WriterLogic(d)

IInv == /\ CcTypeOK /\ FtInv /\ RegistersOK /\ SameTokens
        /\ \E n \in 0 .. 11, u, d \in 0 .. 4 : Tracked(n, u, d)

-----------------------------------------------------------------------------
\* The places after an edge of mac_clk; asks: a request waits under the reader.
MacPlace(n, asks) ==
    IF n = 0 THEN IF asks THEN 1 ELSE 0
    ELSE IF n \in {1, 8, 9, 10} THEN n + 1
    ELSE IF n = 11 THEN 0 ELSE n

\* turns: busy changes with this edge.
MacTurn(u, turns) == IF turns THEN 1 ELSE IF u = 1 THEN 2 ELSE u

\* The places after an edge of ipb_clk; done: the transactor is finished with it.
BusPlace(n, done) ==
    IF n \in {2, 3, 4, 6, 7} \/ (n = 5 /\ done) THEN n + 1 ELSE n

BusTurn(u) == IF u \in {2, 3} THEN u + 1 ELSE IF u = 4 THEN 0 ELSE u

\* A shift register passes its bits on.
LEMMA ShiftBits ==
    ASSUME NEW r \in Triples, NEW b \in BOOLEAN
    PROVE  /\ Shift(r, b) \in Triples
           /\ Shift(r, b)[1] = b /\ Shift(r, b)[2] = r[1] /\ Shift(r, b)[3] = r[2]
           /\ r[1] \in BOOLEAN /\ r[2] \in BOOLEAN /\ r[3] \in BOOLEAN
BY DEF Shift, Triples

\* An edge of mac_clk moves the request from 1 to 2 and from 8 to 11, starts and
\* ends it.
LEMMA MacRequest ==
    ASSUME RegistersOK, CcTypeOK, NEW n \in 0 .. 11, RequestAt(n),
           NEW asks \in BOOLEAN, asks <=> r_send_sig \in r_send_pending,
           NEW written, NEW sent, MacEdge(written, sent)
    PROVE  RequestAt(MacPlace(n, asks))'
<1> DEFINE m == MacPlace(n, asks)
<1>1. /\ pkt_done_mac_clk /\ req_send_mac_clk /\ Rx!ReqSendBlock(rx_ram_sent)
      /\ UNCHANGED <<req_send_buf, pkt_rdy_buf, pkt_done_r_tff>>
    BY DEF MacEdge, Rx!Clock, ipbVars
<1>2. /\ {r_sending, r_req_send, rx_ram_sent, req_send_tff} \subseteq BOOLEAN
      /\ {req_send_buf, pkt_rdy_buf, pkt_done_r_tff, pkt_done_read_buf} \subseteq Triples
    BY DEF RegistersOK, CcTypeOK, Rx!SelTypeOK
<1>3. {req_send_buf[1], pkt_done_read_buf[1], pkt_done_read_buf[2],
       pkt_done_read_buf[3], pkt_done_r_tff[3]} \subseteq BOOLEAN
    BY <1>2 DEF Triples
<1>4. /\ pkt_done_read_buf'[1] = pkt_done_r_tff[3]
       /\ pkt_done_read_buf'[2] = pkt_done_read_buf[1]
       /\ pkt_done_read_buf'[3] = pkt_done_read_buf[2]
    BY <1>1 DEF pkt_done_mac_clk, Shift
<1>5. r_req_send' <=> m = 1
    BY <1>1, <1>2 DEF Rx!ReqSendBlock, RequestAt, MacPlace
<1>6. r_sending' <=> m # 0
    BY <1>1, <1>2 DEF Rx!ReqSendBlock, RequestAt, MacPlace
<1>7. (req_send_tff # req_send_buf[1])' <=> m = 2
    BY <1>1, <1>2, <1>3 DEF req_send_mac_clk, RequestAt, MacPlace
<1>8. /\ (req_send_buf[1] # req_send_buf[2])' <=> m = 3
      /\ Edge(req_send_buf)' <=> m = 4
      /\ pkt_rdy_buf[1]' <=> m = 5
      /\ (pkt_done_r_tff[1] # pkt_done_r_tff[2])' <=> m = 6
      /\ (pkt_done_r_tff[2] # pkt_done_r_tff[3])' <=> m = 7
    BY <1>1 DEF RequestAt, MacPlace, Edge
<1>9. /\ (pkt_done_r_tff[3] # pkt_done_read_buf[1])' <=> m = 8
      /\ (pkt_done_read_buf[1] # pkt_done_read_buf[2])' <=> m = 9
      /\ Edge(pkt_done_read_buf)' <=> m = 10
      /\ rx_ram_sent' <=> m = 11
    BY <1>1, <1>2, <1>3, <1>4 DEF pkt_done_mac_clk, RequestAt, MacPlace, Edge
<1> QED BY <1>5, <1>6, <1>7, <1>8, <1>9 DEF RequestAt

\* An edge of mac_clk starts the word of a rise and of a fall, and moves it to 2.
LEMMA MacRise ==
    ASSUME RegistersOK, CcTypeOK, NEW u \in 0 .. 4, RiseAt(u),
           NEW rises \in BOOLEAN, rises <=> (~t_busy /\ t_busy'), rises => u = 0,
           NEW written, NEW sent, MacEdge(written, sent)
    PROVE  RiseAt(MacTurn(u, rises))'
<1>1. busy_mac_clk /\ UNCHANGED busy_up_buf
    BY DEF MacEdge, ipbVars
<1>2. /\ {t_busy, last_busy, busy_up_tff} \subseteq BOOLEAN
      /\ {busy_up_buf[1], busy_up_buf[2], busy_up_buf[3]} \subseteq BOOLEAN
    BY DEF RegistersOK, CcTypeOK, Tx!SelTypeOK, Triples
<1> QED BY <1>1, <1>2 DEF busy_mac_clk, RiseAt, MacTurn, Edge

\* The same of the fall.
LEMMA MacFall ==
    ASSUME RegistersOK, CcTypeOK, NEW d \in 0 .. 4, FallAt(d),
           NEW falls \in BOOLEAN, falls <=> (t_busy /\ ~t_busy'), falls => d = 0,
           NEW written, NEW sent, MacEdge(written, sent)
    PROVE  FallAt(MacTurn(d, falls))'
<1>1. busy_mac_clk /\ UNCHANGED busy_down_buf
    BY DEF MacEdge, ipbVars
<1>2. /\ {t_busy, last_busy, busy_down_tff} \subseteq BOOLEAN
      /\ {busy_down_buf[1], busy_down_buf[2], busy_down_buf[3]} \subseteq BOOLEAN
    BY DEF RegistersOK, CcTypeOK, Tx!SelTypeOK, Triples
<1> QED BY <1>1, <1>2 DEF busy_mac_clk, FallAt, MacTurn, Edge

\* An edge of ipb_clk moves the request from 2 to 5, from 5 to 6 when it is done,
\* and from 6 to 8.
LEMMA BusRequest ==
    ASSUME RegistersOK, CcTypeOK, NEW n \in 0 .. 11, RequestAt(n),
           NEW done \in BOOLEAN, done <=> pkt_done, done => n = 5, IpbEdge
    PROVE  RequestAt(BusPlace(n, done))'
<1> DEFINE m == BusPlace(n, done)
<1>1. /\ pkt_done_ipb_clk /\ req_send_buf_ipb_clk /\ pkt_rdy_ipb_clk
      /\ UNCHANGED <<r_sending, r_req_send, req_send_tff, pkt_done_read_buf, rx_ram_sent>>
    BY DEF IpbEdge, rxSelVars, macVars
<1>2. /\ {req_send_tff, pkt_done} \subseteq BOOLEAN
      /\ {req_send_buf[1], req_send_buf[2], req_send_buf[3], pkt_rdy_buf[1],
          pkt_done_r_tff[1], pkt_done_r_tff[2], pkt_done_r_tff[3],
          pkt_done_read_buf[1]} \subseteq BOOLEAN
    BY DEF RegistersOK, CcTypeOK, Triples, pkt_done
<1>3. /\ req_send_buf'[1] = req_send_tff
      /\ req_send_buf'[2] = req_send_buf[1]
      /\ req_send_buf'[3] = req_send_buf[2]
      /\ pkt_done_r_tff'[1] = (pkt_done_r_tff[1] # pkt_done)
      /\ pkt_done_r_tff'[2] = pkt_done_r_tff[1]
      /\ pkt_done_r_tff'[3] = pkt_done_r_tff[2]
    BY <1>1 DEF req_send_buf_ipb_clk, pkt_done_ipb_clk, Shift
<1>4. pkt_rdy_buf'[1] <=> (~done /\ (Edge(req_send_buf) \/ pkt_rdy_buf[1]))
    BY <1>1, <1>2 DEF pkt_rdy_ipb_clk, Shift, Zeros
<1>5. /\ r_sending' <=> m # 0
      /\ r_req_send' <=> m = 1
      /\ (req_send_tff # req_send_buf[1])' <=> m = 2
      /\ (req_send_buf[1] # req_send_buf[2])' <=> m = 3
    BY <1>1, <1>2, <1>3 DEF RequestAt, BusPlace
<1>6. /\ Edge(req_send_buf)' <=> m = 4
      /\ pkt_rdy_buf[1]' <=> m = 5
    BY <1>1, <1>2, <1>3, <1>4 DEF RequestAt, BusPlace, Edge
<1>7. /\ (pkt_done_r_tff[1] # pkt_done_r_tff[2])' <=> m = 6
      /\ (pkt_done_r_tff[2] # pkt_done_r_tff[3])' <=> m = 7
    BY <1>1, <1>2, <1>3 DEF RequestAt, BusPlace
<1>8. (pkt_done_r_tff[3] # pkt_done_read_buf[1])' <=> m = 8
    BY <1>1, <1>2, <1>3 DEF RequestAt, BusPlace
<1>9. /\ (pkt_done_read_buf[1] # pkt_done_read_buf[2])' <=> m = 9
      /\ Edge(pkt_done_read_buf)' <=> m = 10
      /\ rx_ram_sent' <=> m = 11
    BY <1>1 DEF RequestAt, BusPlace, Edge
<1> QED BY <1>5, <1>6, <1>7, <1>8, <1>9 DEF RequestAt

\* An edge of ipb_clk moves the word of a rise from 2 to 4 and takes it in there.
LEMMA BusRise ==
    ASSUME RegistersOK, CcTypeOK, NEW u \in 0 .. 4, RiseAt(u), IpbEdge
    PROVE  RiseAt(BusTurn(u))'
<1>1. busy_up_down_ipb_clk /\ UNCHANGED <<t_busy, last_busy, busy_up_tff>>
    BY DEF IpbEdge, txSelVars, macVars
<1>2. /\ {t_busy, last_busy, busy_up_tff} \subseteq BOOLEAN
      /\ {busy_up_buf[1], busy_up_buf[2], busy_up_buf[3]} \subseteq BOOLEAN
    BY DEF RegistersOK, CcTypeOK, Tx!SelTypeOK, Triples
<1>3. /\ busy_up_buf'[1] = busy_up_tff
      /\ busy_up_buf'[2] = busy_up_buf[1]
      /\ busy_up_buf'[3] = busy_up_buf[2]
    BY <1>1 DEF busy_up_down_ipb_clk, Shift
<1> QED BY <1>1, <1>2, <1>3 DEF RiseAt, BusTurn, Edge

\* The same of the fall.
LEMMA BusFall ==
    ASSUME RegistersOK, CcTypeOK, NEW d \in 0 .. 4, FallAt(d), IpbEdge
    PROVE  FallAt(BusTurn(d))'
<1>1. busy_up_down_ipb_clk /\ UNCHANGED <<t_busy, last_busy, busy_down_tff>>
    BY DEF IpbEdge, txSelVars, macVars
<1>2. /\ {t_busy, last_busy, busy_down_tff} \subseteq BOOLEAN
      /\ {busy_down_buf[1], busy_down_buf[2], busy_down_buf[3]} \subseteq BOOLEAN
    BY DEF RegistersOK, CcTypeOK, Tx!SelTypeOK, Triples
<1>3. /\ busy_down_buf'[1] = busy_down_tff
      /\ busy_down_buf'[2] = busy_down_buf[1]
      /\ busy_down_buf'[3] = busy_down_buf[2]
    BY <1>1 DEF busy_up_down_ipb_clk, Shift
<1> QED BY <1>1, <1>2, <1>3 DEF FallAt, BusTurn, Edge

-----------------------------------------------------------------------------
\* The pointers of a selector stay in the ring.
LEMMA NextBufInRing == \A b \in Banks : Rx!NextBuf(b) \in Banks /\ Tx!NextBuf(b) \in Banks
BY CrossingAssumption DEF Rx!NextBuf, Tx!NextBuf

\* What an edge does to the reader's side of the receive RAM.
LEMMA RxReader ==
    ASSUME CcTypeOK, RegistersOK, NEW written \in BOOLEAN, NEW sent, MacEdge(written, sent)
    PROVE  /\ (r_sending \/ r_send_sig \in r_send_pending) => r_send_sig' = r_send_sig
           /\ ~rx_ram_sent => r_send_pending \subseteq r_send_pending'
           /\ r_busy => r_send_pending' \subseteq r_send_pending
           /\ r_sending' <=> IF r_sending THEN ~rx_ram_sent ELSE r_send_sig \in r_send_pending
           /\ "rx" \in moved' => r_send_sig' # r_send_sig
<1>1. /\ Rx!Clock(written, FALSE, rx_ram_sent, {}) /\ (written => ~r_busy)
      /\ "rx" \in moved' => r_send_sig' # r_send_sig
    BY DEF MacEdge
<1>2. {r_sending, r_busy, rx_ram_sent} \subseteq BOOLEAN
    BY DEF CcTypeOK, Rx!SelTypeOK, RegistersOK
<1>3. r_sending' <=> IF r_sending THEN ~rx_ram_sent ELSE r_send_sig \in r_send_pending
    BY <1>1, <1>2 DEF Rx!Clock, Rx!ReqSendBlock
<1>4. (r_sending \/ r_send_sig \in r_send_pending) => r_send_sig' = r_send_sig
    BY <1>1, <1>2 DEF Rx!Clock, Rx!SendBlock
<1>5. /\ ~rx_ram_sent => r_send_pending \subseteq r_send_pending'
      /\ r_busy => r_send_pending' \subseteq r_send_pending
    BY <1>1, <1>2 DEF Rx!Clock, Rx!SendPendingBlock, Rx!Taken, Rx!Released
<1> QED BY <1>1, <1>3, <1>4, <1>5

\* What it does to the writer's side of the transmit RAM.
LEMMA TxWriter ==
    ASSUME CcTypeOK, RegistersOK, SameTokens, NEW written, NEW sent, MacEdge(written, sent)
    PROVE  /\ t_busy' <=> IF t_busy /\ t_write_sig \in t_free THEN FALSE
                          ELSE t_busy \/ rx_ram_sent
           /\ ~(t_busy /\ t_write_sig \notin t_free) => t_write_sig' = t_write_sig
           /\ ~rx_ram_sent => t_free \subseteq t_free'
           /\ "tx" \in moved' => t_write_sig' # t_write_sig
<1>1. Tx!Clock(rx_ram_sent, we_125, sent, {}) /\ ("tx" \in moved' => t_write_sig' # t_write_sig)
    BY DEF MacEdge, SameTokens
<1>2. {t_busy, rx_ram_sent} \subseteq BOOLEAN
    BY DEF CcTypeOK, Tx!SelTypeOK, RegistersOK
<1>3. /\ t_busy' <=> IF t_busy /\ t_write_sig \in t_free THEN FALSE
                     ELSE t_busy \/ rx_ram_sent
      /\ ~(t_busy /\ t_write_sig \notin t_free) => t_write_sig' = t_write_sig
    BY <1>1, <1>2 DEF Tx!Clock, Tx!BusyBlock, Tx!WriteBlock
<1>4. ~rx_ram_sent => t_free \subseteq t_free'
    BY <1>1, <1>2 DEF Tx!Clock, Tx!FreeBlock, Tx!Taken, Tx!Released
<1> QED BY <1>1, <1>3, <1>4

\* The registers stay in their ranges, and the tokens stay the same, at an edge of
\* mac_clk.
LEMMA MacTypes ==
    ASSUME CcTypeOK, FtInv, RegistersOK, SameTokens,
           NEW written \in BOOLEAN, NEW sent \in BOOLEAN, MacEdge(written, sent)
    PROVE  CcTypeOK' /\ FtInv' /\ RegistersOK' /\ SameTokens'
<1>1. /\ macs < MaxMac /\ macs' = macs + 1 /\ UNCHANGED ipbVars
      /\ Rx!Clock(written, FALSE, rx_ram_sent, {})
      /\ Tx!Clock(tx_ram_written, we_125, sent, {})
      /\ pkt_done_mac_clk /\ req_send_mac_clk /\ we_mac_clk /\ busy_mac_clk
    BY DEF MacEdge
<1>2. Rx!Buffers = Banks /\ Tx!Buffers = Banks
    BY CrossingAssumption DEF Rx!Buffers, Tx!Buffers
<1>3. Rx!SelTypeOK'
    BY <1>1, <1>2, NextBufInRing DEF CcTypeOK, RegistersOK, Rx!SelTypeOK, Rx!Clock,
       Rx!FreeBlock, Rx!CleanBlock, Rx!SendPendingBlock, Rx!BusyBlock, Rx!ReqSendBlock,
       Rx!WriteBlock, Rx!SendBlock, Rx!Taken, Rx!Released
<1>4. Tx!SelTypeOK'
    BY <1>1, <1>2, NextBufInRing DEF CcTypeOK, RegistersOK, SameTokens, Tx!SelTypeOK, Tx!Clock,
       Tx!FreeBlock, Tx!CleanBlock, Tx!SendPendingBlock, Tx!BusyBlock, Tx!ReqSendBlock,
       Tx!WriteBlock, Tx!SendBlock, Tx!Taken, Tx!Released
<1>5. FtInv'
    <2>1. UNCHANGED ftVars
        BY <1>1 DEF ipbVars
    <2> QED BY <2>1, FtInvStep
<1>6. CcTypeOK'
    <2>1. macs' \in 0 .. MaxMac
        BY <1>1, CrossingAssumption DEF CcTypeOK
    <2>2. UNCHANGED <<rx_read_buf_buf, tx_write_buf_buf, tx_write_buffer, tstate>>
        BY <1>1 DEF ipbVars
    <2> QED BY <1>3, <1>4, <1>5, <2>1, <2>2 DEF CcTypeOK, FtInv
<1>7. RegistersOK'
    <2>1. UNCHANGED <<req_send_buf, pkt_rdy_buf, pkt_done_r_tff, busy_up_buf, busy_down_buf,
                      busy_buf, pkt_rdy, busy, rx_next, tx_we>>
        BY <1>1 DEF ipbVars
    <2>2. pkt_done_r_tff[3] \in BOOLEAN /\ we_buf[1] \in BOOLEAN /\ we \in BOOLEAN
        BY DEF RegistersOK, Triples, we
    <2>3. pkt_done_read_buf' \in Triples
        BY <1>1, <2>2, ShiftBits DEF pkt_done_mac_clk, RegistersOK
    <2>4. we_buf' \in BOOLEAN \X BOOLEAN
        BY <1>1, <2>2 DEF we_mac_clk
    <2>5. {req_send_tff', busy_up_tff', busy_down_tff', last_busy', rx_ram_sent'} \subseteq BOOLEAN
        BY <1>1 DEF pkt_done_mac_clk, req_send_mac_clk, busy_mac_clk, Edge, CcTypeOK,
           Tx!SelTypeOK
    <2> QED BY <2>1, <2>3, <2>4, <2>5 DEF RegistersOK
<1>8. SameTokens'
    BY <1>1 DEF SameTokens, pkt_done_mac_clk, ipbVars
<1> QED BY <1>5, <1>6, <1>7, <1>8

\* An edge of mac_clk keeps what is said of the places: busy rises as a reply is
\* done, when nothing else is under way, and falls when the writer finds a buffer.
LEMMA MacKeeps ==
    ASSUME CcTypeOK, FtInv, RegistersOK, SameTokens,
           NEW n \in 0 .. 11, NEW u \in 0 .. 4, NEW d \in 0 .. 4, Tracked(n, u, d),
           NEW written \in BOOLEAN, NEW sent \in BOOLEAN, MacEdge(written, sent)
    PROVE  \E nn \in 0 .. 11, uu, dd \in 0 .. 4 : Tracked(nn, uu, dd)'
<1> DEFINE asks  == r_send_sig \in r_send_pending
           rises == ~t_busy /\ rx_ram_sent
           falls == t_busy /\ t_write_sig \in t_free
<1>1. PICK a, ri, fa \in BOOLEAN : (a <=> asks) /\ (ri <=> rises) /\ (fa <=> falls)
    OBVIOUS
<1>2. PICK m \in 0 .. 11 : m = MacPlace(n, a)
    BY DEF MacPlace
<1>3. PICK v \in 0 .. 4 : v = MacTurn(u, ri)
    BY DEF MacTurn
<1>4. PICK e \in 0 .. 4 : e = MacTurn(d, fa)
    BY DEF MacTurn
<1> HIDE DEF asks, rises, falls
<1> USE DEF Tracked
<1>5. {t_busy, last_busy, r_sending, r_busy, rx_ram_sent, dinit, busy_buf[1]} \subseteq BOOLEAN
    BY DEF CcTypeOK, Rx!SelTypeOK, Tx!SelTypeOK, RegistersOK, FtTypeOK
<1>6. (rx_ram_sent <=> n = 11) /\ (r_sending <=> n # 0)
    BY DEF RequestAt
<1>7. (t_busy => d = 0) /\ (n >= 6 => (~t_busy /\ u = 0 /\ d = 0)) /\ (u = 1 => t_busy)
      /\ (d = 1 => ~t_busy)
    BY DEF BusyLogic, RiseAt, FallAt
<1>8. /\ ri <=> (~t_busy /\ n = 11)
      /\ fa <=> (t_busy /\ t_write_sig \in t_free)
      /\ a <=> r_send_sig \in r_send_pending
    BY <1>1, <1>6 DEF asks, rises, falls
<1>9. /\ t_busy' <=> (IF fa THEN FALSE ELSE t_busy \/ n = 11)
      /\ t_busy' \in BOOLEAN
    BY <1>6, <1>8, TxWriter, MacTypes DEF CcTypeOK, Tx!SelTypeOK
<1>10. (ri <=> (~t_busy /\ t_busy')) /\ (fa <=> (t_busy /\ ~t_busy'))
    BY <1>5, <1>7, <1>8, <1>9
<1>11. RequestAt(m)'
    BY <1>2, <1>8, MacRequest
<1>12. RiseAt(v)'
    BY <1>3, <1>7, <1>8, <1>10, MacRise
<1>13. FallAt(e)'
    BY <1>4, <1>7, <1>8, <1>10, MacFall
<1>14. UNCHANGED <<rx_read_buf_buf, bank, pkt_rdy_buf, pkt_rdy, dinit, busy, tstate, begun,
                   busy_buf, tx_write_buf_buf, tx_write_buffer>>
    BY DEF MacEdge, ipbVars, ftVars
<1>15. RequestLogic(m)'
    <2>1. (m # 0 => (r_send_sig \in r_send_pending /\ "rx" \notin moved))'
        BY <1>2, <1>6, <1>8, RxReader DEF RequestLogic, MacPlace
    <2>2. (m \in {3, 4, 5} => rx_read_buf_buf = r_send_sig)'
          /\ (m \in {4, 5} => bank = r_send_sig)'
        BY <1>2, <1>6, <1>14, RxReader DEF RequestLogic, MacPlace
    <2>3. /\ (pkt_rdy_buf[3] => pkt_rdy_buf[2])'
          /\ (pkt_rdy_buf[2] => pkt_rdy_buf[1])'
          /\ (pkt_rdy <=> pkt_rdy_buf[3])'
          /\ (dinit <=> ~(pkt_rdy /\ ~busy))'
          /\ (tstate \notin {"IDLE", "GAP"} => (~dinit /\ begun))'
        BY <1>14 DEF RequestLogic
    <2>4. (tstate = "GAP" <=> m = 6)'
        BY <1>2, <1>14 DEF RequestLogic, MacPlace
    <2>5. stage' = IF m \in {0, 1} THEN "none"
                   ELSE IF m <= 5 /\ tstate' = "IDLE" THEN "offered" ELSE "begun"
        <3>1. /\ stage' = IF r_req_send THEN "offered" ELSE IF rx_ram_sent THEN "none"
                          ELSE stage
              /\ r_req_send <=> n = 1
            BY DEF MacEdge, RequestAt
        <3>2. tstate \notin {"IDLE", "GAP"} => n = 5
            BY <1>5 DEF RequestLogic, RequestAt
        <3>3. CASE n = 1
            BY <1>2, <1>14, <3>1, <3>2, <3>3 DEF RequestLogic, MacPlace, CcTypeOK, States
        <3>4. CASE n # 1
            BY <1>2, <1>6, <1>14, <3>1, <3>4 DEF RequestLogic, MacPlace
        <3> QED BY <3>3, <3>4
    <2> QED BY <2>1, <2>2, <2>3, <2>4, <2>5 DEF RequestLogic
<1>16. Fresh(n, u, d) => (v # 0 /\ m < 5 /\ ~t_busy' /\ (e >= 2 => m <= e)
                         /\ (e = 1 => (r_send_pending' = {} /\ ~r_sending')))
    <2> SUFFICES ASSUME Fresh(n, u, d)
                 PROVE  v # 0 /\ m < 5 /\ ~t_busy' /\ (e >= 2 => m <= e)
                         /\ (e = 1 => (r_send_pending' = {} /\ ~r_sending'))
        OBVIOUS
    <2>1. v # 0 /\ m < 5 /\ ~t_busy'
        BY <1>2, <1>3, <1>8, <1>9 DEF Fresh, MacPlace, MacTurn
    <2>2. e >= 2 => m <= e
        BY <1>2, <1>4, <1>6, <1>8 DEF Fresh, MacPlace, MacTurn
    <2>3. e = 1 => (r_send_pending' = {} /\ ~r_sending')
        BY <1>4, <1>8, RxReader DEF Fresh, MacTurn
    <2> QED BY <2>1, <2>2, <2>3
<1>17. Owed(m, e)' => Owed(n, d)
    BY <1>2, <1>4, <1>8, <1>9 DEF Owed, MacPlace, MacTurn
<1>18. BusyLogic(m, v, e)'
    <2>1. (t_busy => e = 0)'
        BY <1>4, <1>7, <1>8, <1>9 DEF MacTurn
    <2>2. (v # 0 => (t_busy \/ e \in 1 .. v))'
        BY <1>3, <1>4, <1>7, <1>8, <1>9 DEF MacTurn, BusyLogic
    <2>3. (m >= 6 => (~t_busy /\ v = 0 /\ e = 0))'
        BY <1>2, <1>3, <1>4, <1>7, <1>8, <1>9 DEF MacPlace, MacTurn
    <2>4. (Owed(m, e) => (busy_buf[1] \/ Fresh(m, v, e)))'
        BY <1>14, <1>16, <1>17 DEF BusyLogic, Fresh
    <2>5. (~dinit => ~Owed(m, e))'
        BY <1>14, <1>17 DEF BusyLogic
    <2>6. /\ (busy_buf[1] => busy_buf[2])' /\ (busy_buf[2] => busy_buf[3])'
          /\ (busy_buf[3] => busy_buf[4])' /\ (busy_buf[4] => busy)'
        BY <1>14 DEF BusyLogic
    <2> QED BY <2>1, <2>2, <2>3, <2>4, <2>5, <2>6 DEF BusyLogic
<1>19. WriterLogic(e)'
    <2>1. (~t_busy => (t_write_sig \in t_free /\ "tx" \notin moved))'
        BY <1>6, <1>7, <1>8, <1>9, TxWriter DEF WriterLogic
    <2>2. ~t_busy => t_write_sig' = t_write_sig
        BY TxWriter
    <2>3. (e \in {3, 4} => tx_write_buf_buf = t_write_sig)'
          /\ (e = 4 => tx_write_buffer = t_write_sig)'
        BY <1>4, <1>7, <1>8, <1>14, <2>2 DEF WriterLogic, MacTurn
    <2>4. ((~t_busy /\ e = 0) => (tx_write_buf_buf = t_write_sig
                                   /\ tx_write_buffer = t_write_sig))'
        BY <1>4, <1>7, <1>8, <1>9, <1>14, <2>2 DEF WriterLogic, MacTurn
    <2> QED BY <2>1, <2>3, <2>4 DEF WriterLogic
<1> QED BY <1>11, <1>12, <1>13, <1>15, <1>18, <1>19

\* What a packet on offer says: the request is at place 5, and no word of busy is
\* under way.
LEMMA Offered ==
    ASSUME CcTypeOK, RegistersOK, NEW n \in 0 .. 11, NEW u \in 0 .. 4, NEW d \in 0 .. 4,
           Tracked(n, u, d), ~dinit
    PROVE  /\ n = 5 /\ u = 0 /\ d = 0 /\ ~t_busy
           /\ pkt_rdy_buf[1] /\ pkt_rdy_buf[2] /\ pkt_rdy_buf[3]
           /\ ~busy /\ ~busy_buf[1] /\ ~busy_buf[2] /\ ~busy_buf[3] /\ ~busy_buf[4]
<1>1. pkt_rdy_buf[1] /\ pkt_rdy_buf[2] /\ pkt_rdy_buf[3] /\ ~busy
    BY DEF Tracked, RequestLogic
<1>2. n = 5
    BY <1>1 DEF Tracked, RequestAt
<1>3. u = 0 /\ d = 0 /\ ~t_busy
    BY DEF Tracked, BusyLogic, Owed
<1>4. ~busy_buf[1] /\ ~busy_buf[2] /\ ~busy_buf[3] /\ ~busy_buf[4]
    BY <1>1 DEF Tracked, BusyLogic
<1> QED BY <1>1, <1>2, <1>3, <1>4

\* The registers that decide whether the transactor is offered a packet, after an
\* edge of ipb_clk.
LEMMA BusRegisters ==
    ASSUME RegistersOK, IpbEdge
    PROVE  /\ pkt_rdy_buf'[1] <=> (~pkt_done /\ (Edge(req_send_buf) \/ pkt_rdy_buf[1]))
           /\ pkt_rdy_buf'[2] <=> (~pkt_done /\ pkt_rdy_buf[1])
           /\ pkt_rdy_buf'[3] <=> (~pkt_done /\ pkt_rdy_buf[2])
           /\ pkt_rdy' <=> pkt_rdy_buf'[3]
           /\ dinit' <=> ~(pkt_rdy' /\ ~busy')
           /\ busy' <=> (pkt_done \/ Edge(busy_up_buf) \/ busy_buf[4])
           /\ busy_buf'[1] <=> /\ pkt_done \/ Edge(busy_up_buf) \/ busy_buf[1]
                               /\ ~Edge(busy_down_buf)
           /\ busy_buf'[2] <=> (pkt_done \/ Edge(busy_up_buf) \/ busy_buf[1])
           /\ busy_buf'[3] <=> (pkt_done \/ Edge(busy_up_buf) \/ busy_buf[2])
           /\ busy_buf'[4] <=> (pkt_done \/ Edge(busy_up_buf) \/ busy_buf[3])
           /\ busy' \in BOOLEAN /\ busy_buf' \in BOOLEAN \X BOOLEAN \X BOOLEAN \X BOOLEAN
<1>1. pkt_rdy_ipb_clk /\ busy_ipb_clk /\ dinit' = ~(pkt_rdy' /\ ~busy')
    BY DEF IpbEdge, transactor_if
<1>2. /\ {pkt_rdy_buf[1], pkt_rdy_buf[2]} \subseteq BOOLEAN
      /\ {busy_buf[1], busy_buf[2], busy_buf[3], busy_buf[4]} \subseteq BOOLEAN
    BY DEF RegistersOK, Triples
<1>3. /\ pkt_rdy_buf'[1] <=> (~pkt_done /\ (Edge(req_send_buf) \/ pkt_rdy_buf[1]))
      /\ pkt_rdy_buf'[2] <=> (~pkt_done /\ pkt_rdy_buf[1])
      /\ pkt_rdy_buf'[3] <=> (~pkt_done /\ pkt_rdy_buf[2])
      /\ pkt_rdy' <=> pkt_rdy_buf'[3]
    BY <1>1, <1>2 DEF pkt_rdy_ipb_clk, Shift, Zeros
<1>4. dinit' <=> ~(pkt_rdy' /\ ~busy')
    BY <1>1
<1> DEFINE raised == pkt_done \/ Edge(busy_up_buf)
           b      == [i \in 1 .. 4 |-> raised \/ busy_buf[i]]
<1>5. busy' = b[4] /\ busy_buf' = <<b[1] /\ ~Edge(busy_down_buf), b[1], b[2], b[3]>>
    BY <1>1 DEF busy_ipb_clk
<1>6. /\ b[1] = (raised \/ busy_buf[1]) /\ b[2] = (raised \/ busy_buf[2])
      /\ b[3] = (raised \/ busy_buf[3]) /\ b[4] = (raised \/ busy_buf[4])
    OBVIOUS
<1> HIDE DEF b
<1>7. /\ busy' <=> (raised \/ busy_buf[4])
      /\ busy_buf'[1] <=> (raised \/ busy_buf[1]) /\ ~Edge(busy_down_buf)
      /\ busy_buf'[2] <=> (raised \/ busy_buf[1])
      /\ busy_buf'[3] <=> (raised \/ busy_buf[2])
      /\ busy_buf'[4] <=> (raised \/ busy_buf[3])
    BY <1>2, <1>5, <1>6
<1>8. busy' \in BOOLEAN /\ busy_buf' \in BOOLEAN \X BOOLEAN \X BOOLEAN \X BOOLEAN
    <2>1. {b[1], b[2], b[3], b[4], b[1] /\ ~Edge(busy_down_buf)} \subseteq BOOLEAN
        BY <1>6
    <2> QED BY <1>5, <2>1
<1> QED BY <1>3, <1>4, <1>7, <1>8

\* The read side is promised what it relies on: the number of the buffer has settled
\* when a packet is offered.
LEMMA OfferSettles ==
    ASSUME CcTypeOK, RegistersOK, NEW n \in 0 .. 11, NEW u \in 0 .. 4, NEW d \in 0 .. 4,
           Tracked(n, u, d), IpbEdge
    PROVE  FtEdge(dnext)
<1>1. dnext => (begun /\ ~dinit)
    BY DEF dnext, Tracked, RequestLogic
<1>2. bank' = rx_read_buf_buf /\ bank' \in Banks
    BY DEF IpbEdge, buffers_ipb_clk, CcTypeOK
<1>3. dinit' \in BOOLEAN
    BY DEF IpbEdge, transactor_if
<1>4. ~(dinit /\ dinit') => n = 5
    <2>1. CASE ~dinit
        BY <2>1, Offered
    <2>2. CASE ~dinit'
        BY <2>2, BusRegisters DEF Tracked, RequestLogic, RequestAt
    <2> QED BY <2>1, <2>2
<1>5. (dinit /\ dinit') \/ bank' = bank
    BY <1>2, <1>4 DEF Tracked, RequestLogic
<1> QED BY <1>1, <1>2, <1>3, <1>5 DEF FtEdge, Offer, IpbEdge, transactor_if

\* The registers stay in their ranges, and the tokens stay the same, at an edge of
\* ipb_clk.
LEMMA BusTypes ==
    ASSUME CcTypeOK, FtInv, RegistersOK, SameTokens,
           NEW n \in 0 .. 11, NEW u \in 0 .. 4, NEW d \in 0 .. 4, Tracked(n, u, d), IpbEdge
    PROVE  CcTypeOK' /\ FtInv' /\ RegistersOK' /\ SameTokens'
<1>1. /\ pkt_done_ipb_clk /\ req_send_buf_ipb_clk /\ pkt_rdy_ipb_clk
      /\ busy_up_down_ipb_clk /\ busy_ipb_clk /\ buffers_ipb_clk /\ transactor_if
      /\ macs' = 0 /\ UNCHANGED <<rxSelVars, txSelVars, macVars>>
    BY DEF IpbEdge
<1>2. FtInv'
    <2>1. dnext \in BOOLEAN
        BY DEF dnext, RegistersOK
    <2> QED BY <2>1, OfferSettles, FtInvStep DEF FtNext
<1>3. CcTypeOK'
    <2>1. Rx!SelTypeOK'
        BY <1>1 DEF CcTypeOK, Rx!SelTypeOK, rxSelVars, Rx!Buffers
    <2>2. Tx!SelTypeOK'
        BY <1>1 DEF CcTypeOK, Tx!SelTypeOK, txSelVars, Tx!Buffers
    <2>3. macs' \in 0 .. MaxMac
        BY <1>1, CrossingAssumption
    <2>4. {rx_read_buf_buf', tx_write_buf_buf', tx_write_buffer'} \subseteq Banks
        <3>1. r_send_sig \in Banks /\ t_write_sig \in Banks
            BY CrossingAssumption DEF CcTypeOK, Rx!SelTypeOK, Tx!SelTypeOK, Rx!Buffers,
               Tx!Buffers
        <3> QED BY <1>1, <3>1 DEF buffers_ipb_clk, Sampled, CcTypeOK
    <2>5. tstate' \in States
        BY <1>1 DEF transactor_if, Leads, CcTypeOK, States
    <2> QED BY <1>2, <2>1, <2>2, <2>3, <2>4, <2>5 DEF CcTypeOK, FtInv
<1>4. RegistersOK'
    <2>1. UNCHANGED <<pkt_done_read_buf, we_buf, req_send_tff, busy_up_tff, busy_down_tff,
                      last_busy, rx_ram_sent>>
        BY <1>1 DEF macVars
    <2>2. {req_send_buf', pkt_done_r_tff', busy_up_buf', busy_down_buf'} \subseteq Triples
        <3>1. /\ {req_send_tff, busy_up_tff, busy_down_tff} \subseteq BOOLEAN
              /\ (pkt_done_r_tff[1] # pkt_done) \in BOOLEAN
              /\ {req_send_buf, pkt_done_r_tff, busy_up_buf, busy_down_buf} \subseteq Triples
            BY DEF RegistersOK
        <3>2. req_send_buf' \in Triples
            BY <1>1, <3>1, ShiftBits DEF req_send_buf_ipb_clk
        <3>3. pkt_done_r_tff' \in Triples
            BY <1>1, <3>1, ShiftBits DEF pkt_done_ipb_clk
        <3>4. busy_up_buf' \in Triples /\ busy_down_buf' \in Triples
            BY <1>1, <3>1, ShiftBits DEF busy_up_down_ipb_clk
        <3> QED BY <3>2, <3>3, <3>4
    <2>3. pkt_rdy_buf' \in Triples /\ pkt_rdy' \in BOOLEAN
        <3>1. (Edge(req_send_buf) \/ pkt_rdy_buf[1]) \in BOOLEAN /\ pkt_rdy_buf \in Triples
              /\ Zeros \in Triples
            BY DEF RegistersOK, Zeros, Triples
        <3>2. pkt_rdy_buf' \in Triples
            BY <1>1, <3>1, ShiftBits DEF pkt_rdy_ipb_clk
        <3>3. pkt_rdy_buf'[3] \in BOOLEAN
            BY <3>2 DEF Triples
        <3> QED BY <1>1, <3>2, <3>3 DEF pkt_rdy_ipb_clk
    <2>4. busy_buf' \in BOOLEAN \X BOOLEAN \X BOOLEAN \X BOOLEAN /\ busy' \in BOOLEAN
        BY BusRegisters
    <2>5. rx_next' \in BOOLEAN /\ tx_we' \in BOOLEAN
        BY <1>1 DEF transactor_if
    <2> QED BY <2>1, <2>2, <2>3, <2>4, <2>5 DEF RegistersOK
<1>5. SameTokens'
    BY <1>1 DEF SameTokens, pkt_done_ipb_clk, macVars
<1> QED BY <1>2, <1>3, <1>4, <1>5

\* An edge of ipb_clk keeps what is said of the places.
LEMMA BusKeeps ==
    ASSUME CcTypeOK, FtInv, RegistersOK, SameTokens,
           NEW n \in 0 .. 11, NEW u \in 0 .. 4, NEW d \in 0 .. 4, Tracked(n, u, d), IpbEdge
    PROVE  \E nn \in 0 .. 11, uu, dd \in 0 .. 4 : Tracked(nn, uu, dd)'
<1>1. PICK done \in BOOLEAN : done <=> pkt_done
    OBVIOUS
<1>2. PICK m \in 0 .. 11 : m = BusPlace(n, done)
    BY DEF BusPlace
<1>3. PICK v \in 0 .. 4 : v = BusTurn(u)
    BY DEF BusTurn
<1>4. PICK e \in 0 .. 4 : e = BusTurn(d)
    BY DEF BusTurn
<1>5. /\ tstate \notin {"IDLE", "GAP"} => (~dinit /\ n = 5)
      /\ done => (tstate = "DONE" /\ ~dinit /\ n = 5 /\ u = 0 /\ d = 0 /\ ~t_busy)
    BY <1>1, Offered DEF Tracked, RequestLogic, pkt_done
<1>6. /\ Edge(busy_up_buf) <=> u = 4
      /\ Edge(busy_down_buf) <=> d = 4
      /\ pkt_rdy_buf[1] <=> n = 5
      /\ r_sending <=> n # 0
    BY DEF Tracked, RequestAt, RiseAt, FallAt
<1>7. /\ busy' <=> (done \/ u = 4 \/ busy_buf[4])
      /\ busy_buf'[1] <=> (done \/ u = 4 \/ busy_buf[1]) /\ d # 4
      /\ busy_buf'[2] <=> (done \/ u = 4 \/ busy_buf[1])
      /\ busy_buf'[3] <=> (done \/ u = 4 \/ busy_buf[2])
      /\ busy_buf'[4] <=> (done \/ u = 4 \/ busy_buf[3])
      /\ pkt_rdy_buf'[2] <=> (~done /\ n = 5)
      /\ pkt_rdy_buf'[3] <=> (~done /\ pkt_rdy_buf[2])
      /\ pkt_rdy' <=> pkt_rdy_buf'[3]
      /\ dinit' <=> ~(pkt_rdy' /\ ~busy')
    BY <1>1, <1>6, BusRegisters
<1>8. UNCHANGED <<r_sending, r_send_sig, r_send_pending, r_busy, t_busy, t_write_sig, t_free,
                  moved>>
    BY DEF IpbEdge, rxSelVars, txSelVars
<1>9. buffers_ipb_clk /\ transactor_if
    BY DEF IpbEdge
<1>10. {t_busy, dinit, busy, busy_buf[1], busy_buf[2], busy_buf[3], busy_buf[4]} \subseteq BOOLEAN
    BY DEF CcTypeOK, Tx!SelTypeOK, RegistersOK, FtTypeOK
<1>11. RequestAt(m)' /\ RiseAt(v)' /\ FallAt(e)'
    BY <1>1, <1>2, <1>3, <1>4, <1>5, BusRequest, BusRise, BusFall DEF Tracked
<1>12. /\ tstate = "IDLE" => (tstate' = "IDLE" \/ (tstate' = "FIRST" /\ ~dinit /\ ~dinit_d))
       /\ tstate' = "GAP" <=> done
       /\ tstate' = "IDLE" => tstate \in {"IDLE", "GAP"}
       /\ tstate' \notin {"IDLE", "GAP"} => (tstate # "GAP" /\ ~done)
    BY <1>1, <1>9 DEF transactor_if, Leads, CcTypeOK, States, pkt_done
<1>13. RequestLogic(m)'
    <2>1. (m # 0 => (r_send_sig \in r_send_pending /\ "rx" \notin moved))'
        BY <1>2, <1>8 DEF Tracked, RequestLogic, BusPlace
    <2>2. (m \in {3, 4, 5} => rx_read_buf_buf = r_send_sig)'
          /\ (m \in {4, 5} => bank = r_send_sig)'
        BY <1>2, <1>8, <1>9 DEF Tracked, RequestLogic, BusPlace, buffers_ipb_clk, Sampled
    <2>3. (pkt_rdy_buf[3] => pkt_rdy_buf[2])' /\ (pkt_rdy_buf[2] => pkt_rdy_buf[1])'
        BY <1>1, <1>6, <1>7, BusRegisters DEF Tracked, RequestLogic
    <2>4. (pkt_rdy <=> pkt_rdy_buf[3])' /\ (dinit <=> ~(pkt_rdy /\ ~busy))'
        BY <1>7
    <2>5. (tstate = "GAP" <=> m = 6)'
        BY <1>2, <1>5, <1>12 DEF BusPlace
    <2>6. (tstate \notin {"IDLE", "GAP"} => (~dinit /\ begun))'
        <3> SUFFICES ASSUME tstate' \notin {"IDLE", "GAP"}
                     PROVE  ~dinit' /\ begun'
            OBVIOUS
        <3>1. ~dinit /\ ~done
            BY <1>5, <1>12
        <3>2. ~dinit'
            BY <1>7, <3>1, Offered
        <3>3. begun'
            <4>1. begun' <=> (~dinit /\ (begun \/ ~dinit_d))
                BY <1>9 DEF transactor_if, FtClock, LeaveIdle
            <4>2. tstate # "IDLE" => begun
                BY <1>12 DEF Tracked, RequestLogic
            <4> QED BY <1>12, <3>1, <4>1, <4>2
        <3> QED BY <3>2, <3>3
    <2>7. stage' = IF m \in {0, 1} THEN "none"
                   ELSE IF m <= 5 /\ tstate' = "IDLE" THEN "offered" ELSE "begun"
        <3>1. stage' = IF tstate = "IDLE" /\ tstate' = "FIRST" THEN "begun" ELSE stage
            BY DEF IpbEdge
        <3>2. /\ tstate = "GAP" <=> n = 6
              /\ stage = IF n \in {0, 1} THEN "none"
                         ELSE IF n <= 5 /\ tstate = "IDLE" THEN "offered" ELSE "begun"
            BY DEF Tracked, RequestLogic
        <3>3. tstate = "IDLE" /\ tstate' = "FIRST" => n = 5
            BY <1>12, Offered
        <3> QED BY <1>2, <1>5, <1>12, <3>1, <3>2, <3>3 DEF BusPlace
    <2> QED BY <2>1, <2>2, <2>3, <2>4, <2>5, <2>6, <2>7 DEF RequestLogic
<1>14. /\ t_busy => d = 0
       /\ u # 0 => (t_busy \/ d \in 1 .. u)
       /\ n >= 6 => (~t_busy /\ u = 0 /\ d = 0)
       /\ Owed(n, d) => (busy_buf[1] \/ Fresh(n, u, d))
       /\ busy_buf[1] => busy_buf[2]
       /\ busy_buf[2] => busy_buf[3]
       /\ busy_buf[3] => busy_buf[4]
    BY DEF Tracked, BusyLogic
<1>15. Owed(m, e)' => (done \/ Owed(n, d)) /\ d # 4
    BY <1>2, <1>4, <1>5, <1>8, <1>14 DEF Owed, BusPlace, BusTurn
<1>16. BusyLogic(m, v, e)'
    <2>1. (t_busy => e = 0)'
        BY <1>4, <1>8, <1>14 DEF BusTurn
    <2>2. (v # 0 => (t_busy \/ e \in 1 .. v))'
        BY <1>3, <1>4, <1>8, <1>14 DEF BusTurn
    <2>3. /\ (busy_buf[1] => busy_buf[2])' /\ (busy_buf[2] => busy_buf[3])'
          /\ (busy_buf[3] => busy_buf[4])' /\ (busy_buf[4] => busy)'
        BY <1>7, <1>14
    <2>4. (Owed(m, e) => (busy_buf[1] \/ Fresh(m, v, e)))'
        <3> SUFFICES ASSUME Owed(m, e)', ~busy_buf'[1]
                     PROVE  Fresh(m, v, e)'
            OBVIOUS
        <3>1. Fresh(n, u, d) /\ ~done /\ u # 4 /\ d # 4
            BY <1>7, <1>14, <1>15
        <3>2. n # 4
            BY <1>6, <1>14, <3>1 DEF Fresh
        <3> QED BY <1>2, <1>3, <1>4, <1>8, <3>1, <3>2 DEF Fresh, BusPlace, BusTurn
    <2>5. (~dinit => ~Owed(m, e))'
        <3> SUFFICES ASSUME ~dinit'
                     PROVE  ~Owed(m, e)'
            OBVIOUS
        <3>1. ~done /\ u # 4 /\ ~busy_buf[1] /\ n = 5
            BY <1>6, <1>7, <1>14 DEF Tracked, RequestLogic
        <3>2. ~Owed(n, d)
            BY <1>14, <3>1 DEF Fresh
        <3> QED BY <1>15, <3>1, <3>2
    <2>6. (m >= 6 => (~t_busy /\ v = 0 /\ e = 0))'
        BY <1>2, <1>3, <1>4, <1>5, <1>8, <1>14 DEF BusPlace, BusTurn
    <2> QED BY <2>1, <2>2, <2>3, <2>4, <2>5, <2>6 DEF BusyLogic
<1>17. WriterLogic(e)'
    <2>1. (~t_busy => (t_write_sig \in t_free /\ "tx" \notin moved))'
        BY <1>8 DEF Tracked, WriterLogic
    <2>2. ~t_busy => tx_write_buf_buf' = t_write_sig
        BY <1>9 DEF Tracked, WriterLogic, buffers_ipb_clk, Sampled
    <2>3. tx_write_buffer' = tx_write_buf_buf
        BY <1>9 DEF buffers_ipb_clk
    <2>4. (e \in {3, 4} => tx_write_buf_buf = t_write_sig)'
          /\ (e = 4 => tx_write_buffer = t_write_sig)'
          /\ ((~t_busy /\ e = 0) => (tx_write_buf_buf = t_write_sig
                                      /\ tx_write_buffer = t_write_sig))'
        BY <1>4, <1>8, <1>14, <2>2, <2>3 DEF Tracked, WriterLogic, BusTurn
    <2> QED BY <2>1, <2>4 DEF WriterLogic
<1> QED BY <1>11, <1>13, <1>16, <1>17 DEF Tracked

-----------------------------------------------------------------------------
\* After reset the writer of the replies is busy, and nothing else is under way.
LEMMA CcInvInit == CcInit => IInv
<1> SUFFICES ASSUME CcInit
             PROVE  IInv
    OBVIOUS
<1>1. 0 \in Banks /\ Rx!Buffers = Banks /\ Tx!Buffers = Banks /\ 0 \in 0 .. MaxMac
    BY CrossingAssumption DEF Rx!Buffers, Tx!Buffers
<1>2. FtInv
    BY FtInvInit DEF CcInit
<1>3. Rx!SelTypeOK /\ Tx!SelTypeOK
    BY <1>1 DEF CcInit, Rx!SelInit, Tx!SelInit, Rx!SelTypeOK, Tx!SelTypeOK
<1>4. CcTypeOK
    BY <1>1, <1>2, <1>3 DEF CcInit, CcTypeOK, FtInv, States
<1>5. RegistersOK
    <2>1. {req_send_buf, pkt_rdy_buf, pkt_done_r_tff, pkt_done_read_buf, busy_up_buf,
           busy_down_buf} \subseteq Triples
        <3>1. Zeros \in Triples
            BY DEF Zeros, Triples
        <3> QED BY <3>1 DEF CcInit
    <2>2. /\ busy_buf \in BOOLEAN \X BOOLEAN \X BOOLEAN \X BOOLEAN
          /\ we_buf \in BOOLEAN \X BOOLEAN
        BY DEF CcInit
    <2>3. {req_send_tff, busy_up_tff, busy_down_tff, last_busy, pkt_rdy, busy, rx_next,
           tx_we, rx_ram_sent} \subseteq BOOLEAN
        BY DEF CcInit
    <2> QED BY <2>1, <2>2, <2>3 DEF RegistersOK
<1>6. SameTokens
    BY DEF CcInit, SameTokens
<1>7. /\ Zeros[1] = FALSE /\ Zeros[2] = FALSE /\ Zeros[3] = FALSE
      /\ {Zeros[1], Zeros[2], Zeros[3]} \subseteq BOOLEAN
    BY DEF Zeros
<1>8. RequestAt(0) /\ RiseAt(1) /\ FallAt(0)
    <2>1. /\ ~r_sending /\ ~r_req_send /\ req_send_tff = FALSE /\ ~rx_ram_sent
          /\ t_busy /\ ~last_busy /\ busy_up_tff = FALSE /\ busy_down_tff = FALSE
        BY DEF CcInit, Rx!SelInit, Tx!SelInit
    <2>2. /\ req_send_buf = Zeros /\ pkt_rdy_buf = Zeros /\ pkt_done_r_tff = Zeros
          /\ pkt_done_read_buf = Zeros /\ busy_up_buf = Zeros /\ busy_down_buf = Zeros
        BY DEF CcInit
    <2>3. RequestAt(0)
        BY <1>5, <1>7, <2>1, <2>2 DEF RegistersOK, RequestAt, Edge
    <2>4. RiseAt(1)
        BY <1>5, <1>7, <2>1, <2>2 DEF RegistersOK, RiseAt, Edge
    <2>5. FallAt(0)
        BY <1>5, <1>7, <2>1, <2>2 DEF RegistersOK, FallAt, Edge
    <2> QED BY <2>3, <2>4, <2>5
<1>9. RequestLogic(0)
    BY <1>7 DEF CcInit, FtInit, RequestLogic
<1>10. BusyLogic(0, 1, 0)
    <2>1. Fresh(0, 1, 0)
        BY <1>1 DEF CcInit, Rx!SelInit, Tx!SelInit, Fresh
    <2> QED BY <2>1 DEF CcInit, FtInit, Tx!SelInit, BusyLogic
<1>11. WriterLogic(0)
    BY DEF CcInit, Tx!SelInit, WriterLogic
<1>12. Tracked(0, 1, 0)
    BY <1>8, <1>9, <1>10, <1>11 DEF Tracked
<1> QED BY <1>2, <1>4, <1>5, <1>6, <1>12 DEF IInv

\* Every edge of either clock keeps the invariant.
LEMMA CcInvStep == IInv /\ [CcNext]_ccVars => IInv'
<1> SUFFICES ASSUME IInv, [CcNext]_ccVars
             PROVE  IInv'
    OBVIOUS
<1>1. CcTypeOK /\ FtInv /\ RegistersOK /\ SameTokens
    BY DEF IInv
<1>2. PICK n \in 0 .. 11, u, d \in 0 .. 4 : Tracked(n, u, d)
    BY DEF IInv
<1>3. ASSUME NEW written \in BOOLEAN, NEW sent \in BOOLEAN, MacEdge(written, sent)
      PROVE  IInv'
    BY <1>1, <1>2, <1>3, MacTypes, MacKeeps DEF IInv
<1>4. CASE IpbEdge
    BY <1>1, <1>2, <1>4, BusTypes, BusKeeps DEF IInv
<1>5. CASE UNCHANGED ccVars
    <2>1. UNCHANGED <<rxSelVars, txSelVars, macVars, ipbVars, macs, moved, stage>>
        BY <1>5 DEF ccVars
    <2>2. FtInv'
        BY <1>1, <2>1, FtInvStep DEF ipbVars
    <2>3. CcTypeOK'
        BY <1>1, <2>1, <2>2 DEF CcTypeOK, FtInv, Rx!SelTypeOK, Tx!SelTypeOK, Rx!Buffers,
           Tx!Buffers, rxSelVars, txSelVars, ipbVars
    <2>4. RegistersOK' /\ SameTokens'
        BY <1>1, <2>1 DEF RegistersOK, SameTokens, macVars, ipbVars
    <2>5. RequestAt(n)' /\ RiseAt(u)' /\ FallAt(d)'
        BY <1>2, <2>1 DEF Tracked, RequestAt, RiseAt, FallAt, Edge, rxSelVars, txSelVars,
           macVars, ipbVars
    <2>6. RequestLogic(n)' /\ BusyLogic(n, u, d)' /\ WriterLogic(d)'
        BY <1>2, <2>1 DEF Tracked, RequestLogic, BusyLogic, WriterLogic, Owed, Fresh,
           rxSelVars, txSelVars, macVars, ipbVars, ftVars
    <2> QED BY <2>2, <2>3, <2>4, <2>5, <2>6 DEF IInv, Tracked
<1> QED BY <1>3, <1>4, <1>5 DEF CcNext

\* The three words that go between the clocks, and what the registers on both sides
\* say of them.
THEOREM CrossingInvariant == CcSpec => []IInv
BY CcInvInit, CcInvStep, PTL DEF CcSpec

\* A packet is offered to the transactor under the number of the buffer that was
\* sent, and with a buffer for the reply that its writer owns.
THEOREM OffersOwnBuffers == CcSpec => []CcInv
<1>1. IInv => CcInv
    <2> SUFFICES ASSUME IInv
                 PROVE  CcInv
        OBVIOUS
    <2>1. PICK n \in 0 .. 11, u, d \in 0 .. 4 : Tracked(n, u, d)
        BY DEF IInv
    <2>2. OwnBuffers
        <3> SUFFICES ASSUME ~dinit
                     PROVE  /\ bank = r_send_sig /\ r_sending /\ r_send_sig \in r_send_pending
                            /\ tx_write_buffer = t_write_sig /\ t_write_sig \in t_free
                            /\ ~t_busy
            BY DEF OwnBuffers, start
        <3>1. n = 5 /\ d = 0 /\ ~t_busy
            BY <2>1, Offered DEF IInv
        <3> QED BY <2>1, <3>1 DEF Tracked, RequestAt, RequestLogic, WriterLogic
    <2> QED BY <2>2 DEF IInv, CcInv
<1> QED BY <1>1, CrossingInvariant, PTL

\* A request is begun once each time it is sent and given back once each time it was
\* begun, and its reply is reported once: no pulse of the crossing is lost or doubled.
THEOREM PacketsCrossOnce == CcSpec => []CrossOnce
<1>1. IInv => CrossOnce
    <2> SUFFICES ASSUME IInv
                 PROVE  CrossOnce
        OBVIOUS
    <2>1. PICK n \in 0 .. 11, u, d \in 0 .. 4 : Tracked(n, u, d)
        BY DEF IInv
    <2>2. r_req_send => stage = "none"
        BY <2>1 DEF Tracked, RequestAt, RequestLogic
    <2>3. (tstate = "IDLE" /\ start /\ ~dinit_d) => stage = "offered"
        BY <2>1, Offered DEF IInv, Tracked, RequestLogic, start
    <2>4. rx_ram_sent => (stage = "begun" /\ r_sending)
        BY <2>1 DEF Tracked, RequestAt, RequestLogic
    <2>5. tx_ram_written => (~t_busy /\ t_write_sig \in t_free)
        BY <2>1 DEF IInv, SameTokens, Tracked, RequestAt, BusyLogic, WriterLogic
    <2> QED BY <2>2, <2>3, <2>4, <2>5 DEF CrossOnce
<1> QED BY <1>1, CrossingInvariant, PTL

\* What an edge of either clock means to the read side of transactor_if.
LEMMA ReadSideStep == IInv /\ [CcNext]_ccVars => [FtEdge(dnext)]_ftVars
<1> SUFFICES ASSUME IInv, [CcNext]_ccVars
             PROVE  [FtEdge(dnext)]_ftVars
    OBVIOUS
<1>1. PICK n \in 0 .. 11, u, d \in 0 .. 4 : Tracked(n, u, d)
    BY DEF IInv
<1>2. ASSUME NEW written, NEW sent, MacEdge(written, sent)
      PROVE  UNCHANGED ftVars
    BY <1>2 DEF MacEdge, ipbVars
<1>3. CASE IpbEdge
    BY <1>1, <1>3, OfferSettles DEF IInv
<1>4. CASE UNCHANGED ccVars
    BY <1>4 DEF ccVars, ipbVars
<1> QED BY <1>2, <1>3, <1>4 DEF CcNext

\* The crossing keeps the promise the read side relies on.
THEOREM OffersAreSettled == CcSpec => OffersSettled
BY CrossingInvariant, ReadSideStep, PTL DEF CcSpec, OffersSettled

\* So the transactor's read side, under the crossing, is the fall-through RAM.
THEOREM CrossingImplementsRam == CcSpec => FtSpec
<1>1. CcInit => FtInit
    BY DEF CcInit
<1>2. IInv /\ [CcNext]_ccVars => [FtNext]_ftVars
    <2>1. IInv => dnext \in BOOLEAN
        BY DEF IInv, RegistersOK, dnext
    <2> QED BY <2>1, ReadSideStep DEF FtNext
<1> QED BY <1>1, <1>2, CrossingInvariant, PTL DEF CcSpec, FtSpec

\* And what the transactor sees is the next word of the packet.
THEOREM CrossingShowsNextWord == CcSpec => []ShowsNextWord
BY CrossingImplementsRam, FallThroughCorrect, PTL

-----------------------------------------------------------------------------
(***************************************************************************)
(* The one thing here that rests on the clocks: the write that makes a     *)
(* buffer unclean takes three edges of mac_clk to get across, and must be  *)
(* across before the next edge of ipb_clk.                                 *)
(***************************************************************************)

CleanLogic(n) ==
    /\ partial \subseteq {t_write_sig}
    /\ partial # {} => (n >= 5 /\ (n = 5 => tstate \notin {"IDLE", "FIRST"}))
    /\ t_clean \cap partial = {}
    /\ we => /\ macs >= 1 => we_buf[1]
             /\ macs >= 2 => we_buf[2]
             /\ macs >= 3 => t_write_sig \notin t_clean

CleanInv == \E n \in 0 .. 11 : RequestAt(n) /\ CleanLogic(n)

\* The request is at one place.
LEMMA OnePlace ==
    ASSUME NEW n \in 0 .. 11, NEW k \in 0 .. 11, RequestAt(n), RequestAt(k)
    PROVE  n = k
BY DEF RequestAt

\* An edge of mac_clk takes the write one register further.
LEMMA CleanMac ==
    ASSUME CcTypeOK, RegistersOK, SameTokens,
           NEW n \in 0 .. 11, NEW u \in 0 .. 4, NEW d \in 0 .. 4, Tracked(n, u, d),
           CleanLogic(n), NEW asks \in BOOLEAN,
           NEW written \in BOOLEAN, NEW sent \in BOOLEAN, MacEdge(written, sent)
    PROVE  CleanLogic(MacPlace(n, asks))'
<1> DEFINE m == MacPlace(n, asks)
<1>1. /\ t_clean' = IF rx_ram_sent THEN t_clean \cup {t_write_sig}
                    ELSE IF we_buf[2] THEN t_clean \ {t_write_sig}
                    ELSE t_clean
      /\ partial' = IF rx_ram_sent THEN partial \ {t_write_sig} ELSE partial
    BY DEF MacEdge, SameTokens, Tx!Clock, Tx!CleanBlock, we_125
<1>2. we_buf'[1] = we /\ we_buf'[2] = we_buf[1] /\ macs' = macs + 1 /\ macs \in Nat
    BY CrossingAssumption DEF MacEdge, we_mac_clk, CcTypeOK
<1>3. tstate' = tstate /\ tx_we' = tx_we
    BY DEF MacEdge, ipbVars
<1>4. (rx_ram_sent <=> n = 11) /\ rx_ram_sent \in BOOLEAN /\ we \in BOOLEAN
    BY DEF Tracked, RequestAt, RegistersOK, we
<1>5. /\ we => (n = 5 /\ ~t_busy)
      /\ partial # {} => ~t_busy
    <2>1. tstate \notin {"IDLE", "GAP"} => (n = 5 /\ ~t_busy)
        BY Offered DEF Tracked, RequestLogic
    <2>2. we => tstate \notin {"IDLE", "GAP"}
        BY DEF we
    <2>3. n >= 6 => ~t_busy
        BY DEF Tracked, BusyLogic
    <2>4. n = 5 => tstate # "GAP"
        BY DEF Tracked, RequestLogic
    <2> QED BY <2>1, <2>2, <2>3, <2>4 DEF CleanLogic
<1>6. ~t_busy => t_write_sig' = t_write_sig
    BY TxWriter
<1>7. partial' \subseteq {t_write_sig'}
    BY <1>1, <1>5, <1>6 DEF CleanLogic
<1>8. partial' # {} => (m >= 5 /\ (m = 5 => tstate' \notin {"IDLE", "FIRST"}))
    BY <1>1, <1>3, <1>4 DEF CleanLogic, MacPlace
<1>9. t_clean' \cap partial' = {}
    BY <1>1 DEF CleanLogic
<1>10. we' => /\ macs' >= 1 => we_buf'[1]
              /\ macs' >= 2 => we_buf'[2]
              /\ macs' >= 3 => t_write_sig' \notin t_clean'
    <2>1. we' <=> we
        BY <1>3 DEF we
    <2> SUFFICES ASSUME we
                 PROVE  /\ macs' >= 1 => we_buf'[1]
                        /\ macs' >= 2 => we_buf'[2]
                        /\ macs' >= 3 => t_write_sig' \notin t_clean'
        BY <2>1
    <2>2. macs' >= 2 => we_buf'[2]
        BY <1>2 DEF CleanLogic
    <2>3. macs' >= 3 => t_write_sig' \notin t_clean'
        BY <1>1, <1>2, <1>4, <1>5, <1>6 DEF CleanLogic
    <2> QED BY <1>2, <2>2, <2>3
<1> QED BY <1>7, <1>8, <1>9, <1>10 DEF CleanLogic

\* An edge of ipb_clk writes into a buffer that is not clean any more.
LEMMA CleanBus ==
    ASSUME MinMac >= 3, CcTypeOK, RegistersOK,
           NEW n \in 0 .. 11, NEW u \in 0 .. 4, NEW d \in 0 .. 4, Tracked(n, u, d),
           CleanLogic(n), NEW done \in BOOLEAN, done <=> pkt_done, IpbEdge
    PROVE  CleanLogic(BusPlace(n, done))'
<1> DEFINE m == BusPlace(n, done)
<1>1. /\ macs >= MinMac /\ macs' = 0
      /\ partial' = IF we THEN partial \cup {tx_write_buffer} ELSE partial
      /\ t_clean' = t_clean /\ t_write_sig' = t_write_sig
      /\ tstate' \in Leads[tstate]
    BY DEF IpbEdge, txSelVars, transactor_if
<1>2. macs \in Nat /\ MinMac \in Nat /\ tstate \in States
    BY CrossingAssumption DEF CcTypeOK
<1>3. we => (n = 5 /\ tx_write_buffer = t_write_sig)
    <2> SUFFICES ASSUME we
                 PROVE  n = 5 /\ tx_write_buffer = t_write_sig
        OBVIOUS
    <2>1. ~dinit
        BY DEF we, Tracked, RequestLogic
    <2> QED BY <2>1, Offered DEF Tracked, WriterLogic
<1>4. we => t_write_sig \notin t_clean
    BY <1>1, <1>2 DEF CleanLogic
<1>5. partial' \subseteq {t_write_sig'}
    BY <1>1, <1>3 DEF CleanLogic
<1>6. t_clean' \cap partial' = {}
    BY <1>1, <1>3, <1>4 DEF CleanLogic
<1>7. (we \/ partial # {}) =>
          (n >= 5 /\ (n = 5 => tstate \in {"HDR", "PREBODY", "BODY", "DONE"}))
    <2>1. we => tstate \in {"HDR", "BODY", "DONE"}
        BY DEF we
    <2>2. n = 5 => tstate # "GAP"
        BY DEF Tracked, RequestLogic
    <2> QED BY <1>2, <1>3, <2>1, <2>2 DEF CleanLogic, States
<1>8. /\ tstate \in {"HDR", "PREBODY", "BODY"} => tstate' \notin {"IDLE", "FIRST"}
      /\ done <=> tstate = "DONE"
    BY <1>1 DEF Leads, pkt_done
<1>9. partial' # {} => (m >= 5 /\ (m = 5 => tstate' \notin {"IDLE", "FIRST"}))
    BY <1>1, <1>7, <1>8 DEF BusPlace
<1>10. we' => /\ macs' >= 1 => we_buf'[1]
              /\ macs' >= 2 => we_buf'[2]
              /\ macs' >= 3 => t_write_sig' \notin t_clean'
    BY <1>1
<1> QED BY <1>5, <1>6, <1>9, <1>10 DEF CleanLogic

\* Every edge of either clock keeps what is said of the clean buffers.
LEMMA CleanStep ==
    ASSUME MinMac >= 3, IInv, CleanInv, [CcNext]_ccVars
    PROVE  CleanInv'
<1>1. CcTypeOK /\ FtInv /\ RegistersOK /\ SameTokens
    BY DEF IInv
<1>2. PICK n \in 0 .. 11, u, d \in 0 .. 4 : Tracked(n, u, d)
    BY DEF IInv
<1>3. RequestAt(n) /\ CleanLogic(n)
    BY <1>2, OnePlace DEF CleanInv, Tracked
<1>4. ASSUME NEW written \in BOOLEAN, NEW sent \in BOOLEAN, MacEdge(written, sent)
      PROVE  CleanInv'
    <2>1. PICK asks \in BOOLEAN : asks <=> r_send_sig \in r_send_pending
        OBVIOUS
    <2>2. RequestAt(MacPlace(n, asks))'
        BY <1>1, <1>3, <1>4, <2>1, MacRequest
    <2>3. CleanLogic(MacPlace(n, asks))'
        BY <1>1, <1>2, <1>3, <1>4, CleanMac
    <2>4. MacPlace(n, asks) \in 0 .. 11
        BY DEF MacPlace
    <2> QED BY <2>2, <2>3, <2>4 DEF CleanInv
<1>5. CASE IpbEdge
    <2>1. PICK done \in BOOLEAN : done <=> pkt_done
        OBVIOUS
    <2>2. done => n = 5
        BY <1>1, <1>2, <2>1, Offered DEF pkt_done, Tracked, RequestLogic
    <2>3. RequestAt(BusPlace(n, done))'
        BY <1>1, <1>3, <1>5, <2>1, <2>2, BusRequest
    <2>4. CleanLogic(BusPlace(n, done))'
        BY <1>1, <1>2, <1>3, <1>5, <2>1, CleanBus
    <2>5. BusPlace(n, done) \in 0 .. 11
        BY DEF BusPlace
    <2> QED BY <2>3, <2>4, <2>5 DEF CleanInv
<1>6. CASE UNCHANGED ccVars
    <2>1. RequestAt(n)'
        BY <1>3, <1>6 DEF RequestAt, Edge, ccVars, rxSelVars, macVars, ipbVars
    <2>2. CleanLogic(n)'
        BY <1>3, <1>6 DEF CleanLogic, we, ccVars, txSelVars, macVars, ipbVars
    <2> QED BY <2>1, <2>2 DEF CleanInv
<1> QED BY <1>4, <1>5, <1>6 DEF CcNext

\* No buffer passes for a whole reply while words of a newer one are written over it,
\* when an edge of ipb_clk comes at most once in three edges of mac_clk, as 31.25 and
\* 125 MHz see to.
THEOREM CleanBuffersWhole == ASSUME MinMac >= 3 PROVE CcSpec => []CleanIsWhole
<1>1. CcInit => CleanInv
    <2>1. CcInit => CleanLogic(0)
        BY DEF CcInit, CleanLogic, we
    <2>2. CcInit => RequestAt(0)
        <3> SUFFICES ASSUME CcInit
                     PROVE  RequestAt(0)
            OBVIOUS
        <3>1. PICK n \in 0 .. 11, u, d \in 0 .. 4 : Tracked(n, u, d)
            BY CcInvInit DEF IInv
        <3>2. n = 0
            BY <3>1 DEF Tracked, RequestAt, CcInit, Rx!SelInit
        <3> QED BY <3>1, <3>2 DEF Tracked
    <2> QED BY <2>1, <2>2 DEF CleanInv
<1>2. IInv /\ CleanInv /\ [CcNext]_ccVars => CleanInv'
    BY CleanStep
<1>3. CleanInv => CleanIsWhole
    BY DEF CleanInv, CleanLogic, CleanIsWhole
<1> QED BY <1>1, <1>2, <1>3, CrossingInvariant, PTL DEF CcSpec
=============================================================================
