----------------------------- MODULE Transactor -----------------------------
(***************************************************************************)
(* The IPbus transactor: transactor_if.vhd walks through a request packet  *)
(* and writes the reply packet, transactor_sm.vhd decodes the transactions *)
(* of the request and runs them on the bus (transactor.vhd wires the two). *)
(* Both are clocked by ipb_clk, and one action is one rising edge.  Every  *)
(* operator of a clocked process reads the registers as they were before   *)
(* the edge.                                                               *)
(*                                                                         *)
(* Data is symbolic.  Word i of the body of a request is the number i,     *)
(* unless a transaction starts there; an address is the word it was taken  *)
(* from plus an offset; the n-th word read from the bus is the number n.   *)
(***************************************************************************)
EXTENDS Integers, Sequences, SequencesExt

CONSTANTS
    HeaderWords,    \* hlen: words of packet header, copied to the reply
    Packets,        \* the requests: sequences of transaction headers
    NoPacket,       \* no request is waiting
    TIMEOUT,        \* 2**24 - 1 in the code
    WordRange,      \* 2**8 in the code: the range of words_todo, words_done
    MaxPackets      \* bound: requests in a behaviour

ASSUME TransactorAssumption ==
    /\ HeaderWords \in Nat
    /\ NoPacket \notin Packets
    /\ TIMEOUT \in Nat
    /\ WordRange \in Nat \ {0, 1}
    /\ MaxPackets \in Nat

VARIABLES
    \* transactor_if
    ifstate, start_d, rctr, wctr, waddr, haddr, first, blen,
    \* transactor_sm
    state, rx_ready_d, hdr, addr, words_todo, words_done, timer,
    rmw_write, rmw_coeff, rmw_input, rmw_result, err_d,
    \* the two packet buffers: the request, or NoPacket, and the reply
    request, reply,
    arrivals,           \* requests offered so far
    \* history: the transactions begun, each with the bus cycles it ran
    served

ifVars == <<ifstate, start_d, rctr, wctr, waddr, haddr, first, blen>>
smVars == <<state, rx_ready_d, hdr, addr, words_todo, words_done, timer,
            rmw_write, rmw_coeff, rmw_input, rmw_result, err_d>>
vars   == <<ifVars, smVars, request, reply, arrivals, served>>

IfStates == {"IDLE", "FIRST", "HDR", "PREBODY", "BODY", "DONE", "GAP"}
SmStates == {"IDLE", "HDR", "ADDR", "BUS_CYCLE", "RMW_1", "RMW_2"}

-----------------------------------------------------------------------------
\* What a client puts in a request (IPbusHeader.py, _minimumRequestBodySize).
RmwTypes   == {"RMWB", "RMWS"}
CfgTypes   == {"RDC", "WRC"}
WriteTypes == {"WR", "WRN", "WRC"}
HeaderTypes == {"RD", "RDN"} \cup RmwTypes \cup CfgTypes \cup WriteTypes \cup {"BAD"}

Bad == [type |-> "BAD", words |-> 0]    \* a header that ST_HDR refuses

Size(t) == CASE t.type \in WriteTypes -> 2 + t.words
             [] t.type = "RMWB" -> 4
             [] t.type = "RMWS" -> 3
             [] t.type = "BAD" -> 1
             [] OTHER -> 2

\* The place of the k-th header of a packet in its body, counted from 1, and of
\* what would come behind the last.
Places(p) == LET at[k \in 1 .. Len(p) + 1] == IF k = 1 THEN 1 ELSE at[k - 1] + Size(p[k - 1])
             IN  at

Place(p, k) == Places(p)[k]

BodyLength(p) == Place(p, Len(p) + 1) - 1

\* Headers found beyond the end of the packet: what the buffer held before.
Stale == {Bad, [type |-> "RD", words |-> 1]}

\* The word count of a header is as wide as the counters, and that of a
\* read-modify-write is 1 (_createRMWBitsTransactionElement).
Headers == {t \in [type : HeaderTypes, words : 0 .. WordRange - 1] :
                t.type \in RmwTypes => t.words = 1}

ASSUME PacketsAssumption == Packets \subseteq Seq(Headers)

\* Body word i read as a header; a packet is only a request.
HeadersAt(p, i) ==
    IF i > BodyLength(p) THEN Stale
    ELSE LET ks == {k \in DOMAIN p : Place(p, k) = i}
         IN  IF ks = {} THEN {Bad} ELSE {p[k] : k \in ks}

-----------------------------------------------------------------------------
\* The wires of transactor_sm.  bus is what the slaves drive: "ack", "err" or
\* "wait"; no slave answers unless it is strobed (ipbus_fabric.vhd).
rmw_cyc == hdr.type \in RmwTypes
cfg_cyc == hdr.type \in CfgTypes
write   == hdr.type \in WriteTypes \/ rmw_write
last_wd == words_todo = 0
strobe  == state = "BUS_CYCLE" /\ ~cfg_cyc
ack(bus) == (strobe /\ bus # "wait") \/ cfg_cyc

rx_ready == ifstate = "BODY" /\ rctr <= blen
start    == rx_ready /\ ~rx_ready_d

\* Mutated form: the write of a read-modify-write takes a word too.
rx_nextTwice(bus) ==
    \/ state \in {"HDR", "RMW_1", "RMW_2"}
    \/ state = "ADDR" /\ (write \/ last_wd)
    \/ state = "BUS_CYCLE" /\ ack(bus) /\ (write \/ last_wd)

rx_next(bus) ==
    \/ state \in {"HDR", "RMW_1", "RMW_2"}
    \/ state = "ADDR" /\ (write \/ last_wd)
    \/ state = "BUS_CYCLE" /\ ack(bus) /\ (write \/ last_wd) /\ ~rmw_write

tx_hdr     == state = "HDR"
tx_err     == err_d # 0
tx_we(bus) == state = "HDR" \/ (state = "BUS_CYCLE" /\ ack(bus) /\ ~write)

\* rx is the word on rx_data, read as a header.
err(rx, bus) ==
    IF state = "HDR" /\ rx.type = "BAD" THEN 1
    ELSE IF strobe /\ bus = "err" THEN IF write THEN 5 ELSE 4
    ELSE IF state = "BUS_CYCLE" /\ timer = TIMEOUT THEN IF write THEN 7 ELSE 6
    ELSE 0

\* The words read so far, numbered from 1.
NextRead ==
    1 + FoldFunction(+, 0, [i \in DOMAIN served |->
                               Len(SelectSeq(served[i].cycles, LAMBDA c : ~c.we))])

tx_data == IF tx_hdr THEN <<"reply", hdr, words_done, err_d>> ELSE <<"data", NextRead>>
wdata   == IF rmw_cyc THEN rmw_result ELSE <<rctr>>

-----------------------------------------------------------------------------
\* transactor_sm, the state machine.  The mutated form of Refused looks at the
\* header alone, not at the error of the transaction before.
RefusedHeaderOnly(rx, bus) == ~rx_ready \/ err(rx, bus) # 0
Refused(rx, bus) == ~rx_ready \/ err(rx, bus) # 0 \/ err_d # 0

SmState(rx, bus) ==
    state' =
      CASE state = "IDLE" -> IF start THEN "HDR" ELSE "IDLE"
        [] state = "HDR" ->
             IF Refused(rx, bus) THEN "IDLE" ELSE "ADDR"
        [] state = "ADDR" -> IF words_todo # 0 THEN "BUS_CYCLE" ELSE "HDR"
        [] state = "BUS_CYCLE" ->
             IF err(rx, bus) # 0 THEN "HDR"
             ELSE IF ack(bus) /\ last_wd
                  THEN IF rmw_cyc /\ ~rmw_write THEN "RMW_1" ELSE "HDR"
                  ELSE "BUS_CYCLE"
        [] state = "RMW_1" -> IF hdr.type = "RMWB" THEN "RMW_2" ELSE "BUS_CYCLE"
        [] state = "RMW_2" -> "BUS_CYCLE"

\* transactor_sm, the counters.  The timer is preceded by a mutated form, to test the
\* properties: a clear on the wrong polarity of ack.
WordsTodo(rx, bus) ==
    words_todo' = IF state = "HDR" THEN rx.words
                  ELSE IF state = "RMW_1" THEN 0
                  ELSE IF state = "ADDR" \/ ack(bus) THEN (words_todo - 1) % WordRange
                  ELSE words_todo

WordsDone(bus) ==
    words_done' = IF state = "HDR" THEN 0
                  ELSE IF ack(bus) /\ (~rmw_cyc \/ rmw_write)
                  THEN (words_done + 1) % WordRange
                  ELSE words_done

TimerWrongPolarity(bus) ==
    timer' = IF state \in {"ADDR", "RMW_1"} \/ ~ack(bus) THEN 0
             ELSE IF strobe THEN (timer + 1) % (TIMEOUT + 1)
             ELSE timer

Timer(bus) ==
    timer' = IF state \in {"ADDR", "RMW_1"} \/ ack(bus) THEN 0
             ELSE IF strobe THEN (timer + 1) % (TIMEOUT + 1)
             ELSE timer

\* transactor_sm, the other registers.
SmRegisters(rx, bus) ==
    /\ rx_ready_d' = rx_ready
    /\ hdr' = IF state = "HDR" THEN [type |-> rx.type, at |-> rctr] ELSE hdr
    /\ addr' = IF state = "ADDR" THEN <<rctr, 0>>
               ELSE IF ack(bus) /\ hdr.type \in {"RD", "WR"} THEN <<addr[1], addr[2] + 1>>
               ELSE addr
    /\ rmw_write' = (state = "RMW_1" \/ (state # "HDR" /\ rmw_write))
    /\ rmw_coeff' = IF state = "RMW_1" THEN rctr ELSE rmw_coeff
    /\ rmw_result' = CASE state = "RMW_1" -> <<rmw_input, rctr>>
                       [] state = "RMW_2" -> <<rmw_input, rmw_coeff, rctr>>
                       [] OTHER -> rmw_result
    /\ rmw_input' = IF ack(bus) THEN NextRead ELSE rmw_input
    /\ err_d' = IF state = "IDLE" THEN 0 ELSE err(rx, bus)

\* transactor_if, the state machine: where the body of a packet ends.  First a
\* mutated form: with the last word read.
EndOfBodyTooSoon == rctr > blen \/ tx_err
EndOfBody == (rctr > blen /\ tx_hdr) \/ tx_err

IfState(grant) ==
    LET body == IF blen = 0 THEN "DONE" ELSE "PREBODY"
    IN  ifstate' =
          CASE ifstate = "IDLE" ->
                 IF request # NoPacket /\ start_d THEN "FIRST" ELSE "IDLE"
            [] ifstate = "FIRST" -> IF HeaderWords = 0 THEN body ELSE "HDR"
            [] ifstate = "HDR" -> IF rctr = HeaderWords THEN body ELSE "HDR"
            [] ifstate = "PREBODY" -> IF grant THEN "BODY" ELSE "PREBODY"
            [] ifstate = "BODY" ->
                 IF EndOfBody THEN "DONE" ELSE "BODY"
            [] ifstate = "DONE" -> "GAP"
            [] ifstate = "GAP" -> "IDLE"

\* transactor_if, the address in the reply buffer.  Mutated form: it is not set
\* back between packets.
WaddrNotReset(bus) ==
    waddr' = IF ifstate = "HDR" \/ (ifstate = "BODY" /\ tx_we(bus)) THEN waddr + 1
             ELSE waddr

Waddr(bus) ==
    waddr' = IF ifstate = "HDR" \/ (ifstate = "BODY" /\ tx_we(bus)) THEN waddr + 1
             ELSE IF ifstate = "DONE" THEN 1
             ELSE waddr

\* transactor_if, the other registers.
IfRegisters(bus) ==
    LET inBody == ifstate = "BODY"
    IN  /\ start_d' = (request # NoPacket)
        /\ blen' = IF ifstate = "IDLE" /\ request # NoPacket THEN BodyLength(request)
                   ELSE blen
        /\ rctr' = IF ifstate \in {"IDLE", "PREBODY"} THEN 1
                   ELSE IF ifstate = "HDR" \/ (inBody /\ rx_next(bus)) THEN rctr + 1
                   ELSE rctr
        /\ wctr' = IF ifstate = "PREBODY" THEN 0
                   ELSE IF inBody /\ tx_we(bus) /\ ~first THEN wctr + 1
                   ELSE wctr
        /\ haddr' = IF tx_hdr THEN waddr ELSE haddr
        /\ first' = (ifstate = "PREBODY" \/ (first /\ ~tx_we(bus)))

\* transactor_if, its port to the reply buffer.
Write(a, w) == reply' = [b \in DOMAIN reply \cup {a} |-> IF b = a THEN w ELSE reply[b]]

ReplyWrite(bus) ==
    CASE ifstate = "HDR" -> Write(waddr, <<"copy", rctr>>)
      [] ifstate = "DONE" -> Write(0, <<"packet", HeaderWords, wctr>>)
      [] ifstate = "BODY" /\ tx_we(bus) /\ ~first ->
           Write(IF tx_hdr THEN haddr ELSE waddr, tx_data)
      [] OTHER -> UNCHANGED reply

-----------------------------------------------------------------------------
\* A bus cycle as the slave sees it.
Cycle(bus) ==
    [we |-> write, addr |-> addr, data |-> IF write THEN wdata ELSE <<NextRead>>]

Serve(rx, bus) ==
    served' =
      IF state = "HDR" /\ rx_ready /\ err_d = 0
      THEN Append(served, [type |-> rx.type, at |-> rctr, cycles |-> <<>>,
                          code |-> err(rx, bus)])
      ELSE IF state = "BUS_CYCLE"
      THEN LET last == Len(served)
               done == IF ack(bus) THEN Append(served[last].cycles, Cycle(bus))
                       ELSE served[last].cycles
           IN  [served EXCEPT ![last] =
                   [@ EXCEPT !.cycles = done, !.code = err(rx, bus)]]
      ELSE served

\* One rising edge of ipb_clk.
Edge(grant, bus) ==
    \E rx \in IF request = NoPacket THEN Stale ELSE HeadersAt(request, rctr) :
        /\ SmState(rx, bus) /\ SmRegisters(rx, bus)
        /\ WordsTodo(rx, bus) /\ WordsDone(bus) /\ Timer(bus)
        /\ IfState(grant) /\ IfRegisters(bus) /\ Waddr(bus)
        /\ ReplyWrite(bus)
        /\ Serve(rx, bus)

\* The clock-crossing logic withdraws a packet on pkt_done.
Work(grant, bus) ==
    /\ strobe \/ bus = "wait"
    /\ Edge(grant, bus)
    /\ request' = IF ifstate = "DONE" THEN NoPacket ELSE request
    /\ UNCHANGED arrivals

\* It offers another one, and an empty reply buffer, later.
Arrival ==
    /\ request = NoPacket /\ ifstate = "IDLE" /\ ~start_d
    /\ arrivals < MaxPackets /\ arrivals' = arrivals + 1
    /\ request' \in Packets
    /\ reply' = <<>> /\ served' = <<>>
    /\ UNCHANGED <<ifVars, smVars>>

Init ==
    /\ ifstate = "IDLE" /\ start_d = FALSE /\ rctr = 1 /\ wctr = 0 /\ waddr = 1
    /\ haddr = 0 /\ first = TRUE /\ blen = 0
    /\ state = "IDLE" /\ rx_ready_d = FALSE /\ hdr = [type |-> "BAD", at |-> 0]
    /\ addr = <<0, 0>> /\ words_todo = 0 /\ words_done = 0 /\ timer = 0
    /\ rmw_write = FALSE /\ rmw_coeff = 0 /\ rmw_input = 0 /\ rmw_result = <<>>
    /\ err_d = 0
    /\ request = NoPacket /\ arrivals = 0 /\ reply = <<>> /\ served = <<>>

Clock == \E grant \in BOOLEAN, bus \in {"wait", "ack", "err"} : Work(grant, bus)

Next == Clock \/ Arrival

Spec == Init /\ [][Next]_vars

\* ipb_clk never stops, and the bus is granted sooner or later (ipb_grant is an
\* input of ipbus_ctrl.vhd whose default is '1').  Nothing is asked of the slaves:
\* the edge that must come is one at which none of them answers.
Unanswered == Work(TRUE, "wait")

FairSpec == Spec /\ WF_vars(Unanswered)

-----------------------------------------------------------------------------
TypeOK ==
    /\ ifstate \in IfStates /\ start_d \in BOOLEAN /\ first \in BOOLEAN
    /\ {rctr, waddr} \subseteq Nat \ {0} /\ {wctr, haddr, blen} \subseteq Nat
    /\ state \in SmStates /\ rx_ready_d \in BOOLEAN /\ rmw_write \in BOOLEAN
    /\ {words_todo, words_done} \subseteq 0 .. WordRange - 1
    /\ timer \in 0 .. TIMEOUT
    /\ err_d \in {0, 1, 4, 5, 6, 7}
    /\ request \in Packets \cup {NoPacket} /\ arrivals \in 0 .. MaxPackets

\* The two machines share no state variable, only wires: the bus side runs only
\* while the packet side is in the body, whichever of the two ends the packet.
InStep == state # "IDLE" => ifstate = "BODY"

\* What transaction t, whose header is word w, must do on the bus; got is what
\* it read first.
Cycles(t, w, got) ==
    LET read(k)   == [we |-> FALSE, addr |-> <<w + 1, k>>]
        put(k, d) == [we |-> TRUE, addr |-> <<w + 1, k>>, data |-> d]
    IN  CASE t.type = "RD" -> [i \in 1 .. t.words |-> read(i - 1)]
          [] t.type \in {"RDN", "RDC"} -> [i \in 1 .. t.words |-> read(0)]
          [] t.type = "WR" -> [i \in 1 .. t.words |-> put(i - 1, <<w + 1 + i>>)]
          [] t.type \in {"WRN", "WRC"} -> [i \in 1 .. t.words |-> put(0, <<w + 1 + i>>)]
          [] t.type = "RMWB" -> <<read(0), put(0, <<got, w + 2, w + 3>>)>>
          [] t.type = "RMWS" -> <<read(0), put(0, <<got, w + 2>>)>>
          [] OTHER -> <<>>

\* Cycle c is the one e asks for; what a read returns is up to the slave.
Fits(c, e) == c.we = e.we /\ c.addr = e.addr /\ (e.we => c.data = e.data)

\* Transactions are served in the order of the request, each from its own
\* header, the bus sees the cycles the request asks for and no others, and only
\* the last transaction begun may be unfinished or in error.
BusMatchesRequest ==
    request # NoPacket =>
        /\ Len(served) <= Len(request)
        /\ \A k \in DOMAIN served :
             LET s == served[k]
                 e == Cycles(request[k], s.at, IF s.cycles = <<>> THEN 0
                                               ELSE s.cycles[1].data[1])
             IN  /\ s.at = Place(request, k)
                 /\ Len(s.cycles) <= Len(e)
                 /\ \A i \in DOMAIN s.cycles : Fits(s.cycles[i], e[i])
                 /\ k < Len(served) => (s.code = 0 /\ Len(s.cycles) = Len(e))

\* An error ends the packet: nothing is put on the bus after it.
ErrorEndsPacket ==
    (served # <<>> /\ Last(served).code # 0) => (~strobe /\ state \in {"HDR", "IDLE"})

\* All three: every register in its range, and the two machines stop together, at
\* the end of a packet and at an error.
MachinesInv == TypeOK /\ InStep /\ ErrorEndsPacket

\* The packet side stops no sooner than the bus side has begun every transaction
\* of the request and run its last cycle, unless a transaction failed.
NothingLeftUnserved ==
    (ifstate = "DONE" /\ (served = <<>> \/ Last(served).code = 0)) =>
        /\ Len(served) = Len(request)
        /\ \A k \in DOMAIN served :
             Len(served[k].cycles) = Len(Cycles(request[k], served[k].at, 0))

\* The words the reply to the transaction s must hold: a header, and a word for each
\* cycle that reads (which ones do is for BusMatchesRequest).  Two of them come from
\* two different counters: the length in the header from words_done, the data from the
\* bus itself.  (A configuration cycle acknowledges itself one clock before it begins,
\* so its length is one too many, in as many bits as words_done has.)
ReadCycles(s) == CASE s.type \in WriteTypes -> 0
                   [] s.type \in RmwTypes /\ Len(s.cycles) > 1 -> 1
                   [] OTHER -> Len(s.cycles)

ReplyLength(s) == IF s.code = 1 THEN 0 ELSE 1 + ReadCycles(s)

Words(s) == CASE s.type \in RmwTypes -> Len(s.cycles) - ReadCycles(s)
              [] s.type \in CfgTypes -> (Len(s.cycles) + 1) % WordRange
              [] OTHER -> Len(s.cycles)

ReplyTo(s) ==
    [i \in 1 .. ReplyLength(s) |->
        IF i = 1 THEN <<"reply", [type |-> s.type, at |-> s.at], Words(s), s.code>>
        ELSE <<"data", s.cycles[i - 1].data[1]>>]

\* The place of the k-th of the replies to the transactions f, and of what would come
\* behind the last.
ReplyPlaces(f) ==
    LET at[k \in 1 .. Len(f) + 1] == IF k = 1 THEN 1 ELSE at[k - 1] + ReplyLength(f[k - 1])
    IN  at

\* The word w is at the address a of the reply buffer.
Holds(a, w) == a \in DOMAIN reply /\ reply[a] = w

\* Once the packet is done, the reply buffer holds the header of the request, a
\* reply for each transaction served, in order and with nothing between, each with
\* its own data and error code, and their total length in word 0.
ReplyMatchesServed ==
    (ifstate = "GAP" /\ served # <<>>) =>
        /\ Holds(0, <<"packet", HeaderWords, ReplyPlaces(served)[Len(served) + 1] - 1>>)
        /\ \A i \in 1 .. HeaderWords : Holds(i, <<"copy", i>>)
        /\ \A k \in DOMAIN served : \A i \in 1 .. ReplyLength(served[k]) :
               Holds(HeaderWords + ReplyPlaces(served)[k] + i - 1, ReplyTo(served[k])[i])

\* Every request is answered, whatever the slaves do.
EveryRequestDone == request # NoPacket ~> request = NoPacket

=============================================================================
