--------------------------- MODULE TransactorProofs ---------------------------
(***************************************************************************)
(* The two state machines of the transactor stay in step, an error ends    *)
(* the packet, the bus sees the cycles the request asks for, all of them   *)
(* and no others, and the reply buffer holds what the bus did: for         *)
(* requests of any length, counters of any width, any time limit, and      *)
(* slaves that do as they like.                                            *)
(*                                                                         *)
(* First, that both machines stop together (IInv); then, where the bus     *)
(* side is in the request in each of its states (BusInv); last, what of    *)
(* the reply is written by then (ReplyInv).                                *)
(***************************************************************************)
EXTENDS Transactor, SequenceTheorems, WellFoundedInduction, TLAPS

\* A nonempty set of numbers has a least one.
LEMMA LeastOf ==
    ASSUME NEW T, T \subseteq Nat, T # {}
    PROVE  \E n \in T : \A m \in T : n <= m
<1>1. \E n \in T : \A m \in T : ~ (<<m, n>> \in OpToRel(<, Nat))
    BY NatLessThanWellFounded, WFMin, Zenon
<1>2. PICK n \in T : \A m \in T : ~(m < n)
    BY <1>1 DEF OpToRel
<1>3. \A m \in T : n <= m
    <2> SUFFICES ASSUME NEW m \in T PROVE n <= m
        OBVIOUS
    <2>1. m \in Nat /\ n \in Nat /\ ~(m < n)
        BY <1>2
    <2> QED BY <2>1
<1> QED BY <1>3

\* Counting from 1: a set that holds each number with the one before it.
LEMMA Counting ==
    ASSUME NEW n \in Nat, NEW S, 1 \in S, \A k \in 1 .. n : k \in S => k + 1 \in S
    PROVE  \A k \in 1 .. n + 1 : k \in S
<1> DEFINE Missing == {k \in 1 .. n + 1 : k \notin S}
<1> SUFFICES ASSUME Missing # {} PROVE FALSE
    OBVIOUS
<1>1. Missing \subseteq Nat
    OBVIOUS
<1>2. PICK m \in Missing : \A k \in Missing : m <= k
    <2> HIDE DEF Missing
    <2> QED BY <1>1, LeastOf
<1>3. m \in 1 .. n + 1 /\ m \notin S /\ m # 1 /\ m - 1 \in 1 .. n /\ m - 1 \in 1 .. n + 1 /\ (m - 1) + 1 = m
    BY <1>2
<1>4. m - 1 \notin S
    BY <1>3
<1>5. m - 1 \in Missing /\ ~(m <= m - 1)
    BY <1>3, <1>4
<1> QED
    <2> HIDE DEF Missing
    <2> QED BY <1>2, <1>5

\* There is a list of the partial sums of n numbers, which begins with 1.
LEMMA PlacesExist ==
    ASSUME NEW n \in Nat, NEW s \in [1 .. n -> Nat]
    PROVE  \E f : f = [i \in 1 .. n + 1 |-> IF i = 1 THEN 1 ELSE f[i - 1] + s[i - 1]]
<1> DEFINE Sums(m, f) == /\ f \in [1 .. m + 1 -> Nat] /\ f[1] = 1
                         /\ \A i \in 1 .. m : f[i + 1] = f[i] + s[i]
           Missing == {m \in 0 .. n : \A f \in [1 .. m + 1 -> Nat] : ~ Sums(m, f)}
<1>1. Missing = {}
    <2> SUFFICES ASSUME Missing # {} PROVE FALSE
        OBVIOUS
    <2>1. Missing \subseteq Nat
        OBVIOUS
    <2>2. PICK m \in Missing : \A k \in Missing : m <= k
        <3> HIDE DEF Missing
        <3> QED BY <2>1, LeastOf
    <2>3. m \in 0 .. n /\ \A f \in [1 .. m + 1 -> Nat] : ~ Sums(m, f)
        BY <2>2
    <2>4. CASE m = 0
        <3> DEFINE f == [i \in 1 .. 1 |-> 1]
        <3>1. Sums(0, f)
            OBVIOUS
        <3> HIDE DEF f
        <3> QED BY <2>3, <2>4, <3>1
    <2>5. CASE m # 0
        <3>1. m - 1 \in 0 .. n /\ m \in 1 .. n /\ m - 1 < m
            BY <2>3, <2>5
        <3>2. m - 1 \notin Missing
            <4> HIDE DEF Missing
            <4> QED BY <2>2, <3>1
        <3>3. PICK f \in [1 .. (m - 1) + 1 -> Nat] : Sums(m - 1, f)
            BY <3>1, <3>2
        <3> DEFINE g == [i \in 1 .. m + 1 |-> IF i <= m THEN f[i] ELSE f[m] + s[m]]
        <3>4. (m - 1) + 1 = m
            BY <3>1
        <3>5. f \in [1 .. m -> Nat] /\ f[1] = 1 /\ \A i \in 1 .. m - 1 : f[i + 1] = f[i] + s[i]
            BY <3>3, <3>4
        <3>6. g \in [1 .. m + 1 -> Nat]
            BY <3>1, <3>5
        <3>7. g[1] = 1 /\ \A i \in 1 .. m : g[i + 1] = g[i] + s[i]
            BY <3>1, <3>5
        <3> HIDE DEF g
        <3> QED BY <2>3, <3>6, <3>7
    <2> QED BY <2>4, <2>5
<1>2. n \in 0 .. n /\ n \notin Missing
    <2> HIDE DEF Missing
    <2> QED BY <1>1
<1>3. PICK f : Sums(n, f)
    BY <1>2
<1>4. \A i \in 1 .. n + 1 : f[i] = IF i = 1 THEN 1 ELSE f[i - 1] + s[i - 1]
    <2> SUFFICES ASSUME NEW i \in 1 .. n + 1, i # 1 PROVE f[i] = f[i - 1] + s[i - 1]
        BY <1>3
    <2>1. i - 1 \in 1 .. n /\ (i - 1) + 1 = i
        OBVIOUS
    <2>2. f[(i - 1) + 1] = f[i - 1] + s[i - 1]
        BY <1>3, <2>1
    <2> QED BY <2>1, <2>2
<1>5. f = [i \in 1 .. n + 1 |-> IF i = 1 THEN 1 ELSE f[i - 1] + s[i - 1]]
    BY <1>3, <1>4
<1> QED BY <1>5

\* Every header takes a word or more.
LEMMA SizePositive == \A t \in Headers : Size(t) \in Nat \ {0}
BY DEF Size, Headers

\* The places in a packet are the partial sums of the sizes.
LEMMA PlacesAre ==
    ASSUME NEW p \in Seq(Headers)
    PROVE  Places(p) = [i \in 1 .. Len(p) + 1 |-> IF i = 1 THEN 1 ELSE Places(p)[i - 1] + Size(p[i - 1])]
<1> DEFINE s == [i \in 1 .. Len(p) |-> Size(p[i])]
           n == Len(p)
<1>1. s \in [1 .. n -> Nat] /\ n \in Nat
    <2>1. \A i \in 1 .. Len(p) : p[i] \in Headers
        BY ElementOfSeq
    <2> QED BY <2>1, SizePositive
<1>2. PICK f : f = [i \in 1 .. n + 1 |-> IF i = 1 THEN 1 ELSE f[i - 1] + s[i - 1]]
    <2> HIDE DEF s, n
    <2> QED BY <1>1, PlacesExist
<1>3. \A i \in 1 .. n + 1 : i # 1 => s[i - 1] = Size(p[i - 1])
    BY <1>1
<1>4. [i \in 1 .. n + 1 |-> IF i = 1 THEN 1 ELSE f[i - 1] + s[i - 1]]
        = [i \in 1 .. n + 1 |-> IF i = 1 THEN 1 ELSE f[i - 1] + Size(p[i - 1])]
    <2> HIDE DEF s, n
    <2> QED BY <1>3
<1>5. f = [i \in 1 .. Len(p) + 1 |-> IF i = 1 THEN 1 ELSE f[i - 1] + Size(p[i - 1])]
    BY <1>2, <1>4
<1>6. Places(p) = CHOOSE g : g = [i \in 1 .. Len(p) + 1 |-> IF i = 1 THEN 1 ELSE g[i - 1] + Size(p[i - 1])]
    BY DEF Places
<1> QED BY <1>5, <1>6

\* Where the headers of a packet are.
LEMMA PlaceFacts ==
    ASSUME NEW p \in Seq(Headers)
    PROVE  /\ Place(p, 1) = 1
           /\ \A k \in 1 .. Len(p) : Place(p, k + 1) = Place(p, k) + Size(p[k])
           /\ \A k \in 1 .. Len(p) + 1 : Place(p, k) \in Nat \ {0}
           /\ \A i, j \in 1 .. Len(p) + 1 : i < j => Place(p, i) < Place(p, j)
<1> DEFINE n == Len(p)
           P(k) == Place(p, k)
           D(k) == Size(p[k])
<1>1. n \in Nat /\ \A k \in 1 .. n : D(k) \in Nat \ {0}
    <2>1. \A i \in 1 .. Len(p) : p[i] \in Headers
        BY ElementOfSeq
    <2> QED BY <2>1, SizePositive
<1>2. \A k \in 1 .. n + 1 : P(k) = IF k = 1 THEN 1 ELSE P(k - 1) + D(k - 1)
    <2> SUFFICES ASSUME NEW k \in 1 .. n + 1
                 PROVE  P(k) = IF k = 1 THEN 1 ELSE P(k - 1) + D(k - 1)
        OBVIOUS
    <2> DEFINE f == Places(p)
    <2>1. f = [i \in 1 .. n + 1 |-> IF i = 1 THEN 1 ELSE f[i - 1] + D(i - 1)]
        BY PlacesAre
    <2> HIDE DEF f, D, n
    <2>2. f[k] = IF k = 1 THEN 1 ELSE f[k - 1] + D(k - 1)
        BY <2>1
    <2> QED BY <2>2 DEF Place, f
<1> HIDE DEF n, P, D
<1>3. P(1) = 1
    BY <1>1, <1>2
<1>4. \A k \in 1 .. n : P(k + 1) = P(k) + D(k)
    <2> SUFFICES ASSUME NEW k \in 1 .. n PROVE P(k + 1) = P(k) + D(k)
        OBVIOUS
    <2>1. k + 1 \in 1 .. n + 1 /\ k + 1 # 1 /\ (k + 1) - 1 = k
        BY <1>1
    <2>2. P(k + 1) = P((k + 1) - 1) + D((k + 1) - 1)
        BY <1>2, <2>1
    <2> QED BY <2>1, <2>2
<1>5. \A k \in 1 .. n + 1 : P(k) \in Nat \ {0}
    <2> DEFINE S == {k \in Nat : P(k) \in Nat \ {0}}
    <2>1. 1 \in S
        BY <1>3
    <2>2. \A k \in 1 .. n : k \in S => k + 1 \in S
        BY <1>1, <1>4
    <2>3. \A k \in 1 .. n + 1 : k \in S
        <3> HIDE DEF S
        <3> QED BY <1>1, <2>1, <2>2, Counting
    <2> QED BY <2>3
<1>6. ASSUME NEW i \in 1 .. n + 1, NEW j \in 1 .. n + 1, i < j
      PROVE  P(i) < P(j)
    <2> DEFINE S == {k \in Nat : i < k => P(i) < P(k)}
    <2>1. 1 \in S
        BY <1>1, <1>6
    <2>2. \A k \in 1 .. n : k \in S => k + 1 \in S
        <3> SUFFICES ASSUME NEW k \in 1 .. n, k \in S, i < k + 1 PROVE P(i) < P(k + 1)
            BY <1>1
        <3>1. P(k + 1) = P(k) + D(k) /\ P(k) \in Nat /\ D(k) \in Nat \ {0} /\ P(i) \in Nat
            BY <1>1, <1>4, <1>5
        <3>2. i = k \/ i < k
            BY <1>1
        <3>3. i = k \/ P(i) < P(k)
            BY <3>2
        <3> QED BY <3>1, <3>3
    <2>3. \A k \in 1 .. n + 1 : k \in S
        <3> HIDE DEF S
        <3> QED BY <1>1, <2>1, <2>2, Counting
    <2>4. j \in S
        <3> HIDE DEF S
        <3> QED BY <2>3
    <2> QED BY <1>6, <2>4
<1> QED BY <1>3, <1>4, <1>5, <1>6 DEF n, P, D

\* A request is one of the packets, and has a length.
LEMMA RequestFacts ==
    ASSUME TypeOK, request # NoPacket
    PROVE  request \in Seq(Headers) /\ BodyLength(request) \in Nat
<1>1. request \in Seq(Headers)
    BY PacketsAssumption DEF TypeOK
<1>2. Len(request) \in Nat /\ Place(request, Len(request) + 1) \in Nat \ {0}
    BY <1>1, PlaceFacts
<1> QED BY <1>1, <1>2 DEF BodyLength

-----------------------------------------------------------------------------
\* Every transaction served is a record that holds an error code.
Records(S) == \A s \in S : "code" \in DOMAIN s /\ s = [f \in DOMAIN s |-> s[f]]
ServedOK   == \E S : served \in Seq(S) /\ Records(S)

\* The error register is set by a header or by a bus cycle, and both lead to a
\* state that does nothing but write a header and stop.
ErrorStops == err_d # 0 => state \in {"HDR", "IDLE"}

\* While the error is still in its register the machine does not start again:
\* either the packet side has left the body, or rx_ready has not fallen.
NoRestart == (state = "IDLE" /\ err_d # 0) => (ifstate # "BODY" \/ rx_ready_d)

\* A transaction under way is the last one served.
HasBegun == state \notin {"IDLE", "HDR"} => served # <<>>

\* From a failed transaction to the next request: its header is written, the
\* machine stops, the packet side leaves the body and the request is withdrawn.
AfterError ==
    (served # <<>> /\ Last(served).code # 0) =>
        \/ state = "HDR" /\ err_d # 0
        \/ /\ state = "IDLE"
           /\ ifstate \in {"BODY", "DONE", "GAP", "IDLE"}
           /\ ifstate = "BODY" => (err_d # 0 /\ rx_ready_d)
           /\ ifstate \in {"IDLE", "GAP"} => request = NoPacket

Control == InStep /\ ErrorStops /\ NoRestart
IInv == TypeOK /\ Control /\ ServedOK /\ HasBegun /\ AfterError

-----------------------------------------------------------------------------
\* The word on rx_data is a header whose length fits the counters.
LEMMA HeaderFits ==
    ASSUME TypeOK, NEW rx \in IF request = NoPacket THEN Stale ELSE HeadersAt(request, rctr)
    PROVE  rx.words \in 0 .. WordRange - 1
<1>1. 0 \in 0 .. WordRange - 1 /\ 1 \in 0 .. WordRange - 1
    BY TransactorAssumption
<1>2. \A h \in Stale \cup {Bad} : h.words \in 0 .. WordRange - 1
    BY <1>1 DEF Stale, Bad
<1>3. CASE rx \in Stale \cup {Bad}
    BY <1>2, <1>3
<1>4. CASE rx \notin Stale \cup {Bad}
    <2>1. request \in Packets /\ rx \in {request[k] : k \in DOMAIN request}
        BY <1>4 DEF TypeOK, HeadersAt
    <2>2. request \in Seq(Headers)
        BY <2>1, PacketsAssumption
    <2>3. PICK k \in DOMAIN request : rx = request[k]
        BY <2>1
    <2>4. request[k] \in Headers
        BY <2>2, <2>3, ElementOfSeq, LenProperties
    <2> QED BY <2>3, <2>4 DEF Headers
<1> QED BY <1>3, <1>4

\* When err is raised, and with which codes.
LEMMA ErrFacts ==
    ASSUME NEW rx, NEW bus
    PROVE  /\ err(rx, bus) \in {0, 1, 4, 5, 6, 7}
           /\ err(rx, bus) # 0 => state \in {"HDR", "BUS_CYCLE"}
BY DEF err, strobe

\* An edge keeps every register in its range.
LEMMA EdgeTypeOK ==
    ASSUME TypeOK, NEW grant \in BOOLEAN, NEW bus, Work(grant, bus)
    PROVE  TypeOK'
<1>1. PICK rx \in IF request = NoPacket THEN Stale ELSE HeadersAt(request, rctr) :
        /\ SmState(rx, bus) /\ SmRegisters(rx, bus)
        /\ WordsTodo(rx, bus) /\ WordsDone(bus) /\ Timer(bus)
        /\ IfState(grant) /\ IfRegisters(bus) /\ Waddr(bus)
    BY DEF Work, Edge
<1>2. request' \in Packets \cup {NoPacket} /\ arrivals' \in 0 .. MaxPackets
    BY DEF Work, TypeOK
<1>3. state' \in SmStates
    BY <1>1 DEF SmState, SmStates, TypeOK
<1>4. ifstate' \in IfStates
    BY <1>1 DEF IfState, IfStates, TypeOK
<1>5. rx_ready_d' \in BOOLEAN /\ rmw_write' \in BOOLEAN
    BY <1>1 DEF SmRegisters, rx_ready
<1>6. err_d' \in {0, 1, 4, 5, 6, 7}
    BY <1>1, ErrFacts DEF SmRegisters
<1>7. words_todo' \in 0 .. WordRange - 1 /\ words_done' \in 0 .. WordRange - 1
    <2>1. \A n \in Int : n % WordRange \in 0 .. WordRange - 1
        BY TransactorAssumption
    <2>2. 0 \in 0 .. WordRange - 1 /\ words_todo - 1 \in Int /\ words_done + 1 \in Int
        BY TransactorAssumption DEF TypeOK
    <2>3. rx.words \in 0 .. WordRange - 1
        BY HeaderFits
    <2> QED BY <1>1, <2>1, <2>2, <2>3 DEF WordsTodo, WordsDone, TypeOK
<1>8. timer' \in 0 .. TIMEOUT
    <2>1. \A n \in Int : n % (TIMEOUT + 1) \in 0 .. TIMEOUT
        BY TransactorAssumption
    <2>2. 0 \in 0 .. TIMEOUT /\ timer + 1 \in Int
        BY TransactorAssumption DEF TypeOK
    <2> QED BY <1>1, <2>1, <2>2 DEF Timer, TypeOK
<1>9. /\ start_d' \in BOOLEAN /\ first' \in BOOLEAN
      /\ rctr' \in Nat \ {0} /\ wctr' \in Nat /\ haddr' \in Nat
    BY <1>1 DEF IfRegisters, TypeOK
<1>10. blen' \in Nat
    <2>1. request # NoPacket => BodyLength(request) \in Nat
        BY RequestFacts
    <2> QED BY <1>1, <2>1 DEF IfRegisters, TypeOK
<1>11. waddr' \in Nat \ {0}
    BY <1>1 DEF Waddr, TypeOK
<1> QED BY <1>2, <1>3, <1>4, <1>5, <1>6, <1>7, <1>8, <1>9, <1>10, <1>11 DEF TypeOK

\* An edge keeps the two machines in step.
LEMMA EdgeControl ==
    ASSUME TypeOK, Control, NEW grant \in BOOLEAN, NEW bus, Work(grant, bus)
    PROVE  Control'
<1>1. PICK rx : SmState(rx, bus) /\ SmRegisters(rx, bus) /\ IfState(grant)
    BY DEF Work, Edge
<1>2. /\ err_d' = IF state = "IDLE" THEN 0 ELSE err(rx, bus)
      /\ rx_ready_d' = rx_ready
    BY <1>1 DEF SmRegisters
<1>3. /\ state \in SmStates /\ rctr \in Nat /\ blen \in Nat /\ ifstate \in IfStates
      /\ InStep /\ ErrorStops /\ NoRestart
    BY DEF TypeOK, Control
<1>4. err(rx, bus) # 0 => state \in {"HDR", "BUS_CYCLE"}
    BY ErrFacts
<1>5. InStep'
    <2> SUFFICES ASSUME state' # "IDLE"
                 PROVE  ifstate = "BODY" /\ ~EndOfBody
        BY <1>1 DEF InStep, IfState
    <2>1. CASE state = "IDLE"
        BY <1>1, <1>3, <2>1 DEF SmState, start, rx_ready, NoRestart, EndOfBody, tx_hdr, tx_err
    <2>2. CASE state = "HDR"
        BY <1>1, <1>3, <2>2 DEF SmState, Refused, rx_ready, InStep, EndOfBody, tx_err
    <2>3. CASE state \notin {"IDLE", "HDR"}
        BY <1>3, <2>3 DEF InStep, ErrorStops, EndOfBody, tx_hdr, tx_err
    <2> QED BY <2>1, <2>2, <2>3
<1>6. ErrorStops'
    <2> SUFFICES ASSUME err_d' # 0 PROVE state' \in {"HDR", "IDLE"}
        BY DEF ErrorStops
    <2>1. err(rx, bus) # 0 /\ state \in {"HDR", "BUS_CYCLE"}
        BY <1>2, <1>4
    <2> QED BY <1>1, <2>1 DEF SmState, Refused
<1>7. NoRestart'
    <2> SUFFICES ASSUME state' = "IDLE", err_d' # 0, ~rx_ready
                 PROVE  ifstate' # "BODY"
        BY <1>2 DEF NoRestart
    <2>1. state \in {"HDR", "BUS_CYCLE"} /\ err(rx, bus) # 0
        BY <1>2, <1>4
    <2>2. state = "HDR"
        BY <1>1, <2>1 DEF SmState
    <2>3. ifstate = "BODY" /\ EndOfBody
        BY <1>3, <2>2 DEF InStep, rx_ready, EndOfBody, tx_hdr
    <2> QED BY <1>1, <2>3 DEF IfState
<1> QED BY <1>5, <1>6, <1>7 DEF Control

-----------------------------------------------------------------------------
\* What an edge does to the history: it begins a transaction, goes on with the
\* last one, or leaves all as it is.
LEMMA ServedStep ==
    ASSUME ServedOK, HasBegun, NEW rx, NEW bus, Serve(rx, bus)
    PROVE  /\ ServedOK'
           /\ CASE state = "HDR" /\ rx_ready /\ err_d = 0 ->
                     served' # <<>> /\ Last(served').code = err(rx, bus)
                [] state = "BUS_CYCLE" ->
                     served' # <<>> /\ Last(served').code = err(rx, bus)
                [] OTHER -> served' = served
<1> DEFINE e == err(rx, bus)
<1>1. PICK S : served \in Seq(S) /\ Records(S)
    BY DEF ServedOK
<1>2. CASE state = "HDR" /\ rx_ready /\ err_d = 0
    <2> DEFINE t == [type |-> rx.type, at |-> rctr, cycles |-> <<>>, code |-> e]
    <2> DEFINE T == S \cup {t}
    <2>1. served' = Append(served, t)
        BY <1>2 DEF Serve
    <2>2. served \in Seq(T)
        BY <1>1, SeqMonotonic
    <2>3. Records(T) /\ t.code = e
        BY <1>1 DEF Records
    <2> HIDE DEF t, e
    <2>4. /\ served' \in Seq(T) /\ served' # <<>> /\ Len(served') = Len(served) + 1
          /\ served'[Len(served) + 1] = t
        BY <2>1, <2>2, AppendProperties
    <2>5. ServedOK'
        BY <2>3, <2>4 DEF ServedOK, Records
    <2> QED BY <1>2, <2>3, <2>4, <2>5 DEF Last, e
<1>3. CASE state = "BUS_CYCLE"
    <2> DEFINE last == Len(served)
               old  == served[last]
               done == IF ack(bus) THEN Append(old.cycles, Cycle(bus)) ELSE old.cycles
               t    == [old EXCEPT !.cycles = done, !.code = e]
               T    == S \cup {t}
    <2>1. served' = [served EXCEPT ![last] = t]
        BY <1>3 DEF Serve
    <2>2. served # <<>>
        BY <1>3 DEF HasBegun
    <2>3. last \in 1 .. Len(served) /\ old \in S
        BY <1>1, <2>2, EmptySeq, ElementOfSeq
    <2>4. served \in Seq(T)
        BY <1>1, SeqMonotonic
    <2>5. "code" \in DOMAIN old /\ old = [f \in DOMAIN old |-> old[f]]
        BY <1>1, <2>3 DEF Records
    <2> HIDE DEF done, old, e
    <2>6. t.code = e /\ "code" \in DOMAIN t /\ t = [f \in DOMAIN t |-> t[f]]
        BY <2>5
    <2>7. Records(T)
        BY <1>1, <2>6 DEF Records
    <2> HIDE DEF t
    <2>8. served' \in Seq(T) /\ Len(served') = Len(served) /\ served'[last] = t
        BY <2>1, <2>3, <2>4, ExceptSeq
    <2>9. ServedOK'
        BY <2>7, <2>8 DEF ServedOK, Records
    <2>10. served' # <<>>
        BY <2>3, <2>8, EmptySeq
    <2> QED BY <1>3, <2>6, <2>8, <2>9, <2>10 DEF Last, e
<1>4. CASE ~(state = "HDR" /\ rx_ready /\ err_d = 0) /\ state # "BUS_CYCLE"
    <2>1. served' = served
        BY <1>4 DEF Serve
    <2> QED BY <1>1, <1>4, <2>1 DEF ServedOK, Records
<1> QED BY <1>2, <1>3, <1>4

\* An edge never puts a transaction behind a failed one.
LEMMA EdgeServed ==
    ASSUME IInv, NEW grant \in BOOLEAN, NEW bus, Work(grant, bus)
    PROVE  ServedOK' /\ HasBegun' /\ AfterError'
<1>1. PICK rx : SmState(rx, bus) /\ SmRegisters(rx, bus) /\ IfState(grant) /\ Serve(rx, bus)
    BY DEF Work, Edge
<1>2. /\ err_d' = IF state = "IDLE" THEN 0 ELSE err(rx, bus)
      /\ rx_ready_d' = rx_ready
      /\ request' = IF ifstate = "DONE" THEN NoPacket ELSE request
    BY <1>1 DEF SmRegisters, Work
<1>3. /\ state \in SmStates /\ rctr \in Nat /\ blen \in Nat /\ ifstate \in IfStates
      /\ InStep /\ ErrorStops /\ NoRestart /\ ServedOK /\ HasBegun /\ AfterError
    BY DEF IInv, TypeOK, Control
<1>4. ServedOK'
    BY <1>1, <1>3, ServedStep
<1>5. CASE state = "HDR" /\ rx_ready /\ err_d = 0
    <2>1. served' # <<>> /\ Last(served').code = err(rx, bus)
        BY <1>1, <1>3, <1>5, ServedStep
    <2>2. ifstate = "BODY" /\ ~EndOfBody
        BY <1>3, <1>5 DEF InStep, rx_ready, EndOfBody, tx_err
    <2>3. ifstate' = "BODY"
        BY <1>1, <2>2 DEF IfState
    <2>4. err(rx, bus) # 0 => state' = "IDLE"
        BY <1>1, <1>5 DEF SmState, Refused
    <2> QED BY <1>2, <1>4, <1>5, <2>1, <2>3, <2>4 DEF HasBegun, AfterError
<1>6. CASE state = "BUS_CYCLE"
    <2>1. served' # <<>> /\ Last(served').code = err(rx, bus)
        BY <1>1, <1>3, <1>6, ServedStep
    <2>2. err(rx, bus) # 0 => state' = "HDR"
        BY <1>1, <1>6 DEF SmState
    <2> QED BY <1>2, <1>4, <1>6, <2>1, <2>2 DEF HasBegun, AfterError
<1>7. CASE ~(state = "HDR" /\ rx_ready /\ err_d = 0) /\ state # "BUS_CYCLE"
    <2>1. served' = served
        BY <1>1, <1>3, <1>7, ServedStep
    <2>2. HasBegun'
        <3> SUFFICES ASSUME state' \notin {"IDLE", "HDR"} PROVE served # <<>>
            BY <2>1 DEF HasBegun
        <3>1. CASE state = "IDLE"
            BY <1>1, <3>1 DEF SmState
        <3>2. CASE state = "HDR"
            BY <1>1, <1>7, <3>2 DEF SmState, Refused
        <3> QED BY <1>3, <3>1, <3>2 DEF HasBegun
    <2>3. AfterError'
        <3> SUFFICES ASSUME served # <<>>, Last(served).code # 0
                     PROVE  /\ state' = "IDLE"
                            /\ ifstate' \in {"DONE", "GAP", "IDLE"}
                            /\ ifstate' \in {"IDLE", "GAP"} => request' = NoPacket
            BY <2>1 DEF AfterError
        <3>1. CASE state = "HDR" /\ err_d # 0
            <4>1. ifstate = "BODY" /\ EndOfBody
                BY <1>3, <3>1 DEF InStep, EndOfBody, tx_err
            <4> QED BY <1>1, <3>1, <4>1 DEF SmState, Refused, IfState
        <3>2. CASE /\ state = "IDLE"
                   /\ ifstate \in {"BODY", "DONE", "GAP", "IDLE"}
                   /\ ifstate = "BODY" => (err_d # 0 /\ rx_ready_d)
                   /\ ifstate \in {"IDLE", "GAP"} => request = NoPacket
            <4>1. ~start
                BY <3>2 DEF start, rx_ready
            <4>2. state' = "IDLE"
                BY <1>1, <3>2, <4>1 DEF SmState
            <4>3. CASE ifstate = "BODY"
                BY <1>1, <3>2, <4>2, <4>3 DEF IfState, EndOfBody, tx_err
            <4>4. CASE ifstate = "DONE"
                BY <1>1, <1>2, <4>2, <4>4 DEF IfState
            <4>5. CASE ifstate \in {"GAP", "IDLE"}
                BY <1>1, <1>2, <3>2, <4>2, <4>5 DEF IfState
            <4> QED BY <3>2, <4>3, <4>4, <4>5
        <3> QED BY <1>3, <3>1, <3>2 DEF AfterError
    <2> QED BY <1>4, <2>2, <2>3
<1> QED BY <1>5, <1>6, <1>7

\* The next request finds both machines at rest and an empty history.
LEMMA ArrivalKeeps ==
    ASSUME IInv, Arrival
    PROVE  IInv'
<1> USE DEF IInv, Arrival, ifVars, smVars
<1>1. TypeOK'
    BY TransactorAssumption DEF TypeOK
<1>2. Control'
    BY DEF Control, InStep, ErrorStops, NoRestart
<1>3. ServedOK'
    BY EmptySeq DEF ServedOK, Records
<1>4. HasBegun' /\ AfterError'
    BY DEF HasBegun, AfterError, InStep, Control
<1> QED BY <1>1, <1>2, <1>3, <1>4

-----------------------------------------------------------------------------
\* The registers after reset satisfy the invariant.
LEMMA InvInit == Init => IInv
<1> SUFFICES ASSUME Init PROVE IInv
    OBVIOUS
<1> USE DEF Init
<1>1. TypeOK
    <2>1. 0 \in 0 .. WordRange - 1 /\ 0 \in 0 .. TIMEOUT /\ 0 \in 0 .. MaxPackets
        BY TransactorAssumption
    <2>2. /\ ifstate \in IfStates /\ state \in SmStates
          /\ {start_d, first, rx_ready_d, rmw_write} \subseteq BOOLEAN
        BY DEF IfStates, SmStates
    <2> QED BY <2>1, <2>2 DEF TypeOK
<1>2. Control
    BY DEF Control, InStep, ErrorStops, NoRestart
<1>3. ServedOK
    BY EmptySeq DEF ServedOK, Records
<1>4. HasBegun /\ AfterError
    BY DEF HasBegun, AfterError
<1> QED BY <1>1, <1>2, <1>3, <1>4 DEF IInv

\* Every edge keeps it.
LEMMA InvStep == IInv /\ [Next]_vars => IInv'
<1> SUFFICES ASSUME IInv, [Next]_vars PROVE IInv'
    OBVIOUS
<1>1. CASE Clock
    <2>1. PICK grant \in BOOLEAN, bus \in {"wait", "ack", "err"} : Work(grant, bus)
        BY <1>1 DEF Clock
    <2>2. TypeOK' /\ Control'
        BY <2>1, EdgeTypeOK, EdgeControl DEF IInv
    <2>3. ServedOK' /\ HasBegun' /\ AfterError'
        BY <2>1, EdgeServed
    <2> QED BY <2>2, <2>3 DEF IInv
<1>2. CASE Arrival
    BY <1>2, ArrivalKeeps
<1>3. CASE UNCHANGED vars
    BY <1>3 DEF vars, ifVars, smVars, IInv, TypeOK, Control, InStep, ErrorStops,
        NoRestart, ServedOK, Records, HasBegun, AfterError
<1> QED BY <1>1, <1>2, <1>3 DEF Next

\* The inductive invariant of the transactor: besides the types, what the error
\* register of transactor_sm.vhd and the states of both machines have to do with
\* the transaction that failed.
THEOREM TransactorInvariant == Spec => []IInv
<1> QED BY InvInit, InvStep, PTL DEF Spec

\* transactor_if.vhd and transactor_sm.vhd, which share no state, stay in step: the
\* bus side is at rest whenever the packet side is outside the body, every
\* register is in its range, and after a failed transaction no bus cycle is run
\* until the next request.
THEOREM MachinesInStep == Spec => []MachinesInv
<1>1. IInv => MachinesInv
    BY DEF IInv, Control, MachinesInv, AfterError, ErrorEndsPacket, strobe
<1> QED BY <1>1, TransactorInvariant, PTL
-----------------------------------------------------------------------------
\* The history is a list of records, whatever the cycles hold.
Codes == {0, 1, 4, 5, 6, 7}
Entries(C) == [type : HeaderTypes, at : Nat, cycles : Seq(C), code : Codes]
ServedType == \E C : served \in Seq(Entries(C))

\* What an entry s of the history must be, given its header t and its place w: the
\* first of the cycles asked for, and all of them when it is complete.
Got(s) == IF s.cycles = <<>> THEN 0 ELSE s.cycles[1].data[1]
Asked(s, t) == Cycles(t, s.at, Got(s))

Follows(s, t, w) ==
    /\ s.at = w /\ s.type = t.type
    /\ Len(s.cycles) <= Len(Asked(s, t))
    /\ \A i \in 1 .. Len(s.cycles) : Fits(s.cycles[i], Asked(s, t)[i])

\* The entry s with other cycles and another code.
With(s, cycles, code) == [type |-> s.type, at |-> s.at, cycles |-> cycles, code |-> code]

ReadTypes == {"RD", "RDN", "RDC"}

Complete(s, t) == s.code = 0 /\ Len(s.cycles) = Len(Asked(s, t))

\* A history f is as the packet p asks: in order, and all but the last complete.
AsAsked(f, p) ==
    /\ Len(f) <= Len(p)
    /\ \A k \in 1 .. Len(f) : Follows(f[k], p[k], Place(p, k))
    /\ \A k \in 1 .. Len(f) - 1 : Complete(f[k], p[k])

ServedFollows == request # NoPacket => AsAsked(served, request)

\* The transaction under way: its entry, its header and its place.
Cur  == served[Len(served)]
Hd   == request[Len(served)]
From == Place(request, Len(served))
Ran  == Len(Cur.cycles)
Rmw  == Hd.type \in RmwTypes
Here == addr = <<From + 1, IF Hd.type \in {"RD", "WR"} THEN Ran ELSE 0>>

\* Where the request is read and what the registers hold in each state of the bus
\* side: before the first cycle, between the cycles of a plain transaction, and from
\* the read to the write of a read-modify-write.
AtAddr == Ran = 0 /\ ~rmw_write /\ words_todo = Hd.words /\ rctr = From + 1

AtPlain ==
    /\ ~rmw_write /\ Ran < Hd.words /\ words_todo = Hd.words - 1 - Ran /\ Here
    /\ rctr = IF Hd.type \in WriteTypes THEN From + 2 + Ran ELSE From + 1

AtRead == ~rmw_write /\ Ran = 0 /\ words_todo = 0 /\ Here /\ rctr = From + 1

AtRmw1 == Rmw /\ ~rmw_write /\ Ran = 1 /\ Here /\ rmw_input = Got(Cur) /\ rctr = From + 2

AtRmw2 ==
    /\ Hd.type = "RMWB" /\ rmw_write /\ Ran = 1 /\ words_todo = 0 /\ Here
    /\ rmw_input = Got(Cur) /\ rmw_coeff = From + 2 /\ rctr = From + 3

AtWrite ==
    /\ rmw_write /\ Ran = 1 /\ words_todo = 0 /\ Here
    /\ rmw_result = Asked(Cur, Hd)[2].data /\ rctr = From + Size(Hd)

Stage ==
    /\ state = "ADDR" => AtAddr
    /\ state = "BUS_CYCLE" => IF Rmw THEN AtRead \/ AtWrite ELSE AtPlain
    /\ state = "RMW_1" => AtRmw1
    /\ state = "RMW_2" => AtRmw2

UnderWay ==
    /\ Len(served) > 0 /\ Cur.code = 0 /\ Hd.type # "BAD"
    /\ hdr = [type |-> Hd.type, at |-> From]
    /\ Stage

\* Between two transactions the next word is the next header.
BetweenTwo ==
    /\ rctr = Place(request, Len(served) + 1)
    /\ Len(served) > 0 => Complete(Cur, Hd)

\* What the machines know of the request, before, in and after its body.
InBody ==
    CASE err_d # 0 -> Len(served) > 0 /\ Cur.code # 0
      [] err_d = 0 /\ state = "IDLE" -> rctr = 1 /\ served = <<>>
      [] err_d = 0 /\ state = "HDR" -> BetweenTwo
      [] OTHER -> UnderWay

AtRequest ==
    /\ ifstate \in {"FIRST", "HDR", "PREBODY", "BODY", "DONE"} =>
           request # NoPacket /\ blen = BodyLength(request)
    /\ ifstate = "GAP" => request = NoPacket
    /\ ifstate \in {"IDLE", "FIRST", "HDR", "PREBODY"} /\ request # NoPacket => served = <<>>
    /\ ifstate = "BODY" => InBody

BusInv == IInv /\ ServedType /\ ServedFollows /\ AtRequest /\ NothingLeftUnserved

-----------------------------------------------------------------------------
\* The i-th cycle of a plain read or write t whose header is word w.
ReadCycle(t, w, i, c) ==
    c.we = FALSE /\ c.addr = <<w + 1, IF t.type = "RD" THEN i - 1 ELSE 0>>

WriteCycle(t, w, i, c) ==
    /\ c.we = TRUE /\ c.addr = <<w + 1, IF t.type = "WR" THEN i - 1 ELSE 0>>
    /\ c.data = <<w + 1 + i>>

\* A plain transaction asks for as many cycles as it has words.
LEMMA PlainLength ==
    ASSUME NEW t \in Headers, NEW w, NEW g, t.type \in ReadTypes \cup WriteTypes
    PROVE  Len(Cycles(t, w, g)) = t.words /\ t.words \in Nat
<1>1. t.words \in Nat
    BY TransactorAssumption DEF Headers
<1>2. CASE t.type = "RD"
    BY <1>1, <1>2 DEF Cycles
<1>3. CASE t.type \in {"RDN", "RDC"}
    BY <1>1, <1>3 DEF Cycles
<1>4. CASE t.type = "WR"
    BY <1>1, <1>4 DEF Cycles
<1>5. CASE t.type \in {"WRN", "WRC"}
    BY <1>1, <1>5 DEF Cycles
<1> QED BY <1>1, <1>2, <1>3, <1>4, <1>5 DEF ReadTypes, WriteTypes

\* Each cycle of a read is a read.
LEMMA PlainReads ==
    ASSUME NEW t \in Headers, NEW w \in Nat, NEW g, NEW i \in 1 .. t.words,
           t.type \in ReadTypes
    PROVE  ReadCycle(t, w, i, Cycles(t, w, g)[i])
<1>1. CASE t.type = "RD"
    BY <1>1 DEF Cycles, ReadCycle
<1>2. CASE t.type \in {"RDN", "RDC"}
    BY <1>2 DEF Cycles, ReadCycle
<1> QED BY <1>1, <1>2 DEF ReadTypes

\* Each cycle of a write puts the next word of the request on the bus.
LEMMA PlainWrites ==
    ASSUME NEW t \in Headers, NEW w \in Nat, NEW g, NEW i \in 1 .. t.words,
           t.type \in WriteTypes
    PROVE  WriteCycle(t, w, i, Cycles(t, w, g)[i])
<1>1. CASE t.type = "WR"
    BY <1>1 DEF Cycles, WriteCycle
<1>2. CASE t.type \in {"WRN", "WRC"}
    BY <1>2 DEF Cycles, WriteCycle
<1> QED BY <1>1, <1>2 DEF WriteTypes

\* A read-modify-write asks for a read and a write, at one address.
LEMMA RmwCycles ==
    ASSUME NEW t \in Headers, NEW w \in Nat, NEW g, t.type \in RmwTypes
    PROVE  /\ Len(Cycles(t, w, g)) = 2
           /\ Cycles(t, w, g)[1].we = FALSE /\ Cycles(t, w, g)[1].addr = <<w + 1, 0>>
           /\ Cycles(t, w, g)[2].we = TRUE /\ Cycles(t, w, g)[2].addr = <<w + 1, 0>>
<1>1. CASE t.type = "RMWB"
    BY <1>1 DEF Cycles
<1>2. CASE t.type = "RMWS"
    BY <1>2 DEF Cycles
<1> QED BY <1>1, <1>2 DEF RmwTypes

\* What the write of a read-modify-write puts on the bus.
LEMMA RmwData ==
    ASSUME NEW t \in Headers, NEW w \in Nat, NEW g
    PROVE  /\ t.type = "RMWB" => Cycles(t, w, g)[2].data = <<g, w + 2, w + 3>>
           /\ t.type = "RMWS" => Cycles(t, w, g)[2].data = <<g, w + 2>>
<1>1. CASE t.type = "RMWB"
    BY <1>1 DEF Cycles
<1>2. CASE t.type = "RMWS"
    BY <1>2 DEF Cycles
<1> QED BY <1>1, <1>2

\* A header that is refused asks for none; the type tells which of these applies.
LEMMA CyclesOf ==
    ASSUME NEW t \in Headers, NEW w \in Nat, NEW g
    PROVE  /\ Len(Cycles(t, w, g)) =
                 IF t.type \in RmwTypes THEN 2 ELSE IF t.type = "BAD" THEN 0 ELSE t.words
           /\ t.type = "BAD" \/ t.type \in RmwTypes \/ t.type \in WriteTypes
                 \/ t.type \in ReadTypes
           /\ t.words \in 0 .. WordRange - 1
<1>1. t.words \in 0 .. WordRange - 1 /\ t.type \in HeaderTypes
    BY DEF Headers
<1>2. \/ t.type = "BAD" \/ t.type \in RmwTypes \/ t.type \in WriteTypes
      \/ t.type \in ReadTypes
    BY <1>1 DEF HeaderTypes, CfgTypes, WriteTypes, ReadTypes
<1>3. CASE t.type = "BAD"
    BY <1>1, <1>2, <1>3 DEF Cycles, RmwTypes
<1>4. CASE t.type \in RmwTypes
    BY <1>1, <1>2, <1>4, RmwCycles
<1>5. CASE t.type \in WriteTypes
    <2>1. t.type \notin RmwTypes /\ t.type # "BAD"
        BY <1>5 DEF WriteTypes, RmwTypes
    <2>2. Len(Cycles(t, w, g)) = t.words
        BY <1>5, PlainLength
    <2> QED BY <1>1, <1>2, <2>1, <2>2
<1>6. CASE t.type \in ReadTypes
    <2>1. t.type \notin RmwTypes /\ t.type # "BAD"
        BY <1>6 DEF RmwTypes, ReadTypes
    <2>2. Len(Cycles(t, w, g)) = t.words
        BY <1>6, PlainLength
    <2> QED BY <1>1, <1>2, <2>1, <2>2
<1> QED BY <1>2, <1>3, <1>4, <1>5, <1>6

\* What was read first changes neither their number nor the first of them.
LEMMA SameFirst ==
    ASSUME NEW t \in Headers, NEW w \in Nat, NEW g, NEW h
    PROVE  /\ Len(Cycles(t, w, g)) = Len(Cycles(t, w, h))
           /\ Cycles(t, w, g)[1] = Cycles(t, w, h)[1]
<1>1. Len(Cycles(t, w, g)) = Len(Cycles(t, w, h))
    <2>1. /\ Len(Cycles(t, w, g)) =
                IF t.type \in RmwTypes THEN 2 ELSE IF t.type = "BAD" THEN 0 ELSE t.words
          /\ Len(Cycles(t, w, h)) =
                IF t.type \in RmwTypes THEN 2 ELSE IF t.type = "BAD" THEN 0 ELSE t.words
        BY CyclesOf
    <2> QED BY <2>1
<1>2. CASE t.type = "RMWB"
    BY <1>1, <1>2 DEF Cycles
<1>3. CASE t.type = "RMWS"
    BY <1>1, <1>3 DEF Cycles
<1>4. CASE t.type \notin {"RMWB", "RMWS"}
    BY <1>4 DEF Cycles
<1> QED BY <1>1, <1>2, <1>3, <1>4

\* One more cycle that fits.
LEMMA OneMore ==
    ASSUME NEW C, NEW s \in Entries(C), NEW t \in Headers, NEW w \in Nat, Follows(s, t, w),
           NEW c, NEW e \in Codes,
           NEW new \in Seq(C \cup {c}), Len(new) = Len(s.cycles) + 1,
           Len(new) <= Len(Asked(s, t)), Fits(c, Asked(s, t)[Len(new)]),
           \A i \in 1 .. Len(new) : new[i] = IF i = Len(new) THEN c ELSE s.cycles[i]
    PROVE  With(s, new, e) \in Entries(C \cup {c}) /\ Follows(With(s, new, e), t, w)
<1> DEFINE old == s.cycles
           r == With(s, new, e)
<1>1. /\ s.type = t.type /\ s.at = w /\ w \in Nat /\ old \in Seq(C)
      /\ r.type = s.type /\ r.at = w /\ r.cycles = new /\ r.code = e
      /\ r = [type |-> s.type, at |-> w, cycles |-> new, code |-> e] /\ s.type \in HeaderTypes
    BY DEF Follows, Entries, With
<1> HIDE DEF r
<1>3. /\ new \in Seq(C \cup {c}) /\ Len(new) = Len(old) + 1 /\ Len(old) \in Nat /\ new # <<>>
      /\ \A i \in 1 .. Len(old) : new[i] = old[i]
      /\ new[Len(old) + 1] = c
    <2>1. Len(old) \in Nat
        BY <1>1, LenProperties
    <2> HIDE DEF old
    <2>2. new # <<>>
        BY <2>1, EmptySeq DEF old
    <2>3. \A i \in 1 .. Len(old) : i \in 1 .. Len(new) /\ i # Len(new)
        BY <2>1 DEF old
    <2> QED BY <2>1, <2>2, <2>3 DEF old
<1>4. r \in Entries(C \cup {c})
    <2> HIDE DEF old
    <2> QED BY <1>1, <1>3 DEF Entries
<1>5. Got(r) = IF old = <<>> THEN c.data[1] ELSE Got(s)
    <2>1. CASE old = <<>>
        <3> QED BY <1>1, <1>3, <2>1 DEF Got
    <2>2. CASE old # <<>>
        <3>1. 1 \in 1 .. Len(old)
            BY <1>1, <2>2, EmptySeq
        <3> QED BY <1>1, <1>3, <2>2, <3>1 DEF Got
    <2> QED BY <2>1, <2>2
<1> DEFINE A == Asked(s, t)
           B == Asked(r, t)
<1>6. /\ Len(B) = Len(A) /\ B[1] = A[1]
    BY <1>1, SameFirst DEF Asked
<1>7. old # <<>> => B = A
    BY <1>1, <1>5 DEF Asked
<1>8. Len(old) + 1 <= Len(A) /\ Fits(c, A[Len(old) + 1]) /\ \A i \in 1 .. Len(old) : Fits(old[i], A[i])
    BY <1>3 DEF Follows
<1>9. Len(A) \in Nat
    BY <1>1, CyclesOf DEF Asked
<1>10. Len(new) <= Len(B) /\ \A i \in 1 .. Len(new) : Fits(new[i], B[i])
    <2> HIDE DEF A, B
    <2>1. CASE old = <<>>
        <3>1. Len(old) = 0
            BY <1>1, <2>1
        <3> QED BY <1>3, <1>6, <1>8, <1>9, <3>1
    <2>2. CASE old # <<>>
        <3> HIDE DEF old
        <3>1. B = A /\ Len(new) = Len(old) + 1 /\ Len(old) \in Nat /\ Len(A) \in Nat
            BY <1>3, <1>7, <1>9, <2>2
        <3>2. ASSUME NEW i \in 1 .. Len(new) PROVE Fits(new[i], A[i])
            <4>1. CASE i = Len(old) + 1
                BY <1>3, <1>8, <4>1
            <4>2. CASE i # Len(old) + 1
                <5>1. i \in 1 .. Len(old)
                    BY <3>1, <4>2
                <5> QED BY <1>3, <1>8, <5>1
            <4> QED BY <4>1, <4>2
        <3> QED BY <1>8, <3>1, <3>2
    <2> QED BY <2>1, <2>2
<1>11. Follows(r, t, w)
    <2> QED BY <1>1, <1>10 DEF Follows
<1> QED BY <1>4, <1>11 DEF r

\* The same entry with another code.
LEMMA OtherCode ==
    ASSUME NEW C, NEW s \in Entries(C), NEW t, NEW w, Follows(s, t, w), NEW e \in Codes,
           NEW r, r = With(s, s.cycles, e)
    PROVE  /\ r \in Entries(C) /\ Follows(r, t, w) /\ r.code = e
           /\ r.cycles = s.cycles /\ (e = s.code => r = s)
<1>1. /\ s.cycles \in Seq(C) /\ s.type \in HeaderTypes /\ s.at \in Nat
      /\ r = [type |-> s.type, at |-> s.at, cycles |-> s.cycles, code |-> e]
      /\ s = [type |-> s.type, at |-> s.at, cycles |-> s.cycles, code |-> s.code]
    BY DEF Entries, With
<1>2. r.type = s.type /\ r.at = s.at /\ r.cycles = s.cycles /\ r.code = e
    BY <1>1
<1>3. Got(r) = Got(s)
    BY <1>2 DEF Got
<1>4. Follows(r, t, w)
    BY <1>2, <1>3 DEF Follows, Asked
<1> QED BY <1>1, <1>2, <1>4 DEF Entries

\* The last entry of the history is replaced by another that follows its header.
LEMMA LastReplaced ==
    ASSUME NEW C, NEW f \in Seq(Entries(C)), NEW p \in Seq(Headers), AsAsked(f, p),
           Len(f) > 0, NEW r \in Entries(C), Follows(r, p[Len(f)], Place(p, Len(f))),
           NEW g, Len(g) = Len(f), \A k \in 1 .. Len(f) : g[k] = IF k = Len(f) THEN r ELSE f[k]
    PROVE  AsAsked(g, p)
<1>1. Len(f) \in 1 .. Len(f)
    BY LenProperties
<1>2. /\ Len(g) = Len(f) /\ g[Len(f)] = r
      /\ \A k \in 1 .. Len(f) : k # Len(f) => g[k] = f[k]
    BY <1>1
<1>3. \A k \in 1 .. Len(g) : Follows(g[k], p[k], Place(p, k))
    <2> SUFFICES ASSUME NEW k \in 1 .. Len(f) PROVE Follows(g[k], p[k], Place(p, k))
        BY <1>2
    <2> QED BY <1>2 DEF AsAsked
<1>4. \A k \in 1 .. Len(g) - 1 : Complete(g[k], p[k])
    <2> SUFFICES ASSUME NEW k \in 1 .. Len(f) - 1 PROVE Complete(g[k], p[k])
        BY <1>2
    <2>1. k \in 1 .. Len(f) /\ k # Len(f)
        BY <1>1
    <2> QED BY <1>2, <2>1 DEF AsAsked
<1> QED BY <1>2, <1>3, <1>4 DEF AsAsked

\* A transaction begun behind those that are complete.
LEMMA OneBegun ==
    ASSUME NEW C, NEW f \in Seq(Entries(C)), NEW p \in Seq(Headers), AsAsked(f, p),
           Len(f) < Len(p), Len(f) > 0 => Complete(f[Len(f)], p[Len(f)]),
           NEW g, Len(g) = Len(f) + 1, \A k \in 1 .. Len(f) : g[k] = f[k],
           Follows(g[Len(g)], p[Len(g)], Place(p, Len(g)))
    PROVE  AsAsked(g, p)
<1>1. Len(f) \in Nat /\ Len(p) \in Nat
    BY LenProperties
<1>2. \A k \in 1 .. Len(g) : Follows(g[k], p[k], Place(p, k))
    <2> SUFFICES ASSUME NEW k \in 1 .. Len(g), k # Len(g) PROVE Follows(f[k], p[k], Place(p, k))
        BY <1>1
    <2> QED BY <1>1 DEF AsAsked
<1>3. \A k \in 1 .. Len(g) - 1 : Complete(g[k], p[k])
    <2> SUFFICES ASSUME NEW k \in 1 .. Len(f) PROVE Complete(f[k], p[k])
        BY <1>1
    <2>1. CASE k = Len(f)
        BY <1>1, <2>1
    <2>2. CASE k # Len(f)
        BY <1>1, <2>2 DEF AsAsked
    <2> QED BY <2>1, <2>2
<1> QED BY <1>1, <1>2, <1>3 DEF AsAsked

-----------------------------------------------------------------------------
\* A count that is not zero goes down by one.
LEMMA CountDown ==
    ASSUME NEW n \in 1 .. WordRange - 1
    PROVE  (n - 1) % WordRange = n - 1
<1>1. n - 1 \in 0 .. WordRange - 1 /\ WordRange \in Nat \ {0}
    BY TransactorAssumption
<1> QED BY <1>1

\* What is known of the transaction under way.
LEMMA BodyFacts ==
    ASSUME BusInv, state \notin {"IDLE", "HDR"}
    PROVE  /\ ifstate = "BODY" /\ err_d = 0 /\ rctr \in Nat
           /\ request # NoPacket /\ request \in Seq(Headers) /\ AsAsked(served, request)
           /\ Len(served) \in 1 .. Len(request)
           /\ UnderWay
           /\ Hd \in Headers /\ From \in Nat \ {0} /\ Ran \in Nat
           /\ Hd.words \in 0 .. WordRange - 1 /\ Hd.type # "BAD"
           /\ hdr.type = Hd.type /\ hdr.at = From
           /\ Place(request, Len(served) + 1) = From + Size(Hd)
           /\ Follows(Cur, Hd, From)
<1>1. ifstate = "BODY" /\ err_d = 0 /\ rctr \in Nat
    BY DEF BusInv, IInv, Control, InStep, ErrorStops, TypeOK
<1>2. request # NoPacket /\ request \in Seq(Headers)
    BY <1>1, RequestFacts DEF BusInv, AtRequest, IInv
<1>3. AsAsked(served, request)
    BY <1>2 DEF BusInv, ServedFollows
<1>4. UnderWay
    BY <1>1 DEF BusInv, AtRequest, InBody
<1>5. PICK C : served \in Seq(Entries(C))
    BY DEF BusInv, ServedType
<1>6. Len(served) \in 1 .. Len(request)
    BY <1>2, <1>3, <1>4, <1>5, LenProperties DEF UnderWay, AsAsked
<1>7. Hd \in Headers
    BY <1>2, <1>6, ElementOfSeq DEF Hd
<1>8. From \in Nat \ {0} /\ Place(request, Len(served) + 1) = From + Size(Hd)
    <2>1. Len(served) \in 1 .. Len(request) + 1
        BY <1>2, <1>6, LenProperties
    <2> QED BY <1>2, <1>6, <2>1, PlaceFacts DEF From, Hd
<1>9. Ran \in Nat
    <2>1. Cur \in Entries(C)
        <3>1. Len(served) \in 1 .. Len(served)
            BY <1>6
        <3> QED BY <1>5, <3>1, ElementOfSeq DEF Cur
    <2>2. Cur.cycles \in Seq(C)
        BY <2>1 DEF Entries
    <2> QED BY <2>2, LenProperties DEF Ran
<1>10. Hd.words \in 0 .. WordRange - 1
    BY <1>7 DEF Headers
<1>11. Follows(Cur, Hd, From)
    <2>1. Len(served) \in 1 .. Len(served)
        BY <1>6
    <2> QED BY <1>3, <2>1 DEF AsAsked, Cur, Hd, From
<1>12. hdr.type = Hd.type /\ hdr.at = From /\ Hd.type # "BAD"
    BY <1>4 DEF UnderWay
<1> QED BY <1>1, <1>2, <1>3, <1>4, <1>6, <1>7, <1>8, <1>9, <1>10, <1>11, <1>12

\* One edge, as far as the bus side and the history go, while the body lasts.
Step(rx, bus) ==
    /\ SmState(rx, bus) /\ SmRegisters(rx, bus) /\ WordsTodo(rx, bus)
    /\ IfRegisters(bus) /\ Serve(rx, bus) /\ request' = request

Kept == ServedType' /\ ServedFollows' /\ InBody'

\* An edge that runs no cycle leaves the history and its last entry alone.
LEMMA Untouched ==
    ASSUME BusInv, served' = served, request' = request
    PROVE  /\ ServedType' /\ ServedFollows'
           /\ Cur' = Cur /\ Hd' = Hd /\ From' = From /\ Ran' = Ran /\ Rmw' = Rmw
           /\ Len(served)' = Len(served) /\ Got(Cur)' = Got(Cur)
<1>1. ServedType' /\ ServedFollows'
    BY DEF BusInv, ServedType, ServedFollows
<1>2. Cur' = Cur /\ Hd' = Hd /\ From' = From
    BY DEF Cur, Hd, From
<1> QED BY <1>1, <1>2 DEF Ran, Rmw, Got

\* The edge at which the address is taken.
LEMMA AddrStep ==
    ASSUME BusInv, state = "ADDR", NEW rx, NEW bus, Step(rx, bus)
    PROVE  Kept
<1>1. /\ ifstate = "BODY" /\ err_d = 0 /\ rctr \in Nat /\ UnderWay
      /\ Hd \in Headers /\ From \in Nat \ {0} /\ Hd.words \in 0 .. WordRange - 1
      /\ hdr.type = Hd.type /\ Place(request, Len(served) + 1) = From + Size(Hd)
    BY BodyFacts
<1>2. AtAddr /\ Len(served) > 0 /\ Cur.code = 0 /\ hdr = [type |-> Hd.type, at |-> From]
    BY <1>1 DEF UnderWay, Stage
<1>3. /\ served' = served /\ request' = request /\ err_d' = 0
      /\ hdr' = hdr /\ addr' = <<rctr, 0>> /\ ~rmw_write'
      /\ words_todo' = (words_todo - 1) % WordRange
      /\ state' = IF words_todo # 0 THEN "BUS_CYCLE" ELSE "HDR"
      /\ rctr' = IF write \/ words_todo = 0 THEN rctr + 1 ELSE rctr
    BY <1>1, <1>2 DEF Step, Serve, SmState, SmRegisters, WordsTodo, IfRegisters, err, strobe,
        rx_next, last_wd, AtAddr
<1>4. /\ ServedType' /\ ServedFollows' /\ Cur' = Cur /\ Hd' = Hd /\ From' = From
      /\ Ran' = Ran /\ Rmw' = Rmw /\ Len(served)' = Len(served)
    BY <1>3, Untouched
<1>5. write <=> Hd.type \in WriteTypes
    BY <1>1, <1>2 DEF write, AtAddr
<1>6. CASE words_todo = 0
    <2>1. state' = "HDR" /\ rctr' = From + 2
        BY <1>1, <1>2, <1>3, <1>6 DEF AtAddr
    <2>2. Hd.type \notin RmwTypes /\ Size(Hd) = 2 /\ Hd.words = 0
        <3>1. Hd.words = 0 /\ Hd.type \notin RmwTypes /\ Hd.type # "BAD"
            <4>1. Hd.words = 0
                BY <1>2, <1>6 DEF AtAddr
            <4>2. Hd.type \in RmwTypes => Hd.words = 1
                BY <1>1 DEF Headers
            <4> QED BY <4>1, <4>2, BodyFacts
        <3> QED BY <3>1 DEF Size, RmwTypes
    <2>3. Len(Asked(Cur, Hd)) = 0
        BY <1>1, <2>2, CyclesOf, BodyFacts DEF Asked, Follows
    <2>4. BetweenTwo'
        BY <1>1, <1>2, <1>3, <1>4, <2>1, <2>2, <2>3
        DEF BetweenTwo, Complete, AtAddr, Ran
    <2> QED BY <1>3, <1>4, <2>1, <2>4 DEF Kept, InBody
<1>7. CASE words_todo # 0
    <2>1. /\ state' = "BUS_CYCLE" /\ addr' = <<From + 1, 0>> /\ Ran' = 0 /\ Hd.words > 0
          /\ words_todo' = Hd.words - 1 /\ rctr' = IF Hd.type \in WriteTypes THEN From + 2 ELSE From + 1
        BY <1>1, <1>2, <1>3, <1>4, <1>5, <1>7, CountDown DEF AtAddr
    <2>2. Here'
        BY <1>4, <2>1 DEF Here
    <2>3. Rmw => AtRead'
        <3>1. Rmw => Hd.words = 1 /\ Hd.type \notin WriteTypes
            BY <1>1 DEF Rmw, Headers, RmwTypes, WriteTypes
        <3> QED BY <1>3, <1>4, <2>1, <2>2, <3>1 DEF AtRead
    <2>4. AtPlain'
        BY <1>1, <1>3, <1>4, <2>1, <2>2 DEF AtPlain
    <2>5. UnderWay'
        BY <1>1, <1>2, <1>3, <1>4, <2>1, <2>3, <2>4 DEF UnderWay, Stage
    <2> QED BY <1>3, <1>4, <2>1, <2>5 DEF Kept, InBody
<1> QED BY <1>6, <1>7

\* A cycle on the bus, which is the next one asked for: the history grows with it.
LEMMA BusServed ==
    ASSUME BusInv, state = "BUS_CYCLE", NEW rx, NEW bus, Serve(rx, bus), request' = request,
           ack(bus) => /\ Ran < Len(Asked(Cur, Hd))
                       /\ Fits(Cycle(bus), Asked(Cur, Hd)[Ran + 1])
    PROVE  /\ ServedType' /\ ServedFollows' /\ Len(served)' = Len(served)
           /\ Hd' = Hd /\ From' = From /\ Rmw' = Rmw /\ Cur'.code = err(rx, bus)
           /\ ~ack(bus) => Ran' = Ran /\ Got(Cur)' = Got(Cur)
           /\ ack(bus) => /\ Ran' = Ran + 1
                          /\ Ran = 0 => Got(Cur)' = Cycle(bus).data[1]
                          /\ Ran > 0 => Got(Cur)' = Got(Cur)
<1>1. /\ request # NoPacket /\ request \in Seq(Headers) /\ AsAsked(served, request)
      /\ Len(served) \in 1 .. Len(request) /\ Hd \in Headers /\ From \in Nat \ {0}
      /\ Follows(Cur, Hd, From)
    BY BodyFacts
<1>2. PICK C : served \in Seq(Entries(C))
    BY DEF BusInv, ServedType
<1>3. Cur \in Entries(C) /\ Cur.cycles \in Seq(C)
    <2>1. Len(served) \in 1 .. Len(served)
        BY <1>1
    <2>2. Cur \in Entries(C)
        BY <1>2, <2>1, ElementOfSeq DEF Cur
    <2> QED BY <2>2 DEF Entries
<1> DEFINE c == Cycle(bus)
           e == err(rx, bus)
           n == Len(served)
           done == IF ack(bus) THEN Append(Cur.cycles, c) ELSE Cur.cycles
           r == [Cur EXCEPT !.cycles = done, !.code = e]
<1>4. served' = [served EXCEPT ![n] = r]
    BY DEF Serve, Cur
<1>5. e \in Codes
    BY ErrFacts DEF Codes
<1>6. served \in Seq(Entries(C \cup {c}))
    <2>1. Entries(C) \subseteq Entries(C \cup {c})
        BY SeqMonotonic DEF Entries
    <2> QED BY <1>2, <2>1, SeqMonotonic
<1> HIDE DEF c, e
<1> HIDE DEF done
<1>14. r = With(Cur, done, e)
    <2>1. Cur = [type |-> Cur.type, at |-> Cur.at, cycles |-> Cur.cycles, code |-> Cur.code]
        BY <1>3 DEF Entries
    <2>2. r = [Cur EXCEPT !.cycles = done, !.code = e]
        OBVIOUS
    <2> HIDE DEF r
    <2> QED BY <2>1, <2>2 DEF With
<1>7. /\ r \in Entries(C \cup {c}) /\ Follows(r, Hd, From) /\ r.code = e
      /\ ~ack(bus) => r.cycles = Cur.cycles
      /\ ack(bus) => /\ Len(r.cycles) = Ran + 1
                     /\ Got(r) = IF Cur.cycles = <<>> THEN c.data[1] ELSE Got(Cur)
    <2>1. CASE ack(bus)
        <3>1. c \in C \cup {c} /\ Cur.cycles \in Seq(C \cup {c})
            BY <1>3, SeqMonotonic
        <3>2. /\ done \in Seq(C \cup {c}) /\ Len(done) = Len(Cur.cycles) + 1
              /\ \A i \in 1 .. Len(done) : done[i] = IF i = Len(done) THEN c ELSE Cur.cycles[i]
            BY <2>1, <3>1, AppendProperties DEF done
        <3>3. Len(done) <= Len(Asked(Cur, Hd)) /\ Fits(c, Asked(Cur, Hd)[Len(done)])
            <4>1. Len(done) = Ran + 1 /\ Ran \in Nat
                BY <3>2, BodyFacts DEF Ran
            <4>2. Len(Asked(Cur, Hd)) \in Nat
                BY <1>1, CyclesOf DEF Asked, Follows
            <4> QED BY <2>1, <4>1, <4>2 DEF c
        <3>5. From \in Nat /\ Hd \in Headers /\ Follows(Cur, Hd, From) /\ Cur \in Entries(C)
            BY <1>1, <1>3
        <3> HIDE DEF r
        <3>4. With(Cur, done, e) \in Entries(C \cup {c})
            BY <1>5, <3>2, <3>3, <3>5, OneMore
        <3>6. Follows(With(Cur, done, e), Hd, From)
            BY <1>5, <3>2, <3>3, <3>5, OneMore
        <3>7. r.cycles = done /\ r.code = e
            BY <1>14 DEF With
        <3>8. Got(r) = IF Cur.cycles = <<>> THEN c.data[1] ELSE Got(Cur)
            <4>1. Len(Cur.cycles) \in Nat /\ (Cur.cycles = <<>> <=> Len(Cur.cycles) = 0)
                BY <1>3, LenProperties, EmptySeq
            <4>2. done # <<>> /\ 1 \in 1 .. Len(done)
                BY <3>2, <4>1, EmptySeq
            <4>3. done[1] = IF Cur.cycles = <<>> THEN c ELSE Cur.cycles[1]
                BY <3>2, <4>1, <4>2
            <4> QED BY <3>7, <4>2, <4>3 DEF Got
        <3> QED BY <1>14, <2>1, <3>2, <3>4, <3>6, <3>7, <3>8 DEF Ran
    <2>2. CASE ~ack(bus)
        <3>1. r = With(Cur, Cur.cycles, e)
            BY <1>14, <2>2 DEF done
        <3>2. Cur \in Entries(C \cup {c})
            BY <1>3, SeqMonotonic DEF Entries
        <3> HIDE DEF r
        <3>3. /\ r \in Entries(C \cup {c}) /\ Follows(r, Hd, From) /\ r.code = e
              /\ r.cycles = Cur.cycles
            BY <1>1, <1>5, <3>1, <3>2, OtherCode
        <3> QED BY <2>2, <3>3
    <2> QED BY <2>1, <2>2
<1> HIDE DEF r
<1>8. /\ served' \in Seq(Entries(C \cup {c})) /\ Len(served') = n /\ served'[n] = r
      /\ AsAsked(served', request)
    <2>1. /\ Len(served) > 0 /\ Follows(r, request[Len(served)], Place(request, Len(served)))
        BY <1>1, <1>7 DEF Hd, From
    <2> HIDE DEF n
    <2>2. served' = [served EXCEPT ![Len(served)] = r]
        BY <1>4 DEF n
    <2>3. r \in Entries(C \cup {c})
        BY <1>7
    <2>4. /\ served' \in Seq(Entries(C \cup {c})) /\ Len(served') = Len(served)
          /\ \A k \in 1 .. Len(served) : served'[k] = IF k = Len(served) THEN r ELSE served[k]
        BY <1>1, <1>6, <2>2, <2>3, ExceptSeq
    <2>5. AsAsked(served', request)
        BY <1>1, <1>6, <2>1, <2>3, <2>4, LastReplaced
    <2> QED BY <1>1, <2>4, <2>5 DEF n
<1>9. ServedType' /\ ServedFollows'
    BY <1>8 DEF ServedType, ServedFollows
<1>10. Hd' = Hd /\ From' = From /\ Cur' = r /\ Rmw' = Rmw /\ Len(served)' = Len(served)
    BY <1>8 DEF Hd, From, Cur, Rmw
<1>11. Ran' = Len(r.cycles) /\ Got(Cur)' = Got(r)
    BY <1>10 DEF Ran, Got
<1>12. ~ack(bus) => Got(r) = Got(Cur)
    BY <1>7 DEF Got
<1>13. Ran = 0 <=> Cur.cycles = <<>>
    BY <1>3, EmptySeq DEF Ran
<1> QED BY <1>7, <1>9, <1>10, <1>11, <1>12, <1>13 DEF Ran, c, e

\* A failed cycle, whatever the transaction: its error is kept, and ends the body.
LEMMA FailedCycle ==
    ASSUME BusInv, state = "BUS_CYCLE", NEW rx, NEW bus, Step(rx, bus), err(rx, bus) # 0,
           ServedType', ServedFollows', Len(served)' = Len(served), Cur'.code = err(rx, bus)
    PROVE  Kept
<1>1. err_d' = err(rx, bus)
    BY DEF Step, SmRegisters
<1>2. Len(served)' > 0
    BY BodyFacts
<1> QED BY <1>1, <1>2 DEF Kept, InBody

\* The edge of a cycle of a plain transaction.
LEMMA PlainStep ==
    ASSUME BusInv, state = "BUS_CYCLE", ~Rmw, NEW rx, NEW bus, Step(rx, bus)
    PROVE  Kept
<1>1. /\ ifstate = "BODY" /\ err_d = 0 /\ rctr \in Nat /\ UnderWay /\ Ran \in Nat
      /\ Hd \in Headers /\ From \in Nat \ {0} /\ Hd.words \in 0 .. WordRange - 1
      /\ Hd.type # "BAD" /\ Follows(Cur, Hd, From)
      /\ hdr.type = Hd.type /\ Place(request, Len(served) + 1) = From + Size(Hd)
    BY BodyFacts
<1>2. AtPlain /\ Len(served) > 0 /\ Cur.code = 0 /\ hdr = [type |-> Hd.type, at |-> From]
    BY <1>1 DEF UnderWay, Stage
<1>3. /\ ~rmw_write /\ Ran < Hd.words /\ words_todo = Hd.words - 1 - Ran /\ Here
      /\ rctr = IF Hd.type \in WriteTypes THEN From + 2 + Ran ELSE From + 1
      /\ Hd.type \notin RmwTypes
    BY <1>2 DEF AtPlain, Rmw
<1>4. /\ write <=> Hd.type \in WriteTypes
      /\ ~rmw_cyc /\ Asked(Cur, Hd) = Cycles(Hd, From, Got(Cur))
    BY <1>1, <1>3 DEF write, rmw_cyc, Asked, Follows
<1> DEFINE i == Ran + 1
           a == Asked(Cur, Hd)
<1>5. i \in 1 .. Hd.words /\ Len(a) = Hd.words
    <2>1. Len(a) = Hd.words
        BY <1>1, <1>3, <1>4, CyclesOf
    <2> QED BY <1>1, <1>3, <2>1
<1>6. Fits(Cycle(bus), a[i])
    <2>1. CASE Hd.type \in WriteTypes
        <3>1. /\ a[i].we = TRUE /\ a[i].data = <<From + 1 + i>>
              /\ a[i].addr = <<From + 1, IF Hd.type = "WR" THEN i - 1 ELSE 0>>
            <4>1. From \in Nat /\ i \in 1 .. Hd.words
                BY <1>1, <1>5
            <4> HIDE DEF i
            <4>2. WriteCycle(Hd, From, i, Cycles(Hd, From, Got(Cur))[i])
                BY <1>1, <4>1, <2>1, PlainWrites
            <4>3. WriteCycle(Hd, From, i, a[i])
                BY <1>4, <4>2
            <4> HIDE DEF a
            <4> QED BY <4>3 DEF WriteCycle
        <3>2. write = TRUE
            BY <1>4, <2>1 DEF write
        <3>3. Cycle(bus) = [we |-> TRUE, addr |-> addr, data |-> <<rctr>>]
            BY <1>4, <3>2 DEF Cycle, wdata
        <3>4. addr = a[i].addr
            <4>1. Hd.type = "WR" <=> Hd.type \in {"RD", "WR"}
                BY <2>1 DEF WriteTypes
            <4> QED BY <1>1, <1>3, <3>1, <4>1 DEF Here
        <3>5. rctr = From + 1 + i
            BY <1>1, <1>3, <2>1
        <3>6. Cycle(bus).we = TRUE /\ Cycle(bus).addr = addr /\ Cycle(bus).data = <<rctr>>
            BY <3>3
        <3> HIDE DEF i, a
        <3> QED BY <3>1, <3>4, <3>5, <3>6 DEF Fits
    <2>2. CASE Hd.type \in ReadTypes
        <3>1. /\ a[i].we = FALSE
              /\ a[i].addr = <<From + 1, IF Hd.type = "RD" THEN i - 1 ELSE 0>>
            <4>1. From \in Nat /\ i \in 1 .. Hd.words
                BY <1>1, <1>5
            <4> HIDE DEF i
            <4>2. ReadCycle(Hd, From, i, Cycles(Hd, From, Got(Cur))[i])
                BY <1>1, <4>1, <2>2, PlainReads
            <4>3. ReadCycle(Hd, From, i, a[i])
                BY <1>4, <4>2
            <4> HIDE DEF a
            <4> QED BY <4>3 DEF ReadCycle
        <3>2. write = FALSE
            BY <1>1, <1>3, <2>2 DEF write, WriteTypes, ReadTypes
        <3>3. Cycle(bus).we = FALSE /\ Cycle(bus).addr = addr
            BY <3>2 DEF Cycle
        <3>4. addr = a[i].addr
            <4>1. Hd.type = "RD" <=> Hd.type \in {"RD", "WR"}
                BY <2>2 DEF ReadTypes
            <4> QED BY <1>1, <1>3, <3>1, <4>1 DEF Here
        <3> QED BY <3>1, <3>3, <3>4 DEF Fits
    <2> QED BY <1>1, <1>3, <2>1, <2>2, CyclesOf
<1>7. /\ ServedType' /\ ServedFollows' /\ Len(served)' = Len(served)
      /\ Hd' = Hd /\ From' = From /\ Rmw' = Rmw /\ Cur'.code = err(rx, bus)
      /\ Ran' = IF ack(bus) THEN Ran + 1 ELSE Ran
    <2>1. Ran < Len(Asked(Cur, Hd)) /\ Fits(Cycle(bus), Asked(Cur, Hd)[Ran + 1])
        BY <1>1, <1>3, <1>5, <1>6
    <2>2. Serve(rx, bus) /\ request' = request
        BY DEF Step
    <2> HIDE DEF i, a
    <2> QED BY <2>1, <2>2, BusServed
<1>8. CASE err(rx, bus) # 0
    BY <1>7, <1>8, FailedCycle
<1>9. CASE err(rx, bus) = 0
    <2>1. /\ err_d' = 0 /\ ~rmw_write' /\ hdr' = hdr /\ request' = request
          /\ state' = IF ack(bus) /\ words_todo = 0 THEN "HDR" ELSE "BUS_CYCLE"
          /\ words_todo' = IF ack(bus) THEN (words_todo - 1) % WordRange ELSE words_todo
          /\ addr' = IF ack(bus) /\ Hd.type \in {"RD", "WR"} THEN <<addr[1], addr[2] + 1>> ELSE addr
          /\ rctr' = IF ack(bus) /\ (write \/ words_todo = 0) THEN rctr + 1 ELSE rctr
        BY <1>1, <1>3, <1>4, <1>9 DEF Step, SmState, SmRegisters, WordsTodo, IfRegisters,
            rx_next, last_wd
    <2>2. CASE ~ack(bus)
        <3>1. /\ state' = "BUS_CYCLE" /\ Ran' = Ran /\ words_todo' = words_todo /\ addr' = addr
              /\ rctr' = rctr
            BY <1>7, <2>1, <2>2
        <3>2. Here' /\ AtPlain'
            BY <1>3, <1>7, <2>1, <3>1 DEF Here, AtPlain
        <3>3. UnderWay'
            BY <1>1, <1>2, <1>7, <1>9, <2>1, <3>1, <3>2 DEF UnderWay, Stage
        <3> QED BY <1>7, <2>1, <3>1, <3>3 DEF Kept, InBody
    <2>3. CASE ack(bus) /\ words_todo # 0
        <3>1. state' = "BUS_CYCLE" /\ Ran' = Ran + 1 /\ words_todo' = Hd.words - 1 - (Ran + 1)
            <4>1. words_todo \in 1 .. WordRange - 1
                BY <1>1, <1>3, <2>3, TransactorAssumption
            <4>2. words_todo' = words_todo - 1
                BY <2>1, <2>3, <4>1, CountDown
            <4> QED BY <1>1, <1>3, <1>7, <2>1, <2>3, <4>2
        <3>2. Here'
            BY <1>1, <1>3, <1>7, <2>1, <2>3, <3>1 DEF Here
        <3>3. rctr' = IF Hd.type \in WriteTypes THEN From + 2 + (Ran + 1) ELSE From + 1
            BY <1>1, <1>3, <1>4, <2>1, <2>3
        <3>4. AtPlain'
            BY <1>1, <1>3, <1>7, <2>1, <2>3, <3>1, <3>2, <3>3 DEF AtPlain
        <3>5. UnderWay'
            BY <1>1, <1>2, <1>3, <1>7, <1>9, <2>1, <3>1, <3>4 DEF UnderWay, Stage, Rmw
        <3> QED BY <1>7, <2>1, <3>1, <3>5 DEF Kept, InBody
    <2>4. CASE ack(bus) /\ words_todo = 0
        <3>1. state' = "HDR" /\ Ran' = Hd.words /\ Ran + 1 = Hd.words
            BY <1>1, <1>3, <1>7, <2>1, <2>4
        <3>2. Size(Hd) = IF Hd.type \in WriteTypes THEN 2 + Hd.words ELSE 2
            BY <1>1, <1>3 DEF Size, RmwTypes
        <3>3. rctr' = From + Size(Hd)
            <4>1. rctr' = rctr + 1
                BY <2>1, <2>4
            <4> QED BY <1>1, <1>3, <3>1, <3>2, <4>1
        <3>4. Len(Asked(Cur', Hd)) = Hd.words
            <4>1. Cur'.at = From
                <5>1. Len(served)' \in 1 .. Len(served)'
                    BY <1>2, <1>7, BodyFacts
                <5>2. request' # NoPacket
                    BY <2>1, BodyFacts
                <5>3. Follows(Cur', Hd', From')
                    BY <1>7, <5>1, <5>2 DEF ServedFollows, AsAsked, Cur, Hd, From
                <5> QED BY <1>7, <5>3 DEF Follows
            <4> QED BY <1>1, <1>3, <4>1, CyclesOf DEF Asked
        <3>5. Place(request, Len(served) + 1)' = From + Size(Hd)
            BY <1>1, <1>7, <2>1
        <3>6. BetweenTwo'
            BY <1>1, <1>2, <1>7, <1>9, <2>1, <3>1, <3>3, <3>4, <3>5 DEF BetweenTwo, Complete, Ran
        <3> QED BY <1>7, <2>1, <3>1, <3>6 DEF Kept, InBody
    <2> QED BY <2>2, <2>3, <2>4
<1> QED BY <1>8, <1>9

\* The edge of a cycle of a read-modify-write, first its read and then its write.
LEMMA RmwStep ==
    ASSUME BusInv, state = "BUS_CYCLE", Rmw, NEW rx, NEW bus, Step(rx, bus)
    PROVE  Kept
<1>1. /\ ifstate = "BODY" /\ err_d = 0 /\ rctr \in Nat /\ UnderWay /\ Ran \in Nat
      /\ Hd \in Headers /\ From \in Nat /\ Hd.type # "BAD" /\ Follows(Cur, Hd, From)
      /\ hdr.type = Hd.type /\ Place(request, Len(served) + 1) = From + Size(Hd)
      /\ request # NoPacket
    BY BodyFacts
<1>2. /\ AtRead \/ AtWrite
      /\ Len(served) > 0 /\ Cur.code = 0 /\ hdr = [type |-> Hd.type, at |-> From]
    BY <1>1 DEF UnderWay, Stage
<1>3. /\ Hd.type \in RmwTypes /\ Hd.type \notin {"RD", "WR"} /\ Hd.type \notin CfgTypes
      /\ Hd.type \notin WriteTypes
    BY DEF Rmw, RmwTypes, CfgTypes, WriteTypes
<1>4. /\ write <=> rmw_write
      /\ rmw_cyc /\ ~cfg_cyc /\ Asked(Cur, Hd) = Cycles(Hd, From, Got(Cur))
      /\ addr = <<From + 1, 0>> /\ words_todo = 0 /\ Here
    BY <1>1, <1>2, <1>3 DEF write, rmw_cyc, cfg_cyc, Asked, Follows, AtRead, AtWrite, Here
<1> DEFINE a == Asked(Cur, Hd)
<1>5. /\ Len(a) = 2
      /\ a[1].we = FALSE /\ a[1].addr = <<From + 1, 0>>
      /\ a[2].we = TRUE /\ a[2].addr = <<From + 1, 0>>
    <2>1. \A g : /\ Len(Cycles(Hd, From, g)) = 2
                 /\ Cycles(Hd, From, g)[1].we = FALSE /\ Cycles(Hd, From, g)[1].addr = <<From + 1, 0>>
                 /\ Cycles(Hd, From, g)[2].we = TRUE /\ Cycles(Hd, From, g)[2].addr = <<From + 1, 0>>
        <3>1. Hd \in Headers /\ From \in Nat /\ Hd.type \in RmwTypes
            BY <1>1, <1>3
        <3> QED BY <3>1, RmwCycles
    <2> QED BY <1>4, <2>1
<1> HIDE DEF a
<1>6. Ran < 2 /\ Fits(Cycle(bus), a[Ran + 1])
    <2>1. CASE AtRead
        <3>1. Ran = 0 /\ write = FALSE
            BY <1>1, <1>3, <2>1 DEF AtRead, write
        <3>2. Cycle(bus).we = FALSE /\ Cycle(bus).addr = addr
            BY <3>1 DEF Cycle
        <3>3. Cycle(bus).addr = a[1].addr /\ Cycle(bus).we = a[1].we /\ a[1].we = FALSE
            BY <1>4, <1>5, <3>2
        <3>4. Fits(Cycle(bus), a[1])
            BY <3>3, Zenon DEF Fits
        <3> QED BY <3>1, <3>4
    <2>2. CASE AtWrite
        <3>1. Ran = 1 /\ write = TRUE /\ rmw_result = a[2].data
            BY <2>2 DEF AtWrite, write, a
        <3>2. Cycle(bus).we = TRUE /\ Cycle(bus).addr = addr /\ Cycle(bus).data = rmw_result
            BY <1>4, <3>1 DEF Cycle, wdata
        <3>3. /\ Cycle(bus).addr = a[2].addr /\ Cycle(bus).we = a[2].we
              /\ Cycle(bus).data = a[2].data
            BY <1>4, <1>5, <3>1, <3>2
        <3>4. Fits(Cycle(bus), a[2])
            BY <3>3, Zenon DEF Fits
        <3>5. Ran + 1 = 2
            BY <3>1
        <3> QED BY <3>1, <3>4, <3>5
    <2> QED BY <1>2, <2>1, <2>2
<1>7. /\ ServedType' /\ ServedFollows' /\ Len(served)' = Len(served)
      /\ Hd' = Hd /\ From' = From /\ Rmw' = Rmw /\ Cur'.code = err(rx, bus)
      /\ Ran' = IF ack(bus) THEN Ran + 1 ELSE Ran
      /\ ~ack(bus) => Got(Cur)' = Got(Cur)
      /\ ack(bus) /\ Ran = 0 => Got(Cur)' = Cycle(bus).data[1]
    <2>1. Ran < Len(Asked(Cur, Hd)) /\ Fits(Cycle(bus), Asked(Cur, Hd)[Ran + 1])
        BY <1>5, <1>6 DEF a
    <2>2. Serve(rx, bus) /\ request' = request
        BY DEF Step
    <2> QED BY <2>1, <2>2, BusServed
<1>8. CASE err(rx, bus) # 0
    BY <1>7, <1>8, FailedCycle
<1>9. CASE err(rx, bus) = 0
    <2>1. /\ err_d' = 0 /\ (rmw_write' <=> rmw_write) /\ hdr' = hdr /\ request' = request
          /\ state' = IF ack(bus) THEN IF rmw_write THEN "HDR" ELSE "RMW_1" ELSE "BUS_CYCLE"
          /\ addr' = addr /\ rmw_result' = rmw_result
          /\ rmw_input' = IF ack(bus) THEN NextRead ELSE rmw_input
          /\ rctr' = IF ack(bus) /\ ~rmw_write THEN rctr + 1 ELSE rctr
          /\ ~ack(bus) => words_todo' = words_todo
        BY <1>1, <1>3, <1>4, <1>9 DEF Step, SmState, SmRegisters, WordsTodo, IfRegisters,
            rx_next, last_wd
    <2>2. Here'
        BY <1>3, <1>4, <1>7, <2>1 DEF Here
    <2>3. CASE ~ack(bus)
        <3>1. AtRead => AtRead'
            BY <1>7, <2>1, <2>2, <2>3 DEF AtRead
        <3>2. AtWrite => AtWrite'
            <4>1. Asked(Cur, Hd)' = Asked(Cur, Hd)
                <5>1. Cur'.at = From
                    <6>1. Len(served)' \in 1 .. Len(served)' /\ request' # NoPacket
                        BY <1>1, <1>2, <1>7, <2>1, BodyFacts
                    <6>2. Follows(Cur', Hd', From')
                        BY <1>7, <6>1 DEF ServedFollows, AsAsked, Cur, Hd, From
                    <6> QED BY <1>7, <6>2 DEF Follows
                <5> QED BY <1>1, <1>7, <2>3, <5>1 DEF Asked, Follows
            <4> QED BY <1>7, <2>1, <2>2, <2>3, <4>1 DEF AtWrite
        <3>3. UnderWay'
            BY <1>1, <1>2, <1>7, <1>9, <2>1, <2>3, <3>1, <3>2 DEF UnderWay, Stage
        <3> QED BY <1>7, <2>1, <2>3, <3>3 DEF Kept, InBody
    <2>4. CASE ack(bus) /\ AtRead
        <3>1. ~rmw_write /\ Ran = 0 /\ rctr = From + 1 /\ write = FALSE
            BY <1>1, <1>3, <2>4 DEF AtRead, write
        <3>2. Got(Cur)' = NextRead /\ rmw_input' = NextRead
            BY <1>7, <2>1, <2>4, <3>1 DEF Cycle
        <3>3. AtRmw1'
            BY <1>1, <1>7, <2>1, <2>2, <2>4, <3>1, <3>2 DEF AtRmw1
        <3>4. UnderWay'
            BY <1>1, <1>2, <1>7, <1>9, <2>1, <2>4, <3>1, <3>3 DEF UnderWay, Stage
        <3> QED BY <1>7, <2>1, <2>4, <3>1, <3>4 DEF Kept, InBody
    <2>5. CASE ack(bus) /\ AtWrite
        <3>1. rmw_write /\ Ran' = 2 /\ rctr' = From + Size(Hd) /\ state' = "HDR"
            BY <1>1, <1>7, <2>1, <2>5 DEF AtWrite
        <3>2. Len(Asked(Cur', Hd)) = 2
            <4>1. Cur'.at = From
                <5>1. Len(served)' \in 1 .. Len(served)' /\ request' # NoPacket
                    BY <1>1, <1>2, <1>7, <2>1, BodyFacts
                <5>2. Follows(Cur', Hd', From')
                    BY <1>7, <5>1 DEF ServedFollows, AsAsked, Cur, Hd, From
                <5> QED BY <1>7, <5>2 DEF Follows
            <4> QED BY <1>1, <1>3, <4>1, RmwCycles DEF Asked
        <3>3. Place(request, Len(served) + 1)' = From + Size(Hd)
            BY <1>1, <1>7, <2>1
        <3>4. BetweenTwo'
            BY <1>1, <1>2, <1>7, <1>9, <2>1, <3>1, <3>2, <3>3 DEF BetweenTwo, Complete, Ran
        <3> QED BY <1>7, <2>1, <3>1, <3>4 DEF Kept, InBody
    <2> QED BY <1>2, <2>3, <2>4, <2>5
<1> QED BY <1>8, <1>9

\* The two edges between the read and the write of a read-modify-write, at which its
\* operands are taken.
LEMMA OperandStep ==
    ASSUME BusInv, state \in {"RMW_1", "RMW_2"}, NEW rx, NEW bus, Step(rx, bus)
    PROVE  Kept
<1>1. /\ ifstate = "BODY" /\ err_d = 0 /\ UnderWay
      /\ Hd \in Headers /\ From \in Nat /\ Follows(Cur, Hd, From) /\ hdr.type = Hd.type
    BY BodyFacts
<1>2. Len(served) > 0 /\ Cur.code = 0 /\ Hd.type # "BAD" /\ hdr = [type |-> Hd.type, at |-> From]
    BY <1>1 DEF UnderWay
<1>3. (state = "RMW_1" => AtRmw1) /\ (state = "RMW_2" => AtRmw2)
    BY <1>1 DEF UnderWay, Stage
<1>4. /\ Hd.type \in RmwTypes /\ Hd.type \notin {"RD", "WR"} /\ ~cfg_cyc
      /\ Ran = 1 /\ Here /\ rmw_input = Got(Cur)
    BY <1>1, <1>3 DEF AtRmw1, AtRmw2, Rmw, RmwTypes, CfgTypes, cfg_cyc
<1>5. ~ack(bus) /\ err(rx, bus) = 0
    BY <1>4 DEF ack, strobe, err
<1>6. /\ err_d' = 0 /\ hdr' = hdr /\ request' = request /\ served' = served
      /\ addr' = addr /\ rmw_input' = rmw_input /\ rctr' = rctr + 1 /\ rmw_write'
    BY <1>1, <1>3, <1>4, <1>5 DEF Step, Serve, SmRegisters, IfRegisters, rx_next, AtRmw2
<1>7. /\ ServedType' /\ ServedFollows' /\ Cur' = Cur /\ Hd' = Hd /\ From' = From
      /\ Ran' = Ran /\ Rmw' = Rmw /\ Len(served)' = Len(served) /\ Got(Cur)' = Got(Cur)
    BY <1>6, Untouched
<1>8. Here' /\ words_todo' = 0
    BY <1>3, <1>4, <1>5, <1>6, <1>7 DEF Here, Step, WordsTodo, AtRmw2
<1>9. Asked(Cur, Hd)' = Cycles(Hd, From, Got(Cur))
    BY <1>1, <1>7 DEF Asked, Follows
<1>10. CASE state = "RMW_1" /\ Hd.type = "RMWB"
    <2>1. /\ state' = "RMW_2" /\ rmw_coeff' = rctr /\ rctr = From + 2
        BY <1>1, <1>3, <1>10 DEF Step, SmState, SmRegisters, AtRmw1
    <2>2. AtRmw2'
        BY <1>1, <1>4, <1>6, <1>7, <1>8, <1>10, <2>1 DEF AtRmw2
    <2>3. UnderWay'
        BY <1>2, <1>6, <1>7, <2>1, <2>2 DEF UnderWay, Stage
    <2> QED BY <1>6, <1>7, <2>1, <2>3 DEF Kept, InBody
<1>11. CASE state = "RMW_1" /\ Hd.type = "RMWS"
    <2>1. /\ state' = "BUS_CYCLE" /\ rmw_result' = <<Got(Cur), From + 2>> /\ rctr = From + 2
        BY <1>1, <1>3, <1>4, <1>11 DEF Step, SmState, SmRegisters, AtRmw1
    <2>2. Size(Hd) = 3
        BY <1>11 DEF Size, WriteTypes
    <2>3. rmw_result' = Asked(Cur, Hd)'[2].data
        BY <1>1, <1>9, <1>11, <2>1, RmwData
    <2>4. AtWrite'
        BY <1>1, <1>4, <1>6, <1>7, <1>8, <2>1, <2>2, <2>3 DEF AtWrite
    <2>5. UnderWay'
        BY <1>2, <1>4, <1>6, <1>7, <2>1, <2>4 DEF UnderWay, Stage, Rmw
    <2> QED BY <1>6, <1>7, <2>1, <2>5 DEF Kept, InBody
<1>12. CASE state = "RMW_2"
    <2>1. /\ state' = "BUS_CYCLE" /\ rmw_result' = <<Got(Cur), From + 2, From + 3>>
          /\ rctr = From + 3 /\ Hd.type = "RMWB"
        BY <1>1, <1>3, <1>4, <1>12 DEF Step, SmState, SmRegisters, AtRmw2
    <2>2. Size(Hd) = 4
        BY <2>1 DEF Size, WriteTypes
    <2>3. rmw_result' = Asked(Cur, Hd)'[2].data
        BY <1>1, <1>9, <2>1, RmwData
    <2>4. AtWrite'
        BY <1>1, <1>4, <1>6, <1>7, <1>8, <2>1, <2>2, <2>3 DEF AtWrite
    <2>5. UnderWay'
        BY <1>2, <1>4, <1>6, <1>7, <2>1, <2>4 DEF UnderWay, Stage, Rmw
    <2> QED BY <1>6, <1>7, <2>1, <2>5 DEF Kept, InBody
<1> QED BY <1>4, <1>10, <1>11, <1>12 DEF RmwTypes

-----------------------------------------------------------------------------
\* Within a packet, the word where its next header is can be no other header.
LEMMA HeaderFound ==
    ASSUME NEW p \in Seq(Headers), NEW n \in 0 .. Len(p), NEW i, i = Place(p, n + 1)
    PROVE  /\ i <= BodyLength(p) => n < Len(p) /\ HeadersAt(p, i) = {p[n + 1]}
           /\ i > BodyLength(p) => n = Len(p)
<1> DEFINE L == Len(p)
<1>1. /\ L \in Nat /\ n + 1 \in 1 .. L + 1 /\ L + 1 \in 1 .. L + 1
      /\ \A k \in 1 .. L + 1 : Place(p, k) \in Nat \ {0}
      /\ \A j, k \in 1 .. L + 1 : j < k => Place(p, j) < Place(p, k)
    BY PlaceFacts, LenProperties
<1>2. BodyLength(p) = Place(p, L + 1) - 1 /\ i \in Nat /\ Place(p, L + 1) \in Nat
    BY <1>1 DEF BodyLength
<1> HIDE DEF L
<1>3. ASSUME i <= BodyLength(p)
      PROVE  n < L
    BY <1>1, <1>2, <1>3
<1>4. ASSUME i > BodyLength(p)
      PROVE  n = L
    BY <1>1, <1>2, <1>4
<1>5. ASSUME i <= BodyLength(p)
      PROVE  HeadersAt(p, i) = {p[n + 1]}
    <2>1. n + 1 \in 1 .. L
        BY <1>1, <1>3, <1>5
    <2>2. \A k \in 1 .. L : Place(p, k) = i => k = n + 1
        <3> SUFFICES ASSUME NEW k \in 1 .. L, Place(p, k) = i PROVE k = n + 1
            OBVIOUS
        <3>1. k \in 1 .. L + 1 /\ ~(Place(p, k) < i) /\ ~(i < Place(p, k))
            BY <1>1, <1>2
        <3>2. ~(k < n + 1) /\ ~(n + 1 < k)
            BY <1>1, <3>1
        <3> QED BY <1>1, <3>1, <3>2
    <2>3. {k \in DOMAIN p : Place(p, k) = i} = {n + 1}
        <3>1. DOMAIN p = 1 .. L
            BY LenProperties DEF L
        <3> QED BY <2>1, <2>2, <3>1
    <2>4. ~(i > BodyLength(p))
        BY <1>1, <1>2, <1>5
    <2> QED BY <2>3, <2>4 DEF HeadersAt
<1> QED BY <1>3, <1>4, <1>5 DEF L

\* The edge of ST_HDR at which a transaction begins, or is refused for its header.
LEMMA BeginStep ==
    ASSUME BusInv, state = "HDR", rx_ready, err_d = 0, NEW rx \in HeadersAt(request, rctr),
           NEW bus, Step(rx, bus)
    PROVE  Kept
<1>1. ifstate = "BODY" /\ request # NoPacket /\ blen = BodyLength(request) /\ BetweenTwo
    BY DEF BusInv, IInv, Control, InStep, AtRequest, InBody
<1>2. request \in Seq(Headers) /\ AsAsked(served, request) /\ rctr \in Nat
    BY <1>1, RequestFacts DEF BusInv, IInv, ServedFollows, TypeOK
<1>3. PICK C : served \in Seq(Entries(C))
    BY DEF BusInv, ServedType
<1> DEFINE n == Len(served)
           t == request[n + 1]
           w == Place(request, n + 1)
<1>4. n \in 0 .. Len(request) /\ rctr = w /\ (n > 0 => Complete(served[n], request[n]))
    BY <1>1, <1>2, <1>3, LenProperties DEF AsAsked, BetweenTwo, Cur, Hd
<1>5. n < Len(request) /\ HeadersAt(request, rctr) = {t}
    <2>1. rctr <= BodyLength(request)
        BY <1>1 DEF rx_ready
    <2> HIDE DEF n
    <2> QED BY <1>2, <1>4, <2>1, HeaderFound
<1>6. rx = t /\ rx \in Headers /\ n + 1 \in 1 .. Len(request) /\ n \in Nat
    <2>1. n + 1 \in 1 .. Len(request)
        BY <1>2, <1>4, <1>5, LenProperties
    <2> QED BY <1>2, <1>4, <1>5, <2>1, ElementOfSeq
<1> DEFINE e == err(rx, bus)
           r == [type |-> rx.type, at |-> rctr, cycles |-> <<>>, code |-> e]
<1>7. e \in Codes /\ (e = 0 <=> rx.type # "BAD")
    BY ErrFacts DEF Codes, err, strobe
<1> HIDE DEF e
<1>8. r \in Entries(C) /\ r.cycles = <<>> /\ r.code = e /\ r.type = rx.type /\ r.at = rctr
    BY <1>2, <1>6, <1>7, EmptySeq DEF Entries, Headers
<1>9. served' = Append(served, r)
    BY DEF Step, Serve, e
<1> HIDE DEF r
<1>10. Follows(r, t, w)
    <2>1. w \in Nat /\ t \in Headers
        BY <1>2, <1>4, <1>6
    <2>2. Len(r.cycles) = 0 /\ Len(Asked(r, t)) \in Nat
        BY <1>4, <1>8, <2>1, CyclesOf, EmptySeq DEF Asked
    <2> QED BY <1>4, <1>6, <1>8, <2>2 DEF Follows
<1>11. /\ served' \in Seq(Entries(C)) /\ Len(served') = n + 1 /\ served'[n + 1] = r
       /\ AsAsked(served', request)
    <2>1. /\ served' \in Seq(Entries(C)) /\ Len(served') = n + 1 /\ served'[n + 1] = r
          /\ \A k \in 1 .. Len(served) : served'[k] = served[k]
        BY <1>3, <1>8, <1>9, AppendProperties
    <2>2. Follows(served'[Len(served')], request[Len(served')], Place(request, Len(served')))
        BY <1>10, <2>1
    <2>3. AsAsked(served', request)
        BY <1>2, <1>3, <1>4, <1>5, <2>1, <2>2, OneBegun
    <2> QED BY <2>1, <2>3
<1>12. /\ ServedType' /\ ServedFollows' /\ request' = request
       /\ Cur' = r /\ Hd' = t /\ From' = w /\ Ran' = 0 /\ Len(served') > 0
    <2>1. request' = request
        BY DEF Step
    <2>2. Cur' = r /\ Hd' = t /\ From' = w
        BY <1>11, <2>1 DEF Cur, Hd, From
    <2>3. Ran' = 0
        BY <1>8, <2>2, EmptySeq DEF Ran
    <2> QED BY <1>6, <1>11, <2>1, <2>2, <2>3 DEF ServedType, ServedFollows
<1>13. err_d' = e
    BY DEF Step, SmRegisters, e
<1>14. CASE e # 0
    BY <1>8, <1>12, <1>13, <1>14 DEF Kept, InBody
<1>15. CASE e = 0
    <2>1. /\ state' = "ADDR" /\ ~rmw_write' /\ words_todo' = rx.words /\ rctr' = rctr + 1
          /\ hdr' = [type |-> rx.type, at |-> rctr]
        BY <1>1, <1>15 DEF Step, SmState, Refused, SmRegisters, WordsTodo, IfRegisters, rx_next, e
    <2>2. AtAddr'
        BY <1>4, <1>6, <1>12, <2>1 DEF AtAddr
    <2>3. UnderWay'
        BY <1>4, <1>6, <1>7, <1>8, <1>12, <1>15, <2>1, <2>2 DEF UnderWay, Stage
    <2> QED BY <1>12, <1>13, <1>15, <2>1, <2>3 DEF Kept, InBody
<1> QED BY <1>14, <1>15

-----------------------------------------------------------------------------
\* Every transaction of a request that has been begun without an error, with those
\* before it, is complete: nothing is left to do.
LEMMA AllDone ==
    ASSUME BusInv, request # NoPacket, Len(served) = Len(request),
           Len(served) > 0 => Complete(Cur, Hd)
    PROVE  \A k \in DOMAIN served : Len(served[k].cycles) = Len(Cycles(request[k], served[k].at, 0))
<1>1. PICK C : served \in Seq(Entries(C))
    BY DEF BusInv, ServedType
<1>2. AsAsked(served, request) /\ request \in Seq(Headers)
    BY RequestFacts DEF BusInv, IInv, ServedFollows
<1> SUFFICES ASSUME NEW k \in 1 .. Len(served)
             PROVE  Len(served[k].cycles) = Len(Cycles(request[k], served[k].at, 0))
    BY <1>1, LenProperties
<1>3. Complete(served[k], request[k])
    <2>1. CASE k = Len(served)
        BY <2>1 DEF Cur, Hd
    <2>2. CASE k # Len(served)
        <3>1. Len(served) \in Nat
            BY <1>1, LenProperties
        <3>2. k \in 1 .. Len(served) - 1
            BY <2>2, <3>1
        <3> QED BY <1>2, <3>2 DEF AsAsked
    <2> QED BY <2>1, <2>2
<1>4. request[k] \in Headers /\ served[k] \in Entries(C)
    <2>1. k \in 1 .. Len(request)
        BY <1>2
    <2> QED BY <1>1, <1>2, <2>1, ElementOfSeq
<1>5. served[k].at \in Nat
    BY <1>4 DEF Entries
<1>6. Len(Asked(served[k], request[k])) = Len(Cycles(request[k], served[k].at, 0))
    BY <1>4, <1>5, SameFirst DEF Asked
<1> QED BY <1>3, <1>6 DEF Complete

\* The edge of the bus side, in every state it can be in, while the body goes on.
LEMMA BodyGoesOn ==
    ASSUME BusInv, ifstate = "BODY", ~EndOfBody,
           NEW rx \in HeadersAt(request, rctr), NEW bus, Step(rx, bus)
    PROVE  Kept
<1>1. err_d = 0 /\ state \in SmStates /\ rctr \in Nat /\ blen \in Nat
    BY DEF EndOfBody, tx_err, BusInv, IInv, TypeOK
<1>2. CASE state = "IDLE"
    <2>1. rctr = 1 /\ served = <<>> /\ request # NoPacket
        BY <1>1, <1>2 DEF BusInv, AtRequest, InBody
    <2>2. /\ served' = served /\ request' = request /\ err_d' = 0 /\ rctr' = 1
          /\ state' \in {"IDLE", "HDR"}
        BY <1>2, <2>1 DEF Step, Serve, SmState, SmRegisters, IfRegisters, rx_next
    <2>3. ServedType' /\ ServedFollows'
        BY <2>2, Untouched
    <2>4. BetweenTwo'
        <3>1. Len(served) = 0 /\ Place(request, 1) = 1
            BY <2>1, EmptySeq, RequestFacts, PlaceFacts DEF BusInv, IInv
        <3> QED BY <2>2, <3>1 DEF BetweenTwo
    <2> QED BY <2>1, <2>2, <2>3, <2>4 DEF Kept, InBody
<1>3. CASE state = "HDR"
    <2>1. rx_ready
        BY <1>1, <1>3 DEF EndOfBody, tx_hdr, rx_ready
    <2> QED BY <1>1, <1>3, <2>1, BeginStep
<1>4. CASE state = "ADDR"
    BY <1>4, AddrStep
<1>5. CASE state = "BUS_CYCLE"
    BY <1>5, PlainStep, RmwStep
<1>6. CASE state \in {"RMW_1", "RMW_2"}
    BY <1>6, OperandStep
<1> QED BY <1>1, <1>2, <1>3, <1>4, <1>5, <1>6 DEF SmStates

\* The body ends with the last word of the request, or with an error.
LEMMA BodyEnds ==
    ASSUME BusInv, ifstate = "BODY", EndOfBody
    PROVE  /\ request # NoPacket /\ state \in {"HDR", "IDLE"}
           /\ \/ served # <<>> /\ Last(served).code # 0
              \/ /\ Len(served) = Len(request)
                 /\ \A k \in DOMAIN served :
                       Len(served[k].cycles) = Len(Cycles(request[k], served[k].at, 0))
           /\ state = "HDR" => ~rx_ready \/ err_d # 0
<1>1. request # NoPacket /\ blen = BodyLength(request) /\ InBody
    BY DEF BusInv, AtRequest
<1>2. PICK C : served \in Seq(Entries(C))
    BY DEF BusInv, ServedType
<1>3. rctr \in Nat /\ blen \in Nat /\ request \in Seq(Headers) /\ AsAsked(served, request)
    BY <1>1, RequestFacts DEF BusInv, IInv, TypeOK, ServedFollows
<1>4. CASE err_d # 0
    <2>1. state \in {"HDR", "IDLE"} /\ Len(served) > 0 /\ Cur.code # 0
        BY <1>1, <1>4 DEF BusInv, IInv, Control, ErrorStops, InBody
    <2>2. served # <<>> /\ Last(served).code # 0
        BY <1>2, <2>1, EmptySeq DEF Last, Cur
    <2> QED BY <1>1, <1>4, <2>1, <2>2
<1>5. CASE err_d = 0
    <2>1. state = "HDR" /\ rctr > blen
        BY <1>5 DEF EndOfBody, tx_err, tx_hdr
    <2>2. BetweenTwo
        BY <1>1, <1>5, <2>1 DEF InBody
    <2>3. Len(served) \in 0 .. Len(request)
        BY <1>2, <1>3, LenProperties DEF AsAsked
    <2>4. Len(served) = Len(request)
        BY <1>1, <1>3, <2>1, <2>2, <2>3, HeaderFound DEF BetweenTwo
    <2>5. \A k \in DOMAIN served : Len(served[k].cycles) = Len(Cycles(request[k], served[k].at, 0))
        BY <1>1, <2>2, <2>4, AllDone DEF BetweenTwo
    <2>6. ~rx_ready
        BY <1>3, <2>1 DEF rx_ready
    <2> QED BY <1>1, <2>1, <2>4, <2>5, <2>6
<1> QED BY <1>4, <1>5

\* An edge before, in, or after the body.
LEMMA EdgeBus ==
    ASSUME BusInv, NEW grant \in BOOLEAN, NEW bus, Work(grant, bus)
    PROVE  ServedType' /\ ServedFollows' /\ AtRequest' /\ NothingLeftUnserved'
<1>1. PICK rx \in IF request = NoPacket THEN Stale ELSE HeadersAt(request, rctr) :
        /\ SmState(rx, bus) /\ SmRegisters(rx, bus) /\ WordsTodo(rx, bus)
        /\ IfState(grant) /\ IfRegisters(bus) /\ Serve(rx, bus)
    BY DEF Work, Edge
<1>2. /\ request' = IF ifstate = "DONE" THEN NoPacket ELSE request
      /\ ifstate \in IfStates /\ AtRequest
    BY DEF Work, BusInv, IInv, TypeOK
<1>3. ifstate \in {"FIRST", "HDR", "PREBODY", "BODY", "DONE"} =>
          request # NoPacket /\ blen = BodyLength(request) /\ blen' = blen
    BY <1>1, <1>2 DEF AtRequest, IfRegisters
<1>4. CASE ifstate = "BODY" /\ ~EndOfBody
    <2>1. rx \in HeadersAt(request, rctr) /\ request' = request
        BY <1>2, <1>3, <1>4
    <2>2. Step(rx, bus)
        BY <1>1, <2>1 DEF Step
    <2>3. Kept
        BY <1>4, <2>1, <2>2, BodyGoesOn
    <2>4. ifstate' = "BODY"
        BY <1>1, <1>4 DEF IfState
    <2>5. AtRequest'
        BY <1>3, <1>4, <2>1, <2>3, <2>4 DEF AtRequest, Kept
    <2>6. NothingLeftUnserved'
        BY <2>4 DEF NothingLeftUnserved
    <2> QED BY <2>3, <2>5, <2>6 DEF Kept
<1>5. CASE ifstate = "BODY" /\ EndOfBody
    <2>1. ifstate' = "DONE" /\ request' = request
        BY <1>1, <1>2, <1>5 DEF IfState
    <2>2. served' = served
        BY <1>1, <1>5, BodyEnds DEF Serve
    <2>3. ServedType' /\ ServedFollows'
        BY <2>1, <2>2, Untouched
    <2>4. AtRequest'
        BY <1>3, <1>5, <2>1 DEF AtRequest
    <2>5. NothingLeftUnserved'
        BY <1>5, <2>1, <2>2, BodyEnds DEF NothingLeftUnserved
    <2> QED BY <2>3, <2>4, <2>5
<1>6. CASE ifstate # "BODY"
    <2>1. state = "IDLE"
        BY <1>6 DEF BusInv, IInv, Control, InStep
    <2>2. served' = served /\ err_d' = 0 /\ state' = "IDLE"
        BY <1>1, <1>6, <2>1 DEF Serve, SmRegisters, SmState, start, rx_ready
    <2>3. ServedType'
        BY <2>2 DEF BusInv, ServedType
    <2>4. ServedFollows'
        BY <1>2, <2>2, Untouched DEF ServedFollows
    <2>5. AtRequest'
        <3>1. CASE ifstate = "IDLE"
            <4>1. /\ request' = request /\ ifstate' \in {"IDLE", "FIRST"}
                  /\ ifstate' = "FIRST" => request # NoPacket
                BY <1>1, <1>2, <3>1 DEF IfState
            <4>2. request # NoPacket => blen' = BodyLength(request) /\ served = <<>>
                BY <1>1, <1>2, <3>1 DEF IfRegisters, AtRequest
            <4> QED BY <2>2, <4>1, <4>2 DEF AtRequest
        <3>2. CASE ifstate \in {"FIRST", "HDR"}
            <4>1. /\ request' = request /\ ifstate' \in {"DONE", "PREBODY", "HDR"}
                  /\ served = <<>>
                BY <1>1, <1>2, <1>3, <3>2 DEF IfState, AtRequest
            <4> QED BY <1>3, <2>2, <3>2, <4>1 DEF AtRequest
        <3>3. CASE ifstate = "PREBODY"
            <4>1. /\ request' = request /\ ifstate' \in {"PREBODY", "BODY"}
                  /\ served = <<>> /\ rctr' = 1
                BY <1>1, <1>2, <1>3, <3>3 DEF IfState, AtRequest, IfRegisters
            <4>2. InBody'
                BY <2>2, <4>1 DEF InBody
            <4> QED BY <1>3, <2>2, <3>3, <4>1, <4>2 DEF AtRequest
        <3>4. CASE ifstate \in {"DONE", "GAP"}
            <4>1. request' = NoPacket /\ ifstate' \in {"GAP", "IDLE"}
                BY <1>1, <1>2, <3>4 DEF IfState, AtRequest
            <4> QED BY <4>1 DEF AtRequest
        <3> QED BY <1>2, <1>6, <3>1, <3>2, <3>3, <3>4 DEF IfStates
    <2>6. NothingLeftUnserved'
        <3> SUFFICES ASSUME ifstate' = "DONE"
                     PROVE  /\ Len(served)' = Len(request)'
                            /\ \A k \in DOMAIN served' : Len(served'[k].cycles) =
                                    Len(Cycles(request'[k], served'[k].at, 0))
            BY DEF NothingLeftUnserved
        <3>1. ifstate \in {"FIRST", "HDR"} /\ blen = 0
            BY <1>1, <1>2, <1>6 DEF IfState, IfStates
        <3>2. served = <<>> /\ request # NoPacket /\ request' = request /\ BodyLength(request) = 0
            BY <1>2, <1>3, <3>1 DEF AtRequest
        <3>3. request \in Seq(Headers) /\ Place(request, 1) = 1 /\ Len(request) \in Nat
            BY <3>2, RequestFacts, PlaceFacts, LenProperties DEF BusInv, IInv
        <3>4. Len(request) = 0
            <4>1. 0 \in 0 .. Len(request) /\ 1 = Place(request, 0 + 1) /\ 1 > BodyLength(request)
                BY <3>2, <3>3
            <4> QED BY <3>3, <4>1, HeaderFound
        <3>5. Len(served) = 0 /\ DOMAIN served = {}
            BY <3>2
        <3> QED BY <2>2, <3>2, <3>4, <3>5
    <2> QED BY <2>3, <2>4, <2>5, <2>6
<1> QED BY <1>4, <1>5, <1>6

\* The next request has nothing served yet.
LEMMA ArrivalBus ==
    ASSUME BusInv, Arrival
    PROVE  ServedType' /\ ServedFollows' /\ AtRequest' /\ NothingLeftUnserved'
<1>1. served' = <<>> /\ ifstate = "IDLE" /\ ifstate' = "IDLE" /\ request' \in Packets
    BY DEF Arrival, ifVars
<1>2. ServedType'
    BY <1>1, EmptySeq DEF ServedType
<1>3. ServedFollows'
    <2>1. request' \in Seq(Headers) /\ Len(served') = 0
        BY <1>1, PacketsAssumption, EmptySeq
    <2>2. Len(request') \in Nat
        BY <2>1, LenProperties
    <2> QED BY <2>1, <2>2 DEF ServedFollows, AsAsked
<1>4. AtRequest' /\ NothingLeftUnserved'
    BY <1>1 DEF AtRequest, NothingLeftUnserved
<1> QED BY <1>2, <1>3, <1>4

\* The invariant of the bus side.
LEMMA BusStep == BusInv /\ [Next]_vars => BusInv'
<1> SUFFICES ASSUME BusInv, [Next]_vars PROVE BusInv'
    OBVIOUS
<1>1. IInv'
    BY InvStep DEF BusInv
<1>2. CASE Clock
    <2>1. PICK grant \in BOOLEAN, bus \in {"wait", "ack", "err"} : Work(grant, bus)
        BY <1>2 DEF Clock
    <2> QED BY <1>1, <2>1, EdgeBus DEF BusInv
<1>3. CASE Arrival
    BY <1>1, <1>3, ArrivalBus DEF BusInv
<1>4. CASE UNCHANGED vars
    <2> USE <1>4 DEF vars, ifVars, smVars
    <2>1. ServedType' /\ ServedFollows'
        BY Untouched
    <2>2. Cur' = Cur /\ Hd' = Hd /\ From' = From /\ Ran' = Ran /\ Rmw' = Rmw
        BY Untouched
    <2>3. Stage' = Stage
        BY <2>2 DEF Stage, AtAddr, AtPlain, AtRead, AtWrite, AtRmw1, AtRmw2, Here, Got, Asked
    <2>4. AtRequest'
        BY <2>2, <2>3 DEF BusInv, AtRequest, InBody, UnderWay, BetweenTwo
    <2>5. NothingLeftUnserved'
        BY DEF BusInv, NothingLeftUnserved
    <2> QED BY <1>1, <2>1, <2>4, <2>5 DEF BusInv
<1> QED BY <1>2, <1>3, <1>4 DEF Next

\* Nothing is begun before the first request comes.
LEMMA BusInit == Init => BusInv
<1> SUFFICES ASSUME Init PROVE BusInv
    OBVIOUS
<1>1. IInv
    BY InvInit
<1>2. ServedType
    BY EmptySeq DEF Init, ServedType
<1>3. ServedFollows /\ AtRequest /\ NothingLeftUnserved
    BY DEF Init, ServedFollows, AtRequest, NothingLeftUnserved
<1> QED BY <1>1, <1>2, <1>3 DEF BusInv

\* The inductive invariant of the bus side of transactor_sm.vhd: the place in the
\* request, the counters and the operands in each of its states.
THEOREM BusInvariant == Spec => []BusInv
<1> QED BY BusInit, BusStep, PTL DEF Spec

\* The bus sees the cycles the request asks for, transaction by transaction, and no
\* others: the data of a write from its own words, the write of a read-modify-write
\* from what it read.
THEOREM BusAsAsked == Spec => []BusMatchesRequest
<1>1. BusInv => BusMatchesRequest
    <2> SUFFICES ASSUME BusInv, request # NoPacket
                 PROVE  /\ Len(served) <= Len(request)
                        /\ \A k \in DOMAIN served :
                             LET s == served[k]
                                 e == Cycles(request[k], s.at, IF s.cycles = <<>> THEN 0
                                                               ELSE s.cycles[1].data[1])
                             IN  /\ s.at = Place(request, k)
                                 /\ Len(s.cycles) <= Len(e)
                                 /\ \A i \in DOMAIN s.cycles : Fits(s.cycles[i], e[i])
                                 /\ k < Len(served) => (s.code = 0 /\ Len(s.cycles) = Len(e))
        BY DEF BusMatchesRequest
    <2>1. AsAsked(served, request)
        BY DEF BusInv, ServedFollows
    <2>2. PICK C : served \in Seq(Entries(C))
        BY DEF BusInv, ServedType
    <2>3. Len(served) <= Len(request) /\ DOMAIN served = 1 .. Len(served) /\ Len(served) \in Nat
        BY <2>1, <2>2, LenProperties DEF AsAsked
    <2> SUFFICES ASSUME NEW k \in 1 .. Len(served)
                 PROVE  LET s == served[k]
                            e == Cycles(request[k], s.at, IF s.cycles = <<>> THEN 0
                                                          ELSE s.cycles[1].data[1])
                        IN  /\ s.at = Place(request, k)
                            /\ Len(s.cycles) <= Len(e)
                            /\ \A i \in DOMAIN s.cycles : Fits(s.cycles[i], e[i])
                            /\ k < Len(served) => (s.code = 0 /\ Len(s.cycles) = Len(e))
        BY <2>3
    <2> DEFINE s == served[k]
    <2>4. Follows(s, request[k], Place(request, k))
        BY <2>1 DEF AsAsked
    <2>5. k < Len(served) => Complete(s, request[k])
        BY <2>1, <2>3 DEF AsAsked
    <2>6. DOMAIN s.cycles = 1 .. Len(s.cycles)
        <3>1. s \in Entries(C)
            BY <2>2, ElementOfSeq
        <3>2. s.cycles \in Seq(C)
            BY <3>1 DEF Entries
        <3> QED BY <3>2, LenProperties
    <2> HIDE DEF s
    <2>7. Asked(s, request[k]) = Cycles(request[k], s.at, IF s.cycles = <<>> THEN 0
                                                          ELSE s.cycles[1].data[1])
        BY DEF Asked, Got
    <2>8. /\ s.at = Place(request, k)
          /\ Len(s.cycles) <= Len(Asked(s, request[k]))
          /\ \A i \in DOMAIN s.cycles : Fits(s.cycles[i], Asked(s, request[k])[i])
          /\ k < Len(served) => (s.code = 0 /\ Len(s.cycles) = Len(Asked(s, request[k])))
        BY <2>4, <2>5, <2>6 DEF Follows, Complete
    <2> QED BY <2>7, <2>8 DEF s
<1> QED BY <1>1, BusInvariant, PTL

\* transactor_if.vhd leaves the body when every transaction has been begun and has
\* run its last cycle, and no sooner unless one failed.
THEOREM AllServed == Spec => []NothingLeftUnserved
<1>1. BusInv => NothingLeftUnserved
    BY DEF BusInv
<1> QED BY <1>1, BusInvariant, PTL

-----------------------------------------------------------------------------
(***************************************************************************)
(* The reply buffer.                                                       *)
(***************************************************************************)

\* What a buffer r holds of the replies to the transactions f: the words of the k-th
\* from a given one on; the first m replies whole.
HoldReply(r, f, k, from) ==
    \A i \in from .. ReplyLength(f[k]) :
        LET a == HeaderWords + ReplyPlaces(f)[k] + i - 1
        IN  a \in DOMAIN r /\ r[a] = ReplyTo(f[k])[i]

HoldReplies(r, f, m) == \A k \in 1 .. m : HoldReply(r, f, k, 1)

\* The first words of the packet header are copied.
Copied(n) == \A i \in 1 .. n : Holds(i, <<"copy", i>>)

\* The place behind the replies so far.
End == ReplyPlaces(served)[Len(served) + 1]

\* Nothing is written yet; all is; all but the header of the last reply, for which
\* haddr keeps a place.
Empty == first /\ wctr = 0 /\ waddr = HeaderWords + 1

Whole == HoldReplies(reply, served, Len(served)) /\ wctr = End - 1

Pending ==
    /\ ~first /\ Cur.code # 1
    /\ HoldReplies(reply, served, Len(served) - 1) /\ HoldReply(reply, served, Len(served), 2)
    /\ haddr = HeaderWords + ReplyPlaces(served)[Len(served)]
    /\ waddr = HeaderWords + End /\ wctr = End - 2

\* The reply buffer in each state of the bus side.
InReply ==
    CASE state = "IDLE" /\ err_d = 0 -> Empty
      [] state = "IDLE" /\ err_d # 0 -> Whole
      [] state = "HDR" -> IF served = <<>> THEN Empty
                          ELSE Pending /\ tx_data = ReplyTo(Cur)[1]
      [] OTHER -> Pending /\ words_done = IF state = "ADDR" THEN 0 ELSE Words(Cur)

\* And in each state of the packet side.
AtReply ==
    /\ ifstate \in {"GAP", "IDLE", "FIRST"} => waddr = 1
    /\ ifstate = "FIRST" => rctr = 1
    /\ ifstate = "HDR" => rctr <= HeaderWords /\ waddr = rctr /\ Copied(rctr - 1)
    /\ ifstate = "PREBODY" => waddr = HeaderWords + 1 /\ Copied(HeaderWords)
    /\ ifstate = "BODY" => Copied(HeaderWords) /\ InReply
    /\ ifstate = "DONE" /\ served # <<>> => Copied(HeaderWords) /\ Whole

ReplyInv == BusInv /\ AtReply /\ ReplyMatchesServed

-----------------------------------------------------------------------------
\* How long a reply is depends on a transaction's type, its cycles and its code.
LEMMA ReplyLengthNat ==
    ASSUME NEW C, NEW s \in Entries(C)
    PROVE  /\ ReadCycles(s) \in Nat /\ ReplyLength(s) \in Nat
           /\ Len(s.cycles) \in Nat
<1>1. Len(s.cycles) \in Nat
    <2>1. s.cycles \in Seq(C)
        BY DEF Entries
    <2> QED BY <2>1, LenProperties
<1>2. ReadCycles(s) \in Nat
    BY <1>1 DEF ReadCycles
<1> QED BY <1>1, <1>2 DEF ReplyLength

\* The places of the replies are the partial sums of their lengths.
LEMMA ReplyPlacesAre ==
    ASSUME NEW C, NEW f \in Seq(Entries(C))
    PROVE  /\ ReplyPlaces(f)[1] = 1
           /\ \A k \in 1 .. Len(f) :
                 ReplyPlaces(f)[k + 1] = ReplyPlaces(f)[k] + ReplyLength(f[k])
<1> DEFINE s == [i \in 1 .. Len(f) |-> ReplyLength(f[i])]
           n == Len(f)
<1>1. s \in [1 .. n -> Nat] /\ n \in Nat
    <2>1. \A i \in 1 .. Len(f) : f[i] \in Entries(C)
        BY ElementOfSeq
    <2>2. \A i \in 1 .. Len(f) : ReplyLength(f[i]) \in Nat
        BY <2>1, ReplyLengthNat
    <2> QED BY <2>2, LenProperties
<1>2. PICK p : p = [i \in 1 .. n + 1 |-> IF i = 1 THEN 1 ELSE p[i - 1] + s[i - 1]]
    <2> HIDE DEF s, n
    <2> QED BY <1>1, PlacesExist
<1>3. \A i \in 1 .. n + 1 : i # 1 => s[i - 1] = ReplyLength(f[i - 1])
    BY <1>1
<1>4. [i \in 1 .. n + 1 |-> IF i = 1 THEN 1 ELSE p[i - 1] + s[i - 1]]
        = [i \in 1 .. n + 1 |-> IF i = 1 THEN 1 ELSE p[i - 1] + ReplyLength(f[i - 1])]
    <2> HIDE DEF s, n
    <2> QED BY <1>3
<1>5. p = [i \in 1 .. Len(f) + 1 |-> IF i = 1 THEN 1 ELSE p[i - 1] + ReplyLength(f[i - 1])]
    BY <1>2, <1>4
<1>6. ReplyPlaces(f) = CHOOSE g : g = [i \in 1 .. Len(f) + 1 |->
                                          IF i = 1 THEN 1 ELSE g[i - 1] + ReplyLength(f[i - 1])]
    BY DEF ReplyPlaces
<1> DEFINE r == ReplyPlaces(f)
           L(k) == ReplyLength(f[k])
<1>7. r = [i \in 1 .. Len(f) + 1 |-> IF i = 1 THEN 1 ELSE r[i - 1] + L(i - 1)]
    BY <1>5, <1>6
<1> HIDE DEF r, L
<1>8. \A k \in 1 .. n + 1 : r[k] = IF k = 1 THEN 1 ELSE r[k - 1] + L(k - 1)
    BY <1>7
<1>9. r[1] = 1
    BY <1>1, <1>8
<1>10. ASSUME NEW k \in 1 .. n PROVE r[k + 1] = r[k] + L(k)
    <2> HIDE DEF n
    <2>1. k + 1 \in 1 .. n + 1 /\ k + 1 # 1 /\ (k + 1) - 1 = k
        BY <1>1
    <2>2. r[k + 1] = r[(k + 1) - 1] + L((k + 1) - 1)
        BY <1>8, <2>1
    <2> QED BY <2>1, <2>2
<1> QED BY <1>9, <1>10 DEF r, L

\* They are numbers, and never go back.
LEMMA ReplyPlaceFacts ==
    ASSUME NEW C, NEW f \in Seq(Entries(C))
    PROVE  /\ \A k \in 1 .. Len(f) + 1 : ReplyPlaces(f)[k] \in Nat \ {0}
           /\ \A i, j \in 1 .. Len(f) + 1 :
                 i <= j => ReplyPlaces(f)[i] <= ReplyPlaces(f)[j]
<1> DEFINE n == Len(f)
           P(k) == ReplyPlaces(f)[k]
           D(k) == ReplyLength(f[k])
<1>1. n \in Nat /\ \A k \in 1 .. n : D(k) \in Nat
    <2>1. \A i \in 1 .. Len(f) : f[i] \in Entries(C)
        BY ElementOfSeq
    <2> QED BY <2>1, ReplyLengthNat, LenProperties
<1>2. P(1) = 1 /\ \A k \in 1 .. n : P(k + 1) = P(k) + D(k)
    BY ReplyPlacesAre
<1> HIDE DEF n, P, D
<1>3. \A k \in 1 .. n + 1 : P(k) \in Nat \ {0}
    <2> DEFINE S == {k \in Nat : P(k) \in Nat \ {0}}
    <2>1. 1 \in S
        BY <1>2
    <2>2. \A k \in 1 .. n : k \in S => k + 1 \in S
        BY <1>1, <1>2
    <2>3. \A k \in 1 .. n + 1 : k \in S
        <3> HIDE DEF S
        <3> QED BY <1>1, <2>1, <2>2, Counting
    <2> QED BY <2>3
<1>4. ASSUME NEW i \in 1 .. n + 1, NEW j \in 1 .. n + 1, i <= j
      PROVE  P(i) <= P(j)
    <2> DEFINE S == {k \in Nat : i <= k => P(i) <= P(k)}
    <2>1. 1 \in S
        BY <1>1, <1>2, <1>4
    <2>2. \A k \in 1 .. n : k \in S => k + 1 \in S
        <3> SUFFICES ASSUME NEW k \in 1 .. n, k \in S, i <= k + 1 PROVE P(i) <= P(k + 1)
            BY <1>1
        <3>1. P(k + 1) = P(k) + D(k) /\ P(k) \in Nat /\ D(k) \in Nat /\ P(i) \in Nat
            BY <1>1, <1>2, <1>3
        <3>2. i = k + 1 \/ i <= k
            BY <1>1
        <3>3. i = k + 1 \/ P(i) <= P(k)
            BY <3>2
        <3> QED BY <3>1, <3>3
    <2>3. \A k \in 1 .. n + 1 : k \in S
        <3> HIDE DEF S
        <3> QED BY <1>1, <2>1, <2>2, Counting
    <2>4. j \in S
        <3> HIDE DEF S
        <3> QED BY <2>3
    <2> QED BY <1>4, <2>4
<1> QED BY <1>3, <1>4 DEF n, P, D

\* Where a reply is depends on those before it only.
LEMMA SamePlaces ==
    ASSUME NEW C, NEW f \in Seq(Entries(C)), NEW D, NEW g \in Seq(Entries(D)),
           NEW m \in Nat, m <= Len(f), m <= Len(g), \A k \in 1 .. m : g[k] = f[k]
    PROVE  \A k \in 1 .. m + 1 : ReplyPlaces(g)[k] = ReplyPlaces(f)[k]
<1> DEFINE S == {k \in Nat : ReplyPlaces(g)[k] = ReplyPlaces(f)[k]}
<1>1. Len(f) \in Nat /\ Len(g) \in Nat
    BY LenProperties
<1>2. 1 \in S
    BY ReplyPlacesAre
<1>3. \A k \in 1 .. m : k \in S => k + 1 \in S
    <2> SUFFICES ASSUME NEW k \in 1 .. m, ReplyPlaces(g)[k] = ReplyPlaces(f)[k]
                 PROVE  ReplyPlaces(g)[k + 1] = ReplyPlaces(f)[k + 1]
        OBVIOUS
    <2>1. k \in 1 .. Len(f) /\ k \in 1 .. Len(g)
        BY <1>1
    <2>2. ReplyPlaces(f)[k + 1] = ReplyPlaces(f)[k] + ReplyLength(f[k])
        BY <2>1, ReplyPlacesAre
    <2>3. ReplyPlaces(g)[k + 1] = ReplyPlaces(g)[k] + ReplyLength(g[k])
        BY <2>1, ReplyPlacesAre
    <2> QED BY <2>2, <2>3
<1>4. \A k \in 1 .. m + 1 : k \in S
    <2> HIDE DEF S
    <2> QED BY <1>2, <1>3, Counting
<1> QED BY <1>4

\* The words of a reply.
LEMMA ReplyWords ==
    ASSUME NEW C, NEW s \in Entries(C)
    PROVE  /\ s.code # 1 => ReplyTo(s)[1] = <<"reply", [type |-> s.type, at |-> s.at],
                                              Words(s), s.code>>
           /\ \A i \in 2 .. ReplyLength(s) :
                 ReplyTo(s)[i] = <<"data", s.cycles[i - 1].data[1]>>
<1>1. ReadCycles(s) \in Nat /\ ReplyLength(s) \in Nat
    BY ReplyLengthNat
<1>2. s.code # 1 => 1 \in 1 .. ReplyLength(s)
    BY <1>1 DEF ReplyLength
<1>3. \A i \in 2 .. ReplyLength(s) : i \in 1 .. ReplyLength(s) /\ i # 1
    BY <1>1
<1> QED BY <1>2, <1>3 DEF ReplyTo

\* Where the last reply begins and ends.
LEMMA EndFacts ==
    ASSUME NEW C, served \in Seq(Entries(C))
    PROVE  /\ Len(served) \in Nat /\ End \in Nat \ {0} /\ HeaderWords \in Nat
           /\ served = <<>> => End = 1
           /\ served # <<>> => /\ Len(served) > 0 /\ Cur \in Entries(C)
                               /\ ReplyPlaces(served)[Len(served)] \in Nat \ {0}
                               /\ End = ReplyPlaces(served)[Len(served)] + ReplyLength(Cur)
                               /\ ReadCycles(Cur) \in Nat /\ ReplyLength(Cur) \in Nat
<1>1. Len(served) \in Nat /\ HeaderWords \in Nat
    BY LenProperties, TransactorAssumption
<1>2. Len(served) + 1 \in 1 .. Len(served) + 1
    BY <1>1
<1>3. End \in Nat \ {0}
    BY <1>2, ReplyPlaceFacts DEF End
<1>4. ASSUME served = <<>> PROVE End = 1
    <2>1. Len(served) + 1 = 1
        BY <1>4
    <2>2. ReplyPlaces(served)[1] = 1
        BY ReplyPlacesAre
    <2> QED BY <2>1, <2>2 DEF End
<1>5. ASSUME served # <<>>
      PROVE  /\ Len(served) > 0 /\ Cur \in Entries(C)
             /\ ReplyPlaces(served)[Len(served)] \in Nat \ {0}
             /\ End = ReplyPlaces(served)[Len(served)] + ReplyLength(Cur)
             /\ ReadCycles(Cur) \in Nat /\ ReplyLength(Cur) \in Nat
    <2>1. Len(served) \in 1 .. Len(served)
        BY <1>5, EmptySeq
    <2>2. Len(served) \in 1 .. Len(served) + 1
        BY <2>1
    <2>3. Cur \in Entries(C)
        BY <2>1, ElementOfSeq DEF Cur
    <2>4. ReplyPlaces(served)[Len(served)] \in Nat \ {0}
        BY <2>2, ReplyPlaceFacts
    <2>5. End = ReplyPlaces(served)[Len(served)] + ReplyLength(Cur)
        BY <2>1, ReplyPlacesAre DEF End, Cur
    <2> QED BY <2>1, <2>3, <2>4, <2>5, ReplyLengthNat
<1> QED BY <1>1, <1>3, <1>4, <1>5

\* A buffer q still holds what r held below an address, but for word 0.
Keeps(r, q, bound) ==
    \A b \in 1 .. bound - 1 : b \in DOMAIN r => b \in DOMAIN q /\ q[b] = r[b]

\* A write goes to its own address.
LEMMA OneWrite ==
    ASSUME NEW a \in Nat, NEW w, Write(a, w)
    PROVE  /\ a \in DOMAIN reply' /\ reply'[a] = w
           /\ \A b : b # a /\ b \in DOMAIN reply => b \in DOMAIN reply' /\ reply'[b] = reply[b]
BY DEF Write

\* The copy of the packet header stays.
LEMMA CopiedKept ==
    ASSUME NEW n \in Nat, Copied(n), Keeps(reply, reply', n + 1)
    PROVE  Copied(n)'
BY DEF Copied, Keeps, Holds

\* So do replies that are whole.
LEMMA RepliesKept ==
    ASSUME NEW C, NEW f \in Seq(Entries(C)), NEW m \in 0 .. Len(f), NEW r, NEW q,
           HoldReplies(r, f, m), NEW bound, bound = HeaderWords + ReplyPlaces(f)[m + 1],
           Keeps(r, q, bound)
    PROVE  HoldReplies(q, f, m)
<1> SUFFICES ASSUME NEW k \in 1 .. m, NEW i \in 1 .. ReplyLength(f[k])
             PROVE  LET a == HeaderWords + ReplyPlaces(f)[k] + i - 1
                    IN  a \in DOMAIN q /\ q[a] = ReplyTo(f[k])[i]
    BY DEF HoldReplies, HoldReply
<1> DEFINE P == ReplyPlaces(f)
           a == HeaderWords + P[k] + i - 1
<1>1. a \in DOMAIN r /\ r[a] = ReplyTo(f[k])[i]
    BY DEF HoldReplies, HoldReply
<1>2. a \in 1 .. bound - 1
    <2>1. /\ Len(f) \in Nat /\ k \in 1 .. Len(f) /\ k + 1 \in 1 .. Len(f) + 1
          /\ m + 1 \in 1 .. Len(f) + 1 /\ k \in 1 .. Len(f) + 1 /\ k + 1 <= m + 1
        BY LenProperties
    <2>2. P[k + 1] = P[k] + ReplyLength(f[k])
        BY <2>1, ReplyPlacesAre
    <2>3. P[k] \in Nat \ {0} /\ P[m + 1] \in Nat /\ P[k + 1] <= P[m + 1]
        BY <2>1, ReplyPlaceFacts
    <2>4. f[k] \in Entries(C)
        BY <2>1, ElementOfSeq
    <2>5. ReplyLength(f[k]) \in Nat /\ i \in 1 .. ReplyLength(f[k])
        BY <2>4, ReplyLengthNat
    <2>6. HeaderWords \in Nat
        BY TransactorAssumption
    <2>7. /\ P[k] + i - 1 < P[m + 1] /\ P[k] + i - 1 >= 1
          /\ P[k] \in Nat /\ P[m + 1] \in Nat /\ i \in Nat
        <3> HIDE DEF P
        <3> QED BY <2>2, <2>3, <2>5
    <2>8. \A h, p, t, j \in Nat :
              p + j - 1 < t /\ p + j - 1 >= 1 => h + p + j - 1 \in 1 .. h + t - 1
        OBVIOUS
    <2>9. a \in 1 .. HeaderWords + P[m + 1] - 1
        BY <2>6, <2>7, <2>8
    <2>10. bound = HeaderWords + P[m + 1]
        OBVIOUS
    <2> HIDE DEF a, P
    <2> QED BY <2>6, <2>7, <2>9, <2>10
<1>3. a \in DOMAIN q /\ q[a] = r[a]
    <2>1. \A b \in 1 .. bound - 1 : b \in DOMAIN r => b \in DOMAIN q /\ q[b] = r[b]
        BY DEF Keeps
    <2> HIDE DEF a, P
    <2> QED BY <1>1, <1>2, <2>1
<1> QED BY <1>1, <1>3

\* The replies are the same to another list that begins with the same transactions.
LEMMA SameReplies ==
    ASSUME NEW C, NEW f \in Seq(Entries(C)), NEW D, NEW g \in Seq(Entries(D)), NEW r,
           NEW m \in Nat, m <= Len(f), m <= Len(g), \A k \in 1 .. m : g[k] = f[k],
           HoldReplies(r, f, m)
    PROVE  HoldReplies(r, g, m)
<1>1. \A k \in 1 .. m + 1 : ReplyPlaces(g)[k] = ReplyPlaces(f)[k]
    BY SamePlaces
<1>2. \A k \in 1 .. m : k \in 1 .. m + 1
    OBVIOUS
<1> QED BY <1>1, <1>2 DEF HoldReplies, HoldReply

-----------------------------------------------------------------------------
\* One edge in the body, with the reply buffer.
BodyEdge(rx, bus) ==
    /\ ifstate = "BODY" /\ Step(rx, bus) /\ WordsDone(bus) /\ Waddr(bus) /\ ReplyWrite(bus)

\* An edge at which the bus side has no word for the reply leaves the buffer alone.
LEMMA NothingWritten ==
    ASSUME TypeOK, NEW rx, NEW bus, BodyEdge(rx, bus), ~tx_we(bus)
    PROVE  /\ reply' = reply /\ waddr' = waddr /\ wctr' = wctr /\ haddr' = haddr
           /\ first' = first
<1>1. state # "HDR" /\ ifstate = "BODY"
    BY DEF BodyEdge, tx_we
<1>2. reply' = reply /\ waddr' = waddr
    BY <1>1 DEF BodyEdge, ReplyWrite, Waddr
<1>3. wctr' = wctr /\ haddr' = haddr
    BY <1>1 DEF BodyEdge, Step, IfRegisters, tx_hdr
<1>4. first' = (first /\ TRUE) /\ first \in BOOLEAN
    BY <1>1 DEF BodyEdge, Step, IfRegisters, TypeOK
<1> QED BY <1>2, <1>3, <1>4

\* Nor are the replies other ones.
LEMMA SamePending ==
    ASSUME Pending, served' = served, reply' = reply, waddr' = waddr, wctr' = wctr,
           haddr' = haddr, first' = first
    PROVE  Pending'
BY DEF Pending, End, Cur

\* A transaction under way is one with a reply.
LEMMA PendingBody ==
    ASSUME ReplyInv, ifstate = "BODY", state \notin {"IDLE", "HDR"}
    PROVE  /\ Pending /\ words_done = (IF state = "ADDR" THEN 0 ELSE Words(Cur))
           /\ err_d = 0 /\ UnderWay /\ Cur.type = Hd.type /\ Cur.at = From
           /\ hdr = [type |-> Cur.type, at |-> Cur.at] /\ hdr.type = Cur.type
           /\ served # <<>>
<1>1. InReply
    BY DEF ReplyInv, AtReply
<1>2. Pending /\ words_done = IF state = "ADDR" THEN 0 ELSE Words(Cur)
    BY <1>1 DEF InReply
<1>3. /\ err_d = 0 /\ UnderWay /\ Follows(Cur, Hd, From)
    BY BodyFacts DEF ReplyInv
<1>4. Cur.type = Hd.type /\ Cur.at = From /\ hdr = [type |-> Hd.type, at |-> From]
    BY <1>3 DEF Follows, UnderWay
<1>5. served # <<>>
    BY <1>3 DEF UnderWay, ReplyInv, BusInv, IInv, HasBegun
<1> QED BY <1>2, <1>3, <1>4, <1>5

\* The header of a reply is ready when its transaction is over.
LEMMA HeaderReady ==
    ASSUME NEW C, served' \in Seq(Entries(C)), served' # <<>>, Cur'.code # 1,
           state' = "HDR", hdr' = [type |-> Cur'.type, at |-> Cur'.at],
           words_done' = Words(Cur'), err_d' = Cur'.code, Pending'
    PROVE  InReply'
<1>1. Cur' \in Entries(C)
    <2>1. Len(served') \in 1 .. Len(served')
        BY EmptySeq
    <2> QED BY <2>1, ElementOfSeq DEF Cur
<1>2. ReplyTo(Cur')[1] = <<"reply", [type |-> Cur'.type, at |-> Cur'.at], Words(Cur'), Cur'.code>>
    BY <1>1, ReplyWords
<1>3. tx_data' = <<"reply", hdr', words_done', err_d'>>
    BY DEF tx_data, tx_hdr
<1> QED BY <1>2, <1>3 DEF InReply

\* The edge at which the address is taken.
LEMMA AddrReply ==
    ASSUME ReplyInv, state = "ADDR", NEW rx, NEW bus, BodyEdge(rx, bus)
    PROVE  InReply'
<1>1. /\ Pending /\ words_done = 0 /\ err_d = 0 /\ UnderWay /\ Cur.type = Hd.type
      /\ hdr = [type |-> Cur.type, at |-> Cur.at] /\ hdr.type = Cur.type /\ served # <<>>
    BY PendingBody DEF BodyEdge
<1>2. Ran = 0 /\ ~rmw_write /\ Cur.code = 0
    BY <1>1 DEF UnderWay, Stage, AtAddr
<1>3. /\ served' = served /\ err_d' = 0 /\ hdr' = hdr /\ state' \in {"BUS_CYCLE", "HDR"}
    BY <1>1 DEF BodyEdge, Step, Serve, SmState, SmRegisters, err, strobe
<1>4. Pending'
    <2>1. ~tx_we(bus)
        BY DEF tx_we
    <2>2. TypeOK
        BY DEF ReplyInv, BusInv, IInv
    <2> QED BY <1>1, <1>3, <2>1, <2>2, NothingWritten, SamePending
<1>5. words_done' = Words(Cur)
    <2>1. /\ ack(bus) = cfg_cyc /\ cfg_cyc = (Cur.type \in CfgTypes)
          /\ rmw_cyc = (Cur.type \in RmwTypes)
        BY <1>1 DEF ack, strobe, cfg_cyc, rmw_cyc
    <2>2. /\ Len(Cur.cycles) = 0 /\ ReadCycles(Cur) = 0
        BY <1>2 DEF Ran, ReadCycles
    <2>3. CASE Cur.type \in CfgTypes
        <3>1. Cur.type \notin RmwTypes
            BY <2>3 DEF CfgTypes, RmwTypes
        <3> QED BY <1>1, <2>1, <2>2, <2>3, <3>1 DEF BodyEdge, WordsDone, Words
    <2>4. CASE Cur.type \notin CfgTypes
        <3>1. words_done' = 0
            BY <1>1, <2>1, <2>4 DEF BodyEdge, WordsDone
        <3> QED BY <2>2, <2>4, <3>1 DEF Words
    <2> QED BY <2>3, <2>4
<1>6. Cur' = Cur
    BY <1>3 DEF Cur
<1>7. CASE state' = "BUS_CYCLE"
    BY <1>3, <1>4, <1>5, <1>6, <1>7 DEF InReply
<1>8. CASE state' = "HDR"
    <2>1. PICK C : served \in Seq(Entries(C))
        BY DEF ReplyInv, BusInv, ServedType
    <2> QED BY <1>1, <1>2, <1>3, <1>4, <1>5, <1>6, <1>8, <2>1, HeaderReady
<1> QED BY <1>3, <1>7, <1>8

\* The two edges at which the operands of a read-modify-write are taken.
LEMMA OperandReply ==
    ASSUME ReplyInv, state \in {"RMW_1", "RMW_2"}, NEW rx, NEW bus, BodyEdge(rx, bus)
    PROVE  InReply'
<1>1. /\ Pending /\ words_done = Words(Cur) /\ UnderWay /\ Cur.type = Hd.type
      /\ hdr.type = Cur.type
    BY PendingBody DEF BodyEdge
<1>2. Cur.type \in RmwTypes
    BY <1>1 DEF UnderWay, Stage, AtRmw1, AtRmw2, Rmw, RmwTypes
<1>3. ~ack(bus)
    BY <1>1, <1>2 DEF ack, strobe, cfg_cyc, RmwTypes, CfgTypes
<1>4. served' = served /\ state' \in {"RMW_2", "BUS_CYCLE"} /\ words_done' = words_done
    BY <1>3 DEF BodyEdge, Step, Serve, SmState, WordsDone
<1>5. Pending'
    <2>1. ~tx_we(bus)
        BY DEF tx_we
    <2>2. TypeOK
        BY DEF ReplyInv, BusInv, IInv
    <2> QED BY <1>1, <1>4, <2>1, <2>2, NothingWritten, SamePending
<1>6. Cur' = Cur
    BY <1>4 DEF Cur
<1> QED BY <1>1, <1>4, <1>5, <1>6 DEF InReply

\* What a cycle adds to the history.
LEMMA CycleServed ==
    ASSUME BusInv, state = "BUS_CYCLE", NEW rx, NEW bus, Serve(rx, bus),
           NEW C, served \in Seq(Entries(C))
    PROVE  /\ Len(served') = Len(served) /\ Len(served) \in Nat \ {0}
           /\ \A k \in 1 .. Len(served) - 1 : served'[k] = served[k]
           /\ Cur \in Entries(C) /\ Cur.cycles \in Seq(C)
           /\ Cur' = [Cur EXCEPT !.cycles = IF ack(bus) THEN Append(@, Cycle(bus)) ELSE @,
                                 !.code = err(rx, bus)]
           /\ Cur'.type = Cur.type /\ Cur'.at = Cur.at /\ Cur'.code = err(rx, bus)
           /\ Cur'.cycles = IF ack(bus) THEN Append(Cur.cycles, Cycle(bus)) ELSE Cur.cycles
<1>1. Len(served) \in Nat \ {0} /\ Len(served) \in 1 .. Len(served)
    BY BodyFacts
<1>2. Cur \in Entries(C)
    BY <1>1, ElementOfSeq DEF Cur
<1>3. Cur.cycles \in Seq(C) /\ DOMAIN Cur = {"type", "at", "cycles", "code"}
    BY <1>2 DEF Entries
<1> DEFINE done == IF ack(bus) THEN Append(Cur.cycles, Cycle(bus)) ELSE Cur.cycles
           r == [Cur EXCEPT !.cycles = done, !.code = err(rx, bus)]
<1>4. served' = [served EXCEPT ![Len(served)] = r]
    BY DEF Serve, Cur
<1>5. r.cycles = done /\ r.code = err(rx, bus) /\ r.type = Cur.type /\ r.at = Cur.at
    <2> HIDE DEF done
    <2> QED BY <1>3
<1>6. DOMAIN served = 1 .. Len(served) /\ served \in [1 .. Len(served) -> Entries(C)]
    BY LenProperties
<1>7. r = [Cur EXCEPT !.cycles = IF ack(bus) THEN Append(@, Cycle(bus)) ELSE @,
                      !.code = err(rx, bus)]
    OBVIOUS
<1> HIDE DEF r
<1>8. Len(served') = Len(served)
    <2>1. served \in Seq(Entries(C) \cup {r}) /\ r \in Entries(C) \cup {r}
        BY SeqMonotonic
    <2> QED BY <1>1, <1>4, <2>1, ExceptSeq
<1>9. served'[Len(served)] = r /\ \A k \in 1 .. Len(served) - 1 : served'[k] = served[k]
    <2>1. \A k \in 1 .. Len(served) - 1 : k \in 1 .. Len(served) /\ k # Len(served)
        BY <1>1
    <2> QED BY <1>1, <1>4, <1>6, <2>1
<1>10. Cur' = r
    BY <1>8, <1>9 DEF Cur
<1> QED BY <1>1, <1>2, <1>3, <1>5, <1>7, <1>8, <1>9, <1>10

\* Which cycles go into the reply, and what is counted.
LEMMA CycleCounted ==
    ASSUME ReplyInv, state = "BUS_CYCLE", NEW rx, NEW bus, BodyEdge(rx, bus),
           NEW C, served \in Seq(Entries(C))
    PROVE  /\ ReadCycles(Cur') = IF ack(bus) /\ ~write THEN ReadCycles(Cur) + 1
                                 ELSE ReadCycles(Cur)
           /\ \A i \in 1 .. ReadCycles(Cur) : Cur'.cycles[i] = Cur.cycles[i]
           /\ ack(bus) /\ ~write => Cur'.cycles[ReadCycles(Cur) + 1] = Cycle(bus)
           /\ words_done' = Words(Cur')
<1>1. BusInv /\ Serve(rx, bus)
    BY DEF ReplyInv, BodyEdge, Step
<1>2. /\ Cur'.type = Cur.type /\ Cur \in Entries(C) /\ Cur.cycles \in Seq(C)
      /\ Cur'.cycles = IF ack(bus) THEN Append(Cur.cycles, Cycle(bus)) ELSE Cur.cycles
    BY <1>1, CycleServed
<1>3. /\ words_done = Words(Cur) /\ UnderWay /\ Cur.type = Hd.type /\ hdr.type = Cur.type
    BY PendingBody DEF BodyEdge
<1>4. Ran \in Nat /\ Len(Cur.cycles) = Ran /\ Hd.words \in 0 .. WordRange - 1 /\ Hd \in Headers
      /\ Hd.type # "BAD" /\ WordRange \in Nat \ {0, 1}
    BY <1>1, BodyFacts, TransactorAssumption DEF Ran
<1>5. /\ Rmw => \/ ~rmw_write /\ Ran = 0
                \/ rmw_write /\ Ran = 1
      /\ ~Rmw => ~rmw_write /\ Ran < Hd.words
    BY <1>3 DEF UnderWay, Stage, AtRead, AtWrite, AtPlain
<1>6. ack(bus) => /\ Len(Cur'.cycles) = Ran + 1 /\ Cur'.cycles[Ran + 1] = Cycle(bus)
                  /\ \A i \in 1 .. Ran : Cur'.cycles[i] = Cur.cycles[i]
    <2>1. Cur.cycles \in Seq(C \cup {Cycle(bus)}) /\ Cycle(bus) \in C \cup {Cycle(bus)}
        BY <1>2, SeqMonotonic
    <2> QED BY <1>2, <1>4, <2>1, AppendProperties
<1>7. ~ack(bus) => Cur'.cycles = Cur.cycles
    BY <1>2
<1>8. words_done' = IF ack(bus) /\ (Cur.type \notin RmwTypes \/ rmw_write)
                    THEN (words_done + 1) % WordRange ELSE words_done
    BY <1>3 DEF BodyEdge, WordsDone, rmw_cyc
<1>9. write <=> Cur.type \in WriteTypes \/ rmw_write
    BY <1>3 DEF write
<1>10. CASE ~ack(bus)
    <2>1. ReadCycles(Cur') = ReadCycles(Cur) /\ Words(Cur') = Words(Cur)
        BY <1>2, <1>7, <1>10 DEF ReadCycles, Words
    <2> QED BY <1>3, <1>7, <1>8, <1>10, <2>1
<1>11. CASE ack(bus) /\ Cur.type \in WriteTypes
    <2>1. /\ Cur.type \notin RmwTypes /\ Cur'.type \in WriteTypes /\ Cur'.type \notin RmwTypes
          /\ write /\ Ran < Hd.words
        BY <1>2, <1>3, <1>5, <1>9, <1>11 DEF Rmw, RmwTypes, WriteTypes
    <2>2. ReadCycles(Cur') = 0 /\ ReadCycles(Cur) = 0
        BY <1>2, <1>11, <2>1 DEF ReadCycles
    <2>3. words_done' = (Words(Cur) + 1) % WordRange
        BY <1>3, <1>8, <1>11, <2>1
    <2>4. Words(Cur') = (Words(Cur) + 1) % WordRange
        <3>1. CASE Cur.type \in CfgTypes
            <4>1. Words(Cur) = (Ran + 1) % WordRange /\ Words(Cur') = (Ran + 1 + 1) % WordRange
                BY <1>2, <1>4, <1>6, <1>11, <2>1, <3>1 DEF Words
            <4>2. Ran + 1 \in 0 .. WordRange - 1
                BY <1>4, <2>1
            <4>3. (Ran + 1) % WordRange = Ran + 1
                BY <1>4, <4>2
            <4> QED BY <4>1, <4>3
        <3>2. CASE Cur.type \notin CfgTypes
            <4>1. Words(Cur) = Ran /\ Words(Cur') = Ran + 1
                BY <1>2, <1>4, <1>6, <1>11, <2>1, <3>2 DEF Words
            <4>2. Ran + 1 \in 0 .. WordRange - 1
                BY <1>4, <2>1
            <4>3. (Ran + 1) % WordRange = Ran + 1
                BY <1>4, <4>2
            <4> QED BY <4>1, <4>3
        <3> QED BY <3>1, <3>2
    <2>5. \A i \in 1 .. ReadCycles(Cur) : Cur'.cycles[i] = Cur.cycles[i]
        BY <2>2
    <2> QED BY <2>1, <2>2, <2>3, <2>4, <2>5
<1>12. CASE ack(bus) /\ Cur.type \in ReadTypes
    <2>1. /\ Cur.type \notin RmwTypes /\ Cur.type \notin WriteTypes
          /\ ~write /\ Ran < Hd.words
        BY <1>2, <1>3, <1>5, <1>9, <1>12 DEF Rmw, RmwTypes, WriteTypes, ReadTypes
    <2>2. ReadCycles(Cur') = Ran + 1 /\ ReadCycles(Cur) = Ran
        BY <1>2, <1>4, <1>6, <1>12, <2>1 DEF ReadCycles
    <2>3. words_done' = (Words(Cur) + 1) % WordRange
        BY <1>3, <1>8, <1>12, <2>1
    <2>4. Words(Cur') = (Words(Cur) + 1) % WordRange
        <3>1. CASE Cur.type \in CfgTypes
            <4>1. Words(Cur) = (Ran + 1) % WordRange /\ Words(Cur') = (Ran + 1 + 1) % WordRange
                BY <1>2, <1>4, <1>6, <1>12, <2>1, <3>1 DEF Words
            <4>2. Ran + 1 \in 0 .. WordRange - 1
                BY <1>4, <2>1
            <4>3. (Ran + 1) % WordRange = Ran + 1
                BY <1>4, <4>2
            <4> QED BY <4>1, <4>3
        <3>2. CASE Cur.type \notin CfgTypes
            <4>1. Words(Cur) = Ran /\ Words(Cur') = Ran + 1
                BY <1>2, <1>4, <1>6, <1>12, <2>1, <3>2 DEF Words
            <4>2. Ran + 1 \in 0 .. WordRange - 1
                BY <1>4, <2>1
            <4>3. (Ran + 1) % WordRange = Ran + 1
                BY <1>4, <4>2
            <4> QED BY <4>1, <4>3
        <3> QED BY <3>1, <3>2
    <2> QED BY <1>6, <1>12, <2>1, <2>2, <2>3, <2>4
<1>13. CASE ack(bus) /\ Cur.type \in RmwTypes
    <2>1. /\ Rmw /\ Cur.type \notin WriteTypes /\ Cur.type \notin CfgTypes
          /\ Cur'.type \in RmwTypes /\ Cur'.type \notin WriteTypes /\ Cur'.type \notin CfgTypes
        BY <1>2, <1>3, <1>13 DEF Rmw, RmwTypes, WriteTypes, CfgTypes
    <2>2. CASE ~rmw_write
        <3>0. ~write /\ Ran = 0
            BY <1>5, <1>9, <2>1, <2>2
        <3>1. Ran = 0 /\ ~write /\ Len(Cur'.cycles) = 1
            BY <1>6, <1>13, <3>0
        <3>2. ReadCycles(Cur') = 1 /\ ReadCycles(Cur) = 0
            BY <1>4, <2>1, <3>1 DEF ReadCycles
        <3>3. Words(Cur') = 0 /\ Words(Cur) = 0
            <4>1. Words(Cur') = 1 - 1
                BY <2>1, <3>1, <3>2 DEF Words
            <4>2. Words(Cur) = 0 - 0
                BY <1>4, <1>13, <2>1, <3>1, <3>2 DEF Words
            <4> QED BY <4>1, <4>2
        <3> QED BY <1>3, <1>6, <1>8, <1>13, <2>2, <3>1, <3>2, <3>3
    <2>3. CASE rmw_write
        <3>0. write /\ Ran = 1
            BY <1>5, <1>9, <2>1, <2>3
        <3>1. Ran = 1 /\ write /\ Len(Cur'.cycles) = 2
            BY <1>6, <1>13, <3>0
        <3>2. ReadCycles(Cur') = 1 /\ ReadCycles(Cur) = 1
            BY <1>4, <2>1, <3>1 DEF ReadCycles
        <3>3. Words(Cur') = 1 /\ Words(Cur) = 0
            <4>1. Words(Cur') = 2 - 1
                BY <2>1, <3>1, <3>2 DEF Words
            <4>2. Words(Cur) = 1 - 1
                BY <1>4, <1>13, <2>1, <3>1, <3>2 DEF Words
            <4> QED BY <4>1, <4>2
        <3>4. (0 + 1) % WordRange = 1
            BY <1>4
        <3> QED BY <1>3, <1>6, <1>8, <1>13, <2>3, <3>1, <3>2, <3>3, <3>4
    <2> QED BY <2>2, <2>3
<1>14. Cur.type \in WriteTypes \/ Cur.type \in ReadTypes \/ Cur.type \in RmwTypes
    BY <1>3, <1>4 DEF Headers, HeaderTypes, WriteTypes, ReadTypes, RmwTypes, CfgTypes
<1> QED BY <1>10, <1>11, <1>12, <1>13, <1>14

\* The words of the reply to the transaction s, but for its header, are in the buffer r
\* from the address h on.
HoldData(r, h, s) ==
    \A i \in 2 .. ReplyLength(s) : h + i - 1 \in DOMAIN r /\ r[h + i - 1] = ReplyTo(s)[i]

\* The transaction t is s with so many more words read.
Extends(t, s, more) ==
    /\ ReadCycles(t) = ReadCycles(s) + more
    /\ \A i \in 1 .. ReadCycles(s) : t.cycles[i] = s.cycles[i]

\* The last reply, so far, after a cycle: the words it had and, after a read, one more.
LEMMA CycleHolds ==
    ASSUME NEW C, NEW s \in Entries(C), NEW D, NEW t \in Entries(D),
           NEW r, NEW q, NEW h \in Nat \ {0},
           s.code # 1, t.code # 1, NEW more \in {0, 1}, Extends(t, s, more), HoldData(r, h, s),
           NEW a, a = h + ReplyLength(s), Keeps(r, q, a),
           more = 1 => a \in DOMAIN q /\ q[a] = <<"data", t.cycles[ReadCycles(s) + 1].data[1]>>
    PROVE  HoldData(q, h, t)
<1>1. /\ ReadCycles(s) \in Nat /\ ReadCycles(t) \in Nat
      /\ ReplyLength(s) = 1 + ReadCycles(s) /\ ReplyLength(t) = 1 + ReadCycles(s) + more
    BY ReplyLengthNat DEF ReplyLength, Extends
<1> SUFFICES ASSUME NEW i \in 2 .. ReplyLength(t), NEW b, b = h + i - 1
             PROVE  b \in DOMAIN q /\ q[b] = ReplyTo(t)[i]
    BY DEF HoldData
<1>2. ReplyTo(t)[i] = <<"data", t.cycles[i - 1].data[1]>>
    BY ReplyWords
<1>3. CASE i <= ReplyLength(s)
    <2>1. i \in 2 .. ReplyLength(s) /\ i - 1 \in 1 .. ReadCycles(s)
        BY <1>1, <1>3
    <2>2. ReplyTo(s)[i] = <<"data", s.cycles[i - 1].data[1]>>
        BY <2>1, ReplyWords
    <2>3. ReplyTo(t)[i] = ReplyTo(s)[i]
        BY <1>2, <2>1, <2>2 DEF Extends
    <2>4. b \in 1 .. a - 1
        BY <1>1, <2>1
    <2>5. b \in DOMAIN r /\ r[b] = ReplyTo(s)[i]
        BY <2>1 DEF HoldData
    <2> QED BY <2>3, <2>4, <2>5 DEF Keeps
<1>4. CASE ~(i <= ReplyLength(s))
    <2>1. more = 1 /\ i = ReplyLength(s) + 1 /\ i - 1 = ReadCycles(s) + 1
        BY <1>1, <1>4
    <2>2. b = a
        BY <1>1, <2>1
    <2> QED BY <1>2, <2>1, <2>2
<1> QED BY <1>3, <1>4

\* A bus cycle: what it reads goes behind the words so far.
LEMMA CycleReply ==
    ASSUME ReplyInv, state = "BUS_CYCLE", NEW rx, NEW bus, BodyEdge(rx, bus),
           NEW D, served' \in Seq(Entries(D))
    PROVE  InReply'
<1> DEFINE n == Len(served)
           p == ReplyPlaces(served)[n]
           h == HeaderWords + p
           more == IF ack(bus) /\ ~write THEN 1 ELSE 0
<1>1. PICK C : served \in Seq(Entries(C))
    BY DEF ReplyInv, BusInv, ServedType
<1>2. BusInv /\ TypeOK /\ Serve(rx, bus)
    BY DEF ReplyInv, BusInv, IInv, BodyEdge, Step
<1>3. /\ Pending /\ UnderWay /\ hdr = [type |-> Cur.type, at |-> Cur.at] /\ served # <<>>
      /\ Cur.code = 0
    BY PendingBody DEF BodyEdge, UnderWay
<1>4. /\ Len(served') = n /\ n \in Nat \ {0}
      /\ \A k \in 1 .. n - 1 : served'[k] = served[k]
      /\ Cur \in Entries(C) /\ Cur'.type = Cur.type /\ Cur'.at = Cur.at
      /\ Cur'.code = err(rx, bus)
    BY <1>1, <1>2, CycleServed
<1>5. /\ ReadCycles(Cur') = ReadCycles(Cur) + more
      /\ \A i \in 1 .. ReadCycles(Cur) : Cur'.cycles[i] = Cur.cycles[i]
      /\ ack(bus) /\ ~write => Cur'.cycles[ReadCycles(Cur) + 1] = Cycle(bus)
      /\ words_done' = Words(Cur')
    BY <1>1, <1>4, CycleCounted, ReplyLengthNat
<1>6. err(rx, bus) # 1 /\ Cur'.code # 1
    BY <1>4 DEF err
<1>7. Cur' \in Entries(D) /\ Cur' = served'[n]
    <2>1. n \in 1 .. Len(served')
        BY <1>4
    <2> QED BY <1>4, <2>1, ElementOfSeq DEF Cur
<1>8. \A k \in 1 .. n : ReplyPlaces(served')[k] = ReplyPlaces(served)[k]
    <2>1. /\ n - 1 \in Nat /\ n - 1 <= Len(served) /\ n - 1 <= Len(served')
          /\ (n - 1) + 1 = n
        BY <1>4
    <2>2. \A k \in 1 .. (n - 1) + 1 : ReplyPlaces(served')[k] = ReplyPlaces(served)[k]
        BY <1>1, <1>4, <2>1, SamePlaces
    <2> QED BY <2>1, <2>2
<1>9. /\ p \in Nat \ {0} /\ HeaderWords \in Nat /\ ReadCycles(Cur) \in Nat
      /\ ReplyLength(Cur) = 1 + ReadCycles(Cur) /\ End = p + 1 + ReadCycles(Cur)
      /\ ReplyLength(Cur') = 1 + ReadCycles(Cur) + more
      /\ ReplyPlaces(served')[n] = p
      /\ End' = p + 1 + ReadCycles(Cur) + more
    <2>1. /\ p \in Nat \ {0} /\ HeaderWords \in Nat /\ ReadCycles(Cur) \in Nat
          /\ End = p + ReplyLength(Cur)
        BY <1>1, <1>3, EndFacts
    <2>2. ReplyLength(Cur) = 1 + ReadCycles(Cur)
        BY <1>3 DEF ReplyLength
    <2>3. ReplyLength(Cur') = 1 + (ReadCycles(Cur) + more)
        BY <1>5, <1>6 DEF ReplyLength
    <2>4. n \in 1 .. n /\ n \in 1 .. Len(served')
        BY <1>4
    <2>5. ReplyPlaces(served')[n] = p
        BY <1>8, <2>4
    <2>6. ReplyPlaces(served')[n + 1] = ReplyPlaces(served')[n] + ReplyLength(served'[n])
        BY <2>4, ReplyPlacesAre
    <2>7. End' = p + ReplyLength(Cur')
        BY <1>4, <1>7, <2>5, <2>6 DEF End
    <2> HIDE DEF p, more
    <2>8. more \in {0, 1}
        BY DEF more
    <2> QED BY <2>1, <2>2, <2>3, <2>5, <2>7, <2>8
<1>10. /\ haddr' = haddr /\ ~first' /\ Keeps(reply, reply', waddr)
       /\ waddr' = waddr + more /\ wctr' = wctr + more
       /\ more = 1 => waddr \in DOMAIN reply' /\ reply'[waddr] = <<"data", NextRead>>
    <2>1. CASE tx_we(bus)
        <3>1. more = 1 /\ ~tx_hdr /\ ~first
            BY <1>3, <2>1 DEF tx_we, tx_hdr, Pending
        <3>2. Write(waddr, <<"data", NextRead>>)
            BY <2>1, <3>1 DEF BodyEdge, ReplyWrite, tx_data
        <3>3. waddr' = waddr + 1
            BY <2>1 DEF BodyEdge, Waddr
        <3>4. wctr' = wctr + 1 /\ haddr' = haddr /\ first' = FALSE
            BY <2>1, <3>1 DEF BodyEdge, Step, IfRegisters
        <3>5. waddr \in Nat
            BY <1>2 DEF TypeOK
        <3>6. Keeps(reply, reply', waddr)
            BY <3>2, <3>5, OneWrite DEF Keeps
        <3> QED BY <3>1, <3>2, <3>3, <3>4, <3>5, <3>6, OneWrite
    <2>2. CASE ~tx_we(bus)
        <3>1. more = 0
            BY <2>2 DEF tx_we
        <3>2. /\ reply' = reply /\ waddr' = waddr /\ wctr' = wctr /\ haddr' = haddr
              /\ first' = first
            BY <1>2, <2>2, NothingWritten
        <3>3. waddr \in Nat /\ wctr \in Nat
            BY <1>2 DEF TypeOK
        <3> QED BY <1>3, <3>1, <3>2, <3>3 DEF Pending, Keeps
    <2> QED BY <2>1, <2>2
<1>11. /\ waddr = HeaderWords + p + ReplyLength(Cur) /\ haddr = HeaderWords + p
       /\ waddr = HeaderWords + p + 1 + ReadCycles(Cur) /\ wctr = p + ReadCycles(Cur) - 1
    <2>1. waddr = HeaderWords + End /\ haddr = HeaderWords + p /\ wctr = End - 2
        BY <1>3 DEF Pending
    <2>2. End = p + 1 + ReadCycles(Cur)
        BY <1>9
    <2> HIDE DEF p
    <2>3. /\ waddr = HeaderWords + p + 1 + ReadCycles(Cur)
          /\ p \in Nat /\ HeaderWords \in Nat /\ ReadCycles(Cur) \in Nat
          /\ wctr = p + ReadCycles(Cur) - 1
        BY <1>9, <2>1, <2>2
    <2> QED BY <1>9, <2>1, <2>3
<1>12. /\ h \in Nat \ {0} /\ ReadCycles(Cur) \in Nat /\ waddr = h + ReplyLength(Cur)
       /\ waddr = h + 1 + ReadCycles(Cur)
    <2>1. p \in Nat \ {0} /\ HeaderWords \in Nat /\ ReadCycles(Cur) \in Nat
        BY <1>9
    <2>2. /\ waddr = HeaderWords + p + ReplyLength(Cur)
          /\ waddr = HeaderWords + p + 1 + ReadCycles(Cur)
        BY <1>11
    <2>3. h = HeaderWords + p
        OBVIOUS
    <2> HIDE DEF p, h
    <2> QED BY <2>1, <2>2, <2>3
<1>13. HoldReplies(reply', served', n - 1)
    <2>1. HoldReplies(reply, served, n - 1)
        BY <1>3 DEF Pending
    <2>2. n - 1 \in 0 .. Len(served) /\ (n - 1) + 1 = n /\ n - 1 \in Nat /\ n - 1 <= Len(served)
          /\ n - 1 <= Len(served')
        BY <1>4
    <2>3. Keeps(reply, reply', h)
        <3>1. waddr = h + 1 + ReadCycles(Cur) /\ h \in Nat /\ ReadCycles(Cur) \in Nat
            BY <1>12
        <3> HIDE DEF h
        <3>2. \A b \in 1 .. h - 1 : b \in 1 .. waddr - 1
            BY <3>1
        <3> QED BY <1>10, <3>2 DEF Keeps
    <2>4. h = HeaderWords + ReplyPlaces(served)[(n - 1) + 1]
        BY <2>2
    <2>5. HoldReplies(reply', served, n - 1)
        <3> HIDE DEF h
        <3> QED BY <1>1, <2>1, <2>2, <2>3, <2>4, RepliesKept
    <2> QED BY <1>1, <1>4, <2>2, <2>5, SameReplies
<1>14. HoldReply(reply', served', n, 2)
    <2>1. HoldData(reply, h, Cur)
        BY <1>3 DEF Pending, HoldReply, Cur, HoldData
    <2>2. ASSUME more = 1
          PROVE  reply'[waddr] = <<"data", Cur'.cycles[ReadCycles(Cur) + 1].data[1]>>
        <3>1. ack(bus) /\ ~write
            BY <2>2
        <3>2. Cycle(bus).data = <<NextRead>>
            BY <3>1 DEF Cycle
        <3>3. Cur'.cycles[ReadCycles(Cur) + 1].data[1] = NextRead
            BY <1>5, <3>1, <3>2
        <3> QED BY <1>10, <2>2, <3>3
    <2>3. more \in {0, 1} /\ Keeps(reply, reply', waddr) /\ (more = 1 => waddr \in DOMAIN reply')
        BY <1>10
    <2>4. /\ Cur \in Entries(C) /\ Cur' \in Entries(D) /\ h \in Nat \ {0}
          /\ Cur.code # 1 /\ Cur'.code # 1 /\ waddr = h + ReplyLength(Cur)
        BY <1>3, <1>4, <1>6, <1>7, <1>12
    <2>5. Extends(Cur', Cur, more)
        BY <1>5 DEF Extends
    <2>6. HoldData(reply', h, Cur')
        <3> HIDE DEF h, more
        <3> QED BY <2>1, <2>2, <2>3, <2>4, <2>5, CycleHolds
    <2> QED BY <1>7, <1>9, <2>6 DEF HoldReply, HoldData
<1>15. Pending'
    <2>1. waddr' = HeaderWords + End' /\ wctr' = End' - 2
        <3>1. more \in Nat
            OBVIOUS
        <3>2. /\ p \in Nat /\ HeaderWords \in Nat /\ ReadCycles(Cur) \in Nat
              /\ waddr' = waddr + more /\ waddr = HeaderWords + p + 1 + ReadCycles(Cur)
              /\ wctr' = wctr + more /\ wctr = p + ReadCycles(Cur) - 1
            BY <1>9, <1>10, <1>11
        <3>3. End' = p + 1 + ReadCycles(Cur) + more
            BY <1>9
        <3> HIDE DEF p, more
        <3>4. waddr' = HeaderWords + (p + 1 + ReadCycles(Cur) + more)
            BY <3>1, <3>2
        <3>5. wctr' = (p + 1 + ReadCycles(Cur) + more) - 2
            BY <3>1, <3>2
        <3> QED BY <3>3, <3>4, <3>5
    <2>2. haddr' = HeaderWords + ReplyPlaces(served')[Len(served')]
        BY <1>4, <1>9, <1>10, <1>11
    <2> QED BY <1>4, <1>6, <1>10, <1>13, <1>14, <2>1, <2>2 DEF Pending
<1>16. /\ state' \in {"HDR", "BUS_CYCLE", "RMW_1"} /\ hdr' = hdr /\ err_d' = err(rx, bus)
    BY DEF BodyEdge, Step, SmState, SmRegisters
<1>17. CASE state' = "HDR"
    <2>1. served' # <<>> /\ hdr' = [type |-> Cur'.type, at |-> Cur'.at] /\ err_d' = Cur'.code
        BY <1>3, <1>4, <1>16
    <2> QED BY <1>5, <1>6, <1>15, <1>17, <2>1, HeaderReady
<1>18. CASE state' # "HDR"
    BY <1>5, <1>15, <1>16, <1>18 DEF InReply
<1> QED BY <1>17, <1>18

\* What is written in the body goes behind the copy of the packet header.
LEMMA CopyInBody ==
    ASSUME ReplyInv, ifstate = "BODY", NEW rx, NEW bus, BodyEdge(rx, bus)
    PROVE  Keeps(reply, reply', HeaderWords + 1)
<1>1. PICK C : served \in Seq(Entries(C))
    BY DEF ReplyInv, BusInv, ServedType
<1>2. TypeOK /\ BusInv /\ InReply /\ HeaderWords \in Nat
    BY TransactorAssumption DEF ReplyInv, BusInv, IInv, AtReply
<1>3. ASSUME NEW a \in Nat, NEW w, a >= HeaderWords + 1, Write(a, w)
      PROVE  Keeps(reply, reply', HeaderWords + 1)
    <2> DEFINE top == HeaderWords + 1
    <2>1. top \in Nat /\ a >= top
        BY <1>2, <1>3
    <2> HIDE DEF top
    <2>2. \A b \in 1 .. top - 1 : b # a
        BY <1>3, <2>1
    <2>3. Keeps(reply, reply', top)
        BY <1>3, <2>2, OneWrite DEF Keeps
    <2> QED BY <2>3 DEF top
<1>4. CASE ~tx_we(bus)
    BY <1>2, <1>4, NothingWritten DEF Keeps
<1>5. CASE tx_we(bus) /\ first
    BY <1>5 DEF BodyEdge, ReplyWrite, Keeps
<1>6. CASE state = "HDR" /\ ~first
    <2>1. Pending /\ served # <<>>
        BY <1>2, <1>6 DEF InReply, Empty
    <2>2. haddr \in Nat /\ haddr >= HeaderWords + 1
        <3> DEFINE p == ReplyPlaces(served)[Len(served)]
        <3>1. p \in Nat \ {0} /\ haddr = HeaderWords + p
            BY <1>1, <2>1, EndFacts DEF Pending
        <3> HIDE DEF p
        <3> QED BY <1>2, <3>1
    <2>3. Write(haddr, tx_data)
        BY <1>6 DEF BodyEdge, ReplyWrite, tx_we, tx_hdr
    <2> QED BY <1>3, <2>2, <2>3
<1>7. CASE state = "BUS_CYCLE" /\ tx_we(bus) /\ ~first
    <2>1. Pending
        BY <1>2, <1>7, PendingBody
    <2>2. waddr \in Nat /\ waddr >= HeaderWords + 1
        BY <1>1, <1>2, <2>1, EndFacts DEF Pending
    <2>3. Write(waddr, tx_data)
        BY <1>7 DEF BodyEdge, ReplyWrite, tx_hdr
    <2> QED BY <1>3, <2>2, <2>3
<1> QED BY <1>4, <1>5, <1>6, <1>7 DEF tx_we

\* The edge of ST_HDR: the header of the reply before is written, in the place kept for
\* it, and one is kept for the next.
LEMMA HeaderWritten ==
    ASSUME ReplyInv, state = "HDR", NEW rx, NEW bus, BodyEdge(rx, bus)
    PROVE  /\ HoldReplies(reply', served, Len(served)) /\ wctr' = End - 1 /\ ~first'
           /\ haddr' = HeaderWords + End /\ waddr' = HeaderWords + End + 1
<1>1. PICK C : served \in Seq(Entries(C))
    BY DEF ReplyInv, BusInv, ServedType
<1>2. TypeOK /\ InReply /\ tx_hdr /\ tx_we(bus) /\ ifstate = "BODY"
    BY DEF ReplyInv, BusInv, IInv, AtReply, BodyEdge, tx_hdr, tx_we
<1>3. /\ haddr' = waddr /\ waddr' = waddr + 1 /\ ~first'
      /\ wctr' = IF first THEN wctr ELSE wctr + 1
    BY <1>2 DEF BodyEdge, Step, IfRegisters, Waddr
<1>4. Len(served) \in Nat /\ End \in Nat \ {0} /\ HeaderWords \in Nat
    BY <1>1, EndFacts
<1>5. CASE served = <<>>
    <2>1. first /\ wctr = 0 /\ waddr = HeaderWords + 1 /\ End = 1 /\ Len(served) = 0
        BY <1>1, <1>2, <1>5, EndFacts DEF InReply, Empty
    <2>2. HoldReplies(reply', served, Len(served))
        BY <2>1 DEF HoldReplies
    <2> QED BY <1>3, <2>1, <2>2
<1>6. CASE served # <<>>
    <2>1. Pending /\ tx_data = ReplyTo(Cur)[1]
        BY <1>2, <1>6 DEF InReply
    <2>2. /\ ~first /\ waddr = HeaderWords + End /\ wctr = End - 2
          /\ haddr = HeaderWords + ReplyPlaces(served)[Len(served)]
          /\ HoldReplies(reply, served, Len(served) - 1)
          /\ HoldReply(reply, served, Len(served), 2)
        BY <2>1 DEF Pending
    <2>3. Write(haddr, ReplyTo(Cur)[1])
        BY <1>2, <2>1, <2>2 DEF BodyEdge, ReplyWrite
    <2>4. /\ haddr \in Nat /\ ReplyPlaces(served)[Len(served)] \in Nat \ {0}
          /\ ReplyLength(Cur) \in Nat /\ Len(served) > 0
        BY <1>1, <1>2, <1>6, EndFacts DEF TypeOK
    <2>5. HoldReplies(reply', served, Len(served) - 1)
        <3>1. Keeps(reply, reply', haddr)
            BY <2>3, <2>4, OneWrite DEF Keeps
        <3>2. Len(served) - 1 \in 0 .. Len(served) /\ (Len(served) - 1) + 1 = Len(served)
            BY <1>4, <2>4
        <3> QED BY <1>1, <2>2, <3>1, <3>2, RepliesKept
    <2>6. HoldReply(reply', served, Len(served), 1)
        <3> DEFINE s == ReplyLength(Cur)
        <3> SUFFICES ASSUME NEW i \in 1 .. s, NEW a,
                            a = HeaderWords + ReplyPlaces(served)[Len(served)] + i - 1
                     PROVE  a \in DOMAIN reply' /\ reply'[a] = ReplyTo(Cur)[i]
            BY DEF HoldReply, Cur
        <3> HIDE DEF s
        <3>1. a = haddr + i - 1
            BY <2>2
        <3>2. CASE i = 1
            <4>1. a = haddr
                BY <2>4, <3>1, <3>2
            <4> QED BY <2>3, <2>4, <3>2, <4>1, OneWrite
        <3>3. CASE i # 1
            <4>1. i \in 2 .. s /\ a # haddr
                BY <2>4, <3>1, <3>3 DEF s
            <4>2. a \in DOMAIN reply /\ reply[a] = ReplyTo(Cur)[i]
                BY <2>2, <4>1 DEF HoldReply, Cur, s
            <4> QED BY <2>3, <2>4, <4>1, <4>2, OneWrite
        <3> QED BY <3>2, <3>3
    <2>7. HoldReplies(reply', served, Len(served))
        <3>1. \A k \in 1 .. Len(served) : k = Len(served) \/ k \in 1 .. Len(served) - 1
            BY <1>4
        <3> QED BY <2>5, <2>6, <3>1 DEF HoldReplies
    <2> QED BY <1>3, <1>4, <2>2, <2>7
<1> QED BY <1>5, <1>6

\* The edge of ST_HDR at which a transaction begins, or is refused for its header.
LEMMA HdrReply ==
    ASSUME ReplyInv, state = "HDR", rx_ready, err_d = 0,
           NEW rx, NEW bus, BodyEdge(rx, bus), NEW D, served' \in Seq(Entries(D))
    PROVE  InReply'
<1> DEFINE n == Len(served)
           e == err(rx, bus)
           r == [type |-> rx.type, at |-> rctr, cycles |-> <<>>, code |-> e]
<1>1. PICK C : served \in Seq(Entries(C))
    BY DEF ReplyInv, BusInv, ServedType
<1>2. /\ HoldReplies(reply', served, n) /\ wctr' = End - 1 /\ ~first'
      /\ haddr' = HeaderWords + End /\ waddr' = HeaderWords + End + 1
    BY HeaderWritten
<1>3. n \in Nat /\ End \in Nat \ {0} /\ HeaderWords \in Nat
    BY <1>1, EndFacts
<1>4. e \in {0, 1} /\ r.code = e /\ r.cycles = <<>>
    BY DEF err, strobe
<1>5. served' = Append(served, r)
    BY DEF BodyEdge, Step, Serve
<1>6. /\ state' = (IF e = 0 THEN "ADDR" ELSE "IDLE") /\ err_d' = e /\ words_done' = 0
    BY <1>4 DEF BodyEdge, Step, SmState, SmRegisters, WordsDone, Refused
<1> HIDE DEF e, r
<1>7. /\ Len(served') = n + 1 /\ \A k \in 1 .. n : served'[k] = served[k]
      /\ Cur' = r /\ served'[n + 1] = r
    <2>1. served \in Seq(Entries(C) \cup {r}) /\ r \in Entries(C) \cup {r}
        BY <1>1, SeqMonotonic
    <2>2. /\ Len(served') = n + 1 /\ served'[n + 1] = r
          /\ \A k \in 1 .. n : served'[k] = served[k]
        BY <1>5, <2>1, AppendProperties
    <2> QED BY <2>2 DEF Cur
<1>8. \A k \in 1 .. n + 1 : ReplyPlaces(served')[k] = ReplyPlaces(served)[k]
    <2>1. n <= Len(served) /\ n <= Len(served')
        BY <1>3, <1>7
    <2> QED BY <1>1, <1>3, <1>7, <2>1, SamePlaces
<1>9. HoldReplies(reply', served', n)
    <2>1. n <= Len(served) /\ n <= Len(served')
        BY <1>3, <1>7
    <2> QED BY <1>1, <1>2, <1>3, <1>7, <2>1, SameReplies
<1>10. ReplyLength(r) = 1 - e
    BY <1>4 DEF ReplyLength, ReadCycles
<1>11. ReplyPlaces(served')[n + 1] = End /\ End' = End + (1 - e)
    <2>1. n + 1 \in 1 .. n + 1 /\ n + 1 \in 1 .. Len(served')
        BY <1>3, <1>7
    <2>2. ReplyPlaces(served')[n + 1] = End
        BY <1>8, <2>1 DEF End
    <2>3. ReplyPlaces(served')[(n + 1) + 1] =
              ReplyPlaces(served')[n + 1] + ReplyLength(served'[n + 1])
        BY <2>1, ReplyPlacesAre
    <2> QED BY <1>7, <1>10, <2>2, <2>3 DEF End
<1>12. CASE e = 0
    <2>1. HoldReply(reply', served', Len(served'), 2)
        BY <1>7, <1>10, <1>12 DEF HoldReply
    <2>2. (n + 1) - 1 = n
        BY <1>3
    <2>3. HoldReplies(reply', served', Len(served') - 1)
        BY <1>7, <1>9, <2>2
    <2>4. waddr' = HeaderWords + End' /\ wctr' = End' - 2
        <3>1. End' = End + 1
            BY <1>3, <1>11, <1>12
        <3>2. wctr' = (End + 1) - 2 /\ waddr' = HeaderWords + (End + 1)
            BY <1>2, <1>3
        <3> QED BY <3>1, <3>2
    <2>5. Pending'
        BY <1>2, <1>4, <1>7, <1>11, <1>12, <2>1, <2>3, <2>4 DEF Pending
    <2> QED BY <1>6, <1>12, <2>5 DEF InReply
<1>13. CASE e = 1
    <2>1. HoldReply(reply', served', n + 1, 1)
        BY <1>7, <1>10, <1>13 DEF HoldReply
    <2>2. HoldReplies(reply', served', n + 1)
        <3>1. \A k \in 1 .. n + 1 : k = n + 1 \/ k \in 1 .. n
            BY <1>3
        <3> QED BY <1>9, <2>1, <3>1 DEF HoldReplies
    <2>3. Whole'
        BY <1>2, <1>3, <1>7, <1>11, <1>13, <2>2 DEF Whole
    <2> QED BY <1>6, <1>13, <2>3 DEF InReply
<1> QED BY <1>4, <1>12, <1>13

\* While the bus side waits, before the first transaction, nothing is written.
LEMMA IdleReply ==
    ASSUME ReplyInv, ifstate = "BODY", state = "IDLE", err_d = 0,
           NEW rx, NEW bus, BodyEdge(rx, bus)
    PROVE  InReply'
<1>1. Empty /\ served = <<>> /\ TypeOK
    BY DEF ReplyInv, AtReply, InReply, BusInv, IInv, AtRequest, InBody
<1>2. ~tx_we(bus)
    BY DEF tx_we
<1>3. /\ reply' = reply /\ waddr' = waddr /\ wctr' = wctr /\ first' = first
    BY <1>1, <1>2, NothingWritten
<1>4. served' = <<>> /\ state' \in {"IDLE", "HDR"} /\ err_d' = 0
    BY <1>1 DEF BodyEdge, Step, Serve, SmState, SmRegisters
<1>5. Empty'
    BY <1>1, <1>3 DEF Empty
<1> QED BY <1>4, <1>5 DEF InReply

\* Every edge in the body.
LEMMA BodyReply ==
    ASSUME ReplyInv, ifstate = "BODY", ~EndOfBody, NEW rx, NEW bus, BodyEdge(rx, bus),
           NEW D, served' \in Seq(Entries(D))
    PROVE  InReply'
<1>1. err_d = 0 /\ state \in SmStates /\ rctr \in Nat /\ blen \in Nat
    BY DEF EndOfBody, tx_err, ReplyInv, BusInv, IInv, TypeOK
<1>2. CASE state = "IDLE"
    BY <1>1, <1>2, IdleReply
<1>3. CASE state = "HDR"
    <2>1. rx_ready
        BY <1>1, <1>3 DEF EndOfBody, tx_hdr, rx_ready
    <2> QED BY <1>1, <1>3, <2>1, HdrReply
<1>4. CASE state = "ADDR"
    BY <1>4, AddrReply
<1>5. CASE state = "BUS_CYCLE"
    BY <1>5, CycleReply
<1>6. CASE state \in {"RMW_1", "RMW_2"}
    BY <1>6, OperandReply
<1> QED BY <1>1, <1>2, <1>3, <1>4, <1>5, <1>6 DEF SmStates

\* The edge at which the body ends: the last header is written too.
LEMMA BodyEndReply ==
    ASSUME ReplyInv, ifstate = "BODY", EndOfBody, NEW rx, NEW bus, BodyEdge(rx, bus)
    PROVE  served' = served /\ (served # <<>> => Whole')
<1>1. BusInv /\ TypeOK /\ InReply
    BY DEF ReplyInv, BusInv, IInv, AtReply
<1>2. state \in {"HDR", "IDLE"} /\ (state = "HDR" => ~rx_ready \/ err_d # 0)
    BY <1>1, BodyEnds
<1>3. served' = served /\ End' = End
    BY <1>2 DEF BodyEdge, Step, Serve, End
<1>4. CASE state = "HDR"
    BY <1>3, <1>4, HeaderWritten DEF Whole
<1>5. CASE state = "IDLE"
    <2>1. err_d # 0
        BY <1>5 DEF EndOfBody, tx_hdr, tx_err
    <2>2. Whole
        BY <1>1, <1>5, <2>1 DEF InReply
    <2>3. ~tx_we(bus)
        BY <1>5 DEF tx_we
    <2>4. reply' = reply /\ wctr' = wctr
        BY <1>1, <2>3, NothingWritten
    <2> QED BY <1>3, <2>2, <2>4 DEF Whole
<1> QED BY <1>2, <1>4, <1>5

-----------------------------------------------------------------------------
\* The edge at which the length of the reply is written, in word 0.
LEMMA DoneReply ==
    ASSUME ReplyInv, ifstate = "DONE", NEW bus, ReplyWrite(bus), served' = served
    PROVE  ReplyMatchesServed'
<1> SUFFICES ASSUME served # <<>>
             PROVE  /\ Holds(0, <<"packet", HeaderWords, End - 1>>)'
                    /\ Copied(HeaderWords)' /\ HoldReplies(reply', served, Len(served))
    <2> SUFFICES ASSUME served' # <<>> PROVE
               /\ Holds(0, <<"packet", HeaderWords, End - 1>>)'
               /\ Copied(HeaderWords)'
               /\ \A k \in DOMAIN served : \A i \in 1 .. ReplyLength(served[k]) :
                     LET a == HeaderWords + ReplyPlaces(served)[k] + i - 1
                     IN  a \in DOMAIN reply' /\ reply'[a] = ReplyTo(served[k])[i]
        BY DEF ReplyMatchesServed, Holds, Copied, End
    <2>1. DOMAIN served = 1 .. Len(served)
        <3>1. PICK C : served \in Seq(Entries(C))
            BY DEF ReplyInv, BusInv, ServedType
        <3> QED BY <3>1, LenProperties
    <2> QED BY <2>1 DEF HoldReplies, HoldReply
<1>1. PICK C : served \in Seq(Entries(C))
    BY DEF ReplyInv, BusInv, ServedType
<1>2. Copied(HeaderWords) /\ HoldReplies(reply, served, Len(served)) /\ wctr = End - 1
    BY DEF ReplyInv, AtReply, Whole
<1>3. /\ Len(served) \in 0 .. Len(served) /\ HeaderWords \in Nat /\ End' = End
    BY <1>1, EndFacts DEF End
<1>4. Write(0, <<"packet", HeaderWords, wctr>>)
    BY DEF ReplyWrite
<1>5. ASSUME NEW bound PROVE Keeps(reply, reply', bound)
    <2>1. \A b \in 1 .. bound - 1 : b # 0
        OBVIOUS
    <2> QED BY <1>4, <2>1, OneWrite DEF Keeps
<1>6. Holds(0, <<"packet", HeaderWords, End - 1>>)'
    BY <1>2, <1>3, <1>4, OneWrite DEF Holds
<1>7. Copied(HeaderWords)'
    BY <1>2, <1>3, <1>5, CopiedKept
<1>8. HoldReplies(reply', served, Len(served))
    BY <1>1, <1>2, <1>3, <1>5, RepliesKept
<1> QED BY <1>6, <1>7, <1>8

\* An edge at which a word of the packet header is copied.
LEMMA HeaderCopied ==
    ASSUME ReplyInv, ifstate = "HDR", NEW bus, ReplyWrite(bus)
    PROVE  /\ rctr \in Nat \ {0} /\ rctr <= HeaderWords /\ waddr = rctr
           /\ rctr' = rctr + 1 => Copied(rctr - 1)'
           /\ rctr = HeaderWords => Copied(HeaderWords)'
<1>1. rctr \in Nat \ {0} /\ rctr <= HeaderWords /\ waddr = rctr /\ Copied(rctr - 1)
    BY DEF ReplyInv, BusInv, IInv, TypeOK, AtReply
<1>2. Write(rctr, <<"copy", rctr>>)
    BY <1>1 DEF ReplyWrite
<1>3. \A i \in 1 .. rctr : i \in DOMAIN reply' /\ reply'[i] = <<"copy", i>>
    <2> SUFFICES ASSUME NEW i \in 1 .. rctr
                 PROVE  i \in DOMAIN reply' /\ reply'[i] = <<"copy", i>>
        OBVIOUS
    <2>1. CASE i = rctr
        BY <1>1, <1>2, <2>1, OneWrite
    <2>2. CASE i # rctr
        <3>1. i \in 1 .. rctr - 1
            BY <1>1, <2>2
        <3>2. i \in DOMAIN reply /\ reply[i] = <<"copy", i>>
            BY <1>1, <3>1 DEF Copied, Holds
        <3> QED BY <1>1, <1>2, <2>2, <3>2, OneWrite
    <2> QED BY <2>1, <2>2
<1>4. rctr' = rctr + 1 => rctr' - 1 = rctr
    BY <1>1
<1> QED BY <1>1, <1>3, <1>4 DEF Copied, Holds

\* An edge outside the body.
LEMMA EdgeOutside ==
    ASSUME ReplyInv, ifstate # "BODY", NEW grant \in BOOLEAN, NEW bus, Work(grant, bus)
    PROVE  AtReply' /\ ReplyMatchesServed'
<1>1. PICK rx \in IF request = NoPacket THEN Stale ELSE HeadersAt(request, rctr) :
        /\ SmState(rx, bus) /\ SmRegisters(rx, bus) /\ IfState(grant) /\ IfRegisters(bus)
        /\ Waddr(bus) /\ ReplyWrite(bus) /\ Serve(rx, bus)
    BY DEF Work, Edge
<1>2. /\ ifstate \in IfStates /\ TypeOK /\ AtRequest /\ AtReply /\ state = "IDLE"
      /\ HeaderWords \in Nat
    BY TransactorAssumption DEF ReplyInv, BusInv, IInv, Control, InStep, TypeOK
<1>3. served' = served /\ err_d' = 0 /\ state' = "IDLE"
    BY <1>1, <1>2 DEF Serve, SmRegisters, SmState, start, rx_ready
<1>4. ifstate \in {"FIRST", "HDR", "PREBODY"} => served = <<>>
    BY <1>2 DEF AtRequest
<1>5. ifstate \notin {"HDR", "DONE"} => reply' = reply /\ waddr' = waddr
    BY <1>1 DEF ReplyWrite, Waddr
<1>6. CASE ifstate = "IDLE"
    <2>1. ifstate' \in {"IDLE", "FIRST"} /\ rctr' = 1 /\ waddr' = 1
        BY <1>1, <1>2, <1>5, <1>6 DEF IfState, IfRegisters, AtReply
    <2> QED BY <2>1 DEF AtReply, ReplyMatchesServed
<1>7. CASE ifstate = "FIRST"
    <2>1. /\ rctr' = 1 /\ waddr' = 1
          /\ ifstate' \in {"DONE", "PREBODY", "HDR"}
          /\ ifstate' = "HDR" <=> HeaderWords # 0
        BY <1>1, <1>2, <1>5, <1>7 DEF IfState, IfRegisters, AtReply
    <2>2. Copied(0)'
        BY DEF Copied
    <2> QED BY <1>2, <1>3, <1>4, <1>7, <2>1, <2>2 DEF AtReply, ReplyMatchesServed
<1>8. CASE ifstate = "HDR"
    <2>1. /\ rctr \in Nat \ {0} /\ rctr <= HeaderWords /\ waddr = rctr
          /\ rctr' = rctr + 1 => Copied(rctr - 1)'
          /\ rctr = HeaderWords => Copied(HeaderWords)'
        BY <1>1, <1>8, HeaderCopied
    <2>2. /\ waddr' = rctr + 1 /\ rctr' = rctr + 1
          /\ ifstate' \in {"DONE", "PREBODY", "HDR"}
          /\ ifstate' = "HDR" <=> HeaderWords # rctr
        BY <1>1, <1>8, <2>1 DEF IfState, IfRegisters, Waddr
    <2>3. CASE ifstate' = "HDR"
        <3>1. rctr' <= HeaderWords
            BY <1>2, <2>1, <2>2, <2>3
        <3> QED BY <2>1, <2>2, <2>3, <3>1 DEF AtReply, ReplyMatchesServed
    <2>4. CASE ifstate' # "HDR"
        BY <1>2, <1>3, <1>4, <1>8, <2>1, <2>2, <2>4 DEF AtReply, ReplyMatchesServed
    <2> QED BY <2>3, <2>4
<1>9. CASE ifstate = "PREBODY"
    <2>1. waddr = HeaderWords + 1 /\ Copied(HeaderWords)
        BY <1>2, <1>9 DEF AtReply
    <2>2. /\ first' = TRUE /\ wctr' = 0 /\ waddr' = HeaderWords + 1 /\ reply' = reply
          /\ ifstate' \in {"PREBODY", "BODY"}
        BY <1>1, <1>5, <1>9, <2>1 DEF IfState, IfRegisters
    <2>3. Copied(HeaderWords)'
        BY <2>1, <2>2 DEF Copied, Holds
    <2>4. InReply'
        BY <1>3, <2>2 DEF InReply, Empty
    <2> QED BY <2>2, <2>3, <2>4 DEF AtReply, ReplyMatchesServed
<1>10. CASE ifstate = "DONE"
    <2>1. ifstate' = "GAP" /\ waddr' = 1
        BY <1>1, <1>10 DEF IfState, Waddr
    <2>2. ReplyMatchesServed'
        BY <1>1, <1>3, <1>10, DoneReply
    <2> QED BY <2>1, <2>2 DEF AtReply
<1>11. CASE ifstate = "GAP"
    <2>1. ifstate' = "IDLE" /\ waddr' = 1
        BY <1>1, <1>2, <1>5, <1>11 DEF IfState, AtReply
    <2> QED BY <2>1 DEF AtReply, ReplyMatchesServed
<1> QED BY <1>2, <1>6, <1>7, <1>8, <1>9, <1>10, <1>11 DEF IfStates

\* An edge in the body.
LEMMA EdgeInside ==
    ASSUME ReplyInv, BusInv', ifstate = "BODY", NEW grant \in BOOLEAN, NEW bus, Work(grant, bus)
    PROVE  AtReply' /\ ReplyMatchesServed'
<1>1. PICK rx \in IF request = NoPacket THEN Stale ELSE HeadersAt(request, rctr) :
        BodyEdge(rx, bus) /\ IfState(grant)
    BY DEF Work, Edge, BodyEdge, Step
<1>2. PICK D : served' \in Seq(Entries(D))
    BY DEF BusInv, ServedType
<1>3. HeaderWords \in Nat /\ Copied(HeaderWords)
    BY TransactorAssumption DEF ReplyInv, AtReply
<1>4. Copied(HeaderWords)'
    BY <1>1, <1>3, CopyInBody, CopiedKept
<1>5. CASE EndOfBody
    <2>1. ifstate' = "DONE"
        BY <1>1, <1>5 DEF IfState
    <2>2. served' # <<>> => Whole'
        BY <1>1, <1>5, BodyEndReply
    <2> QED BY <1>4, <2>1, <2>2 DEF AtReply, ReplyMatchesServed
<1>6. CASE ~EndOfBody
    <2>1. ifstate' = "BODY"
        BY <1>1, <1>6 DEF IfState
    <2>2. InReply'
        BY <1>1, <1>2, <1>6, BodyReply
    <2> QED BY <1>4, <2>1, <2>2 DEF AtReply, ReplyMatchesServed
<1> QED BY <1>5, <1>6

\* The invariant of the reply buffer is kept by every step.
LEMMA ReplyStep == ReplyInv /\ [Next]_vars => ReplyInv'
<1> SUFFICES ASSUME ReplyInv, [Next]_vars PROVE ReplyInv'
    OBVIOUS
<1>1. BusInv'
    BY BusStep DEF ReplyInv
<1>2. CASE Clock
    <2>1. PICK grant \in BOOLEAN, bus \in {"wait", "ack", "err"} : Work(grant, bus)
        BY <1>2 DEF Clock
    <2> QED BY <1>1, <2>1, EdgeInside, EdgeOutside DEF ReplyInv
<1>3. CASE Arrival
    <2>1. ifstate = "IDLE" /\ ifstate' = "IDLE" /\ waddr' = waddr
        BY <1>3 DEF Arrival, ifVars
    <2> QED BY <1>1, <2>1 DEF ReplyInv, AtReply, ReplyMatchesServed
<1>4. CASE UNCHANGED vars
    <2> USE <1>4 DEF vars, ifVars, smVars
    <2>1. state = "HDR" => tx_data' = tx_data
        BY DEF tx_data, tx_hdr
    <2>2. Cur' = Cur /\ End' = End
        BY DEF Cur, End
    <2>3. Pending' = Pending /\ Whole' = Whole /\ Empty' = Empty
        BY <2>2 DEF Pending, Whole, Empty
    <2>4. InReply' = InReply
        BY <2>1, <2>2, <2>3 DEF InReply
    <2>5. Copied(HeaderWords)' = Copied(HeaderWords) /\ Copied(rctr - 1)' = Copied(rctr - 1)
        BY DEF Copied, Holds
    <2>6. AtReply'
        BY <2>3, <2>4, <2>5 DEF ReplyInv, AtReply
    <2>7. ReplyMatchesServed'
        BY DEF ReplyInv, ReplyMatchesServed, Holds
    <2> QED BY <1>1, <2>6, <2>7 DEF ReplyInv
<1> QED BY <1>2, <1>3, <1>4 DEF Next

\* At the start the address in the reply buffer is set back.
LEMMA ReplyInit == Init => ReplyInv
<1> SUFFICES ASSUME Init PROVE ReplyInv
    OBVIOUS
<1>1. BusInv
    BY BusInit
<1>2. AtReply /\ ReplyMatchesServed
    BY DEF Init, AtReply, ReplyMatchesServed
<1> QED BY <1>1, <1>2 DEF ReplyInv

\* The inductive invariant of the reply buffer: which replies it holds, and the place
\* kept for the header of the next, in each state of both machines.
THEOREM ReplyInvariant == Spec => []ReplyInv
<1> QED BY ReplyInit, ReplyStep, PTL DEF Spec

\* A finished reply holds the header of the request, the reply to each transaction
\* served, in order and with nothing between, and their total length in word 0.
THEOREM ReplyAsServed == Spec => []ReplyMatchesServed
<1>1. ReplyInv => ReplyMatchesServed
    BY DEF ReplyInv
<1> QED BY <1>1, ReplyInvariant, PTL
=============================================================================
