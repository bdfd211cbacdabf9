--------------------------- MODULE ChipsBusProofs ---------------------------
(***************************************************************************)
(* The Python client: for any address table, any number of calls and       *)
(* elements and any number of transaction ids, an answer is the call's own,*)
(* nothing of an earlier call is left when one succeeds, and the client,   *)
(* the network and the target together are the RegisterService.            *)
(***************************************************************************)
EXTENDS ChipsBus, FiniteSetTheorems, SequenceTheorems, NaturalsInduction,
        WellFoundedInduction, TLAPS

\* What is in a packet.  An element that was done answers with one word if it was
\* a read, of a FIFO or not, and with none if it was a write.
ReplyElements ==
    {e \in [op : Reading \cup Writing, id : 1 .. MAX_TRANSACTION_ID, ok : BOOLEAN,
            body : Seq(SUBSET Nat)] :
        e.ok => Len(e.body) = IF e.op \in Reading THEN 1 ELSE 0}

Requests == [call : Nat, elements : Seq(Elements)]
Replies  == [call : Nat, elements : Seq(ReplyElements)]

NetTypeOK == requests \in Seq(Requests) /\ replies \in Seq(Replies)

AllOk(es)   == \A m \in DOMAIN es : es[m].ok
BodiesOf(r) == [m \in DOMAIN r.elements |-> r.elements[m].body]

\* A reply without an error tells of one whole performance.
RepliesPerformed ==
    \A i \in DOMAIN replies :
        AllOk(replies[i].elements) =>
            [call |-> replies[i].call, bodies |-> BodiesOf(replies[i])] \in performed

\* Nothing of a block or FIFO call is ever queued.
QueuedOps == \A i \in DOMAIN queue : queue[i].op \in {"read", "write"}

DataInv == TypeOK /\ NetTypeOK /\ QueuedOps /\ RepliesPerformed /\ UniformQueueReturnsReads

\* Without copies and reordering the packets of a call come before those of the
\* next one, and there is one of each call at most.
InOrder ==
    /\ \A i \in DOMAIN requests : requests[i].call \in 1 .. calls
    /\ \A i \in DOMAIN replies : replies[i].call \in 1 .. calls
    /\ \A i, j \in DOMAIN requests : i < j => requests[i].call < requests[j].call
    /\ \A i, j \in DOMAIN replies : i < j => replies[i].call < replies[j].call
    /\ \A i \in DOMAIN replies, j \in DOMAIN requests : replies[i].call < requests[j].call

\* The queue that is being waited for has an element, and ids that are still its own.
SomeElement == phase = "waiting" => queue # <<>> /\ ~stale

\* The ids of es are not drawn next: all are smaller, or the last, which is not drawn
\* before the network and the queue are empty.
Low(es, next) == \A m \in DOMAIN es : es[m].id < next \/ es[m].id = MAX_TRANSACTION_ID

IdsLow ==
    /\ \A i \in DOMAIN requests : Low(requests[i].elements, transactionId)
    /\ \A i \in DOMAIN replies : Low(replies[i].elements, transactionId)
    /\ ~stale => Low(queue, transactionId)

Disjoint(es, q) == \A m \in DOMAIN es, j \in DOMAIN q : es[m].id # q[j].id

\* The ids of the queue are those of no packet but the one it was sent in, be that of
\* an earlier call, of a read or of a block; and those of a block call's element are
\* of no packet of an earlier call.
IdsApart ==
    /\ ~stale =>
          /\ \A i \in DOMAIN requests :
                (phase = "waiting" /\ requests[i].call = calls)
                \/ Disjoint(requests[i].elements, queue)
          /\ \A i \in DOMAIN replies :
                (phase = "waiting" /\ replies[i].call = calls)
                \/ Disjoint(replies[i].elements, queue)
    /\ phase = "block" =>
          /\ \A i \in DOMAIN requests :
                requests[i].call = calls \/ Disjoint(requests[i].elements, single)
          /\ \A i \in DOMAIN replies :
                replies[i].call = calls \/ Disjoint(replies[i].elements, single)

OwnInv == InOrder /\ SomeElement /\ IdsLow /\ IdsApart /\ AnswerIsOwn

-----------------------------------------------------------------------------
\* Taking the n-th packet out closes the gap.
LEMMA RemoveAtFacts ==
    ASSUME NEW S, NEW s \in Seq(S), NEW n \in DOMAIN s
    PROVE  /\ RemoveAt(s, n) \in Seq(S)
           /\ Len(RemoveAt(s, n)) = Len(s) - 1
           /\ \A i \in DOMAIN RemoveAt(s, n) :
                 /\ i \in DOMAIN s /\ i + 1 \in DOMAIN s
                 /\ RemoveAt(s, n)[i] = IF i < n THEN s[i] ELSE s[i + 1]
<1>1. n \in 1 .. Len(s) /\ Len(s) \in Nat
    OBVIOUS
<1> DEFINE a == SubSeq(s, 1, n - 1)
           b == SubSeq(s, n + 1, Len(s))
<1>2. a \in Seq(S) /\ Len(a) = n - 1 /\ \A i \in 1 .. n - 1 : a[i] = s[i]
    BY <1>1
<1>3. b \in Seq(S) /\ Len(b) = Len(s) - n /\ \A i \in 1 .. Len(s) - n : b[i] = s[n + i]
    BY <1>1
<1> HIDE DEF a, b
<1>4. RemoveAt(s, n) = a \o b
    BY DEF RemoveAt, a, b
<1>5. a \o b \in Seq(S) /\ Len(a \o b) = Len(s) - 1
    BY <1>1, <1>2, <1>3
<1>6. \A i \in 1 .. Len(s) - 1 : (a \o b)[i] = IF i < n THEN s[i] ELSE s[i + 1]
    BY <1>1, <1>2, <1>3
<1>7. DOMAIN (a \o b) = 1 .. Len(s) - 1 /\ DOMAIN s = 1 .. Len(s)
    BY <1>5
<1>8. \A i \in 1 .. Len(s) - 1 : i \in 1 .. Len(s) /\ i + 1 \in 1 .. Len(s)
    BY <1>1
<1> QED BY <1>4, <1>5, <1>6, <1>7, <1>8

\* A copy goes beside the packet it is of.
LEMMA InsertAtFacts ==
    ASSUME NEW S, NEW s \in Seq(S), NEW n \in DOMAIN s
    PROVE  /\ InsertAt(s, n, s[n]) \in Seq(S)
           /\ \A i \in DOMAIN InsertAt(s, n, s[n]) :
                 \E j \in DOMAIN s : InsertAt(s, n, s[n])[i] = s[j]
<1>1. n \in 1 .. Len(s) /\ Len(s) \in Nat /\ s[n] \in S
    OBVIOUS
<1> DEFINE a == SubSeq(s, 1, n - 1)
           b == SubSeq(s, n, Len(s))
           c == a \o <<s[n]>>
<1>2. a \in Seq(S) /\ Len(a) = n - 1 /\ \A i \in 1 .. n - 1 : a[i] = s[i]
    BY <1>1
<1>3. b \in Seq(S) /\ Len(b) = Len(s) - n + 1 /\ \A i \in 1 .. Len(s) - n + 1 : b[i] = s[n + i - 1]
    BY <1>1
<1> HIDE DEF a, b
<1>4. c \in Seq(S) /\ Len(c) = n /\ \A i \in 1 .. n : c[i] = s[i]
    BY <1>1, <1>2
<1>5. InsertAt(s, n, s[n]) = c \o b
    BY DEF InsertAt, a, b
<1> HIDE DEF c
<1>6. c \o b \in Seq(S) /\ Len(c \o b) = Len(s) + 1
    <2>1. c \o b \in Seq(S) /\ Len(c \o b) = Len(c) + Len(b)
        BY <1>3, <1>4, ConcatProperties
    <2> QED BY <2>1, <1>1, <1>3, <1>4
<1>7. \A i \in 1 .. Len(s) + 1 : (c \o b)[i] = IF i <= n THEN s[i] ELSE s[i - 1]
    BY <1>1, <1>3, <1>4
<1>8. ASSUME NEW i \in 1 .. Len(s) + 1
      PROVE  \E j \in DOMAIN s : (c \o b)[i] = s[j]
    <2>1. CASE i <= n
        <3>1. i \in DOMAIN s
            BY <2>1, <1>1
        <3>2. (c \o b)[i] = s[i]
            BY <2>1, <1>7
        <3> QED BY <3>1, <3>2
    <2>2. CASE ~(i <= n)
        <3>1. i - 1 \in DOMAIN s
            BY <2>2, <1>1
        <3>2. (c \o b)[i] = s[i - 1]
            BY <2>2, <1>7
        <3> QED BY <3>1, <3>2
    <2> QED BY <2>1, <2>2
<1>9. DOMAIN (c \o b) = 1 .. Len(s) + 1
    BY <1>1, <1>6
<1> QED BY <1>5, <1>6, <1>8, <1>9

\* A set of positions has a largest one.
LEMMA LargestPosition ==
    ASSUME NEW k \in Nat, NEW S \in SUBSET (1 .. k), S # {}
    PROVE  Max(S) \in S
<1> DEFINE T == {n \in Nat : k - n \in S}
<1>1. T \subseteq Nat /\ T # {}
    <2>1. PICK b \in S : TRUE
        OBVIOUS
    <2>2. k - b \in T
        OBVIOUS
    <2> QED BY <2>2
<1>2. \E n \in T : \A m \in T : ~ (<<m, n>> \in OpToRel(<, Nat))
    BY <1>1, NatLessThanWellFounded, WFMin
<1>3. PICK n \in T : \A m \in T : ~(m < n)
    BY <1>2 DEF OpToRel
<1>4. \A c \in S : k - n >= c
    <2> SUFFICES ASSUME NEW c \in S PROVE k - n >= c
        OBVIOUS
    <2>1. k - c \in T /\ k - c \in Nat
        OBVIOUS
    <2>2. ~(k - c < n)
        BY <1>3, <2>1
    <2> QED BY <2>1, <2>2
<1> QED BY <1>3, <1>4 DEF Max

\* Registers stay registers whatever is done to them.
LEMMA AfterType ==
    ASSUME NEW regs \in [Registers -> SUBSET Nat], NEW es \in Seq(Elements),
           NEW k \in 0 .. Len(es)
    PROVE  After(regs, es, k) \in [Registers -> SUBSET Nat]
<1> SUFFICES ASSUME NEW a \in Registers PROVE After(regs, es, k)[a] \in SUBSET Nat
    BY DEF After
<1> DEFINE ws == Writes(es, a, k)
<1>1. CASE ws = {}
    BY <1>1 DEF After
<1>2. CASE ws # {}
    <2>1. ws \in SUBSET (1 .. k) /\ k \in Nat
        BY DEF Writes
    <2>2. Max(ws) \in 1 .. k
        BY <1>2, <2>1, LargestPosition, Zenon
    <2>3. es[Max(ws)] \in Elements
        BY <2>2
    <2>4. After(regs, es, k)[a] = es[Max(ws)].data
        BY <1>2 DEF After
    <2> QED BY <2>3, <2>4, ChipsBusAssumption DEF Elements
<1> QED BY <1>1, <1>2

\* An answer has a word for a read and none for a write.
LEMMA BodiesType ==
    ASSUME NEW regs \in [Registers -> SUBSET Nat], NEW es \in Seq(Elements),
           NEW k \in 0 .. Len(es), NEW i \in 1 .. k
    PROVE  /\ Bodies(regs, es, k)[i] \in Seq(SUBSET Nat)
           /\ Len(Bodies(regs, es, k)[i]) = IF es[i].op \in Reading THEN 1 ELSE 0
<1>1. i - 1 \in 0 .. Len(es) /\ es[i] \in Elements
    OBVIOUS
<1>2. es[i].item.addr \in Registers
    BY <1>1, ChipsBusAssumption DEF Elements
<1>3. After(regs, es, i - 1)[es[i].item.addr] \in SUBSET Nat
    BY <1>1, <1>2, AfterType
<1>4. CASE es[i].op \in Reading
    <2>1. Bodies(regs, es, k)[i] = <<After(regs, es, i - 1)[es[i].item.addr]>>
        BY <1>4 DEF Bodies
    <2> QED BY <1>3, <1>4, <2>1
<1>5. CASE es[i].op \notin Reading
    <2>1. Bodies(regs, es, k)[i] = <<>>
        BY <1>5 DEF Bodies
    <2> QED BY <1>5, <2>1
<1> QED BY <1>4, <1>5

-----------------------------------------------------------------------------
\* The ids go from 1 to the last and start again.
LEMMA NextIdType ==
    ASSUME NEW id \in 1 .. MAX_TRANSACTION_ID
    PROVE  NextId(id) \in 1 .. MAX_TRANSACTION_ID
BY ChipsBusAssumption DEF NextId

\* What a caller asks for makes an element.
LEMMA ElementType ==
    ASSUME TypeOK, NEW a \in Asked \cup BlockAsked
    PROVE  /\ Element(a[1], a[2], a[3]) \in Elements
           /\ Element(a[1], a[2], a[3]).id = transactionId
           /\ a \in Asked => Element(a[1], a[2], a[3]).op \in {"read", "write"}
<1>1. a[1] \in Reading \cup Writing /\ a[2] \in Items /\ a[3] \in Data \cup {{}}
    BY DEF Asked, BlockAsked, Reading, Writing
<1>2. a \in Asked => a[1] \in {"read", "write"}
    BY DEF Asked
<1> QED BY <1>1, <1>2 DEF Element, Elements, TypeOK

\* There is an id, room for an element and perhaps for a call.
LEMMA Bounds == /\ MAX_TRANSACTION_ID \in Nat /\ MAX_TRANSACTION_ID >= 1
                /\ MAX_QUEUED_REQUESTS \in Nat /\ MAX_QUEUED_REQUESTS >= 1
                /\ MaxCalls \in Nat
BY ChipsBusAssumption

\* Nothing is queued or sent at the start; every action keeps the types.
LEMMA InitType == Init => TypeOK /\ NetTypeOK
<1> SUFFICES ASSUME Init PROVE TypeOK /\ NetTypeOK
    OBVIOUS
<1>1. queue \in Seq(Elements) /\ requests \in Seq(Requests) /\ replies \in Seq(Replies)
    BY DEF Init
<1>2. mem \in [Registers -> SUBSET Nat]
    BY DEF Init
<1>3. /\ phase = "idle" /\ single \in Seq(Elements) /\ Len(single) = 0
      /\ transactionId \in 1 .. MAX_TRANSACTION_ID
      /\ calls \in 0 .. MaxCalls /\ Len(queue) <= MAX_QUEUED_REQUESTS
    BY Bounds DEF Init
<1>4. stale \in BOOLEAN
    BY DEF Init
<1> QED BY <1>1, <1>2, <1>3, <1>4 DEF TypeOK, NetTypeOK

\* A packet sent is made of elements.
LEMMA SendType ==
    ASSUME TypeOK, NetTypeOK, NEW es \in Seq(Elements), Send(es)
    PROVE  requests' \in Seq(Requests) /\ calls' \in 0 .. MaxCalls
<1>1. calls' \in 0 .. MaxCalls /\ calls' \in Nat
    BY Bounds DEF Send, TypeOK
<1>2. [call |-> calls', elements |-> es] \in Requests
    BY <1>1 DEF Requests
<1> QED BY <1>1, <1>2 DEF Send, NetTypeOK

\* Queueing an element, or refusing to.
LEMMA QueueType == TypeOK /\ NetTypeOK /\ Queue => TypeOK' /\ NetTypeOK'
<1> SUFFICES ASSUME TypeOK, NetTypeOK, Queue PROVE TypeOK' /\ NetTypeOK'
    OBVIOUS
<1>1. /\ queue' \in Seq(Elements) /\ Len(queue') <= MAX_QUEUED_REQUESTS
      /\ transactionId' \in 1 .. MAX_TRANSACTION_ID
    <2>1. PICK a \in Asked :
             IF Allowed(a[1], a[2])
             THEN /\ queue' = Append(queue, Element(a[1], a[2], a[3]))
                  /\ transactionId' = NextId(transactionId)
             ELSE UNCHANGED <<queue, transactionId>>
        BY DEF Queue
    <2>2. Element(a[1], a[2], a[3]) \in Elements
        BY ElementType
    <2>3. Len(queue) < MAX_QUEUED_REQUESTS
        BY DEF Queue
    <2>4. NextId(transactionId) \in 1 .. MAX_TRANSACTION_ID
        BY NextIdType DEF TypeOK
    <2>5. /\ transactionId \in 1 .. MAX_TRANSACTION_ID
          /\ queue \in Seq(Elements) /\ Len(queue) <= MAX_QUEUED_REQUESTS
        BY DEF TypeOK
    <2>6. CASE Allowed(a[1], a[2])
        BY <2>1, <2>2, <2>3, <2>4, <2>5, <2>6, Bounds
    <2>7. CASE ~Allowed(a[1], a[2])
        BY <2>1, <2>5, <2>7
    <2> QED BY <2>6, <2>7
<1>2. UNCHANGED <<phase, single, requests, replies, mem, calls, performed, stale>>
    BY DEF Queue
<1> QED BY <1>1, <1>2 DEF TypeOK, NetTypeOK

\* Running the queue.
LEMMA QueueRunType == TypeOK /\ NetTypeOK /\ queueRun => TypeOK' /\ NetTypeOK'
<1> SUFFICES ASSUME TypeOK, NetTypeOK, queueRun PROVE TypeOK' /\ NetTypeOK'
    OBVIOUS
<1>1. requests' \in Seq(Requests) /\ calls' \in 0 .. MaxCalls
    BY SendType DEF queueRun, TypeOK
<1> QED BY <1>1 DEF queueRun, TypeOK, NetTypeOK

\* One register read or written at once.
LEMMA ReadOrWriteType == TypeOK /\ NetTypeOK /\ ReadOrWrite => TypeOK' /\ NetTypeOK'
<1> SUFFICES ASSUME TypeOK, NetTypeOK, ReadOrWrite PROVE TypeOK' /\ NetTypeOK'
    OBVIOUS
<1>1. PICK a \in Asked :
         IF Allowed(a[1], a[2])
         THEN /\ phase' = "waiting"
              /\ queue' = <<Element(a[1], a[2], a[3])>>
              /\ transactionId' = NextId(transactionId)
              /\ Send(<<Element(a[1], a[2], a[3])>>)
         ELSE queue' = <<>> /\ UNCHANGED <<phase, transactionId, calls, requests>>
    BY DEF ReadOrWrite
<1>2. UNCHANGED <<single, replies, mem>> /\ stale' = FALSE /\ phase = "idle"
    BY DEF ReadOrWrite
<1>3. CASE Allowed(a[1], a[2])
    <2>1. <<Element(a[1], a[2], a[3])>> \in Seq(Elements)
        BY ElementType
    <2>2. Send(<<Element(a[1], a[2], a[3])>>)
        BY <1>1, <1>3
    <2>3. requests' \in Seq(Requests) /\ calls' \in 0 .. MaxCalls /\ phase' = "waiting"
        BY <1>1, <1>3, <2>1, <2>2, SendType
    <2>4. NextId(transactionId) \in 1 .. MAX_TRANSACTION_ID
        BY NextIdType DEF TypeOK
    <2>5. queue' \in Seq(Elements) /\ Len(queue') = 1
        <3>1. queue' = <<Element(a[1], a[2], a[3])>>
            BY <1>1, <1>3
        <3> QED BY <2>1, <3>1
    <2>6. transactionId' \in 1 .. MAX_TRANSACTION_ID /\ Len(queue') <= MAX_QUEUED_REQUESTS
        BY <1>1, <1>3, <2>4, <2>5, Bounds
    <2> QED BY <1>2, <2>3, <2>5, <2>6 DEF TypeOK, NetTypeOK
<1>4. CASE ~Allowed(a[1], a[2])
    <2>1. queue' = <<>> /\ UNCHANGED <<phase, transactionId, calls, requests>>
        BY <1>1, <1>4
    <2>2. queue' \in Seq(Elements) /\ Len(queue') <= MAX_QUEUED_REQUESTS
        BY <2>1, Bounds
    <2> QED BY <1>2, <2>1, <2>2 DEF TypeOK, NetTypeOK
<1> QED BY <1>3, <1>4

\* A block or FIFO call, or the refusal of one.
LEMMA BlockOrFifoType == TypeOK /\ NetTypeOK /\ BlockOrFifo => TypeOK' /\ NetTypeOK'
<1> SUFFICES ASSUME TypeOK, NetTypeOK, BlockOrFifo PROVE TypeOK' /\ NetTypeOK'
    OBVIOUS
<1>1. PICK a \in BlockAsked :
         IF a[2].mask = WholeMask /\ Allowed(a[1], a[2])
         THEN /\ phase' = "block"
              /\ single' = <<Element(a[1], a[2], a[3])>>
              /\ transactionId' = NextId(transactionId)
              /\ Send(<<Element(a[1], a[2], a[3])>>)
         ELSE UNCHANGED <<phase, single, transactionId, calls, requests>>
    BY DEF BlockOrFifo
<1>2. UNCHANGED <<queue, replies, mem, stale>> /\ phase = "idle"
    BY DEF BlockOrFifo
<1>3. CASE a[2].mask = WholeMask /\ Allowed(a[1], a[2])
    <2>1. <<Element(a[1], a[2], a[3])>> \in Seq(Elements)
        BY ElementType
    <2>2. Send(<<Element(a[1], a[2], a[3])>>)
        BY <1>1, <1>3
    <2>3. requests' \in Seq(Requests) /\ calls' \in 0 .. MaxCalls /\ phase' = "block"
        BY <1>1, <1>3, <2>1, <2>2, SendType
    <2>4. transactionId' \in 1 .. MAX_TRANSACTION_ID
        BY <1>1, <1>3, NextIdType DEF TypeOK
    <2>5. single' \in Seq(Elements) /\ Len(single') = 1
        <3>1. single' = <<Element(a[1], a[2], a[3])>>
            BY <1>1, <1>3
        <3> QED BY <2>1, <3>1
    <2> QED BY <1>2, <2>3, <2>4, <2>5 DEF TypeOK, NetTypeOK
<1>4. CASE ~(a[2].mask = WholeMask /\ Allowed(a[1], a[2]))
    <2>1. UNCHANGED <<phase, single, transactionId, calls, requests>>
        BY <1>1, <1>4
    <2> QED BY <1>2, <2>1 DEF TypeOK, NetTypeOK
<1> QED BY <1>3, <1>4

\* A datagram is taken from the socket.
LEMMA ReceiveType == TypeOK /\ NetTypeOK /\ Receive => TypeOK' /\ NetTypeOK'
<1> SUFFICES ASSUME TypeOK, NetTypeOK, Receive PROVE TypeOK' /\ NetTypeOK'
    OBVIOUS
<1>1. PICK n \in DOMAIN replies : replies' = RemoveAt(replies, n)
    BY DEF Receive, Take
<1>2. replies' \in Seq(Replies)
    BY <1>1, RemoveAtFacts DEF NetTypeOK
<1>3. /\ phase = "waiting" /\ phase' = "idle" /\ queue' \in {queue, <<>>}
      /\ stale' \in BOOLEAN /\ transactionId' \in {transactionId, 1}
      /\ UNCHANGED <<single, requests, mem, calls>>
    BY DEF Receive, Take, IdAfter
<1>4. transactionId' \in 1 .. MAX_TRANSACTION_ID
    BY <1>3, Bounds DEF TypeOK
<1>5. queue' \in Seq(Elements) /\ Len(queue') <= MAX_QUEUED_REQUESTS
    <2>1. CASE queue' = queue
        BY <2>1 DEF TypeOK
    <2>2. CASE queue' = <<>>
        BY <2>2, Bounds
    <2> QED BY <1>3, <2>1, <2>2
<1> QED BY <1>2, <1>3, <1>4, <1>5 DEF TypeOK, NetTypeOK

\* The same in a block or FIFO call.
LEMMA BlockReceiveType == TypeOK /\ NetTypeOK /\ BlockReceive => TypeOK' /\ NetTypeOK'
<1> SUFFICES ASSUME TypeOK, NetTypeOK, BlockReceive PROVE TypeOK' /\ NetTypeOK'
    OBVIOUS
<1>1. PICK n \in DOMAIN replies : replies' = RemoveAt(replies, n)
    BY DEF BlockReceive, Take
<1>2. replies' \in Seq(Replies)
    BY <1>1, RemoveAtFacts DEF NetTypeOK
<1>3. /\ phase' = "idle" /\ single' = <<>> /\ transactionId' \in {transactionId, 1}
      /\ UNCHANGED <<queue, requests, mem, calls>>
    BY DEF BlockReceive, Take, IdAfter
<1>4. transactionId' \in 1 .. MAX_TRANSACTION_ID
    BY <1>3, Bounds DEF TypeOK
<1>6. stale' \in BOOLEAN
    <2>1. stale' = stale \/ stale' = (queue # <<>>)
        BY DEF BlockReceive
    <2> QED BY <2>1 DEF TypeOK
<1>5. single' \in Seq(Elements) /\ Len(single') = 0
    BY <1>3
<1> QED BY <1>2, <1>3, <1>4, <1>5, <1>6 DEF TypeOK, NetTypeOK

\* The call is given up, or the queue cleared.
LEMMA TimeoutType == TypeOK /\ NetTypeOK /\ (Timeout \/ queueClear) => TypeOK' /\ NetTypeOK'
<1> SUFFICES ASSUME TypeOK, NetTypeOK, Timeout \/ queueClear PROVE TypeOK' /\ NetTypeOK'
    OBVIOUS
<1>1. /\ phase' = "idle" /\ UNCHANGED <<transactionId, requests, replies, mem, calls>>
      /\ \/ queue' = <<>> /\ stale' = FALSE
         \/ UNCHANGED <<queue, stale>>
      /\ single' = <<>> \/ (phase = "idle" /\ single' = single)
    BY DEF Timeout, queueClear
<1>2. queue' \in Seq(Elements) /\ stale' \in BOOLEAN /\ Len(queue') <= MAX_QUEUED_REQUESTS
    <2>1. CASE queue' = <<>> /\ stale' = FALSE
        <3>1. queue' \in Seq(Elements) /\ Len(queue') = 0
            BY <2>1
        <3>2. Len(queue') <= MAX_QUEUED_REQUESTS
            BY <3>1, Bounds
        <3> QED BY <2>1, <3>1, <3>2
    <2>2. CASE UNCHANGED <<queue, stale>>
        BY <2>2 DEF TypeOK
    <2> QED BY <1>1, <2>1, <2>2
<1>3. single' \in Seq(Elements) /\ Len(single') = 0
    <2>1. CASE single' = <<>>
        BY <2>1
    <2>2. CASE phase = "idle" /\ single' = single
        BY <2>2 DEF TypeOK
    <2> QED BY <1>1, <2>1, <2>2
<1> QED BY <1>1, <1>2, <1>3 DEF TypeOK, NetTypeOK

\* The answers to the first k elements, each with the id of its element, and whether
\* it failed.
LEMMA AnswersFacts ==
    ASSUME NEW regs \in [Registers -> SUBSET Nat], NEW es \in Seq(Elements),
           NEW k \in 0 .. Len(es)
    PROVE  /\ Answers(regs, es, k) \in Seq(ReplyElements)
           /\ Len(Answers(regs, es, k)) = IF k < Len(es) THEN k + 1 ELSE k
           /\ \A i \in DOMAIN Answers(regs, es, k) :
                 /\ i \in DOMAIN es
                 /\ Answers(regs, es, k)[i].id = es[i].id
                 /\ Answers(regs, es, k)[i].ok = (i <= k)
                 /\ i <= k => Answers(regs, es, k)[i].body = Bodies(regs, es, k)[i]
<1> DEFINE n == IF k < Len(es) THEN k + 1 ELSE k
           e(i) == [op |-> es[i].op, id |-> es[i].id, ok |-> i <= k,
                    body |-> IF i <= k THEN Bodies(regs, es, k)[i] ELSE <<>>]
<1>1. n \in 0 .. Len(es) /\ n \in Nat
    OBVIOUS
<1>2. ASSUME NEW i \in 1 .. n PROVE e(i) \in ReplyElements
    <2>1. es[i] \in Elements
        BY <1>1
    <2>2. CASE i <= k
        <3>1. /\ Bodies(regs, es, k)[i] \in Seq(SUBSET Nat)
              /\ Len(Bodies(regs, es, k)[i]) = IF es[i].op \in Reading THEN 1 ELSE 0
            BY <1>1, <2>2, BodiesType
        <3> QED BY <2>1, <2>2, <3>1 DEF ReplyElements, Elements
    <2>3. CASE ~(i <= k)
        <3>1. e(i) = [op |-> es[i].op, id |-> es[i].id, ok |-> FALSE, body |-> <<>>]
            <4>1. (i <= k) = FALSE
                BY <2>3
            <4> QED BY <4>1, Zenon
        <3>2. <<>> \in Seq(SUBSET Nat)
            OBVIOUS
        <3> HIDE DEF e
        <3> QED BY <2>1, <3>1, <3>2 DEF ReplyElements, Elements
    <2> QED BY <2>2, <2>3
<1> HIDE DEF e, n
<1>3. Answers(regs, es, k) = [i \in 1 .. n |-> e(i)]
    BY DEF Answers, e, n
<1>4. [i \in 1 .. n |-> e(i)] \in [1 .. n -> ReplyElements]
    BY <1>2
<1>5. [i \in 1 .. n |-> e(i)] \in Seq(ReplyElements) /\ Len([i \in 1 .. n |-> e(i)]) = n
    BY <1>1, <1>4
<1>6. ASSUME NEW i \in 1 .. n
      PROVE  /\ i \in DOMAIN es /\ e(i).id = es[i].id /\ e(i).ok = (i <= k)
             /\ i <= k => e(i).body = Bodies(regs, es, k)[i]
    BY <1>1 DEF e
<1> QED BY <1>3, <1>5, <1>6 DEF n

\* The request that Execute takes, and its types afterwards.
LEMMA ExecuteType ==
    ASSUME TypeOK, NetTypeOK, NEW k, Execute(k)
    PROVE  /\ Head(requests) \in Requests /\ k \in 0 .. Len(Head(requests).elements)
           /\ TypeOK' /\ NetTypeOK'
<1> DEFINE r == Head(requests)
<1>1. r \in Requests /\ Tail(requests) \in Seq(Requests)
    BY DEF Execute, NetTypeOK
<1>2. r.elements \in Seq(Elements) /\ r.call \in Nat /\ k \in 0 .. Len(r.elements)
    BY <1>1 DEF Requests, Execute
<1>3. [call |-> r.call, elements |-> Answers(mem, r.elements, k)] \in Replies
    BY <1>2, AnswersFacts DEF Replies, TypeOK
<1>4. mem' \in [Registers -> SUBSET Nat]
    BY <1>2, AfterType DEF Execute, TypeOK
<1>5. requests' \in Seq(Requests) /\ replies' \in Seq(Replies)
    BY <1>1, <1>3 DEF Execute, NetTypeOK
<1>6. UNCHANGED <<phase, transactionId, queue, single, calls, stale>>
    BY DEF Execute, client
<1> QED BY <1>1, <1>2, <1>4, <1>5, <1>6 DEF TypeOK, NetTypeOK

\* A packet is lost or comes twice.
LEMMA NetworkType == TypeOK /\ NetTypeOK /\ (Lose \/ Duplicate) => TypeOK' /\ NetTypeOK'
<1> SUFFICES ASSUME TypeOK, NetTypeOK, Lose \/ Duplicate PROVE TypeOK' /\ NetTypeOK'
    OBVIOUS
<1>1. UNCHANGED <<phase, transactionId, queue, single, mem, calls, stale>>
    BY DEF Lose, Duplicate, client
<1>2. requests' \in Seq(Requests) /\ replies' \in Seq(Replies)
    <2>1. CASE Lose
        BY <2>1, RemoveAtFacts DEF Lose, NetTypeOK
    <2>2. CASE Duplicate
        BY <2>2, InsertAtFacts DEF Duplicate, NetTypeOK
    <2> QED BY <2>1, <2>2
<1> QED BY <1>1, <1>2 DEF TypeOK, NetTypeOK

\* Every step keeps the types.
LEMMA TypeStep == TypeOK /\ NetTypeOK /\ [Next]_vars => TypeOK' /\ NetTypeOK'
<1> SUFFICES ASSUME TypeOK, NetTypeOK, [Next]_vars PROVE TypeOK' /\ NetTypeOK'
    OBVIOUS
<1>1. CASE UNCHANGED vars
    BY <1>1 DEF vars, client, TypeOK, NetTypeOK
<1>2. CASE Target
    BY <1>2, ExecuteType DEF Target
<1> QED BY <1>1, <1>2, QueueType, QueueRunType, ReadOrWriteType, BlockOrFifoType, ReceiveType,
           BlockReceiveType, TimeoutType, NetworkType DEF Next

\* What is queued comes from queueRead, queueWrite, read or write.
LEMMA QueuedStep ==
    ASSUME TypeOK, QueuedOps, [Next]_vars
    PROVE  QueuedOps'
<1>1. CASE Queue
    <2>1. PICK a \in Asked :
             queue' = queue \/ queue' = Append(queue, Element(a[1], a[2], a[3]))
        BY <1>1 DEF Queue
    <2> DEFINE e == Element(a[1], a[2], a[3])
    <2>2. e.op \in {"read", "write"}
        BY ElementType
    <2> HIDE DEF e
    <2>3. CASE queue' = Append(queue, e)
        <3>1. \A i \in DOMAIN queue' : (i \in DOMAIN queue /\ queue'[i] = queue[i]) \/ queue'[i] = e
            BY <2>3 DEF TypeOK
        <3> QED BY <2>2, <3>1 DEF QueuedOps
    <2> QED BY <2>1, <2>3 DEF QueuedOps, e
<1>2. CASE ReadOrWrite
    <2>1. PICK a \in Asked : queue' = <<>> \/ queue' = <<Element(a[1], a[2], a[3])>>
        BY <1>2 DEF ReadOrWrite
    <2> DEFINE e == Element(a[1], a[2], a[3])
    <2>2. e.op \in {"read", "write"}
        BY ElementType
    <2> HIDE DEF e
    <2>3. queue' = <<>> \/ queue' = <<e>>
        BY <2>1 DEF e
    <2> QED BY <2>2, <2>3 DEF QueuedOps
<1>3. CASE queueClear \/ Receive \/ Timeout
    <2>1. queue' = queue \/ queue' = <<>>
        BY <1>3 DEF queueClear, Receive, Timeout
    <2> QED BY <2>1 DEF QueuedOps
<1>4. CASE queueRun \/ BlockOrFifo \/ BlockReceive \/ Target \/ Lose \/ Duplicate
           \/ UNCHANGED vars
    <2>1. queue' = queue
        BY <1>4 DEF queueRun, BlockOrFifo, BlockReceive, Target, Execute, Lose, Duplicate, vars,
                    client
    <2> QED BY <2>1 DEF QueuedOps
<1> QED BY <1>1, <1>2, <1>3, <1>4 DEF Next

-----------------------------------------------------------------------------
\* The j-th of the positions 1 to n is j.
LEMMA NthOfAll ==
    ASSUME NEW n \in Nat, NEW j \in 1 .. n
    PROVE  Nth(1 .. n, j) = j
<1>1. ASSUME NEW i \in 1 .. n
      PROVE  Cardinality({m \in 1 .. n : m <= i}) = i
    <2>1. {m \in 1 .. n : m <= i} = 1 .. i
        OBVIOUS
    <2>2. Cardinality(1 .. i) = i
        BY FS_Interval
    <2> QED BY <2>1, <2>2
<1> QED BY <1>1 DEF Nth

\* What is returned for a queue of reads alone or of writes alone, once the checks
\* have passed.
LEMMA UniformValues ==
    ASSUME TypeOK, QueuedOps, NEW r \in Replies, Matches(queue, r.elements),
           \A i, j \in DOMAIN queue : queue[i].op = queue[j].op
    PROVE  Values("read", BodiesOf(r)) =
              IF BodiesOf(r) = <<>> \/ BodiesOf(r)[1] = <<>> THEN <<>>
              ELSE [i \in DOMAIN BodiesOf(r) |->
                       shiftDataFromMask(queue[i].item, BodiesOf(r)[i][1])]
<1> DEFINE b == BodiesOf(r)
           n == Len(queue)
<1>1. n \in Nat /\ DOMAIN queue = 1 .. n /\ \A i \in 1 .. n : queue[i].op \in {"read", "write"}
    BY DEF TypeOK, QueuedOps
<1>2. r.elements \in Seq(ReplyElements) /\ Len(r.elements) = n /\ DOMAIN r.elements = 1 .. n
    BY DEF Matches, Replies
<1>3. ASSUME NEW i \in 1 .. n
      PROVE  b[i] \in Seq(SUBSET Nat) /\ Len(b[i]) = IF queue[i].op = "read" THEN 1 ELSE 0
    <2>1. r.elements[i] \in ReplyElements /\ r.elements[i].op = queue[i].op /\ r.elements[i].ok
        BY <1>2 DEF Matches
    <2>2. b[i] = r.elements[i].body
        BY <1>2 DEF BodiesOf
    <2>3. queue[i].op = "read" <=> queue[i].op \in Reading
        BY <1>1 DEF Reading
    <2> QED BY <2>1, <2>2, <2>3 DEF ReplyElements
<1>4. DOMAIN b = 1 .. n
    BY <1>2 DEF BodiesOf
<1>5. CASE \A i \in 1 .. n : queue[i].op = "read"
    <2>1. Picked("read") = 1 .. n
        BY <1>1, <1>5 DEF Picked
    <2>2. Cardinality(1 .. n) = n
        BY <1>1, FS_Interval
    <2>3. Values("read", b) = [j \in 1 .. n |-> Value(Nth(1 .. n, j), b)]
        BY <2>1, <2>2 DEF Values
    <2>4. Values("read", b) = [j \in 1 .. n |-> Value(j, b)]
        BY <1>1, <2>3, NthOfAll
    <2>5. CASE n = 0
        <3>1. Values("read", b) = <<>> /\ b = <<>>
            BY <2>4, <2>5, <1>2 DEF BodiesOf
        <3> QED BY <3>1
    <2>6. CASE n # 0
        <3>1. b[1] # <<>> /\ b # <<>>
            BY <1>1, <1>3, <1>4, <1>5, <2>6
        <3>2. Values("read", b) = [j \in 1 .. n |-> shiftDataFromMask(queue[j].item, b[j][1])]
            BY <2>4, <3>1 DEF Value
        <3> QED BY <1>4, <3>1, <3>2
    <2> QED BY <2>5, <2>6
<1>6. CASE n # 0 /\ queue[1].op = "write"
    <2>1. \A i \in 1 .. n : queue[i].op = "write"
        BY <1>1, <1>6
    <2>2. Picked("read") = {} /\ Cardinality({}) = 0
        BY <1>1, <2>1, FS_EmptySet DEF Picked
    <2>3. Values("read", b) = <<>>
        <3>1. Values("read", b) = [j \in 1 .. 0 |-> Value(Nth({}, j), b)]
            BY <2>2, Zenon DEF Values
        <3>2. 1 .. 0 = {} /\ DOMAIN <<>> = {}
            OBVIOUS
        <3> QED BY <3>1, <3>2
    <2>4. b[1] = <<>>
        BY <1>1, <1>3, <1>6
    <2> QED BY <2>3, <2>4
<1>7. n = 0 \/ queue[1].op \in {"read", "write"}
    BY <1>1
<1> QED BY <1>1, <1>5, <1>6, <1>7

\* No element of a reply failed only if all were performed.
LEMMA WholeIfAllOk ==
    ASSUME NEW regs \in [Registers -> SUBSET Nat], NEW es \in Seq(Elements),
           NEW k \in 0 .. Len(es), AllOk(Answers(regs, es, k))
    PROVE  k = Len(es)
<1> DEFINE a == Answers(regs, es, k)
<1>1. /\ a \in Seq(ReplyElements) /\ Len(a) = IF k < Len(es) THEN k + 1 ELSE k
      /\ \A i \in DOMAIN a : a[i].ok = (i <= k)
    BY AnswersFacts
<1>2. AllOk(a)
    OBVIOUS
<1> HIDE DEF a
<1>3. ASSUME k < Len(es) PROVE FALSE
    <2>1. k + 1 \in DOMAIN a /\ ~(k + 1 <= k)
        BY <1>1, <1>3
    <2>2. a[k + 1].ok = (k + 1 <= k) /\ a[k + 1].ok
        BY <1>1, <1>2, <2>1 DEF AllOk
    <2> QED BY <2>1, <2>2, Zenon
<1> QED BY <1>3

\* A reply that tells of no error is made when the whole request is performed.
LEMMA PerformedStep ==
    ASSUME TypeOK, NetTypeOK, RepliesPerformed, [Next]_vars
    PROVE  RepliesPerformed'
<1>1. ASSUME NEW k, Execute(k) PROVE RepliesPerformed'
    <2> DEFINE r == Head(requests)
               es == r.elements
               new == [call |-> r.call, elements |-> Answers(mem, es, k)]
    <2>1. es \in Seq(Elements) /\ k \in 0 .. Len(es)
        BY <1>1, ExecuteType DEF Requests
    <2>2. replies' = Append(replies, new) /\ performed \subseteq performed'
        BY <1>1 DEF Execute
    <2>3. ASSUME AllOk(new.elements)
          PROVE  [call |-> new.call, bodies |-> BodiesOf(new)] \in performed'
        <3>1. k = Len(es)
            BY <2>1, <2>3, WholeIfAllOk DEF TypeOK
        <3>2. DOMAIN Answers(mem, es, k) = 1 .. k
            BY <2>1, <3>1 DEF Answers
        <3>3. \A i \in 1 .. k : Answers(mem, es, k)[i].body = Bodies(mem, es, k)[i]
            BY <2>1, <3>2, AnswersFacts DEF TypeOK
        <3>4. BodiesOf(new) = Bodies(mem, es, k)
            BY <3>2, <3>3 DEF BodiesOf, Bodies
        <3>5. performed' = performed \cup {[call |-> r.call, bodies |-> Bodies(mem, es, k)]}
            BY <1>1, <2>1, <3>1 DEF Execute
        <3> QED BY <3>4, <3>5
    <2> HIDE DEF new
    <2>4. ASSUME NEW i \in DOMAIN replies', AllOk(replies'[i].elements)
          PROVE  [call |-> replies'[i].call, bodies |-> BodiesOf(replies'[i])] \in performed'
        <3>1. CASE i \in DOMAIN replies
            <4>1. replies'[i] = replies[i]
                BY <2>2, <3>1 DEF NetTypeOK
            <4> QED BY <2>2, <2>4, <3>1, <4>1 DEF RepliesPerformed
        <3>2. CASE i \notin DOMAIN replies
            <4>1. replies'[i] = new
                BY <2>2, <3>2 DEF NetTypeOK
            <4> QED BY <2>3, <2>4, <4>1
        <3> QED BY <3>1, <3>2
    <2> QED BY <2>4 DEF RepliesPerformed
<1>2. ASSUME performed' = performed,
             \A i \in DOMAIN replies' : \E j \in DOMAIN replies : replies'[i] = replies[j]
      PROVE  RepliesPerformed'
    BY <1>2 DEF RepliesPerformed
<1>3. CASE Receive \/ BlockReceive \/ Lose
    <2>1. performed' = performed
        BY <1>3 DEF Receive, BlockReceive, Lose
    <2>2. replies' = replies \/ \E n \in DOMAIN replies : replies' = RemoveAt(replies, n)
        BY <1>3 DEF Receive, BlockReceive, Take, Lose
    <2>3. \A i \in DOMAIN replies' : \E j \in DOMAIN replies : replies'[i] = replies[j]
        <3>1. CASE replies' = replies
            BY <3>1
        <3>2. ASSUME NEW n \in DOMAIN replies, replies' = RemoveAt(replies, n),
                     NEW i \in DOMAIN replies'
              PROVE  \E j \in DOMAIN replies : replies'[i] = replies[j]
            BY <3>2, RemoveAtFacts DEF NetTypeOK
        <3> QED BY <2>2, <3>1, <3>2
    <2> QED BY <1>2, <2>1, <2>3
<1>4. CASE Duplicate
    <2>1. performed' = performed
        BY <1>4 DEF Duplicate
    <2>2. replies' = replies
          \/ \E n \in DOMAIN replies : replies' = InsertAt(replies, n, replies[n])
        BY <1>4 DEF Duplicate
    <2>3. \A i \in DOMAIN replies' : \E j \in DOMAIN replies : replies'[i] = replies[j]
        <3>1. CASE replies' = replies
            BY <3>1
        <3>2. ASSUME NEW n \in DOMAIN replies, replies' = InsertAt(replies, n, replies[n]),
                     NEW i \in DOMAIN replies'
              PROVE  \E j \in DOMAIN replies : replies'[i] = replies[j]
            BY <3>2, InsertAtFacts DEF NetTypeOK
        <3> QED BY <2>2, <3>1, <3>2
    <2> QED BY <1>2, <2>1, <2>3
<1>5. CASE Queue \/ queueClear \/ queueRun \/ ReadOrWrite \/ BlockOrFifo \/ Timeout
           \/ UNCHANGED vars
    <2>1. performed' = performed /\ replies' = replies
        BY <1>5 DEF Queue, queueClear, queueRun, ReadOrWrite, BlockOrFifo, Timeout, vars
    <2> QED BY <2>1 DEF RepliesPerformed
<1> QED BY <1>1, <1>3, <1>4, <1>5 DEF Next, Target

\* The values are those of the reply, and the reply tells of a performance.
LEMMA UniformStep ==
    ASSUME TypeOK, NetTypeOK, QueuedOps, RepliesPerformed, UniformQueueReturnsReads, [Next]_vars
    PROVE  UniformQueueReturnsReads'
<1>1. ASSUME result' = result, performed \subseteq performed'
      PROVE  UniformQueueReturnsReads'
    BY <1>1 DEF UniformQueueReturnsReads
<1>2. ASSUME result'.kind # "ok" PROVE UniformQueueReturnsReads'
    BY <1>2 DEF UniformQueueReturnsReads
<1>3. CASE Receive
    <2> SUFFICES ASSUME result'.kind = "ok",
                        \A i, j \in DOMAIN result'.elements :
                            result'.elements[i].op = result'.elements[j].op
                 PROVE  UniformQueueReturnsReads'
        BY <1>2 DEF UniformQueueReturnsReads
    <2>1. PICK n \in DOMAIN replies :
             /\ Matches(queue, replies[n].elements)
             /\ result' = [kind |-> "ok", from |-> replies[n].call,
                           bodies |-> BodiesOf(replies[n]), elements |-> queue,
                           reads |-> Values("read", BodiesOf(replies[n])),
                           writes |-> Values("write", BodiesOf(replies[n]))]
             /\ performed' = performed
        BY <1>3 DEF Receive, Raise, Received, BodiesOf
    <2> DEFINE r == replies[n]
               p == [call |-> r.call, bodies |-> BodiesOf(r)]
    <2>2. r \in Replies
        BY DEF NetTypeOK
    <2>3. AllOk(r.elements)
        BY <2>1 DEF AllOk, Matches
    <2>4. p \in performed'
        BY <2>1, <2>3 DEF RepliesPerformed
    <2>5. result'.elements = queue /\ result'.from = r.call
          /\ result'.reads = Values("read", BodiesOf(r))
        BY <2>1
    <2>6. result'.reads =
              IF p.bodies = <<>> \/ p.bodies[1] = <<>> THEN <<>>
              ELSE [i \in DOMAIN p.bodies |->
                       shiftDataFromMask(result'.elements[i].item, p.bodies[i][1])]
        BY <2>1, <2>2, <2>5, UniformValues
    <2> HIDE DEF p
    <2>7. p.call = result'.from
        BY <2>5 DEF p
    <2> QED BY <2>4, <2>6, <2>7 DEF UniformQueueReturnsReads
<1>4. CASE \/ Queue \/ queueRun \/ ReadOrWrite \/ BlockOrFifo \/ queueClear \/ BlockReceive
           \/ Timeout \/ Lose \/ Duplicate
    <2>1. performed' = performed /\ (result' = result \/ result'.kind \in {"exception", "block"})
        BY <1>4 DEF Queue, queueRun, ReadOrWrite, BlockOrFifo, queueClear, BlockReceive, Timeout,
                    Lose, Duplicate, Raise
    <2> QED BY <1>1, <1>2, <2>1
<1>5. CASE Target
    BY <1>1, <1>5 DEF Target, Execute
<1>6. CASE UNCHANGED vars
    BY <1>1, <1>6 DEF vars
<1> QED BY <1>3, <1>4, <1>5, <1>6 DEF Next

\* At the start there is nothing to tell of.
LEMMA DataInit == Init => DataInv
<1>1. Init => QueuedOps /\ RepliesPerformed /\ UniformQueueReturnsReads
    BY DEF Init, QueuedOps, RepliesPerformed, UniformQueueReturnsReads
<1> QED BY <1>1, InitType DEF DataInv

\* Of all clients, also with copies, reordering, ids that lap, empty queues and stale
\* ones: every step keeps the types, and what is returned for a queue of one kind.
LEMMA DataStep == DataInv /\ [Next]_vars => DataInv'
BY TypeStep, QueuedStep, PerformedStep, UniformStep DEF DataInv

\* The client's state, the packets and the registers keep their types, for any
\* address table and whatever may happen to the packets.
THEOREM ClientTypes == Spec => []TypeOK
<1>1. DataInv => TypeOK
    BY DEF DataInv
<1> QED BY <1>1, DataInit, DataStep, PTL DEF Spec

\* queueRun returns for a queue of reads alone, or of writes alone, what one whole
\* performance of one call's packet read, the i-th word shifted by the mask of the i-th
\* item queued: for queues of any length and whatever happens to the packets
\* (ChipsBus.py:153-167).  Whether that call is this one is AnswersAreOwn's matter.
THEOREM UniformValuesReturned == Spec => []UniformQueueReturnsReads
<1>1. DataInv => UniformQueueReturnsReads
    BY DEF DataInv
<1> QED BY <1>1, DataInit, DataStep, PTL DEF Spec

-----------------------------------------------------------------------------
\* No packet has an id of q.
NewToNetwork(q) ==
    /\ \A i \in DOMAIN requests : Disjoint(requests[i].elements, q)
    /\ \A i \in DOMAIN replies : Disjoint(replies[i].elements, q)

\* The elements of packets.
LEMMA PacketElements ==
    ASSUME NetTypeOK
    PROVE  /\ \A i \in DOMAIN requests : requests[i].elements \in Seq(Elements)
           /\ \A i \in DOMAIN replies : replies[i].elements \in Seq(ReplyElements)
<1>1. \A i \in DOMAIN requests : requests[i] \in Requests
    BY DEF NetTypeOK
<1>2. \A i \in DOMAIN replies : replies[i] \in Replies
    BY DEF NetTypeOK
<1> QED BY <1>1, <1>2 DEF Requests, Replies

\* The client waits with the elements it has sent, and no packet of an earlier call has
\* an id of theirs.
LEMMA SentApart ==
    ASSUME TypeOK, OwnInv, phase # "idle"
    PROVE  /\ Sent # <<>> /\ Sent \in Seq(Elements)
           /\ \A i \in DOMAIN replies :
                 replies[i].call = calls \/ Disjoint(replies[i].elements, Sent)
<1>1. CASE phase = "waiting"
    BY <1>1 DEF OwnInv, SomeElement, IdsApart, Sent, TypeOK
<1>2. CASE phase = "block"
    <2>1. single \in Seq(Elements) /\ Len(single) = 1
        BY <1>2 DEF TypeOK
    <2>2. Sent = single /\ single # <<>>
        BY <1>2, <2>1 DEF Sent
    <2> QED BY <1>2, <2>1, <2>2 DEF OwnInv, IdsApart
<1> QED BY <1>1, <1>2 DEF TypeOK

\* An answer that passes the checks leaves nothing else in the network, and is the
\* call's own: the ids of earlier packets are others.
LEMMA MatchIsOwn ==
    ASSUME TypeOK, NetTypeOK, OwnInv, phase # "idle", 1 \in DOMAIN replies,
           Matches(Sent, replies[1].elements)
    PROVE  replies[1].call = calls /\ Len(replies) = 1 /\ requests = <<>>
<1> DEFINE es == replies[1].elements
<1>1. Sent # <<>> /\ Sent \in Seq(Elements) /\ 1 \in DOMAIN Sent
    BY SentApart
<1>2. 1 \in DOMAIN es /\ es[1].id = Sent[1].id
    <2>1. es \in Seq(ReplyElements) /\ Len(es) = Len(Sent)
        BY PacketElements DEF Matches
    <2> HIDE DEF es
    <2>2. 1 \in DOMAIN es
        BY <1>1, <2>1
    <2> QED BY <2>2 DEF Matches, es
<1>3. replies[1].call = calls
    BY <1>1, <1>2, SentApart DEF Disjoint
<1> HIDE DEF es
<1>4. calls \in Nat /\ DOMAIN replies = 1 .. Len(replies) /\ Len(replies) \in Nat
    BY Bounds DEF TypeOK, NetTypeOK
<1>5. Len(replies) = 1
    <2> SUFFICES ASSUME 2 \in DOMAIN replies PROVE FALSE
        BY <1>4
    <2>1. replies[1].call < replies[2].call /\ replies[2].call \in 1 .. calls
        BY DEF OwnInv, InOrder
    <2> QED BY <1>3, <1>4, <2>1
<1>6. requests = <<>>
    <2> SUFFICES ASSUME 1 \in DOMAIN requests PROVE FALSE
        BY DEF NetTypeOK
    <2>1. replies[1].call < requests[1].call /\ requests[1].call \in 1 .. calls
        BY DEF OwnInv, InOrder
    <2> QED BY <1>3, <1>4, <2>1
<1> QED BY <1>3, <1>5, <1>6

\* A reply less, or a request less: those that are left are in order.
LEMMA FewerReplies ==
    ASSUME TypeOK, NetTypeOK, OwnInv, NEW n \in DOMAIN replies,
           replies' = RemoveAt(replies, n), requests' = requests, calls' = calls
    PROVE  /\ InOrder'
           /\ \A i \in DOMAIN replies' : \E j \in DOMAIN replies : replies'[i] = replies[j]
<1>1. \A i \in DOMAIN replies' :
          /\ i \in DOMAIN replies /\ i + 1 \in DOMAIN replies
          /\ replies'[i] = IF i < n THEN replies[i] ELSE replies[i + 1]
    BY RemoveAtFacts DEF NetTypeOK
<1>2. DOMAIN replies \subseteq Nat /\ DOMAIN replies' \subseteq DOMAIN replies
    BY <1>1 DEF NetTypeOK
<1>3. \A i \in DOMAIN replies' : \E j \in DOMAIN replies : replies'[i] = replies[j]
    BY <1>1
<1>4. \A i, j \in DOMAIN replies' : i < j => replies'[i].call < replies'[j].call
    <2> SUFFICES ASSUME NEW i \in DOMAIN replies', NEW j \in DOMAIN replies', i < j
                 PROVE  replies'[i].call < replies'[j].call
        OBVIOUS
    <2> DEFINE f(x) == IF x < n THEN x ELSE x + 1
    <2>1. f(i) < f(j) /\ f(i) \in DOMAIN replies /\ f(j) \in DOMAIN replies
        BY <1>1, <1>2
    <2>2. replies'[i] = replies[f(i)] /\ replies'[j] = replies[f(j)]
        BY <1>1
    <2> HIDE DEF f
    <2> QED BY <2>1, <2>2 DEF OwnInv, InOrder
<1>5. /\ \A i \in DOMAIN requests' : requests'[i].call \in 1 .. calls'
      /\ \A i, j \in DOMAIN requests' : i < j => requests'[i].call < requests'[j].call
    BY DEF OwnInv, InOrder
<1>6. \A i \in DOMAIN replies' : /\ replies'[i].call \in 1 .. calls'
                                /\ \A j \in DOMAIN requests' :
                                      replies'[i].call < requests'[j].call
    <2> SUFFICES ASSUME NEW i \in DOMAIN replies'
                 PROVE  /\ replies'[i].call \in 1 .. calls'
                        /\ \A j \in DOMAIN requests' : replies'[i].call < requests'[j].call
        OBVIOUS
    <2>1. PICK j \in DOMAIN replies : replies'[i] = replies[j]
        BY <1>3
    <2> QED BY <2>1 DEF OwnInv, InOrder
<1> QED BY <1>3, <1>4, <1>5, <1>6 DEF InOrder

\* The same of a request less.
LEMMA FewerRequests ==
    ASSUME TypeOK, NetTypeOK, OwnInv, NEW n \in DOMAIN requests,
           requests' = RemoveAt(requests, n), replies' = replies, calls' = calls
    PROVE  /\ InOrder'
           /\ \A i \in DOMAIN requests' : \E j \in DOMAIN requests : requests'[i] = requests[j]
<1>1. \A i \in DOMAIN requests' :
          /\ i \in DOMAIN requests /\ i + 1 \in DOMAIN requests
          /\ requests'[i] = IF i < n THEN requests[i] ELSE requests[i + 1]
    BY RemoveAtFacts DEF NetTypeOK
<1>2. DOMAIN requests \subseteq Nat /\ DOMAIN requests' \subseteq DOMAIN requests
    BY <1>1 DEF NetTypeOK
<1>3. \A i \in DOMAIN requests' : \E j \in DOMAIN requests : requests'[i] = requests[j]
    BY <1>1
<1>4. \A i, j \in DOMAIN requests' : i < j => requests'[i].call < requests'[j].call
    <2> SUFFICES ASSUME NEW i \in DOMAIN requests', NEW j \in DOMAIN requests', i < j
                 PROVE  requests'[i].call < requests'[j].call
        OBVIOUS
    <2> DEFINE f(x) == IF x < n THEN x ELSE x + 1
    <2>1. f(i) < f(j) /\ f(i) \in DOMAIN requests /\ f(j) \in DOMAIN requests
        BY <1>1, <1>2
    <2>2. requests'[i] = requests[f(i)] /\ requests'[j] = requests[f(j)]
        BY <1>1
    <2> HIDE DEF f
    <2> QED BY <2>1, <2>2 DEF OwnInv, InOrder
<1>5. /\ \A i \in DOMAIN replies' : replies'[i].call \in 1 .. calls'
      /\ \A i, j \in DOMAIN replies' : i < j => replies'[i].call < replies'[j].call
    BY DEF OwnInv, InOrder
<1>6. \A i \in DOMAIN requests' : /\ requests'[i].call \in 1 .. calls'
                                 /\ \A j \in DOMAIN replies' :
                                       replies'[j].call < requests'[i].call
    <2> SUFFICES ASSUME NEW i \in DOMAIN requests'
                 PROVE  /\ requests'[i].call \in 1 .. calls'
                        /\ \A j \in DOMAIN replies' : replies'[j].call < requests'[i].call
        OBVIOUS
    <2>1. PICK j \in DOMAIN requests : requests'[i] = requests[j]
        BY <1>3
    <2> QED BY <2>1 DEF OwnInv, InOrder
<1> QED BY <1>3, <1>4, <1>5, <1>6 DEF InOrder

\* A call that fails, and clearing the queue, change no packet that is left.  The queue
\* goes, or it was not the one that was sent.
LEMMA GiveUp ==
    ASSUME TypeOK, NetTypeOK, OwnInv,
           phase' = "idle", UNCHANGED <<transactionId, requests, calls>>,
           \/ queue' = <<>>
           \/ phase # "waiting" /\ UNCHANGED <<queue, stale>>,
           replies' = replies \/ (1 \in DOMAIN replies /\ replies' = RemoveAt(replies, 1)),
           ~Answered' \/ (phase = "idle" /\ result' = result)
    PROVE  OwnInv'
<1>1. /\ InOrder'
      /\ \A i \in DOMAIN replies' : \E j \in DOMAIN replies : replies'[i] = replies[j]
    <2>1. CASE replies' = replies
        BY <2>1 DEF OwnInv, InOrder
    <2>2. CASE 1 \in DOMAIN replies /\ replies' = RemoveAt(replies, 1)
        BY <2>2, FewerReplies
    <2> QED BY <2>1, <2>2
<1>2. SomeElement'
    BY DEF SomeElement
<1>3. IdsLow'
    <2>1. ~stale' => Low(queue', transactionId')
        BY DEF OwnInv, IdsLow, Low
    <2> QED BY <1>1, <2>1 DEF OwnInv, IdsLow
<1>4. IdsApart'
    <2>1. CASE queue' = <<>>
        BY <2>1 DEF IdsApart, Disjoint
    <2>2. CASE phase # "waiting" /\ UNCHANGED <<queue, stale>>
        BY <1>1, <2>2 DEF OwnInv, IdsApart
    <2> QED BY <2>1, <2>2
<1>5. AnswerIsOwn'
    BY DEF OwnInv, AnswerIsOwn, Answered
<1> QED BY <1>1, <1>2, <1>3, <1>4, <1>5 DEF OwnInv

\* Once the network is empty the ids may start again, if the queue is empty or not run.
LEMMA Drained ==
    ASSUME phase' = "idle", requests' = <<>>, replies' = <<>>,
           queue' = <<>> \/ stale', AnswerIsOwn'
    PROVE  OwnInv'
<1>1. DOMAIN requests' = {} /\ DOMAIN replies' = {}
    OBVIOUS
<1>2. ~stale' => DOMAIN queue' = {}
    OBVIOUS
<1>3. InOrder' /\ SomeElement'
    BY <1>1 DEF InOrder, SomeElement
<1>4. IdsLow' /\ IdsApart'
    BY <1>1, <1>2 DEF IdsLow, Low, IdsApart
<1> QED BY <1>3, <1>4 DEF OwnInv

\* A datagram that passes the checks was the last packet of all; one that does not ends
\* the call.
LEMMA OwnReceive ==
    ASSUME Faults = {}, TypeOK, NetTypeOK, OwnInv, Receive \/ BlockReceive
    PROVE  /\ OwnInv'
           /\ Answered' => requests' = <<>> /\ replies' = <<>>
<1>1. /\ phase # "idle" /\ phase' = "idle" /\ 1 \in DOMAIN replies
      /\ replies' = RemoveAt(replies, 1) /\ requests' = requests /\ calls' = calls
      /\ transactionId' = IdAfter(Matches(Sent, replies[1].elements))
      /\ \/ /\ ~Matches(Sent, replies[1].elements) /\ Raise
            /\ queue' = <<>> \/ (phase # "waiting" /\ UNCHANGED <<queue, stale>>)
         \/ /\ Matches(Sent, replies[1].elements)
            /\ queue' = <<>> \/ stale'
            /\ Answered' => result'.from = replies[1].call
    <2>1. CASE Receive
        <3>1. phase = "waiting" /\ Sent = queue
            BY <2>1 DEF Receive, Sent
        <3>2. PICK n \in DOMAIN replies :
                 /\ n = 1 /\ phase' = "idle" /\ replies' = RemoveAt(replies, n)
                 /\ transactionId' = IdAfter(Matches(queue, replies[n].elements))
                 /\ \/ /\ ~Matches(queue, replies[n].elements) /\ Raise /\ queue' = <<>>
                    \/ /\ Matches(queue, replies[n].elements)
                       /\ result'.kind = "IndexError" /\ stale'
                    \/ /\ Matches(queue, replies[n].elements)
                       /\ result'.from = replies[n].call /\ queue' = <<>>
            BY <2>1 DEF Receive, Take
        <3>3. UNCHANGED <<requests, calls>>
            BY <2>1 DEF Receive
        <3> QED BY <3>1, <3>2, <3>3 DEF Answered
    <2>2. CASE BlockReceive
        <3>1. phase = "block" /\ Sent = single
            BY <2>2 DEF BlockReceive, Sent
        <3>2. PICK n \in DOMAIN replies :
                 /\ n = 1 /\ phase' = "idle" /\ replies' = RemoveAt(replies, n)
                 /\ transactionId' = IdAfter(Matches(single, replies[n].elements))
                 /\ IF Matches(single, replies[n].elements)
                    THEN result'.from = replies[n].call /\ stale' = (queue # <<>>)
                    ELSE Raise /\ UNCHANGED stale
            BY <2>2 DEF BlockReceive, Take
        <3>3. UNCHANGED <<queue, requests, calls>>
            BY <2>2 DEF BlockReceive
        <3> QED BY <3>1, <3>2, <3>3
    <2> QED BY <2>1, <2>2
<1>2. CASE ~Matches(Sent, replies[1].elements)
    <2>1. ~Answered' /\ transactionId' = transactionId
        BY <1>1, <1>2 DEF Raise, IdAfter, Answered
    <2>2. OwnInv'
        BY <1>1, <1>2, <2>1, GiveUp
    <2> QED BY <2>1, <2>2
<1>3. CASE Matches(Sent, replies[1].elements)
    <2>1. replies[1].call = calls /\ Len(replies) = 1 /\ requests' = <<>>
        BY <1>1, <1>3, MatchIsOwn
    <2>2. replies' = <<>>
        BY <1>1, <2>1, RemoveAtFacts DEF NetTypeOK
    <2>3. AnswerIsOwn'
        BY <1>1, <1>3, <2>1 DEF AnswerIsOwn
    <2> QED BY <1>1, <1>3, <2>1, <2>2, <2>3, Drained
<1> QED BY <1>2, <1>3

\* With a packet lost there is one less to be apart from.
LEMMA OwnLose ==
    ASSUME TypeOK, NetTypeOK, OwnInv, Lose
    PROVE  OwnInv'
<1>1. UNCHANGED <<phase, transactionId, queue, single, calls, result, stale>>
    BY DEF Lose, client
<1>2. /\ InOrder'
      /\ \A i \in DOMAIN replies' : \E j \in DOMAIN replies : replies'[i] = replies[j]
      /\ \A i \in DOMAIN requests' : \E j \in DOMAIN requests : requests'[i] = requests[j]
    <2>1. CASE \E n \in DOMAIN requests : requests' = RemoveAt(requests, n) /\ replies' = replies
        BY <1>1, <2>1, FewerRequests
    <2>2. CASE \E n \in DOMAIN replies : replies' = RemoveAt(replies, n) /\ requests' = requests
        BY <1>1, <2>2, FewerReplies
    <2> QED BY <2>1, <2>2 DEF Lose
<1>3. SomeElement'
    BY <1>1 DEF OwnInv, SomeElement
<1>4. IdsLow'
    BY <1>1, <1>2 DEF OwnInv, IdsLow
<1>5. IdsApart'
    BY <1>1, <1>2 DEF OwnInv, IdsApart
<1>6. AnswerIsOwn'
    BY <1>1 DEF OwnInv, AnswerIsOwn, Answered
<1> QED BY <1>2, <1>3, <1>4, <1>5, <1>6 DEF OwnInv

\* The target answers with the ids of the request, and moves its packet from the
\* front of the requests to the end of the replies.
LEMMA OwnExecute ==
    ASSUME TypeOK, NetTypeOK, OwnInv, NEW k, Execute(k)
    PROVE  OwnInv'
<1> DEFINE r == Head(requests)
           es == r.elements
           a == Answers(mem, es, k)
           new == [call |-> r.call, elements |-> a]
<1>1. /\ requests # <<>> /\ requests' = Tail(requests) /\ replies' = Append(replies, new)
      /\ UNCHANGED <<phase, transactionId, queue, single, calls, result, stale>>
    BY DEF Execute, client
<1>2. /\ 1 \in DOMAIN requests /\ r = requests[1]
      /\ \A i \in DOMAIN requests' : i + 1 \in DOMAIN requests /\ requests'[i] = requests[i + 1]
    BY <1>1 DEF NetTypeOK
<1>3. /\ \A i \in DOMAIN replies : i \in DOMAIN replies' /\ replies'[i] = replies[i]
      /\ \A i \in DOMAIN replies' :
            \/ i \in DOMAIN replies /\ replies'[i] = replies[i]
            \/ i \notin DOMAIN replies /\ i = Len(replies) + 1 /\ replies'[i] = new
    BY <1>1 DEF NetTypeOK
<1>4. es \in Seq(Elements) /\ k \in 0 .. Len(es)
    BY <1>2, ExecuteType DEF Requests
<1>5. \A i \in DOMAIN a : i \in DOMAIN es /\ a[i].id = es[i].id
    BY <1>4, AnswersFacts DEF TypeOK
<1> HIDE DEF a, es, r
<1>6. new.call = r.call /\ new.elements = a /\ r.call = requests[1].call /\ es = requests[1].elements
    BY <1>2 DEF es
<1> HIDE DEF new
<1>7. calls \in Nat /\ DOMAIN requests \subseteq Nat /\ DOMAIN replies \subseteq Nat
      /\ Len(replies) \in Nat /\ DOMAIN replies = 1 .. Len(replies)
      /\ DOMAIN requests' \subseteq Nat /\ DOMAIN requests \subseteq Nat \ {0}
    BY <1>1, Bounds DEF TypeOK, NetTypeOK
<1>8. InOrder'
    <2>1. \A i \in DOMAIN requests' : requests'[i].call \in 1 .. calls'
        BY <1>1, <1>2 DEF OwnInv, InOrder
    <2>2. \A i \in DOMAIN replies' : replies'[i].call \in 1 .. calls'
        BY <1>1, <1>2, <1>3, <1>6 DEF OwnInv, InOrder
    <2>3. \A i, j \in DOMAIN requests' : i < j => requests'[i].call < requests'[j].call
        <3> SUFFICES ASSUME NEW i \in DOMAIN requests', NEW j \in DOMAIN requests', i < j
                     PROVE  requests'[i].call < requests'[j].call
            OBVIOUS
        <3>1. /\ i + 1 \in DOMAIN requests /\ requests'[i] = requests[i + 1]
              /\ j + 1 \in DOMAIN requests /\ requests'[j] = requests[j + 1]
              /\ i + 1 < j + 1
            BY <1>2, <1>7
        <3> QED BY <3>1 DEF OwnInv, InOrder
    <2>4. \A i, j \in DOMAIN replies' : i < j => replies'[i].call < replies'[j].call
        <3> SUFFICES ASSUME NEW i \in DOMAIN replies', NEW j \in DOMAIN replies', i < j
                     PROVE  replies'[i].call < replies'[j].call
            OBVIOUS
        <3>1. i \in DOMAIN replies /\ replies'[i] = replies[i]
            BY <1>3, <1>7
        <3>2. CASE j \in DOMAIN replies
            BY <1>3, <3>1, <3>2 DEF OwnInv, InOrder
        <3>3. CASE j \notin DOMAIN replies
            BY <1>2, <1>3, <1>6, <3>1, <3>3 DEF OwnInv, InOrder
        <3> QED BY <3>2, <3>3
    <2>5. \A i \in DOMAIN replies', j \in DOMAIN requests' :
             replies'[i].call < requests'[j].call
        <3> SUFFICES ASSUME NEW i \in DOMAIN replies', NEW j \in DOMAIN requests'
                     PROVE  replies'[i].call < requests'[j].call
            OBVIOUS
        <3>1. j + 1 \in DOMAIN requests /\ requests'[j] = requests[j + 1] /\ 1 < j + 1
            <4>1. j \in Nat /\ j # 0
                BY <1>1, <1>7 DEF NetTypeOK
            <4> QED BY <1>2, <4>1
        <3>2. CASE i \in DOMAIN replies
            BY <1>3, <3>1, <3>2 DEF OwnInv, InOrder
        <3>3. CASE i \notin DOMAIN replies
            BY <1>2, <1>3, <1>6, <3>1, <3>3 DEF OwnInv, InOrder
        <3> QED BY <3>2, <3>3
    <2> QED BY <2>1, <2>2, <2>3, <2>4, <2>5 DEF InOrder
<1>9. SomeElement'
    BY <1>1 DEF OwnInv, SomeElement
<1>10. IdsLow'
    <2>1. Low(a, transactionId)
        BY <1>2, <1>5, <1>6 DEF OwnInv, IdsLow, Low
    <2> QED BY <1>1, <1>2, <1>3, <1>6, <2>1 DEF OwnInv, IdsLow
<1>11. IdsApart'
    <2>1. \A q : Disjoint(es, q) => Disjoint(a, q)
        BY <1>5 DEF Disjoint
    <2>2. /\ ~stale => (phase = "waiting" /\ new.call = calls) \/ Disjoint(a, queue)
          /\ phase = "block" => new.call = calls \/ Disjoint(a, single)
        BY <1>2, <1>6, <2>1 DEF OwnInv, IdsApart
    <2> QED BY <1>1, <1>2, <1>3, <1>6, <2>2 DEF OwnInv, IdsApart
<1>12. AnswerIsOwn'
    BY <1>1 DEF OwnInv, AnswerIsOwn, Answered
<1> QED BY <1>8, <1>9, <1>10, <1>11, <1>12 DEF OwnInv

\* Ids are numbers.
LEMMA IdsAreNumbers ==
    ASSUME NEW es, es \in Seq(Elements) \/ es \in Seq(ReplyElements)
    PROVE  \A m \in DOMAIN es : es[m].id \in Nat
<1>1. CASE es \in Seq(Elements)
    <2>1. \A m \in DOMAIN es : es[m] \in Elements
        BY <1>1
    <2> QED BY <2>1, Bounds DEF Elements
<1>2. CASE es \in Seq(ReplyElements)
    <2>1. \A m \in DOMAIN es : es[m] \in ReplyElements
        BY <1>2
    <2> QED BY <2>1, Bounds DEF ReplyElements
<1> QED BY <1>1, <1>2

\* Three sequences put together are empty only if each is.
LEMMA NothingLeft ==
    ASSUME NetTypeOK, NEW q \in Seq(Elements), requests \o replies \o q = <<>>
    PROVE  requests = <<>> /\ replies = <<>> /\ q = <<>>
<1>1. Len(requests \o replies \o q) = Len(requests) + Len(replies) + Len(q)
    BY DEF NetTypeOK
<1>2. Len(requests) \in Nat /\ Len(replies) \in Nat /\ Len(q) \in Nat
    BY DEF NetTypeOK
<1>3. Len(requests) = 0 /\ Len(replies) = 0 /\ Len(q) = 0
    BY <1>1, <1>2
<1> QED BY <1>3 DEF NetTypeOK

\* An id that may be drawn beside a queue may be drawn without one.
LEMMA DrawAlsoAlone ==
    ASSUME TypeOK, NetTypeOK, MayDraw(queue)
    PROVE  <<>> \in Seq(Elements) /\ MayDraw(<<>>)
<1>1. queue \in Seq(Elements)
    BY DEF TypeOK
<1>2. ASSUME requests \o replies \o queue = <<>> PROVE requests \o replies \o <<>> = <<>>
    BY <1>1, <1>2, NothingLeft
<1> QED BY <1>2 DEF MayDraw

\* The id that is drawn is none that a packet or the queue holds.
LEMMA DrawIsNew ==
    ASSUME Faults = {}, TypeOK, NetTypeOK, OwnInv, NEW q \in Seq(Elements), MayDraw(q),
           Low(q, transactionId), NEW e \in Elements, e.id = transactionId
    PROVE  /\ \A i \in DOMAIN requests : Low(requests[i].elements, NextId(transactionId))
           /\ \A i \in DOMAIN replies : Low(replies[i].elements, NextId(transactionId))
           /\ NewToNetwork(<<e>>) /\ Disjoint(<<e>>, q)
           /\ Low(<<e>>, NextId(transactionId))
           /\ Low(Append(q, e), NextId(transactionId))
<1> DEFINE t == NextId(transactionId)
<1>1. transactionId \in Nat /\ MAX_TRANSACTION_ID \in Nat /\ transactionId <= MAX_TRANSACTION_ID
    BY Bounds DEF TypeOK
<1>2. \A j \in DOMAIN Append(q, e) :
         (j \in DOMAIN q /\ Append(q, e)[j] = q[j]) \/ Append(q, e)[j] = e
    OBVIOUS
<1>3. Low(q, t) /\ Low(<<e>>, t) => Low(Append(q, e), t)
    <2> DEFINE qq == Append(q, e)
    <2>1. DOMAIN <<e>> = {1} /\ <<e>>[1] = e
        OBVIOUS
    <2>2. \A j \in DOMAIN qq : (j \in DOMAIN q /\ qq[j] = q[j]) \/ qq[j] = e
        BY <1>2
    <2> HIDE DEF qq, t
    <2> QED BY <2>1, <2>2 DEF Low, qq
<1>4. CASE transactionId < MAX_TRANSACTION_ID
    <2>1. t = transactionId + 1
        BY <1>4 DEF NextId
    <2>2. ASSUME NEW es, \A m \in DOMAIN es : es[m].id \in Nat, Low(es, transactionId)
          PROVE  Low(es, t) /\ \A m \in DOMAIN es : es[m].id # transactionId
        BY <1>1, <1>4, <2>1, <2>2 DEF Low
    <2>3. ASSUME NEW i \in DOMAIN requests
          PROVE  /\ Low(requests[i].elements, t)
                 /\ \A m \in DOMAIN requests[i].elements :
                       requests[i].elements[m].id # transactionId
        <3> DEFINE es == requests[i].elements
        <3>1. \A m \in DOMAIN es : es[m].id \in Nat
            <4>1. es \in Seq(Elements)
                BY PacketElements
            <4> HIDE DEF es
            <4> QED BY <4>1, IdsAreNumbers
        <3>2. Low(es, transactionId)
            BY DEF OwnInv, IdsLow
        <3> HIDE DEF es
        <3>3. Low(es, t) /\ \A m \in DOMAIN es : es[m].id # transactionId
            BY <2>2, <3>1, <3>2
        <3> QED BY <3>3 DEF es
    <2>4. ASSUME NEW i \in DOMAIN replies
          PROVE  /\ Low(replies[i].elements, t)
                 /\ \A m \in DOMAIN replies[i].elements :
                       replies[i].elements[m].id # transactionId
        <3> DEFINE es == replies[i].elements
        <3>1. \A m \in DOMAIN es : es[m].id \in Nat
            <4>1. es \in Seq(ReplyElements)
                BY PacketElements
            <4> HIDE DEF es
            <4> QED BY <4>1, IdsAreNumbers
        <3>2. Low(es, transactionId)
            BY DEF OwnInv, IdsLow
        <3> HIDE DEF es
        <3>3. Low(es, t) /\ \A m \in DOMAIN es : es[m].id # transactionId
            BY <2>2, <3>1, <3>2
        <3> QED BY <3>3 DEF es
    <2>5. Low(q, t) /\ \A m \in DOMAIN q : q[m].id # transactionId
        <3>1. \A m \in DOMAIN q : q[m].id \in Nat
            BY IdsAreNumbers
        <3> QED BY <2>2, <3>1
    <2>6. Low(<<e>>, t)
        BY <1>1, <2>1 DEF Low
    <2>7. \A j \in DOMAIN <<e>> : <<e>>[j].id = transactionId
        OBVIOUS
    <2>8. NewToNetwork(<<e>>) /\ Disjoint(<<e>>, q)
        BY <2>3, <2>4, <2>5, <2>7 DEF NewToNetwork, Disjoint
    <2> HIDE DEF t
    <2> QED BY <1>3, <2>3, <2>4, <2>5, <2>6, <2>8 DEF t
<1>5. CASE ~(transactionId < MAX_TRANSACTION_ID)
    <2>1. requests \o replies \o q = <<>>
        BY <1>5 DEF MayDraw
    <2>2. requests = <<>> /\ replies = <<>> /\ q = <<>>
        BY <2>1, NothingLeft
    <2>3. Low(<<e>>, t)
        BY <1>1, <1>5 DEF Low
    <2>4. DOMAIN requests = {} /\ DOMAIN replies = {} /\ DOMAIN q = {}
        BY <2>2
    <2>5. Low(q, t) /\ NewToNetwork(<<e>>) /\ Disjoint(<<e>>, q)
        BY <2>4 DEF Low, NewToNetwork, Disjoint
    <2> HIDE DEF t
    <2> QED BY <1>3, <2>3, <2>4, <2>5 DEF t
<1> QED BY <1>4, <1>5

\* The id drawn for the queue is new to the network.
LEMMA OwnQueue ==
    ASSUME Faults = {}, TypeOK, NetTypeOK, OwnInv, Queue
    PROVE  OwnInv'
<1>1. /\ phase = "idle" /\ UNCHANGED <<phase, requests, replies, calls, stale>>
      /\ result' = result \/ result'.kind = "exception"
    BY DEF Queue, Raise
<1>2. InOrder' /\ SomeElement' /\ AnswerIsOwn'
    BY <1>1 DEF OwnInv, InOrder, SomeElement, AnswerIsOwn, Answered
<1>3. PICK a \in Asked :
         \/ /\ MayDraw(queue)
            /\ queue' = Append(queue, Element(a[1], a[2], a[3]))
            /\ transactionId' = NextId(transactionId)
         \/ UNCHANGED <<queue, transactionId>>
    BY DEF Queue
<1> DEFINE e == Element(a[1], a[2], a[3])
<1>4. e \in Elements /\ e.id = transactionId
    BY ElementType
<1> HIDE DEF e
<1>5. CASE UNCHANGED <<queue, transactionId>>
    BY <1>1, <1>2, <1>5 DEF OwnInv, IdsLow, IdsApart
<1>6. CASE MayDraw(queue) /\ queue' = Append(queue, e) /\ transactionId' = NextId(transactionId)
    <2>1. queue \in Seq(Elements)
        BY DEF TypeOK
    <2>2. ~stale => Low(queue, transactionId)
        BY DEF OwnInv, IdsLow
    <2>3. <<>> \in Seq(Elements) /\ Low(<<>>, transactionId) /\ MayDraw(<<>>)
        BY <1>6, DrawAlsoAlone DEF Low
    <2>4. /\ \A i \in DOMAIN requests : Low(requests[i].elements, NextId(transactionId))
          /\ \A i \in DOMAIN replies : Low(replies[i].elements, NextId(transactionId))
          /\ NewToNetwork(<<e>>)
        BY <1>4, <2>3, DrawIsNew
    <2>5. ~stale => Low(Append(queue, e), NextId(transactionId))
        BY <1>4, <1>6, <2>1, <2>2, DrawIsNew
    <2>6. IdsLow'
        BY <1>1, <1>6, <2>4, <2>5 DEF IdsLow
    <2>7. ASSUME ~stale, NEW es, Disjoint(es, queue), Disjoint(es, <<e>>)
          PROVE  Disjoint(es, queue')
        <3>1. \A j \in DOMAIN queue' :
                 (j \in DOMAIN queue /\ queue'[j] = queue[j]) \/ queue'[j] = e
            BY <1>6, <2>1
        <3>2. 1 \in DOMAIN <<e>> /\ <<e>>[1] = e
            OBVIOUS
        <3> QED BY <2>7, <3>1, <3>2 DEF Disjoint
    <2>8. IdsApart'
        BY <1>1, <2>4, <2>7 DEF OwnInv, IdsApart, NewToNetwork
    <2> QED BY <1>2, <2>6, <2>8 DEF OwnInv
<1> QED BY <1>3, <1>5, <1>6 DEF e

\* The packet sent is of a call of its own, and there is no other of that call; what
\* it holds is new to the network, and apart from the queue unless it is the queue.
LEMMA OwnSend ==
    ASSUME TypeOK, NetTypeOK, OwnInv, phase = "idle", Send(Sent'),
           phase' = "waiting" \/ (phase' = "block" /\ UNCHANGED <<queue, stale>>),
           phase' = "waiting" => queue' # <<>> /\ ~stale',
           \A i \in DOMAIN requests : Low(requests[i].elements, transactionId'),
           \A i \in DOMAIN replies : Low(replies[i].elements, transactionId'),
           Low(Sent', transactionId'), ~stale' => Low(queue', transactionId'),
           NewToNetwork(Sent'),
           phase' = "block" /\ ~stale => Disjoint(Sent', queue),
           replies' = replies
    PROVE  OwnInv'
<1> DEFINE new == [call |-> calls + 1, elements |-> Sent']
<1>1. calls' = calls + 1 /\ requests' = Append(requests, new)
    BY DEF Send
<1>2. /\ \A i \in DOMAIN requests : i \in DOMAIN requests' /\ requests'[i] = requests[i]
      /\ \A i \in DOMAIN requests' :
            \/ i \in DOMAIN requests /\ requests'[i] = requests[i]
            \/ i \notin DOMAIN requests /\ i = Len(requests) + 1 /\ requests'[i] = new
    BY <1>1 DEF NetTypeOK
<1>3. new.call = calls + 1 /\ new.elements = Sent'
    OBVIOUS
<1> HIDE DEF new
<1>4. calls \in Nat /\ Len(requests) \in Nat /\ DOMAIN requests = 1 .. Len(requests)
    BY Bounds DEF TypeOK, NetTypeOK
<1>5. /\ \A i \in DOMAIN requests : requests[i].call \in 1 .. calls
      /\ \A i \in DOMAIN replies : replies[i].call \in 1 .. calls
    BY DEF OwnInv, InOrder
<1>6. InOrder'
    <2>1. /\ \A i \in DOMAIN requests' : requests'[i].call \in 1 .. calls'
          /\ \A i \in DOMAIN replies' : replies'[i].call \in 1 .. calls'
        BY <1>1, <1>2, <1>3, <1>4, <1>5
    <2>2. \A i, j \in DOMAIN requests' : i < j => requests'[i].call < requests'[j].call
        <3> SUFFICES ASSUME NEW i \in DOMAIN requests', NEW j \in DOMAIN requests', i < j
                     PROVE  requests'[i].call < requests'[j].call
            OBVIOUS
        <3>1. i \in DOMAIN requests /\ requests'[i] = requests[i]
            BY <1>2, <1>4
        <3>2. CASE j \in DOMAIN requests
            BY <1>2, <3>1, <3>2 DEF OwnInv, InOrder
        <3>3. CASE j \notin DOMAIN requests
            BY <1>2, <1>3, <1>4, <1>5, <3>1, <3>3
        <3> QED BY <3>2, <3>3
    <2>3. \A i, j \in DOMAIN replies' : i < j => replies'[i].call < replies'[j].call
        BY DEF OwnInv, InOrder
    <2>4. \A i \in DOMAIN replies', j \in DOMAIN requests' :
             replies'[i].call < requests'[j].call
        <3> SUFFICES ASSUME NEW i \in DOMAIN replies', NEW j \in DOMAIN requests'
                     PROVE  replies'[i].call < requests'[j].call
            OBVIOUS
        <3>1. CASE j \in DOMAIN requests
            BY <1>2, <3>1 DEF OwnInv, InOrder
        <3>2. CASE j \notin DOMAIN requests
            BY <1>2, <1>3, <1>4, <1>5, <3>2
        <3> QED BY <3>1, <3>2
    <2> QED BY <2>1, <2>2, <2>3, <2>4 DEF InOrder
<1>7. SomeElement'
    BY DEF SomeElement
<1>8. IdsLow'
    BY <1>2, <1>3 DEF IdsLow
<1>9. /\ \A i \in DOMAIN requests' :
           \/ requests'[i].call = calls' /\ requests'[i].elements = Sent'
           \/ i \in DOMAIN requests /\ requests'[i] = requests[i] /\ requests'[i].call # calls'
      /\ \A i \in DOMAIN replies : replies[i].call # calls'
    BY <1>1, <1>2, <1>3, <1>4, <1>5
<1>10. IdsApart'
    <2>1. CASE phase' = "waiting"
        <3>1. Sent' = queue'
            BY <2>1 DEF Sent
        <3>2. /\ \A i \in DOMAIN requests' :
                    requests'[i].call = calls' \/ Disjoint(requests'[i].elements, queue')
              /\ \A i \in DOMAIN replies' : Disjoint(replies'[i].elements, queue')
            BY <1>9, <3>1 DEF NewToNetwork
        <3> QED BY <2>1, <3>2 DEF IdsApart
    <2>2. CASE phase' = "block" /\ UNCHANGED <<queue, stale>>
        <3>1. Sent' = single'
            BY <2>2 DEF Sent
        <3>2. /\ \A i \in DOMAIN requests' :
                    requests'[i].call = calls' \/ Disjoint(requests'[i].elements, single')
              /\ \A i \in DOMAIN replies' : Disjoint(replies'[i].elements, single')
            BY <1>9, <3>1 DEF NewToNetwork
        <3>3. ~stale => /\ \A i \in DOMAIN requests : Disjoint(requests[i].elements, queue)
                        /\ \A i \in DOMAIN replies : Disjoint(replies[i].elements, queue)
            BY DEF OwnInv, IdsApart
        <3>4. ~stale => \A i \in DOMAIN requests' : Disjoint(requests'[i].elements, queue)
            BY <1>9, <2>2, <3>3
        <3> QED BY <2>2, <3>2, <3>3, <3>4 DEF IdsApart
    <2> QED BY <2>1, <2>2
<1>11. AnswerIsOwn'
    BY DEF AnswerIsOwn
<1> QED BY <1>6, <1>7, <1>8, <1>10, <1>11 DEF OwnInv

\* The queue is sent.
LEMMA OwnRun ==
    ASSUME Faults = {}, TypeOK, NetTypeOK, OwnInv, queueRun
    PROVE  OwnInv'
<1>1. /\ phase = "idle" /\ phase' = "waiting" /\ queue # <<>> /\ ~stale /\ Send(queue)
      /\ UNCHANGED <<queue, transactionId, replies, stale>>
    BY DEF queueRun
<1>2. Sent' = queue
    BY <1>1 DEF Sent
<1>3. /\ Low(queue, transactionId) /\ NewToNetwork(queue)
      /\ \A i \in DOMAIN requests : Low(requests[i].elements, transactionId)
      /\ \A i \in DOMAIN replies : Low(replies[i].elements, transactionId)
    BY <1>1 DEF OwnInv, IdsLow, IdsApart, NewToNetwork
<1> QED BY <1>1, <1>2, <1>3, OwnSend

\* The one element of a read or a write is sent.
LEMMA OwnReadOrWrite ==
    ASSUME Faults = {}, TypeOK, NetTypeOK, OwnInv, ReadOrWrite
    PROVE  OwnInv'
<1>1. PICK a \in Asked :
         IF Allowed(a[1], a[2])
         THEN /\ MayDraw(<<>>) /\ phase' = "waiting"
              /\ queue' = <<Element(a[1], a[2], a[3])>>
              /\ transactionId' = NextId(transactionId)
              /\ Send(<<Element(a[1], a[2], a[3])>>)
         ELSE queue' = <<>> /\ Raise /\ UNCHANGED <<phase, transactionId, calls, requests>>
    BY DEF ReadOrWrite
<1>2. phase = "idle" /\ stale' = FALSE /\ replies' = replies
    BY DEF ReadOrWrite
<1>3. CASE Allowed(a[1], a[2])
    <2> DEFINE e == Element(a[1], a[2], a[3])
    <2>1. e \in Elements /\ e.id = transactionId
        BY ElementType
    <2> HIDE DEF e
    <2>2. /\ MayDraw(<<>>) /\ phase' = "waiting" /\ queue' = <<e>>
          /\ transactionId' = NextId(transactionId) /\ Send(<<e>>)
        BY <1>1, <1>3 DEF e
    <2>3. <<>> \in Seq(Elements) /\ Low(<<>>, transactionId) /\ <<e>> # <<>>
        BY DEF Low
    <2>4. /\ \A i \in DOMAIN requests : Low(requests[i].elements, transactionId')
          /\ \A i \in DOMAIN replies : Low(replies[i].elements, transactionId')
          /\ NewToNetwork(<<e>>) /\ Low(<<e>>, transactionId')
        BY <2>1, <2>2, <2>3, DrawIsNew
    <2>5. Sent' = <<e>>
        BY <2>2 DEF Sent
    <2> QED BY <1>2, <2>2, <2>3, <2>4, <2>5, OwnSend
<1>4. CASE ~Allowed(a[1], a[2])
    <2>1. /\ queue' = <<>> /\ ~Answered' /\ phase' = "idle"
          /\ UNCHANGED <<transactionId, requests, calls>>
        BY <1>1, <1>2, <1>4 DEF Raise, Answered
    <2> QED BY <1>2, <2>1, GiveUp
<1> QED BY <1>3, <1>4

\* The one element of a block or FIFO call is sent; its id is none that the queue holds.
LEMMA OwnBlockOrFifo ==
    ASSUME Faults = {}, TypeOK, NetTypeOK, OwnInv, BlockOrFifo
    PROVE  OwnInv'
<1>1. PICK a \in BlockAsked :
         IF a[2].mask = WholeMask /\ Allowed(a[1], a[2])
         THEN /\ MayDraw(queue) /\ phase' = "block"
              /\ single' = <<Element(a[1], a[2], a[3])>>
              /\ transactionId' = NextId(transactionId)
              /\ Send(<<Element(a[1], a[2], a[3])>>)
         ELSE Raise /\ UNCHANGED <<phase, transactionId, calls, requests>>
    BY DEF BlockOrFifo
<1>2. phase = "idle" /\ UNCHANGED <<queue, stale, replies>>
    BY DEF BlockOrFifo
<1>3. CASE a[2].mask = WholeMask /\ Allowed(a[1], a[2])
    <2> DEFINE e == Element(a[1], a[2], a[3])
    <2>1. e \in Elements /\ e.id = transactionId
        BY ElementType
    <2> HIDE DEF e
    <2>2. /\ MayDraw(queue) /\ phase' = "block" /\ single' = <<e>>
          /\ transactionId' = NextId(transactionId) /\ Send(<<e>>)
        BY <1>1, <1>3 DEF e
    <2>3. <<>> \in Seq(Elements) /\ Low(<<>>, transactionId) /\ MayDraw(<<>>)
        BY <2>2, DrawAlsoAlone DEF Low
    <2>4. /\ \A i \in DOMAIN requests : Low(requests[i].elements, transactionId')
          /\ \A i \in DOMAIN replies : Low(replies[i].elements, transactionId')
          /\ NewToNetwork(<<e>>) /\ Low(<<e>>, transactionId')
        BY <2>1, <2>2, <2>3, DrawIsNew
    <2>5. ~stale => Disjoint(<<e>>, queue) /\ Low(queue, transactionId')
        <3> SUFFICES ASSUME ~stale
                     PROVE  Disjoint(<<e>>, queue) /\ Low(queue, transactionId')
            OBVIOUS
        <3>1. queue \in Seq(Elements) /\ Low(queue, transactionId)
            BY DEF TypeOK, OwnInv, IdsLow
        <3>2. Disjoint(<<e>>, queue) /\ Low(Append(queue, e), NextId(transactionId))
            BY <2>1, <2>2, <3>1, DrawIsNew
        <3>3. \A j \in DOMAIN queue :
                 j \in DOMAIN Append(queue, e) /\ Append(queue, e)[j] = queue[j]
            BY <3>1
        <3> QED BY <2>2, <3>2, <3>3 DEF Low
    <2>6. Sent' = <<e>>
        BY <2>2 DEF Sent
    <2> QED BY <1>2, <2>2, <2>4, <2>5, <2>6, OwnSend
<1>4. CASE ~(a[2].mask = WholeMask /\ Allowed(a[1], a[2]))
    <2>1. ~Answered' /\ phase' = "idle" /\ UNCHANGED <<transactionId, requests, calls>>
        BY <1>1, <1>2, <1>4 DEF Raise, Answered
    <2> QED BY <1>2, <2>1, GiveUp
<1> QED BY <1>3, <1>4

\* A timeout makes the packet an earlier one, and keeps the queue if it was a block or
\* FIFO call; clearing the queue changes no packet.
LEMMA OwnGiveUp ==
    ASSUME TypeOK, NetTypeOK, OwnInv, Timeout \/ queueClear
    PROVE  OwnInv'
<1>1. /\ phase' = "idle" /\ UNCHANGED <<transactionId, requests, calls, replies>>
      /\ queue' = <<>> \/ (phase # "waiting" /\ UNCHANGED <<queue, stale>>)
      /\ ~Answered' \/ (phase = "idle" /\ result' = result)
    <2>1. CASE Timeout
        BY <2>1 DEF Timeout, Raise, Answered
    <2>2. CASE queueClear
        BY <2>2 DEF queueClear
    <2> QED BY <2>1, <2>2
<1> QED BY <1>1, GiveUp

\* There is no packet at the start.
LEMMA OwnInit == Init => OwnInv
BY DEF Init, OwnInv, InOrder, SomeElement, IdsLow, Low, IdsApart, AnswerIsOwn, Answered

\* Without copies, reordering, laps of the ids, empty queues and stale ones, every step
\* keeps the packets apart.
LEMMA OwnStep ==
    ASSUME Faults = {}, TypeOK, NetTypeOK, OwnInv, [Next]_vars
    PROVE  OwnInv'
<1>1. CASE UNCHANGED vars
    BY <1>1 DEF vars, client, OwnInv, InOrder, SomeElement, IdsLow, IdsApart, AnswerIsOwn,
                Answered
<1>2. CASE Target
    BY <1>2, OwnExecute DEF Target
<1>3. ~Duplicate
    BY DEF Duplicate
<1> QED BY <1>1, <1>2, <1>3, OwnQueue, OwnRun, OwnReadOrWrite, OwnBlockOrFifo, OwnReceive,
           OwnGiveUp, OwnLose DEF Next

\* A step that ends a call with an answer leaves the network empty.
LEMMA DrainStep ==
    ASSUME Faults = {}, TypeOK, NetTypeOK, OwnInv, [Next]_vars,
           phase # "idle", phase' = "idle", Answered'
    PROVE  requests' = <<>> /\ replies' = <<>>
<1>1. CASE Receive \/ BlockReceive
    BY <1>1, OwnReceive
<1>2. CASE Timeout
    BY <1>2 DEF Timeout, Raise, Answered
<1>3. CASE Queue \/ queueClear \/ queueRun \/ ReadOrWrite \/ BlockOrFifo
    BY <1>3 DEF Queue, queueClear, queueRun, ReadOrWrite, BlockOrFifo
<1>4. CASE Target \/ Lose \/ Duplicate \/ UNCHANGED vars
    BY <1>4 DEF Target, Execute, Lose, Duplicate, vars, client
<1> QED BY <1>1, <1>2, <1>3, <1>4 DEF Next

\* A call, be it of queued elements, of one register or of a block or FIFO, returns the
\* answer to itself and not a late answer to an earlier call, over a network that loses
\* and delays packets, for any number of calls, queued elements and transaction ids,
\* although each success sets the id back to 1 (ChipsBus.py:428).  Left out, as in the
\* run: ids that go all the way round while an old packet or a queued element is about,
\* and running a stale queue, one with elements queued before a block or FIFO call that
\* succeeded or left by an IndexError.
THEOREM AnswersAreOwn == Faults = {} => (Spec => []ClientInv)
<1> SUFFICES ASSUME Faults = {} PROVE Spec => []ClientInv
    OBVIOUS
<1>1. Init => DataInv /\ OwnInv
    BY DataInit, OwnInit
<1>2. DataInv /\ OwnInv /\ [Next]_vars => DataInv' /\ OwnInv'
    BY DataStep, OwnStep DEF DataInv
<1>3. DataInv /\ OwnInv => ClientInv
    BY DEF DataInv, OwnInv, ClientInv
<1> QED BY <1>1, <1>2, <1>3, PTL DEF Spec

\* When a call succeeds, no packet of any call is left in the network: what makes it
\* safe to draw the same ids again (ChipsBus.py:428).  What it is not safe for is a
\* queue that stands through a block or FIFO call; running one is left out here too.
THEOREM SuccessLeavesNothing == Faults = {} => (Spec => SuccessDrains)
<1> SUFFICES ASSUME Faults = {} PROVE Spec => SuccessDrains
    OBVIOUS
<1>1. Init => DataInv /\ OwnInv
    BY DataInit, OwnInit
<1>2. DataInv /\ OwnInv /\ [Next]_vars => DataInv' /\ OwnInv'
    BY DataStep, OwnStep DEF DataInv
<1>3. DataInv /\ OwnInv /\ [Next]_vars =>
         [(phase # "idle" /\ phase' = "idle" /\ Answered')
             => (requests' = <<>> /\ replies' = <<>>)]_vars
    BY DrainStep DEF DataInv
<1> QED BY <1>1, <1>2, <1>3, PTL DEF Spec, SuccessDrains

-----------------------------------------------------------------------------
\* The service reads and writes the registers as the client's target does.
LEMMA SameRegisterFile ==
    ASSUME NEW regs, NEW es, NEW k
    PROVE  /\ Service!After(regs, es, k) = After(regs, es, k)
           /\ Service!Bodies(regs, es, k) = Bodies(regs, es, k)
<1>1. \A j : Service!After(regs, es, j) = After(regs, es, j)
    BY DEF Service!After, After, Service!Writes, Writes, Service!Max, Max, Service!Writing, Writing
<1> QED BY <1>1 DEF Service!Bodies, Bodies, Service!Reading, Reading

\* What the service's state is while the client's is.
Pending == IF phase # "idle" THEN calls ELSE 0
Answer  == IF Answered THEN [call |-> result.from, bodies |-> result.bodies] ELSE NoAnswer

\* A packet sent is a call of the service made.
LEMMA SendMakes ==
    ASSUME TypeOK, NetTypeOK, phase = "idle", phase' # "idle",
           NEW es \in Seq(Elements), Send(es),
           UNCHANGED <<mem, performed, result>>
    PROVE  Service!Make
<1>1. /\ calls' = calls + 1
      /\ requests' = Append(requests, [call |-> calls', elements |-> es])
    BY DEF Send
<1>2. Service!Last(requests') = [call |-> calls', elements |-> es]
    BY <1>1 DEF Service!Last, NetTypeOK
<1>3. UNCHANGED Answer
    BY DEF Answer, Answered
<1> QED BY <1>1, <1>2, <1>3 DEF Service!Make, Answer

\* Every step of the client, the network or the target is a step of the service or
\* changes nothing of it.
LEMMA ServiceStep ==
    ASSUME Faults = {}, TypeOK, NetTypeOK, RepliesPerformed, OwnInv, [Next]_vars
    PROVE  [Service!ServiceNext]_(Service!serviceVars)
<1> SUFFICES Service!ServiceNext \/ UNCHANGED Service!serviceVars
    OBVIOUS
<1>1. CASE UNCHANGED vars
    BY <1>1 DEF vars, client, Service!serviceVars, Answered
<1>2. CASE Queue \/ queueClear
    <2>1. UNCHANGED <<phase, requests, mem, calls, performed>>
          /\ (result' = result \/ result' = [kind |-> "exception"])
        BY <1>2 DEF Queue, queueClear, Raise
    <2>2. phase = "idle"
        BY <1>2 DEF Queue, queueClear
    <2>3. CASE result' = result
        BY <2>1, <2>3 DEF Service!serviceVars, Answered
    <2>4. CASE result' = [kind |-> "exception"]
        BY <2>1, <2>2, <2>4 DEF Service!ServiceNext, Service!Fail, Answered
    <2> QED BY <2>1, <2>3, <2>4
<1>3. CASE queueRun
    BY <1>3, SendMakes DEF queueRun, TypeOK, Service!ServiceNext
<1>4. CASE ReadOrWrite \/ BlockOrFifo
    <2>1. PICK a \in Asked \cup BlockAsked :
             \/ /\ Send(<<Element(a[1], a[2], a[3])>>)
                /\ phase' # "idle" /\ result' = result
             \/ Raise /\ UNCHANGED <<phase, calls, requests>>
        BY <1>4 DEF ReadOrWrite, BlockOrFifo
    <2>2. phase = "idle" /\ UNCHANGED <<mem, performed>>
        BY <1>4 DEF ReadOrWrite, BlockOrFifo
    <2>3. <<Element(a[1], a[2], a[3])>> \in Seq(Elements)
        BY ElementType
    <2>4. CASE Send(<<Element(a[1], a[2], a[3])>>) /\ phase' # "idle" /\ result' = result
        BY <2>2, <2>3, <2>4, SendMakes DEF Service!ServiceNext
    <2>5. CASE Raise /\ UNCHANGED <<phase, calls, requests>>
        BY <2>2, <2>5 DEF Raise, Service!ServiceNext, Service!Fail, Answered
    <2> QED BY <2>1, <2>4, <2>5
<1>5. CASE Receive \/ BlockReceive
    <2>1. /\ phase # "idle" /\ phase' = "idle" /\ 1 \in DOMAIN replies
          /\ UNCHANGED <<requests, mem, calls, performed>>
          /\ \/ ~Answered'
             \/ /\ Matches(Sent, replies[1].elements) /\ Answered'
                /\ result'.from = replies[1].call /\ result'.bodies = BodiesOf(replies[1])
        <3>1. CASE Receive
            <4>1. phase = "waiting" /\ Sent = queue
                BY <3>1 DEF Receive, Sent
            <4>2. PICK n \in DOMAIN replies :
                     /\ n = 1 /\ phase' = "idle"
                     /\ \/ result'.kind \in {"exception", "IndexError"}
                        \/ /\ Matches(queue, replies[n].elements) /\ result'.kind = "ok"
                           /\ result'.from = replies[n].call
                           /\ result'.bodies = BodiesOf(replies[n])
                BY <3>1 DEF Receive, Take, Raise, Received, BodiesOf
            <4>3. UNCHANGED <<requests, mem, calls, performed>>
                BY <3>1 DEF Receive
            <4> QED BY <4>1, <4>2, <4>3 DEF Answered
        <3>2. CASE BlockReceive
            <4>1. phase = "block" /\ Sent = single
                BY <3>2 DEF BlockReceive, Sent
            <4>2. PICK n \in DOMAIN replies :
                     /\ n = 1 /\ phase' = "idle"
                     /\ \/ result'.kind = "exception"
                        \/ /\ Matches(single, replies[n].elements) /\ result'.kind = "block"
                           /\ result'.from = replies[n].call
                           /\ result'.bodies = BodiesOf(replies[n])
                BY <3>2 DEF BlockReceive, Take, Raise, Received, BodiesOf
            <4>3. UNCHANGED <<requests, mem, calls, performed>>
                BY <3>2 DEF BlockReceive
            <4> QED BY <4>1, <4>2, <4>3 DEF Answered
        <3> QED BY <1>5, <3>1, <3>2
    <2>2. CASE ~Answered'
        BY <2>1, <2>2 DEF Service!ServiceNext, Service!Fail, Answered
    <2>3. CASE Answered'
        <3> DEFINE p == [call |-> replies[1].call, bodies |-> BodiesOf(replies[1])]
        <3>1. Matches(Sent, replies[1].elements) /\ p.call = replies[1].call
            BY <2>1, <2>3
        <3>2. AllOk(replies[1].elements)
            BY <3>1 DEF Matches, AllOk
        <3>3. p \in performed
            BY <2>1, <3>2 DEF RepliesPerformed
        <3>4. p.call = calls
            BY <2>1, <3>1, MatchIsOwn
        <3>5. Answered' /\ [call |-> result'.from, bodies |-> result'.bodies] = p
            BY <2>1, <2>3
        <3> HIDE DEF p
        <3>6. Service!Return
            BY <2>1, <3>3, <3>4, <3>5 DEF Service!Return, Answered
        <3> QED BY <3>6 DEF Service!ServiceNext
    <2> QED BY <2>2, <2>3
<1>6. CASE Timeout
    BY <1>6 DEF Timeout, Raise, Service!ServiceNext, Service!Fail, Answered
<1>7. ASSUME NEW k, Execute(k) PROVE Service!Perform
    <2> DEFINE c == Head(requests)
    <2>1. k \in 0 .. Len(c.elements)
        BY <1>7, ExecuteType
    <2>2. /\ requests # <<>> /\ requests' = Tail(requests)
          /\ mem' = After(mem, c.elements, k)
          /\ performed' = IF k < Len(c.elements) THEN performed
                          ELSE performed \cup
                               {[call |-> c.call, bodies |-> Bodies(mem, c.elements, k)]}
          /\ UNCHANGED <<phase, calls, result>>
        BY <1>7 DEF Execute, client
    <2>3. UNCHANGED <<Pending, Answer>>
        BY <2>2 DEF Pending, Answer, Answered
    <2> HIDE DEF c
    <2>4. /\ mem' = Service!After(mem, c.elements, k)
          /\ performed' = IF k < Len(c.elements) THEN performed
                          ELSE performed \cup
                               {[call |-> c.call,
                                 bodies |-> Service!Bodies(mem, c.elements, k)]}
        BY <2>2, SameRegisterFile
    <2> QED BY <2>1, <2>2, <2>3, <2>4 DEF Service!Perform, c, Pending, Answer
<1>8. CASE Lose
    <2>1. UNCHANGED <<mem, calls, phase, performed, result>>
        BY <1>8 DEF Lose, client
    <2>2. CASE UNCHANGED requests
        BY <2>1, <2>2 DEF Service!serviceVars, Answered
    <2>3. CASE \E n \in DOMAIN requests : requests' = RemoveAt(requests, n)
        BY <2>1, <2>3 DEF Service!ServiceNext, Service!Drop, Service!RemoveAt, RemoveAt,
                          Answered
    <2> QED BY <1>8, <2>2, <2>3 DEF Lose
<1>9. ~Duplicate
    BY DEF Duplicate
<1> QED BY <1>1, <1>2, <1>3, <1>4, <1>5, <1>6, <1>7, <1>8, <1>9
        DEF Next, Target, Service!ServiceNext

\* The client, the network and the target together are the service of RegisterService:
\* calls are performed in the order they were made, each at most once, an answer is
\* what that very call did in full, and a call that failed may still be performed, but
\* before every later one.  Laps of the ids and running a stale queue are left out, as
\* in AnswersAreOwn.
THEOREM ClientImplementsService == Faults = {} => (Spec => ImplementsService)
<1> SUFFICES ASSUME Faults = {} PROVE Spec => ImplementsService
    OBVIOUS
<1>1. Init => DataInv /\ OwnInv
    BY DataInit, OwnInit
<1>2. DataInv /\ OwnInv /\ [Next]_vars => DataInv' /\ OwnInv'
    BY DataStep, OwnStep DEF DataInv
<1>3. Init => Service!ServiceInit
    BY DEF Init, Service!ServiceInit, Answered
<1>4. DataInv /\ OwnInv /\ [Next]_vars => [Service!ServiceNext]_(Service!serviceVars)
    BY ServiceStep DEF DataInv
<1> QED BY <1>1, <1>2, <1>3, <1>4, PTL DEF Spec, ImplementsService, Service!ServiceSpec

=============================================================================
