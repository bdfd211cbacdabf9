------------------------------ MODULE ChipsBus ------------------------------
(***************************************************************************)
(* The Python client (ChipsBus.py, Transaction.py) over UDP, with the      *)
(* target it talks to.  The client is one thread that blocks in recv for   *)
(* at most a second; what interleaves with it is the network and the       *)
(* target, which go on with a request the client has given up.             *)
(*                                                                         *)
(* The target performs the elements of a request in order and answers each;*)
(* it stops at the first that fails (transactor_sm.vhd) and otherwise does *)
(* what DummyHardware.py does.                                             *)
(*                                                                         *)
(* Single register calls, queued or not, and block and FIFO calls draw     *)
(* their ids from one counter.  Of the latter a packet moves one word here;*)
(* BlockTransfer has the rest of them.                                     *)
(***************************************************************************)
EXTENDS RegisterFile

CONSTANTS
    Registers,              \* the addresses
    Items,                  \* the address table: [addr, mask, read, write]
    Data,                   \* the values written, sets of bits
    WholeMask,              \* 0xffffffff, the mask of an item that is not masked
    MAX_TRANSACTION_ID,     \* 4095 in the code
    MAX_QUEUED_REQUESTS,    \* 80 in the code
    Faults,                 \* what may happen besides the loss of a packet
    NoAnswer,
    MaxCalls                \* bound: packets sent in a behaviour

ASSUME ChipsBusAssumption ==
    /\ MAX_TRANSACTION_ID \in Nat \ {0}
    /\ MAX_QUEUED_REQUESTS \in Nat \ {0}
    /\ MaxCalls \in Nat
    /\ Data \subseteq SUBSET Nat
    /\ \A item \in Items : item.addr \in Registers
    /\ Faults \subseteq {"duplicate", "reorder", "lap", "empty", "stale"}

VARIABLES
    \* the client
    phase,          \* "idle", or in recv: "waiting", or "block" for a block or FIFO call
    transactionId,  \* _transactionId
    queue,          \* _queuedRequests, with _queuedAddrTableItems, _queuedIsARead
    single,         \* requestsList of the block or FIFO call being made
    \* the network: requests on their way, replies on their way or in the socket
    requests, replies,
    \* the target
    mem,
    \* history
    calls,          \* packets sent
    performed,      \* requests performed in full: [call, bodies]
    result,         \* how the last call ended
    stale           \* the queue holds elements whose ids a success has set free

client == <<phase, transactionId, queue, single>>
vars   == <<client, requests, replies, mem, calls, performed, result, stale>>

Elements == [op : Reading \cup Writing, item : Items, data : Data \cup {{}},
             id : 1 .. MAX_TRANSACTION_ID]

-----------------------------------------------------------------------------
\* A "lap" uses up every transaction id while an old packet is still under way, or
\* an element is still queued.  With 4095 of them the runs leave it out unless they
\* ask for it.
MayDraw(queued) == \/ "lap" \in Faults
                   \/ transactionId < MAX_TRANSACTION_ID
                   \/ requests \o replies \o queued = <<>>

\* _getTransactionId.
NextId(id) == IF id < MAX_TRANSACTION_ID THEN id + 1 ELSE 1

Element(op, item, data) ==
    [op |-> op, item |-> item, data |-> data, id |-> transactionId]

\* The elements a caller can ask for; the others raise a ChipsException.
Allowed(op, item) == IF op \in Reading THEN item.read ELSE item.write

Asked == {"read"} \X Items \X {{}} \cup {"write"} \X Items \X Data

Raise == result' = [kind |-> "exception"]

\* queueRead and queueWrite.  A full queue is only worth a warning.
Queue ==
    /\ phase = "idle" /\ Len(queue) < MAX_QUEUED_REQUESTS
    /\ \E a \in Asked :
          IF Allowed(a[1], a[2])
          THEN /\ MayDraw(queue)
               /\ queue' = Append(queue, Element(a[1], a[2], a[3]))
               /\ transactionId' = NextId(transactionId)
               /\ UNCHANGED result
          ELSE Raise /\ UNCHANGED <<queue, transactionId>>
    /\ UNCHANGED <<phase, single, requests, replies, mem, calls, performed, stale>>

queueClear ==
    /\ phase = "idle" /\ queue' = <<>> /\ stale' = FALSE
    /\ UNCHANGED <<phase, transactionId, single, requests, replies, mem, calls, performed, result>>

\* _makeAndRunTransaction, as far as the recv.
Send(elements) ==
    /\ calls < MaxCalls /\ calls' = calls + 1
    /\ requests' = Append(requests, [call |-> calls', elements |-> elements])

\* An empty queue makes a packet of no elements, so without an id to compare.  A
\* stale one was queued before a block or FIFO call that succeeded, or left by an
\* IndexError, and holds ids that are drawn again.  The runs leave both out unless
\* they ask for them.
queueRun ==
    /\ phase = "idle" /\ phase' = "waiting"
    /\ queue # <<>> \/ "empty" \in Faults
    /\ ~stale \/ "stale" \in Faults
    /\ Send(queue)
    /\ UNCHANGED <<queue, single, transactionId, replies, mem, performed, result, stale>>

\* read and write: whatever was queued is cleared, one element is queued and run.
ReadOrWrite ==
    /\ phase = "idle" /\ stale' = FALSE
    /\ \E a \in Asked :
          IF Allowed(a[1], a[2])
          THEN /\ MayDraw(<<>>) /\ phase' = "waiting"
               /\ queue' = <<Element(a[1], a[2], a[3])>>
               /\ transactionId' = NextId(transactionId)
               /\ Send(queue')
               /\ UNCHANGED result
          ELSE /\ queue' = <<>> /\ Raise
               /\ UNCHANGED <<phase, transactionId, calls, requests>>
    /\ UNCHANGED <<single, replies, mem, performed>>

BlockAsked == {"read", "fiforead"} \X Items \X {{}} \cup {"write", "fifowrite"} \X Items \X Data

\* blockRead, fifoRead, blockWrite and fifoWrite: one element, which takes the next
\* id and passes the queue by.  A masked register is refused.
BlockOrFifo ==
    /\ phase = "idle"
    /\ \E a \in BlockAsked :
          IF a[2].mask = WholeMask /\ Allowed(a[1], a[2])
          THEN /\ MayDraw(queue) /\ phase' = "block"
               /\ single' = <<Element(a[1], a[2], a[3])>>
               /\ transactionId' = NextId(transactionId)
               /\ Send(single')
               /\ UNCHANGED result
          ELSE Raise /\ UNCHANGED <<phase, single, transactionId, calls, requests>>
    /\ UNCHANGED <<queue, replies, mem, performed, stale>>

-----------------------------------------------------------------------------
\* doTransactionChecks: as many responses as requests, of the same types and
\* ids, none with an error.  Mutated form: the ids are not compared.
MatchesAnyId(es, rs) ==
    /\ Len(rs) = Len(es)
    /\ \A i \in DOMAIN rs : rs[i].op = es[i].op /\ rs[i].ok

Matches(es, rs) ==
    /\ Len(rs) = Len(es)
    /\ \A i \in DOMAIN rs : rs[i].op = es[i].op /\ rs[i].id = es[i].id /\ rs[i].ok

\* The loop of queueRun over the responses.  The first one decides whether any
\* has a body; body[0] of one without raises an IndexError.
Value(i, bodies) ==
    IF bodies[1] = <<>> THEN {} ELSE shiftDataFromMask(queue[i].item, bodies[i][1])

Crashes(bodies) ==
    \E i \in DOMAIN bodies : bodies[1] # <<>> /\ bodies[i] = <<>>

\* The elements of one kind, and the j-th of a set of them.
Picked(op) == {i \in DOMAIN queue : queue[i].op = op}

Nth(S, j) == CHOOSE i \in S : Cardinality({m \in S : m <= i}) = j

\* Mutated form: every element takes the first response.
ValuesOfFirst(op, bodies) ==
    [j \in 1 .. Cardinality(Picked(op)) |->
        IF bodies[1] = <<>> THEN {}
        ELSE shiftDataFromMask(queue[Nth(Picked(op), j)].item, bodies[1][1])]

Values(op, bodies) ==
    [j \in 1 .. Cardinality(Picked(op)) |-> Value(Nth(Picked(op), j), bodies)]

\* The id starts again from 1 after each success.  Mutated form: after each call.
IdAfterReset(matched) == 1
IdAfter(matched) == IF matched THEN 1 ELSE transactionId

\* recv returns datagram number n.
Take(n) ==
    /\ n = 1 \/ "reorder" \in Faults
    /\ phase' = "idle" /\ replies' = RemoveAt(replies, n)

Received(n) == [i \in DOMAIN replies[n].elements |-> replies[n].elements[i].body]

\* The rest of queueRun.  An IndexError is not a ChipsException: nothing clears the
\* queue.
Receive ==
    \E n \in DOMAIN replies :
        LET ok == Matches(queue, replies[n].elements)
        IN  /\ phase = "waiting" /\ Take(n)
            /\ transactionId' = IdAfter(ok)
            /\ \/ /\ ~ok /\ Raise /\ queue' = <<>> /\ stale' = FALSE
               \/ /\ ok /\ Crashes(Received(n))
                  /\ result' = [kind |-> "IndexError"] /\ stale' = TRUE
                  /\ UNCHANGED queue
               \/ /\ ok /\ ~Crashes(Received(n))
                  /\ result' = [kind |-> "ok", from |-> replies[n].call, bodies |-> Received(n),
                                elements |-> queue, reads |-> Values("read", Received(n)),
                                writes |-> Values("write", Received(n))]
                  /\ queue' = <<>> /\ stale' = FALSE
    /\ UNCHANGED <<single, requests, mem, calls, performed>>

\* The rest of a block or FIFO call.
BlockReceive ==
    \E n \in DOMAIN replies :
        LET ok == Matches(single, replies[n].elements)
        IN  /\ phase = "block" /\ Take(n)
            /\ transactionId' = IdAfter(ok) /\ single' = <<>>
            /\ IF ok
               THEN /\ result' = [kind |-> "block", from |-> replies[n].call,
                                  bodies |-> Received(n)]
                    /\ stale' = (queue # <<>>)
               ELSE Raise /\ UNCHANGED stale
    /\ UNCHANGED <<queue, requests, mem, calls, performed>>

\* The elements of the packet the call waits for.
Sent == IF phase = "block" THEN single ELSE queue

\* settimeout(1).  A reply that is still on its way may be later than that.
\* Mutated form: the request is sent once more, as a retry would.
TimeoutThenRetry ==
    /\ phase # "idle"
    /\ requests' = Append(requests, [call |-> calls, elements |-> Sent])
    /\ Len(requests) < 2
    /\ UNCHANGED <<client, replies, mem, calls, performed, result, stale>>

Timeout ==
    /\ phase # "idle" /\ phase' = "idle" /\ single' = <<>> /\ Raise
    /\ IF phase = "waiting" THEN queue' = <<>> /\ stale' = FALSE ELSE UNCHANGED <<queue, stale>>
    /\ UNCHANGED <<transactionId, requests, replies, mem, calls, performed>>

-----------------------------------------------------------------------------
\* The answers to the first k elements of es; the next one, if there is one, fails
\* and ends the reply.
Answers(regs, es, k) ==
    [i \in 1 .. (IF k < Len(es) THEN k + 1 ELSE k) |->
        [op |-> es[i].op, id |-> es[i].id, ok |-> i <= k,
         body |-> IF i <= k THEN Bodies(regs, es, k)[i] ELSE <<>>]]

\* The target takes a request and performs k of its elements.
Execute(k) ==
    /\ requests # <<>> /\ requests' = Tail(requests)
    /\ LET r == Head(requests)
       IN  /\ k \in 0 .. Len(r.elements)
           /\ mem' = After(mem, r.elements, k)
           /\ replies' = Append(replies, [call |-> r.call,
                                         elements |-> Answers(mem, r.elements, k)])
           /\ performed' = IF k < Len(r.elements) THEN performed
                           ELSE performed \cup {[call |-> r.call,
                                                 bodies |-> Bodies(mem, r.elements, k)]}
    /\ UNCHANGED <<client, calls, result, stale>>

Lose ==
    /\ \/ /\ \E n \in DOMAIN requests : requests' = RemoveAt(requests, n)
          /\ UNCHANGED replies
       \/ /\ \E n \in DOMAIN replies : replies' = RemoveAt(replies, n)
          /\ UNCHANGED requests
    /\ UNCHANGED <<client, mem, calls, performed, result, stale>>

\* Copies are bounded with the packets sent.
Duplicate ==
    /\ "duplicate" \in Faults /\ Len(requests) + Len(replies) < MaxCalls
    /\ \/ /\ \E n \in DOMAIN requests : requests' = InsertAt(requests, n, requests[n])
          /\ UNCHANGED replies
       \/ /\ \E n \in DOMAIN replies : replies' = InsertAt(replies, n, replies[n])
          /\ UNCHANGED requests
    /\ UNCHANGED <<client, mem, calls, performed, result, stale>>

Init ==
    /\ phase = "idle" /\ transactionId = 1 /\ queue = <<>> /\ single = <<>>
    /\ requests = <<>> /\ replies = <<>>
    /\ mem = [a \in Registers |-> {}]
    /\ calls = 0 /\ performed = {} /\ result = [kind |-> "none"]
    /\ stale = FALSE

Target == \E k \in 0 .. MAX_QUEUED_REQUESTS : Execute(k)

Next ==
    \/ Queue \/ queueClear \/ queueRun \/ ReadOrWrite \/ BlockOrFifo
    \/ Receive \/ BlockReceive \/ Timeout
    \/ Target \/ Lose \/ Duplicate

Spec == Init /\ [][Next]_vars

\* The second given to settimeout passes.  Nothing is asked of the network or
\* of the target.
FairSpec == Spec /\ WF_vars(Timeout)

-----------------------------------------------------------------------------
TypeOK ==
    /\ phase \in {"idle", "waiting", "block"} /\ transactionId \in 1 .. MAX_TRANSACTION_ID
    /\ queue \in Seq(Elements) /\ Len(queue) <= MAX_QUEUED_REQUESTS
    /\ single \in Seq(Elements) /\ Len(single) = IF phase = "block" THEN 1 ELSE 0
    /\ mem \in [Registers -> SUBSET Nat] /\ calls \in 0 .. MaxCalls
    /\ stale \in BOOLEAN

Answered == result.kind \in {"ok", "block"}

\* A call returns the answer to the request it sent and not a late answer to an
\* earlier one, although the id is set back to 1 whenever a call succeeds: so long as
\* no queue is run across such a success (queueRun).
AnswerIsOwn == (phase = "idle" /\ Answered) => result.from = calls

\* Both: the client's state in its ranges, and its answers its own.
ClientInv == TypeOK /\ AnswerIsOwn

\* Why that is so: when a call succeeds there is nothing of any earlier call left
\* in the network for the ids to be mistaken for.
SuccessDrains ==
    [][(phase # "idle" /\ phase' = "idle" /\ Answered')
            => (requests' = <<>> /\ replies' = <<>>)]_vars

\* The shift of a value must use the item of its own element, and the value that
\* of its own response: a queue of reads alone, or of writes alone, returns what
\* one whole performance of one call's packet read, the i-th word cut by the i-th item
\* of the queue that was run.  (Under every fault that call may be another one.)
UniformQueueReturnsReads ==
    (result.kind = "ok" /\ \A i, j \in DOMAIN result.elements :
                               result.elements[i].op = result.elements[j].op) =>
        \E p \in performed :
            /\ p.call = result.from
            /\ result.reads =
                 (IF p.bodies = <<>> \/ p.bodies[1] = <<>> THEN <<>>
                  ELSE [i \in DOMAIN p.bodies |->
                           shiftDataFromMask(result.elements[i].item, p.bodies[i][1])])

\* A call never hangs, whatever becomes of its packets.
EveryCallReturns == phase # "idle" ~> phase = "idle"

\* The client, the network and the target together are the abstract service.
Service == INSTANCE RegisterService WITH
    regs    <- mem,
    backlog <- requests,
    made    <- calls,
    pending <- IF phase # "idle" THEN calls ELSE 0,
    answer  <- IF Answered THEN [call |-> result.from, bodies |-> result.bodies]
               ELSE NoAnswer

ImplementsService == Service!ServiceSpec

=============================================================================
