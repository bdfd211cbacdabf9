---------------------------- MODULE BlockTransfer ----------------------------
(***************************************************************************)
(* Block and FIFO reads and writes of ChipsBus.py.  A transfer that is     *)
(* longer than MAX_BLOCK_TRANSFER_DEPTH words is made of several packets,  *)
(* one after the other; the first of them that fails ends the call.        *)
(***************************************************************************)
EXTENDS PacketExchange

CONSTANTS
    MAX_BLOCK_TRANSFER_DEPTH,   \* 255 in the code
    WordRange,  \* 2**8 in the code: the word count of a header is eight bits
    Items,      \* the address table: [addr, masked, read, write]
    Depths,     \* bound: the lengths of the reads asked for
    DataLists,  \* bound: what the writes asked for write
    MaxCalls    \* bound: calls that send a packet

ASSUME BlockAssumption ==
    /\ MAX_BLOCK_TRANSFER_DEPTH \in Nat \ {0}
    /\ WordRange \in Nat /\ MAX_BLOCK_TRANSFER_DEPTH < WordRange
    /\ Depths \subseteq Nat /\ DataLists \subseteq Seq(Nat) /\ MaxCalls \in Nat
    /\ \A i \in Items : i.addr \in Nat

VARIABLES
    call,       \* the arguments of the call being made, and its number:
                \* [n, op, fifo, addr, depth, data]
    remaining,  \* remainingTransactions
    got,        \* result: the words read so far
    result      \* what the last call gave: [kind, words]

blockVars == <<call, remaining, got, result>>

Ops == {"read", "write"}

\* Calls that end before a packet is sent, and how.  A write looks at the mask
\* before it looks at the length, a read the other way round.
Refusal(op, item, depth) ==
    IF op = "read"
    THEN IF depth = 0 THEN "ignored"
         ELSE IF item.masked \/ ~item.read THEN "raised" ELSE "none"
    ELSE IF item.masked THEN "raised"
         ELSE IF depth = 0 THEN "ignored"
         ELSE IF ~item.write THEN "raised" ELSE "none"

\* blockRead, fifoRead, blockWrite and fifoWrite; data is dataList, or as many
\* words as are to be read.
Begin(op, fifo, item, data) ==
    /\ phase = "idle"
    /\ IF Refusal(op, item, Len(data)) = "none"
       THEN /\ calls < MaxCalls /\ calls' = calls + 1
            /\ phase' = "looping"
            /\ call' = [n |-> calls', op |-> op, fifo |-> fifo,
                        addr |-> item.addr, depth |-> Len(data), data |-> data]
            /\ remaining' = Len(data) /\ got' = <<>>
            /\ result' = [kind |-> "none", words |-> <<>>]
       ELSE /\ result' = [kind |-> Refusal(op, item, Len(data)), words |-> <<>>]
            /\ UNCHANGED <<phase, calls, call, remaining, got>>
    /\ UNCHANGED <<backlog, answer, log>>

\* How many words the next packet takes.  Mutated form: a last packet that is
\* just too long goes out whole.
WordsOneMore == IF remaining > MAX_BLOCK_TRANSFER_DEPTH + 1
                THEN MAX_BLOCK_TRANSFER_DEPTH ELSE remaining
Words == IF remaining > MAX_BLOCK_TRANSFER_DEPTH
         THEN MAX_BLOCK_TRANSFER_DEPTH ELSE remaining

\* The number of words before it.
First == call.depth - remaining

\* Where it begins.  offsetMultiplier is 0 for a FIFO.  Mutated form: it
\* never is.
OffsetAlways == First
Offset == IF call.fifo THEN 0 ELSE First

\* One turn of the loop of _oversizeBlockOrFifoRead or ...Write, or the only
\* packet of a shorter transfer.
SendPart ==
    /\ phase = "looping" /\ phase' = "waiting"
    /\ backlog' = Append(backlog, [call |-> call.n, first |-> First, op |-> call.op,
                                   fifo |-> call.fifo, addr |-> call.addr + Offset,
                                   words |-> Words % WordRange,
                                   data |-> SubSeq(call.data, First + 1, First + Words)])
    /\ UNCHANGED <<calls, answer, log, blockVars>>

\* The answer comes: result.extend, and on with the loop.
PartDone ==
    /\ phase = "waiting" /\ Answered(call.n, First)
    /\ remaining' = remaining - Words
    /\ got' = IF call.op = "read" THEN got \o [j \in 1 .. answer.words |-> answer.at + j] ELSE got
    /\ IF remaining' = 0
       THEN phase' = "idle" /\ result' = [kind |-> "ok", words |-> got']
       ELSE phase' = "looping" /\ UNCHANGED result
    /\ UNCHANGED <<calls, backlog, answer, log, call>>

\* No answer, or one with an error: the exception leaves the loop, and the words
\* read so far go with it.  Mutated form: the part is sent once more.
PartRetried ==
    /\ phase = "waiting" /\ phase' = "looping"
    /\ UNCHANGED <<calls, backlog, answer, log, blockVars>>

PartFails ==
    /\ phase = "waiting" /\ phase' = "idle"
    /\ result' = [kind |-> "raised", words |-> <<>>]
    /\ remaining' = 0 /\ got' = <<>>
    /\ UNCHANGED <<calls, backlog, answer, log, call>>

BlockCall == \/ \E fifo \in BOOLEAN, item \in Items, depth \in Depths :
                   Begin("read", fifo, item, [j \in 1 .. depth |-> 0])
             \/ \E fifo \in BOOLEAN, item \in Items, dataList \in DataLists :
                   Begin("write", fifo, item, dataList)
             \/ SendPart \/ PartDone \/ PartFails

\* What goes on whatever the client does.
Outside == \/ \E k \in 0 .. MAX_BLOCK_TRANSFER_DEPTH : Perform(k)
           \/ LoseRequest

BlockInit ==
    /\ ExchangeInit
    /\ call = [n |-> 0, op |-> "read", fifo |-> FALSE, addr |-> 0, depth |-> 0, data |-> <<>>]
    /\ remaining = 0 /\ got = <<>>
    /\ result = [kind |-> "none", words |-> <<>>]

BlockNext == BlockCall \/ (Outside /\ UNCHANGED blockVars)

BlockSpec == BlockInit /\ [][BlockNext]_<<exchangeVars, blockVars>>

-----------------------------------------------------------------------------
\* Whatever fails and however late a packet is performed, the words of a call
\* are moved in order, each at most once and with nothing between them, so that
\* what was moved of a call that failed is the beginning of it; and no word of
\* a call is moved after a word of a later one.
InOneRun ==
    \A i \in DOMAIN log :
        IF log[i].index = 1 THEN i = 1 \/ log[i - 1].call < log[i].call
        ELSE /\ i > 1
             /\ log[i].call = log[i - 1].call
             /\ log[i].index = log[i - 1].index + 1

\* A call that returns has moved all its words, each at its own address and with
\* its own data, and returns those it read and no others.
WholeWhenReturned ==
    (result.kind = "ok" /\ phase = "idle") =>
        \E s \in 0 .. Len(log) - call.depth :
            /\ \A j \in 1 .. call.depth :
                  /\ log[s + j].call = call.n /\ log[s + j].index = j
                  /\ log[s + j].addr = call.addr + (IF call.fifo THEN 0 ELSE j - 1)
                  /\ log[s + j].data = call.data[j]
            /\ call.op = "read" => result.words = [j \in 1 .. call.depth |-> s + j]

=============================================================================
