# Formal models of the CTU firmware and its control software

The Central Trigger Unit (CTU) is an FPGA design (`src/HDLs`, VHDL and Verilog)
controlled over Gigabit Ethernet. A Python client (`src/scripts`) reads and
writes its registers with the IPbus protocol: a UDP packet carries a list of
bus transactions, the firmware performs them and sends a packet of answers.

The project concentrates on that path, from the Python call to the register and
back, because nearly everything else in the design is reached through it, and
because it is where the state machines, pipelines, buffers, retries and two
clock domains meet. `PROJECT.json` lists components, runs, mutants, hazards and
theorems, and maps every definition to the lines it models.

## 1. Inventory

### 1.1 The parts

| Part | Source | State it keeps | Operations |
|---|---|---|---|
| Python client | `ChipsBus.py`, `Transaction*.py`, `IPbusHeader.py`, `AddressTableItem.py` | queue of requests, transaction id, UDP socket | read, write, queueRead/Write/Run/Clear, block and FIFO calls, read-modify-write |
| Command line | `ctu_control.py`, `ctu_console.py`, `ipbus.py` | none but the client's | commands of one or two gets and sets: configure, trigger, read the trigger FIFO |
| Stand-in target | `DummyHardware.py` | registers, queue of 1024 packets, connection, `stopServing`; two threads | receive, queue, perform and answer a packet; stop |
| Packet parser | `udp_packet_parser.vhd` | one `pkt_drop_*` flag per packet kind, refreshed as the bytes pass | decide what a frame is; compare its id with the expected one |
| Frame builders | `udp_build_payload/arp/ping/status/resend.vhd`, `udp_byte_sum.vhd` | addresses, checksums of the frame on the wire | write the frame to a RAM, announce it at its end |
| Receive reset | `udp_do_rx_reset.vhd` | a counter of quiet clocks | reset the per-frame state |
| Receive interface | `udp_rxtransactor_if_simple.vhd` | `ram_ok` | admit or drop a request |
| Buffer selector (3 instances) | `udp_buffer_selector.vhd` | `free`, `clean`, `send_pending`, two pointers, `busy`, `sending` | hand a buffer to the writer, start the reader, take buffers back, resend |
| Internal RAM | `udp_rxram_mux.vhd`, `udp_rxram_shim.vhd` | `ram_ready`, a length per buffer | replies that need no transactor |
| Status buffer | `udp_status_buffer.vhd` | next packet id, history of events | count packets, collect events of both clocks |
| Clock crossing | `udp_clock_crossing_if.vhd` | toggle flip-flops, hold-back registers | carry pulses, levels and buffer numbers between `mac_clk` and `ipb_clk` |
| Transactor | `transactor.vhd`, `transactor_if.vhd`, `transactor_sm.vhd`, `transactor_cfg.vhd` | two state machines, word counters, timer, fall-through registers | decode a request, run bus cycles, write the reply |
| Arbiter | `trans_arb.vhd` | source served | share the transactor (one source here) |
| Bus fabric and slaves | `ipbus_fabric.vhd`, `ipbus_addr_decode.vhd`, `slaves.vhd`, `ipbus_c*.vhd`, `ipbus_pkt_ctr.vhd` | registers, counters | acknowledge a strobe |
| Reply interface | `udp_txtransactor_if_simple.vhd` | id of the reply in each buffer | find the buffer of a reply asked for again |
| Transmit multiplexer | `udp_tx_mux.vhd` | an eight-state machine, two busy flags | share the MAC between the two RAMs |
| Address acquisition | `udp_rarp_block.vhd`, `udp_ipaddr_block.vhd` | RARP timer, address | ask for an address until there is one |
| Timing decoder | `fmc_timer.v`, `wr_interface.vhd` | 8 ns and UTC counters, shift register | count time, check it against the serial message |
| Link aligner | `RMU_links/rx_alignment.vhd` | state, comma counters | find and lose alignment |
| Monitors | `monitors.vhd` | three values, sequence state | read three ADC channels per request |
| Vertex fitting logic | `VFL/*.vhd` | delay lines, adder tree | sum unmasked channels |
| Top level | `CTU_v0_top.vhd`, `CTU_pack.vhd` | - | wiring; its trigger module is not in the repository |

### 1.2 How they interact

```
 Python client --UDP--> MAC --> parser + builders --> receive RAM --(crossing)--> transactor --> fabric --> slaves
                         ^                \--> internal RAM --\                       |
                         |                                     v                      v
                         +------------------------------ transmit mux <-- transmit RAM (crossing)
```

* The MAC side is clocked by `mac_clk` (125 MHz); a frame's bytes are offered to
  every builder at once, and what the frame is becomes known only while it passes.
* Each RAM has a buffer selector. Writer and reader know each other only through
  it: `written` and `sent` pulses go in, `busy`, `req_send` and two pointers come
  out. Pulses are registered on the way, so each arrives one or more clocks late.
* The transactor runs on `ipb_clk`. Pulses cross as toggles, buffer numbers
  through two plain registers.
* The client is one thread that blocks in `recv` for at most one second. The
  network and the target go on meanwhile with a request the client has given up.

### 1.3 What is hard here, and what must hold

* *Pointers that scan a ring by themselves* (buffer selector): no buffer owned by
  writer and reader, order kept, nobody waits for ever.
* *Registered flags, one clock late* (receive interface, multiplexer, shim): no
  frame split over two buffers, none sent twice, no stale length.
* *Prefetch from a RAM that answers late* (transactor_if): no word skipped,
  repeated or left over, whatever the pace of consumption.
* *Two state machines that must agree where a packet ends*, with errors,
  timeouts, empty and malformed requests in between (transactor).
* *Resend requests that race with the writer* (transmit RAM).
* *Loss, delay and reuse of transaction ids* (Python client): an answer must be
  the answer to this call.
* *Two clocks* (crossing): every pulse arrives once, with the buffer number that
  belongs to it, and a level is up before what it protects.
* *Transfers and commands of several packets* (block and FIFO calls, command line):
  what a loss, an error or a late performance leaves of the sequence.
* *Two threads around a bounded queue* (stand-in target): replies go to whoever
  asked, one bad packet stops nothing, a stop is seen.
* *Coinciding events* (status buffer, timing decoder): planned.

`PROJECT.json` lists the hazards at their lines, each with the properties that
watch it, or with the module that is planned for it.

## 2. What is modelled

In the clocked models one action is one rising edge: each operator stands for a
VHDL process and reads the registers as they were before the edge, so the models
have exactly the pipeline delays of the code. Inputs of an entity are parameters
of the action.

### 2.1 Buffer selector: `BufferSelector`, `BufferRing`, `BufferFifo`

`BufferSelector` has one operator per process (`FreeBlock`, `CleanBlock`,
`SendPendingBlock`, `BusyBlock`, `ReqSendBlock`, `WriteBlock`, `SendBlock`); bit
vectors are sets of buffers. `BufferRing` is the selector as the two receive-side
instances use it, with two rules for its surroundings: `written` only while
`busy` is low (shown of the real surroundings by `WrittenOnlyWithBuffer` in
`RxPath`), `sent` only while the reader works. `BufferFifo` is the abstract
specification: a bounded queue of whole packets.

### 2.2 Receive path: `RxPath`, `PacketStream`

The selector with `udp_rxtransactor_if_simple.vhd` and the RAM it guards. Frames
have a few bytes, each byte is the number of its frame; any frame may turn out
not to be for the transactor (`Reject`), and the MAC may flag it at its last byte
(`MacError`). The second is not a rejection in `udp_build_payload.vhd`: `cksum_pending`
is set (line 199) although no checksum will follow, and holds `payload_we` up
(`stuck`) through the `rx_reset` between two frames, where `ram_status` forces `ram_ok`
high. With a full RAM such a frame therefore writes over requests that wait: the byte
at the address where `rx_reset` puts the pointer, 12, of every buffer the walking
writer's pointer passes, and once, while the frame still asks for it, that at address
4. `Kept` is all the other addresses: a frame is `FrameLen` writes, the first of them
at address 12, number `ClosingByte` the checksum at address 4.
`PacketStream` is what the path promises: it may lose packets, but those it takes come
out whole (in their kept bytes), once, in order. `order` is a history variable: the
buffers filled and not yet sent, oldest first.

### 2.3 Transactor: `FallThroughRam`, `Transactor`

`FallThroughRam` is the read side of `transactor_if.vhd` (`raddr`, `dsel`, `rxf`)
against the registered RAM. `Transactor` is both state machines with all their
registers, for every transaction type; slaves acknowledge, fail or stay silent.
Data words are symbolic: a request word is its position, a word read is its
ordinal. `Transactor` takes from `FallThroughRam` that the word shown is always
the next one.
A configuration cycle acknowledges itself already in `ST_ADDR`, so `words_done`, the
length in the header of its reply, is one more than the words that follow: `Words` says
so, modulo the width of the register.

### 2.4 Clock crossing: `ClockCrossing`

`udp_clock_crossing_if.vhd` between what it connects: the selectors of the two
RAMs (instances of `BufferSelector`) in the MAC's clock, the packet machine of
`transactor_if.vhd` and `FallThroughRam` in the bus clock. One operator per process of
the file; the two actions are the rising edges of the two clocks, with `MinMac` to
`MaxMac` edges of the one between two of the other. One bit sampled as it changes
is old or new, which the order of coinciding edges covers; a buffer number sampled as
it changes is any value. `OffersSettled` shows that the step assumed of the
surroundings in `FallThroughRam` (`FtEdge`) is what the crossing does, so that its
theorems apply. `CleanIsWhole` needs three MAC edges between two bus edges: with two
TLC finds a buffer still marked clean as the first word of a new reply is written.
The design has four. Two precautions of the code are not needed for
`OwnBuffers`: it holds as well with `pkt_rdy` raised two bus clocks earlier, and
with `busy` raised by its toggle alone.

### 2.5 Reply path and resend: `TxMux`, `TxPath`

`TxMux` is the multiplexer's state machine with its two busy flags, and the shim.
`TxPath` puts it between two selectors: that of the transmit RAM with
`udp_txtransactor_if_simple.vhd`, and that of the internal RAM (an `INSTANCE` of
`BufferSelector`). A reply in the RAM has two parts, header and rest, so that a
reply written over while it is being sent shows. The transactor and the crossing
are represented by when they write: the transactor begins once the crossing shows
`busy` low (`OwnBuffers` of `ClockCrossing`), `we_125` is up before the first word is
in the RAM (`CleanIsWhole`; comment on the ratio of the clocks at
`udp_clock_crossing_if.vhd:66-71`) and down before `tx_ram_written`. The client is
represented by its window of unanswered requests and by asking again for anything it
has not got. `lengths` and `i_order` are the packets of the internal RAM in the order
they were written, by length and by buffer.

### 2.6 Python client: `RegisterFile`, `RegisterService`, `ChipsBus`

`ChipsBus` is the client thread (queueing, the packet exchange, the checks, the
exceptions, the loop that decodes the responses), a network that loses and delays
packets and, when a run asks for it, copies and reorders them, and a target that
performs elements in order and may fail at any of them. `RegisterService` is the
abstract specification: calls are performed at most once, in order, and an answer
is what this call did.

All calls draw their ids from one counter, `_transactionId`, which every success sets
back to 1: the single-register calls, which go through the queue, and `blockRead`,
`fifoRead`, `blockWrite` and `fifoWrite` (`BlockOrFifo`, `BlockReceive`), which send one
element by itself (`single`) and pass the queue by. One packet of a block or FIFO call
moves one word here; how a long one is split is `BlockTransfer`'s.

A block or FIFO call that succeeds while something is queued sets the counter back under
the queue, and so does a `queueRun` that ends in an `IndexError`. `stale` is a history
variable that says so: the ids in the queue are drawn a second time from then on. For
such a queue the code does not keep what `ClientInv` says, with no other fault than
delay:

1. `queueRead("x")` draws id 1;
2. `blockRead("y")` draws 2 and succeeds, which sets the counter back to 1;
3. a second `blockRead("y")` draws 1 and times out;
4. `queueRun` sends the read of x with id 1, and takes the late reply to the call
   before for its own: `doTransactionChecks` compares types and ids, and a block read is
   a read.

`client` therefore does not run a stale queue, and says nothing of a caller who does;
`client_faults` does run it (the fault `"stale"`). No script of the repository queues
anything, and no text promises that a queue outlives a block call. With
`Faults = {"stale"}` TLC finds `ClientInv` violated; its shortest trace is the mirror
image: the stale queue times out, and the next `read` takes the late answer to it.

### 2.7 Transfers and commands: `PacketExchange`, `BlockTransfer`, `CtuControl`

These stand on what `ChipsBus` is shown to keep (`RegisterService`): packets are
performed in the order sent, at most once and perhaps in part, also after the
client gave up, and an answer that is accepted is the packet's own.
`PacketExchange` is that exchange, with one action for the target (`Perform(k)`:
the first `k` words of the oldest packet) and one for the network (`LoseRequest`).
The device is the list `log` of the single-word accesses made to it; a word read is
named by its place in the list, so that "the words returned are those read" can be
said without data. The client's socket is taken to be drained of late answers: a
call that finds one fails (`ChipsBus`), which is one more way for `PartFails` and
`Step(FALSE)` to happen, and these may happen at any time.

`BlockTransfer` adds `blockRead`, `fifoRead`, `blockWrite` and `fifoWrite`: their
checks, in the order of the code, and the loop that splits a long transfer
(`SendPart`, `PartDone`, `PartFails` are one turn of it), each part with its share of
the data (`DataLists`). `CtuControl` adds the
commands of `ctu_control.py` as lists of gets and sets over the class `GLIB`, which
turns every `ChipsException` into `None`. A command does not look at that; where it
computes with a value (`strict`) it ends in a `TypeError` and the program with it
(`phase = "dead"`, `Restart`). The loop of `main` is part of it: an operator may get any
register (`GetAndShow`; `GetRefused` for `force_trig`, which may not be read) and set any
to any value (`SetAndShow`, `Typed`), and a set ends in a `TypeError` every time.

Two history variables say what the properties must excuse. `unreleased`: a clearing
write was not acknowledged, or the line was asserted by a value of the caller's own
(`force_trig 1` typed to `main`, a block or FIFO write with a word other than 0 for the
register), with no acknowledged clearing write since. `skewed`: a pop of the trigger
FIFO outside a complete pair, since it was last emptied: a read that failed, a single
get of `trig_info` by the operator, or a transfer that has a word for the register's
address (`WordsFor`). What the FIFO does at a write is not in
the repository's VHDL. `trigger_information(ctu, rst=True)` writes 0 to empty it
(`ctu_control.py:58-59`), and the model takes any write for one that does.

### 2.8 Stand-in target: `Framing`, `DummyHardware`

`Framing` is how elements become the words of a packet and back (`SerDes`,
`IPbusHeader`, `TransactionElement`) and what the client asks of an answer
(`doTransactionChecks`). Words are in the reader's byte order: `deserialise` swaps
them if the packet header says so, and `serialise` swaps back.

`DummyHardware` is the server in both its classes. The main thread is `RecvUdp`,
`RecvTcp`, `Accept`, `Put` and `Joined`, with `Interrupt`; the handler thread is
`Run`, `Parse`, one `Act` for each element, and `Respond`. They share the queue,
`stopServing` and, over TCP, the connection; every access to one of these is a step
of its own. The seven handlers are `RegistersAfter` and `ResponseBody`; the masks of
a read-modify-write are done on the set of the bits that are 1 (`BitsOf`, `ValueOf`). Clients are
anybody: they connect, send packets, with elements of unknown types too, and close
when they like. Over TCP `recv` may return several packets as one; each packet is taken
to come whole. `RequestAssumption` says that elements of the known types have their
whole bodies, as every client writes them (`makeFromHeaderAndBody` of a body that the
header was made for): a word of the model knows whether it was written as a header or as
data, and a body cut short would make the reader take the one for the other.

## 3. Runs

| Run | Module, cfg | Distinct states | What it shows |
|---|---|---|---|
| `ring` | `MCBufferRing` | 2,689 | FIFO of whole packets; neither side starves; refines `BufferFifo` |
| `rx_path` | `MCRxPath` | 534,697 | whole requests (but for two addresses), in order, MAC errors included; lost only when the RAM is full; refines `PacketStream` |
| `rx_overwrite` | `MCRxPathOverwrite.cfg` | violation | finding 1 |
| `crossing` | `MCClockCrossing` | 198,166 | packets cross once each way with their own buffer numbers; the word shown is the next word; nobody waits for ever |
| `transactor` | `MCTransactor` | 340,423 | bus cycles and reply match the request, nothing is left behind, every request ends |
| `tx_path` | `MCTxPath` | 266,941 | no reply lost or torn while window and resends fit in the buffers |
| `tx_shared` | `MCTxShared.cfg` | 121,065 | replies and internal packets share the MAC: no starvation, no stale length |
| `tx_resend` | `MCTxResend.cfg` | violation | finding 2 |
| `client` | `MCChipsBus` | 2,048,996 | answers are the call's own; refines `RegisterService` |
| `client_faults` | `MCChipsBusFaults.cfg` | 1,846,855 | copies, reordering, empty and stale queues: values are those of one performance of one call's packet; calls end |
| `commands` | `MCCtuControl` | 883,393 | transfers move a beginning of their words in one run, and all when they return; trigger lines are released, halves of a trigger stay together; everything ends |
| `dummy` | `MCDummyHardware` | 600,302 | replies pass the client's checks and reach who asked, whatever is queued is dealt with, a stop ends both threads |

Several properties are conjunctions of named parts, a type invariant with what it
is needed for: `RxInv`, `CcInv`, `MachinesInv` (which also holds `InStep` and
`ErrorEndsPacket`), `MuxInv`, `ClientInv`; likewise `NobodyStarves` and
`RepliesGoOut`, of two liveness properties each.

### 3.1 Bounds, and why they are enough

* `ring`: 4 buffers (16 in the design). The ring is empty, partly full, full, and
  the writer has to search past more than one buffer. The theorems cover the rest.
* `rx_path`: 3 buffers, 6 frames of 4 writes, the third of which is the checksum's
  (`ClosingByte`), so that there are a byte that is kept before it and one behind it:
  twice round the ring; 4 quiet clocks (12 in the code; the theorems need one).
* `crossing`: 2 buffers each way, so that a number sampled while it changes can be
  wrong; 3 to 5 MAC edges to a bus edge, which is a ratio of four at any phase; a RAM
  of 3 words, which requests run round; unbounded time. The theorems about the words
  cover any depth.
* `transactor`: `words_todo` and `words_done` have 2 bits instead of 8, and
  transactions up to 3 words, so that both wrap; the timer
  counts to 2 instead of 2^24 - 1, so that it fires while a slave is about to
  answer; two requests of up to two transactions each, so that every register is
  seen as the request before left it; one word of packet header.
* `tx_path`: 4 buffers, 5 replies, 2 in flight, 2 resend requests at any clock.
  `tx_shared`: 2 buffers for each RAM, 2 replies, 1 resend request, an unbounded
  number of internal packets of two lengths. `UdpEnd` = 1 lets a reply take two
  steps to send, one per part.
* `client`, `client_faults`: 3 or 2 packets of up to 2 elements; ids up to 3 or 2. Two
  registers, a whole one that block calls may reach and one under a mask; in
  `client_faults` the first may only be read.
  With 4095 ids an old packet cannot still be under way when its id comes round
  (`MayDraw`); the `lap` fault drops that assumption. The theorems have no bound on
  calls, ids or elements.
* `commands`: packets of at most 2 words (255 in the code) and transfers of 3, so
  that there is a full part and a rest; three packets, so that what is left under
  way of one call or command meets the next two. The data of a block write is nothing
  or 0, 1, 0, which asserts the line in the middle of a transfer over `force_trig` and
  takes it back in a FIFO write to it; an operator types 1. The theorems have no such
  bounds.
* `dummy`: two clients and three packets, so that one can be in the queue, one in
  the handler and one in the hand of the main thread; a queue of 1 (1024 in the
  code), so that it is full; packets that hold all seven types between them, with
  none, one and two words; registers of 2 bits, so that a sum wraps.

### 3.2 Fairness

* `RingFairSpec`: the clock runs and the reader finishes each packet (the
  transactor reaches `ST_DONE`, the multiplexer its last byte), whatever the
  writer does.
* `Transactor`, `FairSpec`: the clock runs. Slaves owe nothing: the timer ends
  their silence.
* `CcFairSpec`: each clock has infinitely many edges (strong fairness, because each
  is held back now and then by the other), the MAC sends every reply in the end
  (as `TxPath` shows), and the transactor leaves each state (`EveryRequestDone`).
* `TxFairSpec`: clocks in which the MAC takes a byte recur. `LastByteWaits` is
  FALSE in `tx_shared`: the MAC takes the last byte of a packet at once. The
  absence of starvation depends on it: with a MAC that can delay the last byte
  (`LastByteWaits = TRUE`), the internal RAM's flag is up again when the machine
  comes back to state 1, and TLC shows the replies starved by an endless stream of
  internal packets. The MAC is a vendor core.
* `ChipsBus`, `FairSpec`: the second given to `settimeout` passes. Nothing is
  asked of the network or the target.
* `CtuControl`, `FairSpec`: the program is one thread that runs on, and the second
  given to `settimeout` passes: weak fairness on sending, and on giving up.
* `DummyHardware`, `FairSpec`: weak fairness for each of the two threads. Nothing is
  asked of the clients. A thread that waits in `recv`, `accept` or for a place in
  the queue is not enabled; the handler's poll of an empty queue always is.

## 4. What is proved

`tlapm` checks 16,327 obligations in eight modules.

`BufferRingProofs`, for every number of buffers. The safety properties are not
inductive by themselves: that the reader sends the oldest packet depends on where
its pointer may stand while it looks for work. `RingInv` adds to them:
`Consecutive` (pending buffers follow each other on the ring), `ReaderFindsOldest`
(the reader's pointer stands on no pending buffer but the oldest) and
`WriterFindsNext` (the writer's pointer is on the buffer after the newest, or
still searching among the pending ones). From it follow type correctness,
`FreeOrPending`, `WriterOwnsFreeBuffer`, `SendsOldest`, `PendingIsOrder`, and
that every clock is a step or a stutter of `BufferFifo`. Assumed: at least one
buffer; `None` is no buffer.

`ClockCrossingProofs`, first for the read side of the RAM by itself, every depth and set of
buffers: `FtInv` is inductive.
`AheadOfWords` says where the address and the RAM's output stand ahead of the word
shown; without it `ShowsNextWord` says nothing about the next clock.

`CtuControlProofs`, for packets and transfers of any length, any number of calls and
any command. `InOneRun` is not inductive: that a part continues the run of its call
depends on what else is under way when it is sent. `RunInv` adds to it `NoneAhead`
(packets wait in the order of their calls, and nothing is of a call not yet made),
`PacketsContinue` (a first packet finds no word of its call in the log; a later one
is the oldest under way and finds the word before its own as the last in the log),
`BetweenParts` and `PartOut` (what may be under way while the client is between two
parts, or waits for one). The heart of it is that an accepted answer means the part
was performed in full, and that everything sent before it was then performed or
lost: the backlog is empty and the log ends with the part. It gives `CallsInOneRun`.
`WholeInv` then says where in the log the parts so far are, at which addresses, and
that `got` holds exactly their places; it is carried from part to part with `RunInv`
and gives `ReturnsWholeTransfer`. Assumed: a packet takes at least one word and not
more than its header can count (`BlockAssumption`).

The two promises of the commands rest on `RunInv` and on what a packet still under way
can do. `CalmInv`: unless the assertion is excused (`unreleased`) or the command has yet
to clear it (`Clearing`), no packet under way and no part of a transfer still to be sent
(`CallCalm`) asserts a line, and every assertion in the log has a clearing write behind
it (`Calm`). This is where an
acknowledgement counts for more than its own packet: the step's packet was the last in
the backlog (`Asked`), so a lost or late assertion before it is done with. `Low` says
by the order of entries what `Level` says with a largest element; `MaxIs` and `MaxOf`
join the two, again from the well-foundedness of the order. It gives `LinesReleased`.
`PairInv`: unless `skewed`, no packet under way but that of the step being made can pop
a word (`Unskewed`; a get of the register by itself has made the run `skewed` by the time
it is answered), so the words popped since the FIFO was emptied pair up but for those of
the running command (`InPairs`); the second read of a command meets the log as the
first left it (`SecondRead`); and this stays true of what it returned
(`ReturnedPair`). `OneMoreEntry` and `NoneOfThem` count the pops as the log grows. It
gives `PairsTogether`. Both need the shape of every command (`CommandShapes`), and that
the registers are three (`CtuAssumption`).

`RxPathProofs`, for any number of buffers, frames of any length at any distance from
each other. That the body of a waiting request is its own rests on when `busy` was
looked at: `AcceptedHasBuffer` (a frame that is still accepted after its first byte
has a buffer, and so has one that ended with a MAC error as long as its address stands,
`Frozen`), `StuckInGap` (after that it writes at the addresses of `rx_reset` only),
`AnnouncedAfterSend` (a request is announced in the one clock after
`payload_send`, with the writer still on its buffer) and `AcceptedIsStored` (the
bytes so far are in that buffer). With `Ownership` they are inductive and give
`RxKeepsRule`, the rule about `written` that `BufferRing` assumes of its writer, and
`RxBodyIntact`. The exception, the two addresses outside `Kept`, is finding 1.

The path uses the ring as `BufferRing` assumes, so that every behaviour of it is one of
the ring (`RxRamIsRing`, with the ring's proofs taken through `INSTANCE`) and the
requests that wait are a queue (`RxRamIsFifo`). A history variable, `order`, names the
buffers in that queue; `OwnersInOrder` ties it to what is in the RAM, and `OrderInv` says
that each is newer than the one before. This is what the step simulation needs:
`RxPathIsStream`, that the path refines `PacketStream`. That a request is lost only when
the RAM was full rests on how long the search for a buffer takes: `RoomInv` says how far
the writer's pointer still is from a free buffer (`SearchIsShort`), and that with one
quiet clock or more between frames it has arrived before the frame's first byte is
judged (`KeptWithRoom`). `RxLosesOnlyWhenFull` assumes that one clock; the code waits
twelve, and with none TLC finds a request lost with room for it. Assumed otherwise:
at least one buffer; a checksum's write that is neither the first of a frame nor the
last (`RxAssumption`).

`TransactorProofs`, for any requests, widths of the counters, time limit and slaves.
After a failed transaction the two machines take three clocks to stop, and each
learns of it in another: `ErrorStops`, `NoRestart`, `HasBegun` and `AfterError` say
where the pair can be meanwhile. With the ranges of the registers they are inductive
and give `MachinesInStep`. That the bus does what the request asks needs more: nothing
in the code says where in the request a transaction began, so `BusInv` says, for each
state of the bus side, which word is being read, what `words_todo`, `addr` and the
operand registers hold and how many cycles of the transaction have been run (`AtAddr`,
`AtPlain`, `AtRead`, `AtRmw1`, `AtRmw2`, `AtWrite`, `BetweenTwo`), and that all
transactions before it are complete (`AsAsked`). The proof that a step preserves it has
one lemma per state (`BeginStep`, `AddrStep`, `PlainStep`, `RmwStep`, `OperandStep`),
over lemmas about what a header asks for (`CyclesOf`) and where headers are. `Places`,
the partial sums of the sizes, is a recursive function; `LeastOf` (a nonempty set of
numbers has a least one, from the well-foundedness of the order) replaces the induction
that the prover cannot instantiate, and gives `PlacesAre` and `PlaceFacts`: places grow,
so that a word of a request is at most one header. `BusInv` gives `BusAsAsked` and
`AllServed`. `ReplyInv` adds the reply buffer. The header of a reply is written last,
over a place kept for it, and only when the next header of the request is read; so a
transaction under way has every word of its reply but the first (`Pending`), `haddr`
is that place, `wctr` is two short of the next one, and `words_done` is the length the
header will say (`InReply`). The replies before it are whole (`HoldReplies`), and stay
so because every write goes to `haddr` or to `waddr`, behind them (`RepliesKept`); the
last header goes in at the edge at which the body ends (`BodyEndReply`). It gives
`ReplyAsServed`: with `BusAsAsked`, what the client reads is what the bus did, and the
bus did what it asked. Assumed: `words_todo` holds at least one bit (`TransactorAssumption`), and
packets are sequences of headers whose word counts fit in that register, that of a
read-modify-write being 1, as the client makes it (`PacketsAssumption`).

`TxPathProofs`, for any number of buffers in either RAM, packets of any length, any
window, and a MAC, a transactor and a client of any pace. A selector and the
multiplexer exchange pulses only, and nothing numbers them: `Handshake` says that
while the reader works exactly one token is under way (`req_send`, the busy flag, its
fall, `sent`). The length of a packet of the internal RAM reaches the multiplexer by
a way of its own: `LengthTravels` ties it, at each stop, to the oldest packet of the
ring. The internal RAM's selector is taken through `INSTANCE BufferRingProofs`: its
invariant is used here, and in return `InternalRamIsRing` shows that the composition
keeps the two rules `BufferRing` assumes, so that `InternalRamIsFifo` follows from
`RingImplementsFifo`. Assumed: `MuxAssumption`, `TxAssumption`, `NBufAssumption`.

The second half of `TxPathProofs` is about the replies: `RepliesWhole`, `NoneLost` and
`ResendsFindTheirs`, for any number of buffers and requests and any window. They assume
`WindowFits`: the window and all the resend requests of the behaviour fit in the buffers
together. Without a resend the argument is short: `WriterInFree` (what waits to be sent
is not in the writer's hands) and `Contents` (each buffer holds one reply). A resend
puts a buffer back that the writer may already have been offered, so what has to be
shown is that a reply that may still be asked for is never where the writer is. That
is a counting argument on the ring. A reply is `Recent` as long as the client's window
lets it be missed; `Ordered` says that on the way round from a recent reply to the writer
there are newer replies only, but for buffers the writer passed by because a resend had
taken them, and of those there are at most as many as resends took effect
(`ResendInv`). If the writer came to stand on the recent reply, all the other buffers
would be newer replies, fewer than the window (`FewNewer`), or passed by, fewer than
the resends: not enough of them (`NoRecentAt`). `Noted` says that an id noted of a
buffer is that of the reply in it or too old to be asked for, and `Found` that the
lookup therefore finds the whole reply. When the last resend has taken effect, none of
this is needed any more, and `BaseInv` alone carries the rest.

`ClockCrossingProofs`, for any number of buffers, a RAM of any depth, and any number of
edges of one clock between two of the other, none included. What crosses is never more
than three tokens: the request, which goes round from `req_send` through the toggles to
the transactor and back to `rx_ram_sent`, and the rise and the fall of the writer's
`busy`. `RequestAt(n)`, `RiseAt(u)` and `FallAt(d)` say at which register each is; there
are such `n`, `u` and `d` in every reachable state, and an edge of either clock moves
them as `MacPlace`, `MacTurn`, `BusPlace` and `BusTurn` say (`MacRequest`, `BusRequest`
and the like, bit by bit). `RequestLogic`, `BusyLogic` and `WriterLogic` then say of the
other registers what the places imply. The heart of it is `Owed`: as long as the
transactor's side has not learned that there is a buffer for the next reply,
`busy_buf` holds it back. `done` raises `busy_buf` before the fall of `busy` can arrive,
and the fall follows the rise; only after reset does the side not know yet, and then the
word of it is ahead of the first request (`Fresh`). This gives `OffersOwnBuffers`,
`PacketsCrossOnce` and `OffersAreSettled`, hence the refinement `CrossingImplementsRam`
and with it `ShowsNextWord` for the composition. TLC has checked this invariant with
none to two, none to five, one to two and three to five edges before it was proved.
`CleanBuffersWhole` alone assumes a ratio, `MinMac >= 3`: with two TLC refutes it.
Assumed otherwise: `CrossingAssumption`, `FallThroughAssumption`.

`ChipsBusProofs`, for any address table, any number of calls, queued elements and
transaction ids. That an answer is the call's own is not inductive: it rests on what
else may be in the network when ids are drawn, and those start again from 1 after
every success. `OwnInv` says it: packets are in the order of their calls, replies before
requests (`InOrder`); what a `queueRun` waits for has an element and is not stale
(`SomeElement`); every id in the network, and in a queue that is not stale, is smaller
than the next to be drawn, unless it is the last id, which is drawn only when all of
that is empty (`IdsLow`); so the queue shares its ids with no packet but the one it was
sent in, be that of a read or of a block, and the element of a block call with no packet
of an earlier call (`IdsApart`). A draw keeps this (`DrawIsNew`; `DrawAlsoAlone` for
calls that clear the queue first). So a reply that passes the checks is the current
call's, and as the last in the order it was the last packet of all: the network is empty
when the counter goes back (`NothingLeft`). That is `MatchIsOwn`, which gives `AnswersAreOwn`,
`SuccessLeavesNothing` and, step by step, `ClientImplementsService`. These assume
`Faults = {}`: a network that loses and delays but neither copies nor reorders, no
empty queue, no lap of the ids, no stale queue; each of these is
refused by a counterexample of TLC. `DataInv`, which gives `ClientTypes` and
`UniformValuesReturned`, needs none of that: a reply without an error tells of one
whole performance of one call's packet, whatever happened to the packets, though under
the faults that call may be another one. Assumed: there is an id and room
for an element, the items are registers (`ChipsBusAssumption`).

`DummyHardwareProofs` begins with the framing. `RoundTrip`: `deserialise` gives back any
list of whole elements of known types that `serialise` wrote. `FlattenSeq` and
`deserialise` are recursive functions; `GrowingExists` and `ParseTableExists` make the
tables they stand for, and `CountingUp`, which takes the least number for which a fact
would be false, replaces induction. `PacketsParse` adds what is not read: an element of
an unknown type, or the header of a second packet behind the first, and the whole
transaction is dropped.

Then the server, for any clients, requests, number of packets and length of the
queue, over UDP and TCP. `RepliesReachAsker` speaks of replies only; `ServerInv` says
where their packets come from: the packets of a client keep their order from place to
place of the pipeline (`Ahead`, `OrderOK`), and over TCP a packet that was taken is of
the client connected or of one that has closed (`ConnectionOK`). TLC has checked this
invariant with the clients and packets of the run. What a request does to the registers
does not matter here.

`RepliesPassChecks` speaks of a handler about to answer; `ReplyInv` adds to `ServerInv`
what is true before: every transaction on its way is made of packets that were sent in
that order, no more than the bound, and none of them the empty datagram
(`TransactionsOK`); and the handler performs one whole request, of which the elements
done have a response each and the others are what is left to do (`AnswersOK`). TLC has
checked it in all 600,302 states of `dummy`. That a response has the size its header says
is `ResponseAnswers`, once for each of the seven types. Assumed: `RequestAssumption`, and
nothing of the registers and their values.

Only model-checked: liveness (`NobodyStarves`, `EveryRequestDone`, `RequestsDrain`,
`RepliesGoOut`, `EveryCallReturns`, `EveryCommandEnds`, `EveryPacketServed`,
`ServerStops`), which this prover does not handle. Every safety property that a passing
run checks is stated by a theorem.

## 5. What the code does otherwise than its text says

1. `rx_overwrite`: `rx_wea` uses `ram_ok` as registered a clock before, so the
   first byte of a frame that meets a full receive RAM is written over the first
   byte of a waiting request. After a frame with a MAC error `payload_we` stays up, so
   that the same byte (address 12), and once that at address 4, are written through
   `rx_reset` as well (2.2).
2. `tx_resend`: a client that keeps as many requests in flight as there are
   buffers, and asks again for a reply that is merely late, can get a packet with
   the header of one reply and the body of another, and can lose a reply.
   `busy_block` checks that the writer's buffer is free only when it offers it; a
   resend may take it afterwards. `tx_path` checks, and `RepliesWhole` proves, a rule
   that avoids it: the window and all the resend requests together do not exceed the
   buffers. To keep few resends outstanding is not enough: TLC finds the same mixture
   with three buffers, a window of two and one resend at a time, since a buffer the
   writer passed by holds an old reply among the new ones long after its resend.

Seen while modelling and not given a run:

* The codes of failures disagree: the transactor answers a bus error with 4 or 5 and
  a timeout with 6 or 7 (`transactor_sm.vhd:198-212`), `IPbusHeader.py:13-16` has 2
  and 3 for a bus error and 4 and 5 for a timeout. The code 1 for a refused header
  never reaches the client, because the reply ends before it is written
  (`transactor_sm.vhd:80`).
* `queueRun` decides from the first response whether any has a body
  (`ChipsBus.py:156`): a read behind a write returns 0, and a write behind a read is
  an `IndexError` that leaves the queue as it was. This is why
  `UniformQueueReturnsReads` is about queues of one kind.
* A queue that such an `IndexError` left, or that stood while a block or FIFO call
  succeeded, keeps its ids, while the success has set the counter back to 1
  (`ChipsBus.py:428`). If it is run, a late answer to a call made in between passes for
  its own: section 2.6 has the sequence. `AnswerIsOwn` holds as long as such a queue is
  cleared instead (`queueClear`, or any `read` or `write`).
* `queueWrite` to a masked register overwrites the whole register
  (`ChipsBus.py:119-123` against the comment at 98).
* A duplicated datagram is taken for the answer of the next `read`, because the id
  restarts at 1 (`ChipsBus.py:424-429`): `AnswerIsOwn` holds only without copies.
* A resend that finds its buffer in the clock in which its transmission ends is
  dropped in silence: `ResendIsSent` excepts a reply that is being sent.
* `force_trigger` and `gcu_test_pulse` report success whatever becomes of their two
  writes; if the clearing one is lost the line stays asserted, which is what
  `TriggerReleased` excepts.
* `hex(ctu.set(...))` in `ctu_control.py:99` is a `TypeError` after every set,
  because `set` returns `None`; every read that failed is one too. `force_trig 1` typed
  to `main` so ends the program with the line asserted, and `trig_info` typed to it pops
  one word, after which `trigger_information` pairs halves of two triggers until the
  FIFO is emptied: `unreleased` and `skewed` excuse the two. `GLIB.blockWrite`
  passes a variable that does not exist (`ipbus.py:54`) and always ends in a
  `NameError`.
* The handler thread of `DummyHardware` catches only a `ChipsException`
  (`DummyHardware.py:100`): an answer to a client that closed its TCP connection can
  end it, after which the server goes on accepting packets until its queue is full
  and `put` blocks. `EveryPacketServed` excepts that. A reply over TCP goes to
  whoever is connected when it is ready (line 360), and the packets of a client that
  does not wait for its answers are dropped together when one `recv` returns two.
* The adder tree takes seven neighbours from its own index on (`VFL.vhd:55`), so the
  first channels count several times and the last ones never.

## 6. Plan

In this order; each module comes with the run that uses it.

1. `PacketIds` (parser and status buffer): a reliable request is accepted once
   and in order; the id is sampled while the frame before may still advance it.
   Composed with `RxPath`. `History`: no event of two kinds lost without trace.
2. `InternalRam` (`udp_rxram_mux.vhd` with the builders' send strobes and RARP).
3. Slaves and fabric under `Transactor`'s bus; `TransArb` for several sources.
4. Front end: `FmcTimer`, `RxAlignment`, `Monitors`, `AdderTree`.

## 7. Not modelled, and why

The contents of frames (addresses, checksums, byte order), pure data that no other
state depends on; the register banks of `transactor_cfg.vhd`; `ChipsBusTcp`, which reads one answer
from a stream without framing and which no script of the repository uses; vendor cores and
everything generated under `IPs/` and `HDLs/DDR3/`; clock buffers and LED timing;
`lite_bus_pack.vhd` and `control_registers.vhd`, which nothing instantiates;
`AddressTable.py`, the text of the address table, read once before anything is sent;
the packing of a word into bytes. The trigger
logic instantiated by `CTU_v0_top.vhd` is not in the repository.

## 8. Running it

`tlc -config MCBufferRing.cfg MCBufferRing` and likewise for the other runs (the
run table names modules and configurations); `tlapm BufferRingProofs.tla`,
and likewise for the other modules whose names end in `Proofs`. Every property of a passing run has a mutant in
`PROJECT.json`: a changed definition, kept beside the original in the module, under
which TLC finds the property violated.
