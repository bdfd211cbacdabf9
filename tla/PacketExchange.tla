--------------------------- MODULE PacketExchange ---------------------------
(***************************************************************************)
(* A client call below its loops and checks: _makeAndRunTransaction sends  *)
(* one packet with one transaction and waits for its answer.  Ids, headers *)
(* and checks are in ChipsBus; here is what ChipsBus is shown to keep of   *)
(* them (RegisterService): packets are performed in the order they were    *)
(* sent, each at most once and perhaps in part, also after the client gave *)
(* up, and an answer that is accepted is the packet's own.                 *)
(*                                                                         *)
(* The device is what was done to it: log is the list of its single word   *)
(* accesses.  A word that is read is named by its place in the log.        *)
(***************************************************************************)
EXTENDS Integers, Sequences

VARIABLES
    phase,      \* where the calling program stands
    calls,      \* calls that sent a packet so far; the number of the last one
    backlog,    \* packets sent and neither performed nor lost
    answer,     \* the packet last performed in full: [call, first, words, at]
    log         \* accesses: [call, index, op, addr, data]

exchangeVars == <<phase, calls, backlog, answer, log>>

\* A packet moves words number first + 1 .. first + words of its call, all at
\* addr or, unless fifo, at addr and the addresses behind it; data has one word
\* for each, which a read does not use.
Access(p, j) ==
    [call |-> p.call, index |-> p.first + j, op |-> p.op,
     addr |-> p.addr + (IF p.fifo THEN 0 ELSE j - 1), data |-> p.data[j]]

\* The target performs the first k words of the oldest packet.  A bus error in
\* the middle ends the transaction; the answer is then of no use.
Perform(k) ==
    LET p == Head(backlog)
    IN  /\ backlog # <<>> /\ backlog' = Tail(backlog)
        /\ k \in 0 .. p.words
        /\ log' = log \o [j \in 1 .. k |-> Access(p, j)]
        /\ answer' = IF k = p.words
                     THEN [call |-> p.call, first |-> p.first,
                           words |-> p.words, at |-> Len(log)]
                     ELSE answer
        /\ UNCHANGED <<phase, calls>>

\* The network loses a request.  A lost answer is one nobody waits for.
LoseRequest ==
    /\ \E i \in DOMAIN backlog :
          backlog' = [j \in 1 .. Len(backlog) - 1 |-> backlog[IF j < i THEN j ELSE j + 1]]
    /\ UNCHANGED <<phase, calls, answer, log>>

Answered(call, first) == answer.call = call /\ answer.first = first

ExchangeInit ==
    /\ phase = "idle" /\ calls = 0 /\ backlog = <<>> /\ log = <<>>
    /\ answer = [call |-> 0, first |-> 0, words |-> 0, at |-> 0]

=============================================================================
