---------------------------- MODULE DummyHardware ----------------------------
(***************************************************************************)
(* The server that stands in for the hardware (DummyHardware.py), over UDP *)
(* or over TCP.  The main thread receives packets and puts them into a     *)
(* bounded queue; a second thread takes them out, performs them and        *)
(* answers.  They share the queue, stopServing and, over TCP, the socket   *)
(* of the connection.                                                      *)
(*                                                                         *)
(* Clients are any programs that send packets.  Over TCP recv returns what *)
(* has come in, which may be several packets at once; a packet is taken to *)
(* come in one piece.                                                      *)
(***************************************************************************)
EXTENDS Framing, FiniteSetsExt

CONSTANTS
    Clients,
    Requests,           \* by name: the lists of elements a client may send
    Empty,              \* the name of an empty datagram
    Addresses,          \* of registers
    ResetAddr,          \* 0xffffffff in the code
    ValueBits,          \* 32 in the code
    REQUEST_QUEUE_SIZE, \* 1024 in the code
    MaxPackets          \* bound: packets sent in a behaviour

ASSUME DummyAssumption ==
    /\ REQUEST_QUEUE_SIZE \in Nat \ {0} /\ MaxPackets \in Nat
    /\ ValueBits \in Nat \ {0} /\ Addresses \subseteq Nat

\* What a client sends is made of elements, and those of a known type are whole: a
\* word that the reader takes for a header was written as one.
RequestHeaders ==
    [type : STRING, id : Nat, words : 0 .. WordRange - 1, info : {"request"}, value : {0}]

ASSUME RequestAssumption ==
    \A name \in DOMAIN Requests :
        /\ Requests[name] \in Seq([head : RequestHeaders, body : Seq(Nat)])
        /\ \A i \in DOMAIN Requests[name] :
              Requests[name][i].head.type \in Types => validBodySize(Requests[name][i])

VARIABLES
    transport,      \* "udp" or "tcp": which of the two classes it is
    \* the network
    arrived,        \* packets in the socket, or sent on each connection, by number
    connecting,     \* TCP: clients not accepted yet, in order
    closed,         \* TCP: clients that closed their connection
    sent,           \* packets sent so far: [from, request]
    \* the main thread
    main,           \* where it stands
    hand,           \* what it is about to put
    connected,      \* _connectedSocket, by its client
    stopServing,
    \* the handler thread
    handler,        \* where it stands
    queue,          \* _transaction_queue: the packets in each transaction
    current,        \* the transaction it performs
    todo,           \* its requests that are still to be performed
    responses,      \* what it will answer
    registers,
    socketClosed,   \* closeSockets was called
    \* history
    handled,        \* packets the handler is done with
    replies         \* [n, to]

netVars     == <<arrived, connecting, closed, sent>>
mainVars    == <<main, hand, connected, stopServing, socketClosed>>
handlerVars == <<handler, current, todo, responses, registers, handled, replies>>
vars        == <<transport, netVars, mainVars, handlerVars, queue>>

NoClient == "no client"

\* A transaction is made of the packets that one recv returned.
Asker(ns) == sent[ns[1]].from
Names(ns) == [i \in DOMAIN ns |-> sent[ns[i]].request]

\* What each of them parses to.
Parses ==
    {[names |-> names,
      parse |-> deserialise(FlattenSeq([i \in DOMAIN names |-> serialise(Requests[names[i]])]))]
        : names \in UNION {[1 .. k -> DOMAIN Requests] : k \in 1 .. MaxPackets}}

Parsed(ns) == (CHOOSE p \in Parses : p.names = Names(ns)).parse

-----------------------------------------------------------------------------
\* The seven handlers: the registers after an element, and the body of the
\* response.  A register that was never written is 0.
Span(e) == {e.body[1] + k : k \in 0 .. e.head.words - 1}

Update(regs, a, v) == [regs EXCEPT ![a] = v]

\* A value by its bits that are 1, and back: "and" and "or" are done on the sets.
BitsOf(v)     == {b \in 0 .. ValueBits - 1 : (v \div 2 ^ b) % 2 = 1}
ValueOf(bits) == SumSet({2 ^ b : b \in bits})

RegistersAfter(regs, e) ==
    LET type == e.head.type
        a    == e.body[1]
    IN  CASE type = "read" -> IF a = ResetAddr THEN [r \in Addresses |-> 0] ELSE regs
          [] type = "write" -> [r \in Addresses |->
                                   IF r \in Span(e) THEN e.body[r - a + 2] ELSE regs[r]]
          [] type = "fifo write" -> Update(regs, a, Last(e.body))
          [] type = "rmw bits" -> Update(regs, a, ValueOf(
                 (BitsOf(regs[a]) \cap BitsOf(e.body[2])) \cup BitsOf(e.body[3])))
          [] type = "rmw sum" -> Update(regs, a, (regs[a] + e.body[2]) % 2 ^ ValueBits)
          [] OTHER -> regs

\* A read-modify-write answers with the new value; regs is after the element.
ResponseBody(regs, e) ==
    CASE e.head.type = "read" -> [k \in 1 .. e.head.words |-> regs[e.body[1] + k - 1]]
      [] e.head.type = "fifo read" -> [k \in 1 .. e.head.words |-> regs[e.body[1]]]
      [] e.head.type \in {"rmw bits", "rmw sum"} -> <<regs[e.body[1]]>>
      [] e.head.type = "addr info" -> <<0, 0>>
      [] OTHER -> <<>>

Response(regs, e) ==
    LET head == updateInfoCode(e.head, "response")
    IN  Element(IF e.head.type = "addr info" THEN updateWords(head, 2) ELSE head,
                ResponseBody(regs, e))

-----------------------------------------------------------------------------
\* The network and the clients.

\* An empty datagram is possible, an empty TCP segment is not.
Send ==
    /\ Len(sent) < MaxPackets
    /\ \E c \in Clients, name \in DOMAIN Requests \cup {Empty} :
          /\ sent' = Append(sent, [from |-> c, request |-> name])
          /\ \/ transport = "udp" /\ arrived' = Append(arrived, Len(sent'))
             \/ /\ transport = "tcp" /\ name # Empty /\ c \notin closed
                /\ c = connected \/ Contains(connecting, c)
                /\ arrived' = [arrived EXCEPT ![c] = Append(@, Len(sent'))]
    /\ UNCHANGED <<transport, connecting, closed, mainVars, handlerVars, queue>>

Connect ==
    /\ transport = "tcp"
    /\ \E c \in Clients \ closed :
          /\ c # connected /\ ~Contains(connecting, c)
          /\ connecting' = Append(connecting, c)
    /\ UNCHANGED <<transport, arrived, closed, sent, mainVars, handlerVars, queue>>

Close ==
    /\ transport = "tcp"
    /\ \E c \in Clients \ closed :
          (c = connected \/ Contains(connecting, c)) /\ closed' = closed \cup {c}
    /\ UNCHANGED <<transport, arrived, connecting, sent, mainVars, handlerVars, queue>>

-----------------------------------------------------------------------------
\* The main thread.

\* _stopServingAndJoinThreads, as far as the join.
Stop == stopServing' = TRUE /\ main' = "join"

RecvUdp ==
    /\ transport = "udp" /\ main = "recv" /\ arrived # <<>>
    /\ arrived' = Tail(arrived)
    /\ IF sent[Head(arrived)].request = Empty
       THEN Stop /\ UNCHANGED hand
       ELSE hand' = <<Head(arrived)>> /\ main' = "put" /\ UNCHANGED stopServing
    /\ UNCHANGED <<transport, connecting, closed, sent, connected, socketClosed,
                   handlerVars, queue>>

\* recv returns the packets that have come in, one or more of them; nothing more
\* to come means the connection is closed.
RecvTcp ==
    /\ transport = "tcp" /\ main = "recv"
    /\ LET in == arrived[connected] IN
       \/ /\ in # <<>>
          /\ \E k \in DOMAIN in :
                /\ hand' = SubSeq(in, 1, k)
                /\ arrived' = [arrived EXCEPT ![connected] = SubSeq(@, k + 1, Len(@))]
          /\ main' = "put"
       \/ /\ in = <<>> /\ connected \in closed
          /\ main' = "accept" /\ UNCHANGED <<hand, arrived>>
    /\ UNCHANGED <<transport, connecting, closed, sent, connected, stopServing, socketClosed,
                   handlerVars, queue>>

Accept ==
    /\ main = "accept" /\ connecting # <<>>
    /\ connected' = Head(connecting) /\ connecting' = Tail(connecting)
    /\ main' = "recv"
    /\ UNCHANGED <<transport, arrived, closed, sent, hand, stopServing, socketClosed,
                   handlerVars, queue>>

\* put blocks while the queue is full.
Put ==
    /\ main = "put" /\ Len(queue) < REQUEST_QUEUE_SIZE
    /\ queue' = Append(queue, hand) /\ hand' = <<>>
    /\ main' = "recv"
    /\ UNCHANGED <<transport, netVars, connected, stopServing, socketClosed, handlerVars>>

\* ctrl-C, or any other exception of recv.
Interrupt ==
    /\ main \in {"recv", "accept"} /\ Stop
    /\ UNCHANGED <<transport, netVars, hand, connected, socketClosed, handlerVars, queue>>

\* join(1): the handler thread has ended, or a second has passed.
Joined ==
    /\ main = "join" /\ main' = "returned"
    /\ UNCHANGED <<transport, netVars, hand, connected, stopServing, socketClosed,
                   handlerVars, queue>>

\* What a user does when serveForever has returned.
closeSockets ==
    /\ main = "returned" /\ ~socketClosed /\ socketClosed' = TRUE
    /\ UNCHANGED <<transport, netVars, main, hand, connected, stopServing, handlerVars, queue>>

-----------------------------------------------------------------------------
\* The handler thread.

\* The loop of run.  An empty queue is polled, so that stopServing is seen.
\* Mutated form: get is left to wait for a packet.
RunBlocking ==
    /\ handler = "run" /\ queue # <<>>
    /\ handler' = "parse" /\ current' = Head(queue) /\ queue' = Tail(queue)
    /\ UNCHANGED <<transport, netVars, mainVars, todo, responses, registers, handled, replies>>

Run ==
    /\ handler = "run"
    /\ \/ /\ stopServing /\ handler' = "ended"
          /\ UNCHANGED <<queue, current>>
       \/ /\ ~stopServing /\ queue # <<>>
          /\ handler' = "parse" /\ current' = Head(queue) /\ queue' = Tail(queue)
    /\ UNCHANGED <<transport, netVars, mainVars, todo, responses, registers, handled, replies>>

\* _actAndRespond.  A packet that does not parse is only logged, before any of
\* it was performed.  Mutated form: the ChipsException is not caught.
AfterErrorUncaught == "dead"
AfterError == "run"

Parse ==
    /\ handler = "parse"
    /\ LET d == Parsed(current) IN
       IF d.ok
       THEN handler' = "act" /\ todo' = d.elements /\ UNCHANGED <<current, handled>>
       ELSE handler' = AfterError /\ current' = <<>> /\ handled' = handled \cup Range(current)
            /\ UNCHANGED todo
    /\ UNCHANGED <<transport, netVars, mainVars, queue, responses, registers, replies>>

\* One turn of its loop.
Act ==
    /\ handler = "act"
    /\ IF todo = <<>>
       THEN handler' = "respond" /\ UNCHANGED <<todo, responses, registers>>
       ELSE /\ todo' = Tail(todo)
            /\ registers' = RegistersAfter(registers, Head(todo))
            /\ responses' = Append(responses, Response(registers', Head(todo)))
            /\ UNCHANGED handler
    /\ UNCHANGED <<transport, netVars, mainVars, queue, current, handled, replies>>

\* _socketSend: over UDP to the address the packet came from, over TCP on the
\* connection there is now.  An error of the socket is not a ChipsException, so
\* it ends the thread; a connection the client has closed may give one.
\* Mutated form: over UDP, too, to the client heard last.
AddresseeLast == IF queue = <<>> THEN Asker(current) ELSE Asker(Last(queue))
Addressee == IF transport = "udp" THEN Asker(current) ELSE connected

Respond ==
    /\ handler = "respond" /\ current' = <<>> /\ responses' = <<>>
    /\ handled' = handled \cup Range(current)
    /\ \/ /\ ~socketClosed /\ handler' = "run"
          /\ replies' = Append(replies, [n |-> current[1], to |-> Addressee])
       \/ /\ socketClosed \/ (transport = "tcp" /\ connected \in closed)
          /\ handler' = "dead" /\ UNCHANGED replies
    /\ UNCHANGED <<transport, netVars, mainVars, queue, todo, registers>>

Init ==
    /\ transport \in {"udp", "tcp"}
    /\ arrived = IF transport = "udp" THEN <<>> ELSE [c \in Clients |-> <<>>]
    /\ connecting = <<>> /\ closed = {} /\ sent = <<>>
    /\ main = (IF transport = "udp" THEN "recv" ELSE "accept")
    /\ hand = <<>> /\ connected = NoClient /\ stopServing = FALSE
    /\ handler = "run" /\ queue = <<>> /\ current = <<>> /\ todo = <<>> /\ responses = <<>>
    /\ registers = [a \in Addresses |-> 0] /\ socketClosed = FALSE
    /\ handled = {} /\ replies = <<>>

MainThread == RecvUdp \/ RecvTcp \/ Accept \/ Put \/ Joined
Handler    == Run \/ Parse \/ Act \/ Respond

Next == Send \/ Connect \/ Close \/ MainThread \/ Interrupt \/ closeSockets \/ Handler

\* Both threads run on when they can.  Nothing is asked of the clients.
FairSpec == Init /\ [][Next]_vars /\ WF_vars(MainThread) /\ WF_vars(Handler)

-----------------------------------------------------------------------------
\* Every reply passes the checks of the client that sent the request: handlers,
\* header updates and the two tables of body sizes agree, for every type and
\* every number of words.
RepliesPassChecks ==
    handler = "respond" =>
        LET reply == deserialise(serialise(responses))
        IN  Len(current) = 1 /\ reply.ok /\ ChecksPass(Requests[Names(current)[1]], reply.elements)

\* A reply goes to the client that asked, once, and in the order asked.  Another
\* one gets it only over TCP, when it has taken the place of one that closed.
RepliesReachAsker ==
    \A i \in DOMAIN replies :
        LET from(j) == Asker(<<replies[j].n>>)
        IN  /\ replies[i].to = from(i) \/ (transport = "tcp" /\ from(i) \in closed)
            /\ \A j \in 1 .. i - 1 : from(i) = from(j) => replies[j].n < replies[i].n

\* A packet that was put into the queue is dealt with, unless the server is
\* stopped or the answer to a client that has gone has ended the handler.
EveryPacketServed ==
    \A n \in 1 .. MaxPackets :
        (\E i \in DOMAIN queue : Contains(queue[i], n))
            ~> (n \in handled \/ stopServing \/ (handler = "dead" /\ closed # {}))

\* A server that is stopped ends, with both its threads.
ServerStops == stopServing ~> (main = "returned" /\ handler \in {"ended", "dead"})

=============================================================================
