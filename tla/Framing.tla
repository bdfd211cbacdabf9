------------------------------- MODULE Framing -------------------------------
(***************************************************************************)
(* How a list of transaction elements becomes the words of a packet, and   *)
(* how the words become elements again (SerDes.py, IPbusHeader.py,         *)
(* TransactionElement.py), and what the client asks of the answer          *)
(* (Transaction.py).                                                       *)
(*                                                                         *)
(* A word is a record: the fields of a header, or type "data" and a value. *)
(* Words are in the reader's byte order: the packet header that every      *)
(* packet begins with tells deserialise whether to swap them, and the      *)
(* answer is swapped back the same way.                                    *)
(***************************************************************************)
EXTENDS Integers, Sequences, SequencesExt

WordRange == 256

Types == {"read", "write", "fifo read", "fifo write", "rmw bits", "rmw sum", "addr info"}

makeHeader(id, words, type, info) ==
    [type |-> type, id |-> id, words |-> words % WordRange, info |-> info, value |-> 0]

Data(v) == [type |-> "data", id |-> 0, words |-> 0, info |-> "none", value |-> v]

\* 0x200000f0: read as the header of an element, it has the unknown type 15.
PacketHeader == [type |-> "packet", id |-> 0, words |-> 0, info |-> "response", value |-> 0]

updateInfoCode(head, info) == [head EXCEPT !.info = info]
updateWords(head, words)   == [head EXCEPT !.words = words % WordRange]

\* TransactionElement.makeFromHeaderAndBody; the body is a sequence of values.
Element(head, body) == [head |-> head, body |-> body]

minimumRequestBodySize(type) ==
    CASE type = "rmw bits" -> 3 [] type = "rmw sum" -> 2 [] type = "addr info" -> 0 [] OTHER -> 1

minimumResponseBodySize(type) ==
    CASE type \in {"rmw bits", "rmw sum"} -> 1 [] type = "addr info" -> 2 [] OTHER -> 0

\* getExpectedBodySize of a known type.  Only the words of a read are in the
\* response and only those of a write in the request.  Mutated form: a
\* non-incrementing read is forgotten.
BodySizeOneRead(head) ==
    IF head.info = "response"
    THEN minimumResponseBodySize(head.type) + (IF head.type = "read" THEN head.words ELSE 0)
    ELSE minimumRequestBodySize(head.type)
           + (IF head.type \in {"write", "fifo write"} THEN head.words ELSE 0)

BodySize(head) ==
    IF head.info = "response"
    THEN minimumResponseBodySize(head.type)
           + (IF head.type \in {"read", "fifo read"} THEN head.words ELSE 0)
    ELSE minimumRequestBodySize(head.type)
           + (IF head.type \in {"write", "fifo write"} THEN head.words ELSE 0)

validBodySize(element) == Len(element.body) = BodySize(element.head)

serialise(elements) ==
    <<PacketHeader>> \o FlattenSeq(
        [i \in DOMAIN elements |->
            <<elements[i].head>> \o [j \in DOMAIN elements[i].body |-> Data(elements[i].body[j])]])

\* deserialise: the elements, or ok = FALSE for a ChipsException, which a header
\* of unknown type raises and a body that is not all there.
deserialise(words) ==
    LET values == [i \in DOMAIN words |-> words[i].value]
        bad == [ok |-> FALSE, elements |-> <<>>]
        parse[i \in 2 .. Len(words) + 1] ==
            IF i > Len(words) THEN [ok |-> TRUE, elements |-> <<>>]
            ELSE IF words[i].type \notin Types THEN bad
            ELSE LET last == i + BodySize(words[i])
                     body == SubSeq(values, i + 1, last)
                     rest == parse[last + 1]
                 IN  IF last > Len(words) \/ ~rest.ok THEN bad
                     ELSE [ok |-> TRUE, elements |-> <<Element(words[i], body)>> \o rest.elements]
    IN  parse[2]

\* doTransactionChecks
ChecksPass(requests, responses) ==
    /\ Len(requests) = Len(responses)
    /\ \A i \in DOMAIN requests :
         LET q == requests[i].head
             r == responses[i].head
         IN  /\ q.type = r.type /\ q.id = r.id
             /\ r.info = "response"
             /\ validBodySize(responses[i])

=============================================================================
