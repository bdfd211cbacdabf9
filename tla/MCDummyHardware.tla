-------------------------- MODULE MCDummyHardware --------------------------
(***************************************************************************)
(* DummyHardware with two clients and three packets: two that hold every   *)
(* type between them, with none, one and two words, and one that does not  *)
(* parse.                                                                  *)
(***************************************************************************)
EXTENDS DummyHardware

MCElement(id, type, words, body) == Element(makeHeader(id, words, type, "request"), body)

MCRequests ==
    [plain |-> <<MCElement(1, "write", 2, <<0, 1, 3>>), MCElement(2, "fifo read", 2, <<1>>),
                 MCElement(3, "rmw bits", 1, <<0, 2, 1>>), MCElement(4, "addr info", 0, <<>>)>>,
     reset |-> <<MCElement(1, "rmw sum", 1, <<0, 3>>), MCElement(2, "fifo write", 0, <<1>>),
                 MCElement(3, "read", 1, <<2>>), MCElement(4, "read", 0, <<0>>)>>,
     wrong |-> <<MCElement(1, "write", 1, <<0, 1>>), MCElement(2, "unknown", 0, <<>>)>>]

MCAddresses == 0 .. 2
=============================================================================
