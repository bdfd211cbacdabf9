-------------------------- MODULE CtuControlProofs --------------------------
(***************************************************************************)
(* The words of every client call are moved in one run, and a transfer     *)
(* that returns has moved all of them and returns those it read: for       *)
(* packets of any size, transfers of any length and any number of calls.   *)
(* The trigger lines are released after a command, and the two words of a  *)
(* trigger come from one trigger, except where the code gives that up.     *)
(***************************************************************************)
EXTENDS CtuControl, SequenceTheorems, FiniteSetTheorems, WellFoundedInduction, TLAPS

Packets ==
    {p \in [call : Nat, first : Nat, op : Ops, fifo : BOOLEAN, addr : Nat, words : Nat,
            data : Seq(Nat)] : Len(p.data) = p.words}
Entries == [call : Nat, index : Nat, op : Ops, addr : Nat, data : Nat]

ExchangeTypeOK ==
    /\ calls \in Nat
    /\ backlog \in Seq(Packets)
    /\ answer \in [call : Nat, first : Nat, words : Nat, at : Nat]
    /\ log \in Seq(Entries)

ClientTypeOK ==
    /\ call \in [n : Nat, op : Ops, fifo : BOOLEAN, addr : Nat, depth : Nat, data : Seq(Nat)]
    /\ Len(call.data) = call.depth
    /\ remaining \in 0 .. call.depth
    /\ todo \in Seq([op : Ops, addr : Nat, data : Nat, strict : BOOLEAN])
    /\ phase \in {"command", "asking"} => todo # <<>>

\* Nothing is ahead of the call being made, and packets wait in the order of
\* their calls.
NoneAhead ==
    /\ \A i \in DOMAIN backlog : backlog[i].call <= calls
    /\ \A i, j \in DOMAIN backlog : i < j => backlog[i].call < backlog[j].call
    /\ \A i \in DOMAIN log : log[i].call <= calls
    /\ answer.call <= calls

LogBefore(n)  == \A i \in DOMAIN log : log[i].call < n
LogEnds(n, k) == log # <<>> /\ log[Len(log)].call = n /\ log[Len(log)].index = k

\* The first packet of a call finds no word of it in the log; another one is
\* next and finds the word before its first one as the last in the log.
PacketsContinue ==
    \A i \in DOMAIN backlog :
        LET p == backlog[i]
        IN  IF p.first = 0 THEN LogBefore(p.call) ELSE i = 1 /\ LogEnds(p.call, p.first)

\* Before a part is sent there is no other packet of the call, and no answer
\* that could be taken for the part's.
BetweenParts ==
    phase = "looping" =>
        /\ call.n = calls /\ remaining > 0
        /\ \A i \in DOMAIN backlog : backlog[i].call < calls
        /\ IF First = 0 THEN LogBefore(calls) ELSE backlog = <<>> /\ LogEnds(calls, First)
        /\ answer.call = calls => answer.first < First

\* When the answer is there, the part is what was done last.
PartOut ==
    phase = "waiting" =>
        /\ call.n = calls /\ remaining > 0
        /\ \A i \in DOMAIN backlog :
              backlog[i].call = calls => backlog[i].first = First /\ backlog[i].words = Words
        /\ Answered(calls, First) => backlog = <<>> /\ LogEnds(calls, First + Words)

RunInv == /\ ExchangeTypeOK /\ ClientTypeOK /\ NoneAhead /\ PacketsContinue
          /\ BetweenParts /\ PartOut /\ InOneRun

-----------------------------------------------------------------------------
\* Nothing was asked and nothing done at the start.
LEMMA InvInit == Init => RunInv
<1> SUFFICES ASSUME Init PROVE RunInv
    OBVIOUS
<1> USE DEF Init, BlockInit, ExchangeInit
<1>1. ExchangeTypeOK /\ ClientTypeOK
    BY DEF ExchangeTypeOK, ClientTypeOK, Ops
<1>2. NoneAhead /\ PacketsContinue /\ BetweenParts /\ PartOut /\ InOneRun
    BY DEF NoneAhead, PacketsContinue, BetweenParts, PartOut, InOneRun
<1> QED BY <1>1, <1>2 DEF RunInv

\* A packet takes at least one word and never more than its header can say.
LEMMA WordsInHeader ==
    ASSUME ClientTypeOK, remaining > 0
    PROVE  /\ Words \in 1 .. remaining
           /\ Words % WordRange = Words
           /\ First \in 0 .. call.depth - 1
<1>1. Words \in 1 .. remaining /\ Words < WordRange /\ First \in 0 .. call.depth - 1
    BY BlockAssumption DEF ClientTypeOK, Words, First
<1>2. \A a, b \in Nat : a < b => a % b = a
    OBVIOUS
<1>3. Words \in Nat /\ WordRange \in Nat
    BY <1>1, BlockAssumption DEF ClientTypeOK
<1> QED BY <1>1, <1>2, <1>3

\* A slice of a sequence.
LEMMA SliceIs ==
    ASSUME NEW d \in Seq(Nat), NEW f \in Nat, NEW w \in Nat, f + w <= Len(d)
    PROVE  /\ SubSeq(d, f + 1, f + w) \in Seq(Nat) /\ Len(SubSeq(d, f + 1, f + w)) = w
           /\ \A j \in 1 .. w : SubSeq(d, f + 1, f + w)[j] = d[f + j]
<1> DEFINE m == f + 1
           n == f + w
<1>1. /\ m \in 1 .. Len(d) + 1 /\ n \in m - 1 .. Len(d) /\ n - m + 1 = w
      /\ m \in Int /\ n \in Int
      /\ \A j \in 1 .. w : m + j - 1 = f + j
    OBVIOUS
<1> HIDE DEF m, n
<1>2. /\ SubSeq(d, m, n) \in Seq(Nat) /\ Len(SubSeq(d, m, n)) = n - m + 1
      /\ \A j \in 1 .. n - m + 1 : SubSeq(d, m, n)[j] = d[m + j - 1]
    BY <1>1
<1> QED BY <1>1, <1>2 DEF m, n

\* A part takes its words from the data in the order they are there.
LEMMA SliceFacts ==
    ASSUME ClientTypeOK, remaining > 0,
           NEW d, d = SubSeq(call.data, First + 1, First + Words)
    PROVE  d \in Seq(Nat) /\ Len(d) = Words /\ \A j \in 1 .. Words : d[j] = call.data[First + j]
<1>1. /\ call.data \in Seq(Nat) /\ Len(call.data) = call.depth
      /\ remaining \in Nat /\ call.depth \in Nat
    BY DEF ClientTypeOK
<1>2. Words \in 1 .. remaining /\ First \in Nat /\ First = call.depth - remaining
    BY <1>1, WordsInHeader DEF First
<1>3. Words \in Nat /\ First + Words <= call.depth
    BY <1>1, <1>2
<1>4. First + Words <= Len(call.data)
    BY <1>1, <1>3
<1> DEFINE e == call.data
           f == First
           w == Words
<1>5. /\ e \in Seq(Nat) /\ f \in Nat /\ w \in Nat /\ f + w <= Len(e)
      /\ d = SubSeq(e, f + 1, f + w)
    <2>1. e \in Seq(Nat) /\ f \in Nat /\ w \in Nat /\ f + w <= Len(e)
        BY <1>1, <1>2, <1>3, <1>4
    <2> QED BY <2>1
<1> HIDE DEF e, f, w
<1>6. /\ SubSeq(e, f + 1, f + w) \in Seq(Nat) /\ Len(SubSeq(e, f + 1, f + w)) = w
      /\ \A j \in 1 .. w : SubSeq(e, f + 1, f + w)[j] = e[f + j]
    BY <1>5, SliceIs, Zenon
<1> QED BY <1>5, <1>6 DEF e, f, w

\* What performing the first k words of the oldest packet leaves.
LEMMA PerformedFacts ==
    ASSUME ExchangeTypeOK, NEW k \in Nat, Perform(k)
    PROVE  /\ backlog # <<>> /\ k <= backlog[1].words /\ backlog[1] \in Packets
           /\ Len(log') = Len(log) + k
           /\ \A i \in 1 .. Len(log) : log'[i] = log[i]
           /\ \A j \in 1 .. k : log'[Len(log) + j] = Access(backlog[1], j)
           /\ log' \in Seq(Entries)
           /\ backlog' \in Seq(Packets) /\ Len(backlog') = Len(backlog) - 1
           /\ \A i \in 1 .. Len(backlog) - 1 : backlog'[i] = backlog[i + 1]
<1> USE DEF ExchangeTypeOK
<1>1. backlog # <<>> /\ Head(backlog) = backlog[1] /\ k \in 0 .. backlog[1].words
    BY DEF Perform
<1>2. backlog[1] \in Packets
    BY <1>1
<1> DEFINE moved == [j \in 1 .. k |-> Access(backlog[1], j)]
<1>3. moved \in Seq(Entries) /\ Len(moved) = k
    <2>1. ASSUME NEW j \in 1 .. k, NEW p \in Packets, k \in 0 .. p.words
          PROVE  Access(p, j) \in Entries
        <3>1. /\ p.call \in Nat /\ p.first + j \in Nat /\ p.op \in Ops
              /\ p.addr + (IF p.fifo THEN 0 ELSE j - 1) \in Nat
            BY DEF Packets
        <3>2. p.data[j] \in Nat
            BY <2>1 DEF Packets
        <3> QED BY <3>1, <3>2 DEF Access, Entries
    <2> QED BY <1>1, <1>2, <2>1
<1>4. log' = log \o moved
    BY <1>1 DEF Perform
<1> HIDE DEF moved
<1>5. /\ log' \in Seq(Entries) /\ Len(log') = Len(log) + k
      /\ \A i \in 1 .. Len(log) : log'[i] = log[i]
      /\ \A j \in 1 .. k : log'[Len(log) + j] = moved[j]
    <2>1. /\ log' \in Seq(Entries) /\ Len(log') = Len(log) + Len(moved)
          /\ \A i \in 1 .. Len(log) + Len(moved) :
                log'[i] = IF i <= Len(log) THEN log[i] ELSE moved[i - Len(log)]
        BY <1>3, <1>4, ConcatProperties, Zenon
    <2>2. ASSUME NEW j \in 1 .. k
          PROVE  log'[Len(log) + j] = moved[j]
        <3>1. Len(log) + j \in 1 .. Len(log) + Len(moved) /\ ~(Len(log) + j <= Len(log))
              /\ Len(log) + j - Len(log) = j
            BY <1>3
        <3> QED BY <2>1, <3>1
    <2> QED BY <1>3, <2>1, <2>2
<1>6. \A j \in 1 .. k : moved[j] = Access(backlog[1], j)
    BY DEF moved
<1>7. /\ backlog' \in Seq(Packets) /\ Len(backlog') = Len(backlog) - 1
      /\ \A i \in 1 .. Len(backlog) - 1 : backlog'[i] = backlog[i + 1]
    BY <1>1 DEF Perform
<1>8. k <= backlog[1].words
    BY <1>1, <1>2 DEF Packets
<1> QED BY <1>1, <1>2, <1>5, <1>6, <1>7, <1>8

\* The target performs a packet, whole or in part.
LEMMA PerformKeeps ==
    ASSUME RunInv, NEW k \in Nat, Perform(k), UNCHANGED <<blockVars, ctuVars>>
    PROVE  RunInv'
<1> DEFINE p == backlog[1]
<1> USE DEF blockVars, ctuVars
<1>1. /\ ExchangeTypeOK /\ ClientTypeOK /\ NoneAhead /\ PacketsContinue
      /\ BetweenParts /\ PartOut /\ InOneRun
    BY DEF RunInv
<1>2. /\ backlog # <<>> /\ k <= p.words /\ p \in Packets /\ p = backlog[1]
      /\ Len(log') = Len(log) + k
      /\ \A i \in 1 .. Len(log) : log'[i] = log[i]
      /\ \A j \in 1 .. k : log'[Len(log) + j] = Access(p, j)
      /\ log' \in Seq(Entries)
      /\ backlog' \in Seq(Packets) /\ Len(backlog') = Len(backlog) - 1
      /\ \A i \in 1 .. Len(backlog) - 1 : backlog'[i] = backlog[i + 1]
    BY <1>1, PerformedFacts
<1>3. /\ answer' = IF k = p.words
                   THEN [call |-> p.call, first |-> p.first, words |-> p.words, at |-> Len(log)]
                   ELSE answer
      /\ UNCHANGED <<phase, calls, call, remaining, todo>>
    BY DEF Perform
<1> HIDE DEF p
<1>4. /\ DOMAIN log = 1 .. Len(log) /\ DOMAIN log' = 1 .. Len(log) + k
      /\ DOMAIN backlog = 1 .. Len(backlog) /\ DOMAIN backlog' = 1 .. Len(backlog) - 1
      /\ Len(log) \in Nat /\ Len(backlog) \in Nat /\ 1 \in DOMAIN backlog
    BY <1>1, <1>2 DEF ExchangeTypeOK
<1>5. \A j \in 1 .. k : log'[Len(log) + j].call = p.call /\ log'[Len(log) + j].index = p.first + j
    <2> SUFFICES ASSUME NEW j \in 1 .. k
                 PROVE  /\ log'[Len(log) + j].call = p.call
                        /\ log'[Len(log) + j].index = p.first + j
        OBVIOUS
    <2>1. log'[Len(log) + j] = Access(p, j)
        BY <1>2
    <2>2. Access(p, j).call = p.call /\ Access(p, j).index = p.first + j
        BY DEF Access
    <2> QED BY <2>1, <2>2
\* Every entry of the new log is an old one or one of the packet.
<1>6. \A i \in DOMAIN log' : i \in DOMAIN log \/ \E j \in 1 .. k : i = Len(log) + j
    <2> SUFFICES ASSUME NEW i \in DOMAIN log', i \notin DOMAIN log
                 PROVE  \E j \in 1 .. k : i = Len(log) + j
        OBVIOUS
    <2>1. i - Len(log) \in 1 .. k /\ i = Len(log) + (i - Len(log))
        BY <1>4
    <2> QED BY <2>1, Zenon
<1>7. p.call \in Nat /\ p.first \in Nat /\ p.words \in Nat /\ p.call <= calls
    BY <1>1, <1>2, <1>4 DEF Packets, NoneAhead
<1>8. ExchangeTypeOK' /\ ClientTypeOK'
    BY <1>1, <1>2, <1>3, <1>4, <1>7 DEF ExchangeTypeOK, ClientTypeOK
<1>9. NoneAhead'
    <2>1. \A i \in DOMAIN backlog' : i + 1 \in DOMAIN backlog /\ backlog'[i] = backlog[i + 1]
        BY <1>2, <1>4
    <2>2. (\A i \in DOMAIN backlog : backlog[i].call <= calls)'
        BY <1>1, <1>3, <2>1 DEF NoneAhead
    <2>3. ASSUME NEW i \in DOMAIN backlog', NEW j \in DOMAIN backlog', i < j
          PROVE  backlog'[i].call < backlog'[j].call
        <3>1. i + 1 < j + 1
            BY <1>4, <2>3
        <3> QED BY <1>1, <2>1, <3>1 DEF NoneAhead
    <2>4. (\A i \in DOMAIN log : log[i].call <= calls)'
        <3>1. ASSUME NEW i \in DOMAIN log PROVE log'[i].call <= calls
            BY <1>1, <1>2, <1>4, <3>1 DEF NoneAhead
        <3>2. ASSUME NEW j \in 1 .. k PROVE log'[Len(log) + j].call <= calls
            BY <1>5, <1>7, <3>2
        <3> QED BY <1>3, <1>6, <3>1, <3>2
    <2>5. (answer.call <= calls)'
        BY <1>1, <1>3, <1>7 DEF NoneAhead
    <2> QED BY <2>2, <2>4, <2>5, <2>3 DEF NoneAhead
\* All words that are new in the log are of an earlier call than those behind it.
<1>10. ASSUME NEW n \in Nat, LogBefore(n), p.call < n
       PROVE  \A i \in DOMAIN log' : log'[i].call < n
    <2>1. ASSUME NEW i \in DOMAIN log PROVE log'[i].call < n
        BY <1>2, <1>4, <1>10, <2>1 DEF LogBefore
    <2>2. ASSUME NEW j \in 1 .. k PROVE log'[Len(log) + j].call < n
        BY <1>5, <1>10, <2>2
    <2> QED BY <1>6, <2>1, <2>2
<1>11. PacketsContinue'
    <2> SUFFICES ASSUME NEW i \in DOMAIN backlog'
                 PROVE  (IF backlog[i].first = 0 THEN LogBefore(backlog[i].call)
                         ELSE i = 1 /\ LogEnds(backlog[i].call, backlog[i].first))'
        BY DEF PacketsContinue
    <2>1. i + 1 \in DOMAIN backlog /\ backlog'[i] = backlog[i + 1] /\ i + 1 # 1 /\ 1 < i + 1
        BY <1>2, <1>4
    <2>2. backlog[i + 1].first = 0 /\ LogBefore(backlog[i + 1].call)
        BY <1>1, <2>1 DEF PacketsContinue
    <2>3. p.call < backlog[i + 1].call /\ backlog[i + 1].call \in Nat
        <3>1. backlog[i + 1] \in Packets
            BY <1>1, <1>4, <2>1 DEF ExchangeTypeOK
        <3> QED BY <1>1, <1>2, <1>4, <2>1, <3>1 DEF NoneAhead, Packets
    <2>4. \A j \in DOMAIN log' : log'[j].call < backlog'[i].call
        BY <1>10, <2>1, <2>2, <2>3
    <2> QED BY <2>1, <2>2, <2>4 DEF LogBefore
<1>12. BetweenParts'
    <2> SUFFICES ASSUME phase = "looping"
                 PROVE  BetweenParts'
        BY <1>3 DEF BetweenParts
    <2>1. /\ call.n = calls /\ remaining > 0 /\ p.call < calls
          /\ First = 0 /\ LogBefore(calls)
          /\ answer.call = calls => answer.first < First
          /\ First' = First
        BY <1>1, <1>2, <1>3, <1>4 DEF BetweenParts, First
    <2>2. LogBefore(calls)'
        <3>1. calls \in Nat
            BY <1>1 DEF ExchangeTypeOK
        <3> QED BY <1>3, <1>10, <2>1, <3>1 DEF LogBefore
    <2>3. (\A i \in DOMAIN backlog : backlog[i].call < calls)'
        <3>1. \A i \in DOMAIN backlog' : i + 1 \in DOMAIN backlog /\ backlog'[i] = backlog[i + 1]
            BY <1>2, <1>4
        <3> QED BY <1>1, <1>3, <3>1 DEF BetweenParts
    <2>4. (answer.call = calls => answer.first < First)'
        BY <1>3, <1>7, <2>1
    <2> QED BY <1>3, <2>1, <2>2, <2>3, <2>4 DEF BetweenParts
<1>13. PartOut'
    <2> SUFFICES ASSUME phase = "waiting"
                 PROVE  PartOut'
        BY <1>3 DEF PartOut
    <2>1. /\ call.n = calls /\ remaining > 0 /\ First' = First /\ Words' = Words
          /\ \A i \in DOMAIN backlog :
                backlog[i].call = calls => backlog[i].first = First /\ backlog[i].words = Words
          /\ ~Answered(calls, First)
        BY <1>1, <1>2, <1>3 DEF PartOut, First, Words
    <2>2. (\A i \in DOMAIN backlog :
             backlog[i].call = calls => backlog[i].first = First /\ backlog[i].words = Words)'
        <3>1. \A i \in DOMAIN backlog' : i + 1 \in DOMAIN backlog /\ backlog'[i] = backlog[i + 1]
            BY <1>2, <1>4
        <3> QED BY <1>3, <2>1, <3>1
    <2>3. ASSUME Answered(calls, First)'
          PROVE  (backlog = <<>> /\ LogEnds(calls, First + Words))'
        <3>1. k = p.words /\ p.call = calls /\ p.first = First /\ p.words = Words
            BY <1>2, <1>3, <1>4, <2>1, <2>3 DEF Answered
        <3>2. Len(backlog) = 1
            <4> SUFFICES ASSUME 2 \in DOMAIN backlog PROVE FALSE
                BY <1>4
            <4>1. backlog[2].call <= calls /\ backlog[1].call < backlog[2].call
                BY <1>1, <1>4 DEF NoneAhead
            <4>2. backlog[2] \in Packets /\ calls \in Nat
                BY <1>1, <1>4 DEF ExchangeTypeOK
            <4>3. backlog[2].call \in Nat
                BY <4>2 DEF Packets
            <4> QED BY <1>2, <3>1, <4>1, <4>2, <4>3
        <3>3. backlog' = <<>>
            BY <1>2, <3>2
        <3>4. k \in 1 .. k
            BY <1>1, <2>1, <3>1, WordsInHeader
        <3>5. LogEnds(calls, First + Words)'
            BY <1>2, <1>3, <1>4, <1>5, <2>1, <3>1, <3>4 DEF LogEnds
        <3> QED BY <3>3, <3>5
    <2> QED BY <1>3, <2>1, <2>2, <2>3 DEF PartOut
<1>14. InOneRun'
    <2> SUFFICES ASSUME NEW i \in DOMAIN log'
                 PROVE  IF log'[i].index = 1 THEN i = 1 \/ log'[i - 1].call < log'[i].call
                        ELSE /\ i > 1
                             /\ log'[i].call = log'[i - 1].call
                             /\ log'[i].index = log'[i - 1].index + 1
        BY DEF InOneRun
    <2>1. CASE i \in DOMAIN log
        <3>1. log'[i] = log[i] /\ (i > 1 => log'[i - 1] = log[i - 1])
            BY <1>2, <1>4, <2>1
        <3> QED BY <1>1, <1>4, <2>1, <3>1 DEF InOneRun
    <2>2. ASSUME NEW j \in 1 .. k, i = Len(log) + j, j > 1
          PROVE  /\ log'[i].index # 1 /\ i > 1
                 /\ log'[i].call = log'[i - 1].call
                 /\ log'[i].index = log'[i - 1].index + 1
        <3>1. i - 1 = Len(log) + (j - 1) /\ j - 1 \in 1 .. k
            BY <1>4, <2>2
        <3>2. /\ log'[i].call = p.call /\ log'[i - 1].call = p.call
              /\ log'[i].index = p.first + j /\ log'[i - 1].index = p.first + (j - 1)
            BY <1>5, <2>2, <3>1
        <3>3. p.first \in Nat /\ Len(log) \in Nat /\ j \in Nat
            BY <1>4, <1>7
        <3>4. p.first + j # 1 /\ i > 1 /\ p.first + j = (p.first + (j - 1)) + 1
            BY <2>2, <3>3
        <3> QED BY <3>2, <3>4
    <2>3. CASE i = Len(log) + 1 /\ 1 \in 1 .. k
        <3>1. log'[i].call = p.call /\ log'[i].index = p.first + 1
            BY <1>5, <2>3
        <3>2. log # <<>> => i - 1 \in DOMAIN log /\ log'[i - 1] = log[Len(log)] /\ i > 1
            <4> SUFFICES ASSUME log # <<>>
                         PROVE  i - 1 \in DOMAIN log /\ log'[i - 1] = log[Len(log)] /\ i > 1
                OBVIOUS
            <4>1. Len(log) \in 1 .. Len(log)
                BY <1>1, <1>4 DEF ExchangeTypeOK
            <4>2. i - 1 = Len(log) /\ i > 1
                BY <2>3, <4>1
            <4> QED BY <1>2, <1>4, <4>1, <4>2
        <3>3. log = <<>> => i = 1
            BY <2>3
        <3>4. CASE p.first = 0
            <4>1. LogBefore(p.call)
                BY <1>1, <1>2, <1>4, <3>4 DEF PacketsContinue
            <4> QED BY <1>4, <2>3, <3>1, <3>2, <3>3, <3>4, <4>1 DEF LogBefore
        <3>5. CASE p.first # 0
            <4>1. LogEnds(p.call, p.first)
                BY <1>1, <1>2, <1>4, <3>5 DEF PacketsContinue
            <4> QED BY <1>7, <3>1, <3>2, <3>5, <4>1 DEF LogEnds
        <3> QED BY <3>4, <3>5
    <2>4. ASSUME NEW j \in 1 .. k, i = Len(log) + j
          PROVE  j > 1 \/ (i = Len(log) + 1 /\ 1 \in 1 .. k)
        BY <2>4
    <2> QED BY <1>6, <2>1, <2>2, <2>3, <2>4
<1> QED BY <1>8, <1>9, <1>11, <1>12, <1>13, <1>14 DEF RunInv

\* A packet is lost.
LEMMA LoseKeeps ==
    ASSUME RunInv, LoseRequest, UNCHANGED <<blockVars, ctuVars>>
    PROVE  RunInv'
<1> USE DEF blockVars, ctuVars
<1>1. /\ ExchangeTypeOK /\ ClientTypeOK /\ NoneAhead /\ PacketsContinue
      /\ BetweenParts /\ PartOut /\ InOneRun
    BY DEF RunInv
<1>2. PICK i \in DOMAIN backlog :
        backlog' = [j \in 1 .. Len(backlog) - 1 |-> backlog[IF j < i THEN j ELSE j + 1]]
    BY DEF LoseRequest
<1>3. UNCHANGED <<phase, calls, answer, log, call, remaining, todo>>
    BY DEF LoseRequest
<1> DEFINE old(j) == IF j < i THEN j ELSE j + 1
<1>4. /\ DOMAIN backlog = 1 .. Len(backlog) /\ Len(backlog) \in Nat \ {0}
      /\ backlog \in Seq(Packets)
    BY <1>1 DEF ExchangeTypeOK
<1>5. /\ DOMAIN backlog' = 1 .. Len(backlog) - 1
      /\ \A j \in DOMAIN backlog' : old(j) \in DOMAIN backlog /\ old(j) >= j
                                    /\ backlog'[j] = backlog[old(j)]
      /\ \A j, k \in DOMAIN backlog' : j < k => old(j) < old(k)
    BY <1>2, <1>4
<1>6. backlog' \in Seq(Packets)
    <2>1. \A j \in 1 .. Len(backlog) - 1 : backlog[old(j)] \in Packets
        BY <1>4, <1>5
    <2>2. Len(backlog) - 1 \in Nat
        BY <1>4
    <2> QED BY <1>2, <2>1, <2>2
<1> HIDE DEF old
<1>7. ExchangeTypeOK' /\ ClientTypeOK'
    BY <1>1, <1>3, <1>6 DEF ExchangeTypeOK, ClientTypeOK
<1>8. NoneAhead'
    BY <1>1, <1>3, <1>5 DEF NoneAhead
<1>9. PacketsContinue'
    <2> SUFFICES ASSUME NEW j \in DOMAIN backlog'
                 PROVE  (IF backlog[j].first = 0 THEN LogBefore(backlog[j].call)
                         ELSE j = 1 /\ LogEnds(backlog[j].call, backlog[j].first))'
        BY DEF PacketsContinue
    <2>1. old(j) \in DOMAIN backlog /\ backlog'[j] = backlog[old(j)] /\ (old(j) = 1 => j = 1)
        BY <1>4, <1>5
    <2> QED BY <1>1, <1>3, <2>1 DEF PacketsContinue, LogBefore, LogEnds
<1>10. BetweenParts'
    BY <1>1, <1>3, <1>4, <1>5 DEF BetweenParts, First, LogBefore, LogEnds
<1>11. PartOut'
    BY <1>1, <1>3, <1>4, <1>5 DEF PartOut, First, Words, Answered
<1>12. InOneRun'
    BY <1>1, <1>3 DEF InOneRun
<1> QED BY <1>7, <1>8, <1>9, <1>10, <1>11, <1>12 DEF RunInv

\* The log is left alone and nothing is sent.
LEMMA BeginKeeps ==
    ASSUME RunInv, NEW op \in Ops, NEW fifo \in BOOLEAN, NEW item \in Items, NEW data \in Seq(Nat),
           Begin(op, fifo, item, data), UNCHANGED todo
    PROVE  RunInv'
<1> DEFINE depth == Len(data)
<1>1. /\ ExchangeTypeOK /\ ClientTypeOK /\ NoneAhead /\ PacketsContinue
      /\ BetweenParts /\ PartOut /\ InOneRun
    BY DEF RunInv
<1>2. phase = "idle" /\ UNCHANGED <<backlog, answer, log, todo>>
    BY DEF Begin
<1>3. InOneRun' /\ PacketsContinue'
    BY <1>1, <1>2 DEF InOneRun, PacketsContinue, LogBefore, LogEnds
<1>4. CASE Refusal(op, item, depth) = "none"
    <2>1. /\ calls' = calls + 1 /\ phase' = "looping" /\ remaining' = depth
          /\ call' = [n |-> calls', op |-> op, fifo |-> fifo, addr |-> item.addr,
                      depth |-> depth, data |-> data]
        BY <1>4 DEF Begin
    <2>2. depth # 0 /\ depth \in Nat /\ item.addr \in Nat
        BY <1>4, BlockAssumption DEF Refusal, Ops
    <2>3. ExchangeTypeOK' /\ ClientTypeOK'
        BY <1>1, <1>2, <2>1, <2>2 DEF ExchangeTypeOK, ClientTypeOK
    <2>4. /\ \A i \in DOMAIN backlog : backlog[i].call \in Nat
          /\ \A i \in DOMAIN log : log[i].call \in Nat
          /\ calls \in Nat /\ answer.call \in Nat
        <3>1. /\ \A i \in DOMAIN backlog : backlog[i] \in Packets
              /\ \A i \in DOMAIN log : log[i] \in Entries
              /\ calls \in Nat /\ answer.call \in Nat
            BY <1>1 DEF ExchangeTypeOK
        <3> QED BY <3>1 DEF Packets, Entries
    <2>5. /\ \A i \in DOMAIN backlog : backlog[i].call < calls + 1 /\ backlog[i].call <= calls + 1
          /\ \A i \in DOMAIN log : log[i].call < calls + 1 /\ log[i].call <= calls + 1
          /\ answer.call < calls + 1 /\ answer.call <= calls + 1
        BY <1>1, <2>4 DEF NoneAhead
    <2>6. NoneAhead'
        BY <1>1, <1>2, <2>1, <2>5 DEF NoneAhead
    <2>7. First' = 0
        BY <2>1, <2>2 DEF First
    <2>8. answer.call # calls + 1
        BY <2>4, <2>5
    <2>9. BetweenParts' /\ PartOut'
        BY <1>2, <2>1, <2>2, <2>5, <2>7, <2>8 DEF BetweenParts, PartOut, LogBefore
    <2> QED BY <1>3, <2>3, <2>9, <2>6 DEF RunInv
<1>5. CASE Refusal(op, item, depth) # "none"
    <2>1. UNCHANGED <<phase, calls, call, remaining>>
        BY <1>5 DEF Begin
    <2>2. ExchangeTypeOK' /\ ClientTypeOK' /\ NoneAhead' /\ BetweenParts' /\ PartOut'
        BY <1>1, <1>2, <2>1 DEF ExchangeTypeOK, ClientTypeOK, NoneAhead, BetweenParts, PartOut
    <2> QED BY <1>3, <2>2 DEF RunInv
<1> QED BY <1>4, <1>5

\* A packet is sent that has no other of its call before it and continues what
\* was done of the call.
LEMMA SendKeeps ==
    ASSUME ExchangeTypeOK, NoneAhead, PacketsContinue,
           NEW p \in Packets, backlog' = Append(backlog, p), UNCHANGED <<answer, log>>,
           p.call = calls', calls' \in Nat, calls <= calls',
           \A i \in DOMAIN backlog : backlog[i].call < calls',
           IF p.first = 0 THEN LogBefore(calls') ELSE backlog = <<>> /\ LogEnds(calls', p.first)
    PROVE  /\ ExchangeTypeOK' /\ NoneAhead' /\ PacketsContinue'
           /\ DOMAIN backlog' = DOMAIN backlog \cup {Len(backlog) + 1}
           /\ \A i \in DOMAIN backlog : backlog'[i] = backlog[i]
           /\ backlog'[Len(backlog) + 1] = p
           /\ backlog' # <<>>
<1>1. /\ backlog' \in Seq(Packets) /\ Len(backlog') = Len(backlog) + 1
      /\ \A i \in 1 .. Len(backlog) : backlog'[i] = backlog[i]
      /\ backlog'[Len(backlog) + 1] = p /\ backlog' # <<>>
    BY AppendProperties DEF ExchangeTypeOK
<1>2. /\ DOMAIN backlog = 1 .. Len(backlog) /\ Len(backlog) \in Nat
      /\ DOMAIN backlog' = DOMAIN backlog \cup {Len(backlog) + 1}
    BY <1>1 DEF ExchangeTypeOK
<1>3. ExchangeTypeOK'
    BY <1>1 DEF ExchangeTypeOK
<1>4. /\ \A i \in DOMAIN backlog : backlog[i].call \in Nat
      /\ \A i \in DOMAIN log : log[i].call \in Nat
      /\ calls \in Nat /\ answer.call \in Nat
    <2>1. /\ \A i \in DOMAIN backlog : backlog[i] \in Packets
          /\ \A i \in DOMAIN log : log[i] \in Entries
          /\ calls \in Nat /\ answer.call \in Nat
        BY DEF ExchangeTypeOK
    <2> QED BY <2>1 DEF Packets, Entries
<1>5. NoneAhead'
    <2>1. (\A i \in DOMAIN backlog : backlog[i].call <= calls)'
        BY <1>1, <1>2, <1>4
    <2>2. ASSUME NEW i \in DOMAIN backlog', NEW j \in DOMAIN backlog', i < j
          PROVE  backlog'[i].call < backlog'[j].call
        <3>1. CASE j = Len(backlog) + 1
            <4>1. i \in DOMAIN backlog
                BY <1>2, <2>2, <3>1
            <4> QED BY <1>1, <1>2, <3>1, <4>1
        <3>2. CASE j \in DOMAIN backlog
            <4>1. i \in DOMAIN backlog
                BY <1>2, <2>2, <3>2
            <4> QED BY <1>1, <1>2, <2>2, <3>2, <4>1 DEF NoneAhead
        <3> QED BY <1>2, <3>1, <3>2
    <2>3. (\A i \in DOMAIN log : log[i].call <= calls)' /\ (answer.call <= calls)'
        BY <1>4 DEF NoneAhead
    <2> QED BY <2>1, <2>2, <2>3 DEF NoneAhead
<1>6. PacketsContinue'
    <2>1. backlog = <<>> => Len(backlog) + 1 = 1
        OBVIOUS
    <2> QED BY <1>1, <1>2, <2>1 DEF PacketsContinue, LogBefore, LogEnds
<1> QED BY <1>1, <1>2, <1>3, <1>5, <1>6

\* What a block or FIFO call begins with.
LEMMA BegunWith ==
    ASSUME BlockCall
    PROVE  \/ \E op \in Ops, fifo \in BOOLEAN, item \in Items, data \in Seq(Nat) :
                 Begin(op, fifo, item, data)
           \/ SendPart \/ PartDone \/ PartFails
<1>1. ASSUME NEW depth \in Depths
      PROVE  [j \in 1 .. depth |-> 0] \in Seq(Nat)
    BY BlockAssumption
<1>2. DataLists \subseteq Seq(Nat) /\ "read" \in Ops /\ "write" \in Ops
    BY BlockAssumption DEF Ops
<1> QED BY <1>1, <1>2 DEF BlockCall

\* A part of a transfer is sent.
LEMMA SendPartKeeps ==
    ASSUME RunInv, SendPart, UNCHANGED todo
    PROVE  RunInv'
<1>1. /\ ExchangeTypeOK /\ ClientTypeOK /\ NoneAhead /\ PacketsContinue
      /\ BetweenParts /\ PartOut /\ InOneRun
    BY DEF RunInv
<1>2. /\ phase = "looping" /\ phase' = "waiting"
      /\ UNCHANGED <<calls, answer, log, call, remaining, todo>>
    BY DEF SendPart, blockVars
<1>3. /\ call.n = calls /\ remaining > 0
      /\ \A i \in DOMAIN backlog : backlog[i].call < calls
      /\ IF First = 0 THEN LogBefore(calls) ELSE backlog = <<>> /\ LogEnds(calls, First)
      /\ answer.call = calls => answer.first < First
    BY <1>1, <1>2 DEF BetweenParts
<1> DEFINE p == [call |-> call.n, first |-> First, op |-> call.op, fifo |-> call.fifo,
                 addr |-> call.addr + Offset, words |-> Words % WordRange,
                 data |-> SubSeq(call.data, First + 1, First + Words)]
<1>4. /\ Words \in 1 .. remaining /\ Words % WordRange = Words
      /\ First \in 0 .. call.depth - 1
    BY <1>1, <1>3, WordsInHeader
<1>5. p \in Packets
    <2>1. /\ call.n \in Nat /\ call.op \in Ops /\ call.fifo \in BOOLEAN /\ call.addr \in Nat
          /\ call.depth \in Nat /\ remaining \in Nat
        BY <1>1 DEF ClientTypeOK
    <2>2. First \in Nat /\ call.addr + Offset \in Nat /\ Words % WordRange \in Nat
        BY <1>4, <2>1 DEF Offset
    <2>3. p.data \in Seq(Nat) /\ Len(p.data) = Words % WordRange
        BY <1>1, <1>3, <1>4, SliceFacts
    <2> QED BY <2>1, <2>2, <2>3 DEF Packets
<1>6. p.call = calls /\ p.first = First /\ p.words = Words
    BY <1>3, <1>4
<1>7. backlog' = Append(backlog, p)
    BY DEF SendPart
<1> HIDE DEF p
<1>8. /\ ExchangeTypeOK' /\ NoneAhead' /\ PacketsContinue'
      /\ DOMAIN backlog' = DOMAIN backlog \cup {Len(backlog) + 1}
      /\ \A i \in DOMAIN backlog : backlog'[i] = backlog[i]
      /\ backlog'[Len(backlog) + 1] = p
    <2>1. calls \in Nat /\ calls <= calls
        BY <1>1 DEF ExchangeTypeOK
    <2>2. /\ p.call = calls' /\ calls' \in Nat /\ calls <= calls'
          /\ \A i \in DOMAIN backlog : backlog[i].call < calls'
          /\ IF p.first = 0 THEN LogBefore(calls')
             ELSE backlog = <<>> /\ LogEnds(calls', p.first)
        BY <1>2, <1>3, <1>6, <2>1
    <2> QED BY <1>1, <1>2, <1>5, <1>7, <2>2, SendKeeps
<1>9. ClientTypeOK' /\ BetweenParts' /\ InOneRun'
    BY <1>1, <1>2 DEF ClientTypeOK, BetweenParts, InOneRun
<1>10. PartOut'
    <2>1. First' = First /\ Words' = Words /\ First \in Nat
        BY <1>2, <1>4 DEF First, Words
    <2>2. ~Answered(calls, First)
        BY <1>1, <1>3, <2>1 DEF Answered, ExchangeTypeOK
    <2>3. ASSUME NEW i \in DOMAIN backlog', backlog'[i].call = calls
          PROVE  backlog'[i] = p
        <3>1. \A j \in DOMAIN backlog : backlog[j].call # calls
            <4>1. \A j \in DOMAIN backlog : backlog[j] \in Packets
                BY <1>1 DEF ExchangeTypeOK
            <4>2. \A j \in DOMAIN backlog : backlog[j].call \in Nat
                BY <4>1 DEF Packets
            <4> QED BY <1>1, <1>3, <4>2 DEF ExchangeTypeOK
        <3> QED BY <1>8, <2>3, <3>1
    <2>4. ~Answered(calls, First)'
        BY <1>2, <2>1, <2>2 DEF Answered
    <2> QED BY <1>2, <1>3, <1>6, <2>1, <2>3, <2>4 DEF PartOut
<1> QED BY <1>8, <1>9, <1>10 DEF RunInv

\* The answer to a part is taken; the next part goes on where it ended.
LEMMA PartDoneKeeps ==
    ASSUME RunInv, PartDone, UNCHANGED todo
    PROVE  RunInv'
<1>1. /\ ExchangeTypeOK /\ ClientTypeOK /\ NoneAhead /\ PacketsContinue
      /\ BetweenParts /\ PartOut /\ InOneRun
    BY DEF RunInv
<1>2. /\ phase = "waiting" /\ Answered(call.n, First) /\ remaining' = remaining - Words
      /\ phase' = IF remaining' = 0 THEN "idle" ELSE "looping"
      /\ UNCHANGED <<calls, backlog, answer, log, call, todo>>
    BY DEF PartDone
<1>3. /\ call.n = calls /\ remaining > 0 /\ backlog = <<>> /\ LogEnds(calls, First + Words)
      /\ answer.first = First
    BY <1>1, <1>2 DEF PartOut, Answered
<1>4. Words \in 1 .. remaining /\ First \in Nat
    BY <1>1, <1>3, WordsInHeader DEF ClientTypeOK
<1>5. remaining \in Nat /\ call.depth \in Nat /\ remaining <= call.depth
    BY <1>1 DEF ClientTypeOK
<1>6. remaining' \in 0 .. call.depth
    BY <1>2, <1>4, <1>5
<1>7. First' = First + Words /\ First' # 0 /\ First < First'
    BY <1>2, <1>4, <1>5 DEF First
<1>8. ExchangeTypeOK' /\ ClientTypeOK' /\ NoneAhead' /\ PacketsContinue' /\ InOneRun' /\ PartOut'
    BY <1>1, <1>2, <1>6 DEF ExchangeTypeOK, ClientTypeOK, NoneAhead, PacketsContinue, InOneRun,
       PartOut, LogBefore, LogEnds
<1>9. BetweenParts'
    BY <1>2, <1>3, <1>6, <1>7 DEF BetweenParts, LogEnds
<1> QED BY <1>8, <1>9 DEF RunInv

\* A step that is no part of a transfer, and sends nothing.
LEMMA OtherKeeps ==
    ASSUME RunInv, UNCHANGED <<calls, backlog, answer, log, call>>, ClientTypeOK',
           phase' \notin {"looping", "waiting"}
    PROVE  RunInv'
BY DEF RunInv, ExchangeTypeOK, NoneAhead, PacketsContinue, InOneRun, PartOut, BetweenParts,
   LogBefore, LogEnds

\* The steps of the commands are well formed.
LEMMA CommandsTyped ==
    ASSUME NEW c \in Commands
    PROVE  c \in Seq([op : Ops, addr : Nat, data : Nat, strict : BOOLEAN]) /\ c # <<>>
<1> DEFINE Steps == [op : Ops, addr : Nat, data : Nat, strict : BOOLEAN]
<1>1. trig_info \in Nat /\ force_trig \in Nat /\ other \in Nat
    BY CtuAssumption
<1>2. \A a \in {trig_info, force_trig, other}, b \in BOOLEAN, d \in Nat :
         get(a, b) \in Steps /\ set(a, d) \in Steps
    BY <1>1 DEF get, set, Ops
<1>3. \A a \in {trig_info, force_trig, other}, d \in Nat :
         [set(a, d) EXCEPT !.strict = TRUE] \in Steps
    BY <1>1 DEF set, Ops
<1>4. \A s, t \in Steps : <<s>> \in Seq(Steps) /\ <<s, t>> \in Seq(Steps)
    OBVIOUS
<1> HIDE DEF Steps
<1>5. Pulse(1) \in Seq(Steps) /\ Pulse(2) \in Seq(Steps) /\ TriggerInfo \in Seq(Steps)
    BY <1>2, <1>4 DEF Pulse, TriggerInfo
<1>6. /\ <<set(trig_info, 0)>> \in Seq(Steps) /\ <<get(other, FALSE)>> \in Seq(Steps)
      /\ <<get(other, TRUE)>> \in Seq(Steps) /\ <<set(other, 1)>> \in Seq(Steps)
      /\ <<get(other, TRUE), get(other, TRUE)>> \in Seq(Steps)
    BY <1>2, <1>4
<1>7. GetAndShow \subseteq Seq(Steps) /\ SetAndShow \subseteq Seq(Steps)
    <2>1. ASSUME NEW a \in {trig_info, other}
          PROVE  <<get(a, TRUE)>> \in Seq(Steps)
        BY <1>2, <1>4
    <2>2. ASSUME NEW a \in {trig_info, force_trig, other}, NEW d \in Typed
          PROVE  <<[set(a, d) EXCEPT !.strict = TRUE]>> \in Seq(Steps)
        <3>1. d \in Nat
            BY CtuAssumption
        <3>2. [set(a, d) EXCEPT !.strict = TRUE] \in Steps
            BY <1>3, <3>1
        <3> QED BY <1>4, <3>2, Zenon
    <2>3. GetAndShow \subseteq Seq(Steps)
        BY <2>1, Zenon DEF GetAndShow
    <2>4. SetAndShow \subseteq Seq(Steps)
        <3> SUFFICES ASSUME NEW x \in SetAndShow PROVE x \in Seq(Steps)
            OBVIOUS
        <3>1. PICK a \in {trig_info, force_trig, other}, d \in Typed :
                  x = <<[set(a, d) EXCEPT !.strict = TRUE]>>
            BY DEF SetAndShow
        <3> QED BY <2>2, <3>1, Zenon
    <2> QED BY <2>3, <2>4
<1>9. c \in Seq(Steps)
    BY <1>5, <1>6, <1>7 DEF Commands
<1>8. c # <<>>
    <2>1. ASSUME NEW a, NEW b PROVE <<a>> # <<>> /\ <<a, b>> # <<>>
        OBVIOUS
    <2>2. Pulse(1) # <<>> /\ Pulse(2) # <<>> /\ TriggerInfo # <<>>
          /\ <<>> \notin GetAndShow \cup SetAndShow
        BY <2>1 DEF Pulse, TriggerInfo, GetAndShow, SetAndShow
    <2> QED BY <2>1, <2>2 DEF Commands
<1> QED BY <1>8, <1>9 DEF Steps

\* A get or a set of a command is one packet of a call of its own.
LEMMA AskKeeps ==
    ASSUME RunInv, Ask
    PROVE  RunInv'
<1> DEFINE s == Head(todo)
           p == [call |-> calls', first |-> 0, op |-> s.op, fifo |-> FALSE,
                 addr |-> s.addr, words |-> 1, data |-> <<s.data>>]
<1>1. /\ ExchangeTypeOK /\ ClientTypeOK /\ NoneAhead /\ PacketsContinue
      /\ BetweenParts /\ PartOut /\ InOneRun
    BY DEF RunInv
<1>2. /\ phase = "command" /\ phase' = "asking" /\ calls' = calls + 1
      /\ backlog' = Append(backlog, p)
      /\ UNCHANGED <<answer, log, call, remaining, todo>>
    BY DEF Ask, blockVars
<1>3. s \in [op : Ops, addr : Nat, data : Nat, strict : BOOLEAN]
    <2>1. todo # <<>> /\ todo \in Seq([op : Ops, addr : Nat, data : Nat, strict : BOOLEAN])
        BY <1>1, <1>2 DEF ClientTypeOK
    <2> QED BY <2>1, HeadTailProperties
<1>4. p \in Packets /\ p.call = calls' /\ p.first = 0
    <2>1. /\ calls' \in Nat /\ s.op \in Ops /\ s.addr \in Nat /\ s.data \in Nat
          /\ FALSE \in BOOLEAN /\ 0 \in Nat /\ 1 \in Nat
        BY <1>1, <1>2, <1>3 DEF ExchangeTypeOK
    <2> HIDE DEF s
    <2>2. <<s.data>> \in Seq(Nat) /\ Len(<<s.data>>) = 1
        BY <2>1
    <2> QED BY <2>1, <2>2 DEF Packets
<1> HIDE DEF s, p
<1>5. ExchangeTypeOK' /\ NoneAhead' /\ PacketsContinue'
    <2>1. /\ \A i \in DOMAIN backlog : backlog[i].call \in Nat
          /\ \A i \in DOMAIN log : log[i].call \in Nat
          /\ calls \in Nat
        <3>1. /\ \A i \in DOMAIN backlog : backlog[i] \in Packets
              /\ \A i \in DOMAIN log : log[i] \in Entries
              /\ calls \in Nat
            BY <1>1 DEF ExchangeTypeOK
        <3> QED BY <3>1 DEF Packets, Entries
    <2>2. /\ \A i \in DOMAIN backlog : backlog[i].call < calls'
          /\ LogBefore(calls')
          /\ calls' \in Nat /\ calls <= calls'
        BY <1>1, <1>2, <2>1 DEF NoneAhead, LogBefore
    <2> QED BY <1>1, <1>2, <1>4, <2>2, SendKeeps
<1>6. ClientTypeOK' /\ InOneRun' /\ BetweenParts' /\ PartOut'
    BY <1>1, <1>2 DEF ClientTypeOK, InOneRun, BetweenParts, PartOut
<1> QED BY <1>5, <1>6 DEF RunInv

\* One lemma for every step of the machine.
LEMMA InvStep == RunInv /\ [Next]_vars => RunInv'
<1> SUFFICES ASSUME RunInv, [Next]_vars
             PROVE  RunInv'
    OBVIOUS
<1>1. ExchangeTypeOK /\ ClientTypeOK
    BY DEF RunInv
<1>2. CASE UNCHANGED vars
    <2>1. UNCHANGED <<phase, calls, backlog, answer, log, call, remaining, todo>>
        BY <1>2 DEF vars, exchangeVars, blockVars, ctuVars
    <2> QED BY <2>1 DEF RunInv, ExchangeTypeOK, ClientTypeOK, NoneAhead, PacketsContinue,
           BetweenParts, PartOut, InOneRun, LogBefore, LogEnds, First, Words, Answered
<1>3. CASE Command
    <2>1. todo' \in Commands /\ phase' = "command"
          /\ UNCHANGED <<calls, backlog, answer, log, call, remaining>>
        BY <1>3 DEF Command, blockVars
    <2>2. ClientTypeOK'
        BY <1>1, <2>1, CommandsTyped DEF ClientTypeOK
    <2> QED BY <2>1, <2>2, OtherKeeps
<1>4. CASE Ask
    BY <1>4, AskKeeps
<1>5. CASE Restart
    <2>1. phase' = "idle" /\ UNCHANGED <<calls, backlog, answer, log, call, remaining, todo>>
        BY <1>5 DEF Restart, blockVars, ctuVars
    <2>2. ClientTypeOK'
        BY <1>1, <2>1 DEF ClientTypeOK
    <2> QED BY <2>1, <2>2, OtherKeeps
<1>9. CASE GetRefused
    <2>1. phase' = "dead" /\ UNCHANGED <<calls, backlog, answer, log, call, remaining, todo>>
        BY <1>9 DEF GetRefused, blockVars
    <2>2. ClientTypeOK'
        BY <1>1, <2>1 DEF ClientTypeOK
    <2> QED BY <2>1, <2>2, OtherKeeps
<1>6. ASSUME NEW ok \in BOOLEAN, Step(ok)
      PROVE  RunInv'
    <2>1. /\ phase = "asking" /\ UNCHANGED <<calls, backlog, answer, log, call, remaining>>
          /\ \/ phase' = "dead" /\ todo' = <<>>
             \/ todo' = Tail(todo) /\ todo' = <<>> /\ phase' = "idle"
             \/ todo' = Tail(todo) /\ todo' # <<>> /\ phase' = "command"
        BY <1>6 DEF Step, blockVars
    <2>2. todo # <<>> /\ todo \in Seq([op : Ops, addr : Nat, data : Nat, strict : BOOLEAN])
        BY <1>1, <2>1 DEF ClientTypeOK
    <2>3. /\ Tail(todo) \in Seq([op : Ops, addr : Nat, data : Nat, strict : BOOLEAN])
          /\ <<>> \in Seq([op : Ops, addr : Nat, data : Nat, strict : BOOLEAN])
        BY <2>2
    <2>4. ClientTypeOK'
        BY <1>1, <2>1, <2>3 DEF ClientTypeOK
    <2> QED BY <2>1, <2>4, OtherKeeps
<1>7. CASE GlibBlockCall
    <2>1. UNCHANGED todo
        BY <1>7 DEF GlibBlockCall
    <2>2. ASSUME NEW op \in Ops, NEW fifo \in BOOLEAN, NEW item \in Items, NEW data \in Seq(Nat),
                 Begin(op, fifo, item, data)
          PROVE  RunInv'
        BY <2>1, <2>2, BeginKeeps
    <2>3. CASE SendPart
        BY <2>1, <2>3, SendPartKeeps
    <2>4. CASE PartDone
        BY <2>1, <2>4, PartDoneKeeps
    <2>5. CASE PartFails
        <3>1. /\ phase' = "idle" /\ remaining' = 0
              /\ UNCHANGED <<calls, backlog, answer, log, call, todo>>
            BY <2>1, <2>5 DEF PartFails
        <3>2. ClientTypeOK'
            BY <1>1, <3>1 DEF ClientTypeOK
        <3> QED BY <3>1, <3>2, OtherKeeps
    <2> QED BY <1>7, <2>2, <2>3, <2>4, <2>5, BegunWith DEF GlibBlockCall
<1>8. CASE Outside /\ UNCHANGED <<blockVars, ctuVars>>
    <2>1. ASSUME NEW k \in 0 .. MAX_BLOCK_TRANSFER_DEPTH, Perform(k)
          PROVE  RunInv'
        <3>1. k \in Nat
            BY BlockAssumption
        <3> QED BY <1>8, <2>1, <3>1, PerformKeeps
    <2>2. CASE LoseRequest
        BY <1>8, <2>2, LoseKeeps
    <2> QED BY <1>8, <2>1, <2>2 DEF Outside
<1> QED BY <1>2, <1>3, <1>4, <1>5, <1>6, <1>7, <1>8, <1>9 DEF Next

\* The inductive invariant: where the packets under way stand to the call being
\* made and to what was done already.
THEOREM RunInvariant == FairSpec => []RunInv
BY InvInit, InvStep, PTL DEF FairSpec

\* Block and FIFO transfers of ChipsBus.py and the commands over it move the
\* words of every call in one run, whatever is lost, late or done in part.
THEOREM CallsInOneRun == FairSpec => []InOneRun
<1>1. RunInv => InOneRun
    BY DEF RunInv
<1> QED BY <1>1, RunInvariant, PTL

-----------------------------------------------------------------------------
(***************************************************************************)
(* What the words of a call are, and what the client has of them.          *)
(***************************************************************************)
WordAt(i, j) ==
    /\ log[i].call = call.n /\ log[i].index = j
    /\ log[i].addr = call.addr + (IF call.fifo THEN 0 ELSE j - 1)
    /\ log[i].data = call.data[j]

LogEndsWith(n) == n <= Len(log) /\ \A j \in 1 .. n : WordAt(Len(log) - n + j, j)
GotFrom(s, n)  == got = IF call.op = "read" THEN [j \in 1 .. n |-> s + j] ELSE <<>>

\* The parts that were answered are the last things done, and read.
PartsSoFar == LogEndsWith(First) /\ GotFrom(Len(log) - First, First)

WholeBetween == phase = "looping" => PartsSoFar

WholePartOut ==
    phase = "waiting" =>
        /\ \A i \in DOMAIN backlog :
              backlog[i].call = calls =>
                 /\ PartsSoFar
                 /\ backlog[i].fifo = call.fifo /\ backlog[i].addr = call.addr + Offset
                 /\ \A j \in 1 .. Words : backlog[i].data[j] = call.data[First + j]
        /\ Answered(calls, First) =>
              /\ LogEndsWith(First + Words) /\ GotFrom(Len(log) - (First + Words), First)
              /\ answer.words = Words /\ answer.at = Len(log) - Words

WholeDone ==
    result.kind = "ok" =>
        \E s \in 0 .. Len(log) - call.depth :
            /\ \A j \in 1 .. call.depth : WordAt(s + j, j)
            /\ call.op = "read" => result.words = [j \in 1 .. call.depth |-> s + j]

WholeInv == WholeBetween /\ WholePartOut /\ WholeDone

\* The words of a call are where they were.
LEMMA SameWords ==
    ASSUME UNCHANGED <<log, call>>
    PROVE  \A i, j : WordAt(i, j)' <=> WordAt(i, j)
BY DEF WordAt

\* Before the first answer nothing is asked of the log.
LEMMA NothingYet ==
    ASSUME First = 0
    PROVE  /\ \A s \in Int : [j \in 1 .. 0 |-> s + j] = <<>>
           /\ log \in Seq(Entries) => (PartsSoFar <=> got = <<>>)
<1>1. \A s \in Int : [j \in 1 .. 0 |-> s + j] = <<>>
    OBVIOUS
<1>2. ASSUME log \in Seq(Entries)
      PROVE  PartsSoFar <=> got = <<>>
    <2>1. Len(log) \in Nat
        BY <1>2
    <2>2. LogEndsWith(0)
        BY <2>1 DEF LogEndsWith
    <2>3. GotFrom(Len(log) - 0, 0) <=> got = <<>>
        BY <1>1, <2>1 DEF GotFrom
    <2> QED BY <2>2, <2>3 DEF PartsSoFar
<1> QED BY <1>1, <1>2

\* The words of a part join those before it.
LEMMA RunsJoin ==
    ASSUME NEW s \in Nat, NEW a \in Nat, NEW b \in Nat
    PROVE  [j \in 1 .. a |-> s + j] \o [j \in 1 .. b |-> (s + a) + j] = [j \in 1 .. a + b |-> s + j]
<1> DEFINE x == [j \in 1 .. a |-> s + j]
           y == [j \in 1 .. b |-> (s + a) + j]
           z == [j \in 1 .. a + b |-> s + j]
<1>1. /\ x \in Seq(Nat) /\ y \in Seq(Nat) /\ z \in Seq(Nat)
      /\ Len(x) = a /\ Len(y) = b /\ Len(z) = a + b
    OBVIOUS
<1>2. /\ x \o y \in Seq(Nat) /\ Len(x \o y) = a + b
      /\ \A i \in 1 .. a + b : (x \o y)[i] = IF i <= a THEN x[i] ELSE y[i - a]
    BY <1>1, ConcatProperties
<1>3. ASSUME NEW i \in 1 .. a + b
      PROVE  (x \o y)[i] = z[i]
    <2>1. CASE i <= a
        BY <1>2, <2>1
    <2>2. CASE ~(i <= a)
        <3>1. i - a \in 1 .. b /\ (s + a) + (i - a) = s + i
            BY <2>2
        <3> QED BY <1>2, <2>2, <3>1
    <2> QED BY <2>1, <2>2
<1> HIDE DEF x, y, z
<1>4. x \o y = z
    BY <1>1, <1>2, <1>3, SeqEqual
<1> QED BY <1>4 DEF x, y, z

\* At the start nothing is being returned.
LEMMA WholeInit == Init => WholeInv
BY DEF Init, BlockInit, ExchangeInit, WholeInv, WholeBetween, WholePartOut, WholeDone

\* Growing the log keeps what was found in it.
LEMMA DoneStays ==
    ASSUME WholeDone, Len(log) \in Nat, Len(log') \in Nat, call.depth \in Nat,
           Len(log') >= Len(log), \A i \in 1 .. Len(log) : log'[i] = log[i],
           UNCHANGED <<call, result>>
    PROVE  WholeDone'
<1> SUFFICES ASSUME result.kind = "ok"
             PROVE  WholeDone'
    BY DEF WholeDone
<1>1. PICK s \in 0 .. Len(log) - call.depth :
        /\ \A j \in 1 .. call.depth : WordAt(s + j, j)
        /\ call.op = "read" => result.words = [j \in 1 .. call.depth |-> s + j]
    BY DEF WholeDone
<1>2. s \in 0 .. Len(log') - call.depth
    OBVIOUS
<1>3. ASSUME NEW j \in 1 .. call.depth
      PROVE  WordAt(s + j, j)'
    <2>1. s + j \in 1 .. Len(log)
        OBVIOUS
    <2> QED BY <1>1, <2>1 DEF WordAt
<1> QED BY <1>1, <1>2, <1>3 DEF WholeDone

\* The target performs a packet: the words of the part that is waited for are then
\* the last in the log, with those of the parts before in front of them.
LEMMA WholePerform ==
    ASSUME RunInv, WholeInv, NEW k \in Nat, Perform(k), UNCHANGED <<blockVars, ctuVars>>
    PROVE  WholeInv'
<1> DEFINE p == backlog[1]
<1>1. /\ ExchangeTypeOK /\ ClientTypeOK /\ NoneAhead /\ PacketsContinue
      /\ BetweenParts /\ PartOut /\ WholeBetween /\ WholePartOut /\ WholeDone
    BY DEF RunInv, WholeInv
<1>2. /\ backlog # <<>> /\ k <= p.words /\ p \in Packets /\ p = backlog[1]
      /\ Len(log') = Len(log) + k
      /\ \A i \in 1 .. Len(log) : log'[i] = log[i]
      /\ \A j \in 1 .. k : log'[Len(log) + j] = Access(p, j)
      /\ log' \in Seq(Entries)
      /\ backlog' \in Seq(Packets) /\ Len(backlog') = Len(backlog) - 1
      /\ \A i \in 1 .. Len(backlog) - 1 : backlog'[i] = backlog[i + 1]
    BY <1>1, PerformedFacts
<1>3. /\ answer' = IF k = p.words
                   THEN [call |-> p.call, first |-> p.first, words |-> p.words, at |-> Len(log)]
                   ELSE answer
      /\ UNCHANGED <<phase, calls, call, remaining, got, result>>
    BY DEF Perform, blockVars
<1> HIDE DEF p
<1>4. /\ DOMAIN backlog = 1 .. Len(backlog) /\ DOMAIN backlog' = 1 .. Len(backlog) - 1
      /\ Len(log) \in Nat /\ Len(backlog) \in Nat /\ 1 \in DOMAIN backlog
      /\ log \in Seq(Entries)
    BY <1>1, <1>2 DEF ExchangeTypeOK
<1>5. call.depth \in Nat /\ remaining \in 0 .. call.depth /\ call.addr \in Nat
    BY <1>1 DEF ClientTypeOK
<1>6. First \in Nat
    BY <1>5 DEF First
<1>7. First' = First /\ Words' = Words /\ Offset' = Offset
    BY <1>3 DEF First, Words, Offset
<1>8. WholeDone'
    <2>1. Len(log') \in Nat /\ Len(log') >= Len(log)
        BY <1>2, <1>4
    <2> QED BY <1>1, <1>2, <1>3, <1>4, <1>5, <2>1, DoneStays
\* A part that is the first leaves nothing to be kept.
<1>9. (First = 0 /\ PartsSoFar) => PartsSoFar'
    <2>1. First = 0 => (PartsSoFar <=> got = <<>>)
        BY <1>4, NothingYet
    <2>2. First' = 0 => (PartsSoFar' <=> got' = <<>>)
        <3>1. ASSUME First' = 0
              PROVE  PartsSoFar' <=> got' = <<>>
            <4>1. LogEndsWith(0)'
                BY <1>2, <1>4 DEF LogEndsWith
            <4>2. GotFrom(Len(log) - 0, 0)' <=> got' = <<>>
                <5>1. [j \in 1 .. 0 |-> (Len(log') - 0) + j] = <<>>
                    OBVIOUS
                <5> QED BY <5>1 DEF GotFrom
            <4> QED BY <1>7, <3>1, <4>1, <4>2 DEF PartsSoFar
        <3> QED BY <3>1
    <2> QED BY <1>3, <1>7, <2>1, <2>2
<1>10. WholeBetween'
    <2> SUFFICES ASSUME phase = "looping"
                 PROVE  PartsSoFar'
        BY <1>3 DEF WholeBetween
    <2>1. First = 0 /\ PartsSoFar
        BY <1>1, <1>2 DEF BetweenParts, WholeBetween
    <2> QED BY <1>9, <2>1
<1>11. WholePartOut'
    <2> SUFFICES ASSUME phase = "waiting"
                 PROVE  WholePartOut'
        BY <1>3 DEF WholePartOut
    <2>1. /\ remaining > 0 /\ call.n = calls
          /\ \A i \in DOMAIN backlog : backlog[i].call = calls =>
                /\ backlog[i].first = First /\ backlog[i].words = Words
                /\ PartsSoFar
                /\ backlog[i].fifo = call.fifo /\ backlog[i].addr = call.addr + Offset
                /\ \A j \in 1 .. Words : backlog[i].data[j] = call.data[First + j]
          /\ ~Answered(calls, First)
        BY <1>1, <1>2 DEF PartOut, WholePartOut
    <2>2. ASSUME NEW i \in DOMAIN backlog', backlog'[i].call = calls
          PROVE  /\ PartsSoFar'
                 /\ backlog'[i].fifo = call.fifo /\ backlog'[i].addr = call.addr + Offset
                 /\ \A j \in 1 .. Words : backlog'[i].data[j] = call.data[First + j]
        <3>1. i + 1 \in DOMAIN backlog /\ backlog'[i] = backlog[i + 1] /\ i + 1 # 1
            BY <1>2, <1>4
        <3>2. First = 0
            BY <1>1, <2>1, <2>2, <3>1 DEF PacketsContinue
        <3> QED BY <1>9, <2>1, <2>2, <3>1, <3>2
    <2>3. ASSUME Answered(calls, First)'
          PROVE  (/\ LogEndsWith(First + Words) /\ GotFrom(Len(log) - (First + Words), First)
                  /\ answer.words = Words /\ answer.at = Len(log) - Words)'
        <3>1. k = p.words /\ p.call = calls /\ p.first = First
            BY <1>2, <1>3, <1>4, <1>7, <2>1, <2>3 DEF Answered
        <3>2. /\ p.words = Words /\ p.fifo = call.fifo /\ p.addr = call.addr + Offset
              /\ LogEndsWith(First) /\ GotFrom(Len(log) - First, First)
              /\ \A j \in 1 .. Words : p.data[j] = call.data[First + j]
            BY <1>2, <1>4, <2>1, <3>1 DEF PartsSoFar
        <3>3. Words \in Nat /\ k = Words
            BY <1>1, <2>1, <3>1, <3>2, WordsInHeader DEF ClientTypeOK
        <3>4. Len(log') - (First + Words) = Len(log) - First
            BY <1>2, <1>4, <1>6, <3>3
        <3>5. ASSUME NEW j \in 1 .. First + Words
              PROVE  WordAt(Len(log) - (First + Words) + j, j)'
            <4>1. CASE j \in 1 .. First
                <5>1. Len(log) - First + j \in 1 .. Len(log)
                    BY <1>4, <1>6, <3>2, <4>1 DEF LogEndsWith
                <5>2. WordAt(Len(log) - First + j, j)
                    BY <3>2, <4>1 DEF LogEndsWith
                <5>3. log'[Len(log) - First + j] = log[Len(log) - First + j]
                    BY <1>2, <5>1
                <5> QED BY <1>3, <1>7, <3>4, <5>2, <5>3 DEF WordAt
            <4>2. CASE j \notin 1 .. First
                <5>1. j - First \in 1 .. k /\ Len(log) - First + j = Len(log) + (j - First)
                    BY <1>4, <1>6, <3>3, <4>2
                <5>2. log'[Len(log) - First + j] = Access(p, j - First)
                    BY <1>2, <5>1
                <5>3. p.first + (j - First) = j
                    BY <1>6, <3>1
                <5>4. p.addr + (IF p.fifo THEN 0 ELSE (j - First) - 1)
                        = call.addr + (IF call.fifo THEN 0 ELSE j - 1)
                    <6>1. CASE call.fifo
                        BY <1>5, <3>2, <6>1 DEF Offset
                    <6>2. CASE ~call.fifo
                        <7>1. p.addr = call.addr + First
                            BY <3>2, <6>2 DEF Offset
                        <7> QED BY <1>6, <1>5, <3>2, <6>2, <7>1
                    <6> QED BY <6>1, <6>2
                <5>5. /\ Access(p, j - First).call = calls
                      /\ Access(p, j - First).index = j
                      /\ Access(p, j - First).addr = call.addr + (IF call.fifo THEN 0 ELSE j - 1)
                    BY <3>1, <5>3, <5>4 DEF Access
                <5>6. Access(p, j - First).data = call.data[j]
                    <6>1. j - First \in 1 .. Words /\ First + (j - First) = j
                        BY <1>6, <3>3, <5>1
                    <6> QED BY <3>2, <6>1 DEF Access
                <5> QED BY <1>3, <1>7, <2>1, <3>4, <5>2, <5>5, <5>6 DEF WordAt
            <4> QED BY <4>1, <4>2
        <3>6. LogEndsWith(First + Words)'
            <4>1. First + Words <= Len(log')
                BY <1>2, <1>4, <1>6, <3>2, <3>3 DEF LogEndsWith
            <4> QED BY <1>7, <3>5, <4>1 DEF LogEndsWith
        <3>7. GotFrom(Len(log) - (First + Words), First)'
            BY <1>3, <1>7, <3>2, <3>4 DEF GotFrom
        <3>8. (answer.words = Words /\ answer.at = Len(log) - Words)'
            BY <1>2, <1>3, <1>4, <1>7, <3>1, <3>2, <3>3
        <3> QED BY <3>6, <3>7, <3>8
    <2> QED BY <1>3, <1>7, <2>2, <2>3 DEF WholePartOut
<1> QED BY <1>8, <1>10, <1>11 DEF WholeInv

\* Steps that leave log, call, got and result alone and send nothing.
LEMMA WholeOther ==
    ASSUME RunInv, WholeInv, UNCHANGED <<log, call, result>>,
           phase' \notin {"looping", "waiting"}
    PROVE  WholeInv'
BY DEF WholeInv, WholeBetween, WholePartOut, WholeDone, WordAt

\* A packet that is lost leaves the log as it is.
LEMMA WholeLose ==
    ASSUME RunInv, WholeInv, LoseRequest, UNCHANGED <<blockVars, ctuVars>>
    PROVE  WholeInv'
<1>1. /\ ExchangeTypeOK /\ BetweenParts /\ WholeBetween /\ WholePartOut /\ WholeDone
    BY DEF RunInv, WholeInv
<1>2. PICK i \in DOMAIN backlog :
        backlog' = [j \in 1 .. Len(backlog) - 1 |-> backlog[IF j < i THEN j ELSE j + 1]]
    BY DEF LoseRequest
<1>3. UNCHANGED <<phase, calls, answer, log, call, remaining, got, result>>
    BY DEF LoseRequest, blockVars
<1>4. \A j \in DOMAIN backlog' : \E k \in DOMAIN backlog : backlog'[j] = backlog[k]
    <2>1. DOMAIN backlog = 1 .. Len(backlog) /\ Len(backlog) \in Nat
        BY <1>1 DEF ExchangeTypeOK
    <2> QED BY <1>2, <2>1
<1>5. (PartsSoFar <=> PartsSoFar') /\ Offset' = Offset /\ First' = First /\ Words' = Words
    BY <1>3 DEF PartsSoFar, LogEndsWith, GotFrom, WordAt, Offset, First, Words
<1>6. WholeBetween' /\ WholeDone'
    BY <1>1, <1>3, <1>5, SameWords DEF WholeBetween, WholeDone
<1>7. WholePartOut'
    BY <1>1, <1>3, <1>4, <1>5
       DEF WholePartOut, LogEndsWith, GotFrom, WordAt, Answered
<1> QED BY <1>6, <1>7 DEF WholeInv

\* A call begins with no word moved and none to return.
LEMMA WholeBegin ==
    ASSUME RunInv, WholeInv,
           NEW op \in Ops, NEW fifo \in BOOLEAN, NEW item \in Items, NEW data \in Seq(Nat),
           Begin(op, fifo, item, data)
    PROVE  WholeInv'
<1> DEFINE depth == Len(data)
<1>1. CASE Refusal(op, item, depth) = "none"
    <2>1. /\ phase' = "looping" /\ remaining' = depth /\ got' = <<>> /\ log' = log
          /\ call'.depth = depth /\ result'.kind = "none"
        BY <1>1 DEF Begin
    <2>2. First' = 0 /\ Len(log) \in Nat
        BY <2>1 DEF First, RunInv, ExchangeTypeOK
    <2>3. LogEndsWith(0)' /\ GotFrom(Len(log) - 0, 0)'
        <3>1. [j \in 1 .. 0 |-> (Len(log') - 0) + j] = <<>>
            OBVIOUS
        <3> QED BY <2>1, <2>2, <3>1 DEF LogEndsWith, GotFrom
    <2> QED BY <2>1, <2>2, <2>3
            DEF WholeInv, WholeBetween, WholePartOut, WholeDone, PartsSoFar
<1>2. CASE Refusal(op, item, depth) # "none"
    <2>1. /\ phase' = "idle" /\ result'.kind \in {"ignored", "raised"}
        BY <1>2 DEF Begin, Refusal
    <2> QED BY <2>1 DEF WholeInv, WholeBetween, WholePartOut, WholeDone
<1> QED BY <1>1, <1>2

\* A part is sent from where the parts before it ended.
LEMMA WholeSendPart ==
    ASSUME RunInv, WholeInv, SendPart
    PROVE  WholeInv'
<1>1. /\ ExchangeTypeOK /\ ClientTypeOK /\ NoneAhead /\ BetweenParts
      /\ WholeBetween /\ WholePartOut /\ WholeDone
    BY DEF RunInv, WholeInv
<1>2. /\ phase = "looping" /\ phase' = "waiting"
      /\ UNCHANGED <<calls, answer, log, call, remaining, got, result>>
    BY DEF SendPart, blockVars
<1>3. /\ PartsSoFar /\ \A i \in DOMAIN backlog : backlog[i].call < calls
      /\ answer.call = calls => answer.first < First
    BY <1>1, <1>2 DEF BetweenParts, WholeBetween
<1> DEFINE p == [call |-> call.n, first |-> First, op |-> call.op, fifo |-> call.fifo,
                 addr |-> call.addr + Offset, words |-> Words % WordRange,
                 data |-> SubSeq(call.data, First + 1, First + Words)]
<1>4. /\ backlog' = Append(backlog, p) /\ p.fifo = call.fifo /\ p.addr = call.addr + Offset
      /\ \A j \in 1 .. Words : p.data[j] = call.data[First + j]
    <2>1. remaining > 0
        BY <1>1, <1>2 DEF BetweenParts
    <2> QED BY <1>1, <2>1, SliceFacts DEF SendPart
<1> HIDE DEF p
<1>5. ASSUME NEW i \in DOMAIN backlog', backlog'[i].call = calls
      PROVE  backlog'[i] = p
    <2>1. /\ DOMAIN backlog = 1 .. Len(backlog) /\ Len(backlog) \in Nat
          /\ \A j \in DOMAIN backlog : backlog[j] \in Packets
          /\ calls \in Nat
        BY <1>1 DEF ExchangeTypeOK
    <2>2. \A j \in DOMAIN backlog : backlog[j].call # calls
        <3>1. \A j \in DOMAIN backlog : backlog[j].call \in Nat
            BY <2>1 DEF Packets
        <3> QED BY <1>3, <2>1, <3>1
    <2>3. i \in DOMAIN backlog => backlog'[i] = backlog[i]
        BY <1>1, <1>4 DEF ExchangeTypeOK
    <2>4. i \notin DOMAIN backlog => backlog'[i] = p
        BY <1>1, <1>4, <2>1 DEF ExchangeTypeOK
    <2> QED BY <1>5, <2>2, <2>3, <2>4
<1>6. (PartsSoFar <=> PartsSoFar') /\ Offset' = Offset /\ First' = First /\ Words' = Words
    BY <1>2 DEF PartsSoFar, LogEndsWith, GotFrom, WordAt, Offset, First, Words
<1>7. ~Answered(calls, First)'
    <2>1. First \in Nat /\ answer.first \in Nat
        BY <1>1 DEF ClientTypeOK, ExchangeTypeOK, First
    <2> QED BY <1>2, <1>3, <1>6, <2>1 DEF Answered
<1>8. WholeBetween' /\ WholeDone'
    BY <1>1, <1>2, SameWords DEF WholeBetween, WholeDone
<1>9. WholePartOut'
    BY <1>2, <1>3, <1>4, <1>5, <1>6, <1>7 DEF WholePartOut
<1> QED BY <1>8, <1>9 DEF WholeInv

\* The answer to a part is taken: its words are those last in the log.
LEMMA WholePartDone ==
    ASSUME RunInv, WholeInv, PartDone
    PROVE  WholeInv'
<1>1. /\ ExchangeTypeOK /\ ClientTypeOK /\ PartOut
      /\ WholeBetween /\ WholePartOut /\ WholeDone
    BY DEF RunInv, WholeInv
<1>2. /\ phase = "waiting" /\ Answered(call.n, First) /\ remaining' = remaining - Words
      /\ got' = IF call.op = "read" THEN got \o [j \in 1 .. answer.words |-> answer.at + j] ELSE got
      /\ IF remaining' = 0 THEN phase' = "idle" /\ result' = [kind |-> "ok", words |-> got']
                           ELSE phase' = "looping" /\ UNCHANGED result
      /\ UNCHANGED <<calls, backlog, answer, log, call>>
    BY DEF PartDone
<1>3. call.n = calls /\ remaining > 0
    BY <1>1, <1>2 DEF PartOut
<1>4. /\ LogEndsWith(First + Words) /\ GotFrom(Len(log) - (First + Words), First)
      /\ answer.words = Words /\ answer.at = Len(log) - Words
    BY <1>1, <1>2, <1>3 DEF WholePartOut
<1>5. Words \in 1 .. remaining /\ First \in Nat
    BY <1>1, <1>3, WordsInHeader DEF ClientTypeOK
<1>6. /\ remaining \in Nat /\ call.depth \in Nat /\ remaining <= call.depth
      /\ Len(log) \in Nat
    BY <1>1 DEF ClientTypeOK, ExchangeTypeOK
<1>7. First' = First + Words
    BY <1>2, <1>5, <1>6 DEF First
<1>8. Len(log) - (First + Words) \in Nat
    BY <1>4, <1>5, <1>6 DEF LogEndsWith
<1>9. PICK s \in Nat : s = Len(log) - (First + Words)
    BY <1>8
<1>10. answer.at = s + First
    BY <1>4, <1>5, <1>6, <1>9
<1>11. got' = IF call.op = "read" THEN [j \in 1 .. First' |-> s + j] ELSE <<>>
    <2>1. CASE call.op = "read"
        <3>1. got' = [j \in 1 .. First |-> s + j] \o [j \in 1 .. Words |-> (s + First) + j]
            BY <1>2, <1>4, <1>10, <1>9, <2>1 DEF GotFrom
        <3>2. got' = [j \in 1 .. First + Words |-> s + j]
            BY <1>5, <1>10, <3>1, RunsJoin
        <3> QED BY <1>7, <2>1, <3>2
    <2>2. CASE call.op # "read"
        BY <1>2, <1>4, <2>2 DEF GotFrom
    <2> QED BY <2>1, <2>2
<1>12. /\ s = Len(log) - First' /\ First' <= Len(log)
       /\ \A j \in 1 .. First' : WordAt(s + j, j)
    BY <1>4, <1>7, <1>9 DEF LogEndsWith
<1>13. CASE remaining' = 0
    <2>1. phase' = "idle" /\ result' = [kind |-> "ok", words |-> got']
        BY <1>2, <1>13
    <2>2. First' = call.depth
        BY <1>2, <1>6, <1>13 DEF First
    <2>3. s \in 0 .. Len(log) - call.depth
        BY <1>6, <1>12, <2>2
    <2>4. /\ \A j \in 1 .. call'.depth : WordAt(s + j, j)'
          /\ call'.op = "read" => result'.words = [j \in 1 .. call'.depth |-> s + j]
        BY <1>2, <1>11, <1>12, <2>1, <2>2 DEF WordAt
    <2>5. WholeDone'
        BY <1>2, <2>3, <2>4 DEF WholeDone
    <2> QED BY <2>1, <2>5 DEF WholeInv, WholeBetween, WholePartOut
<1>14. CASE remaining' # 0
    <2>1. PartsSoFar'
        BY <1>2, <1>11, <1>12 DEF PartsSoFar, LogEndsWith, GotFrom, WordAt
    <2>2. WholeDone'
        <3>1. UNCHANGED <<log, call, result>>
            BY <1>2, <1>14
        <3> QED BY <1>1, <3>1, SameWords DEF WholeDone
    <2> QED BY <1>2, <1>14, <2>1, <2>2 DEF WholeInv, WholeBetween, WholePartOut
<1> QED BY <1>13, <1>14

\* One lemma for every step of the machine.
LEMMA WholeStep == RunInv /\ WholeInv /\ [Next]_vars => WholeInv'
<1> SUFFICES ASSUME RunInv, WholeInv, [Next]_vars
             PROVE  WholeInv'
    OBVIOUS
<1>1. CASE UNCHANGED vars
    <2>1. UNCHANGED <<phase, calls, backlog, answer, log, call, remaining, got, result>>
        BY <1>1 DEF vars, exchangeVars, blockVars
    <2>2. WholeDone'
        BY <2>1, SameWords DEF WholeInv, WholeDone
    <2>3. WholeBetween'
        BY <2>1 DEF WholeInv, WholeBetween, PartsSoFar, LogEndsWith, GotFrom, WordAt, First
    <2>4. WholePartOut'
        BY <2>1 DEF WholeInv, WholePartOut, PartsSoFar, LogEndsWith, GotFrom, WordAt, First,
           Words, Offset, Answered
    <2> QED BY <2>2, <2>3, <2>4 DEF WholeInv
<1>2. CASE Command
    BY <1>2, WholeOther DEF Command, blockVars
<1>3. CASE Ask
    BY <1>3, WholeOther DEF Ask, blockVars
<1>4. CASE Restart
    BY <1>4, WholeOther DEF Restart, blockVars
<1>8. CASE GetRefused
    BY <1>8, WholeOther DEF GetRefused, blockVars
<1>5. ASSUME NEW ok \in BOOLEAN, Step(ok)
      PROVE  WholeInv'
    BY <1>5, WholeOther DEF Step, blockVars
<1>6. CASE GlibBlockCall
    <2>1. CASE PartFails
        <3>1. phase' = "idle" /\ result'.kind = "raised"
            BY <2>1 DEF PartFails
        <3> QED BY <3>1 DEF WholeInv, WholeBetween, WholePartOut, WholeDone
    <2> QED BY <1>6, <2>1, WholeBegin, WholeSendPart, WholePartDone, BegunWith DEF GlibBlockCall
<1>7. CASE Outside /\ UNCHANGED <<blockVars, ctuVars>>
    <2>1. ASSUME NEW k \in 0 .. MAX_BLOCK_TRANSFER_DEPTH, Perform(k)
          PROVE  WholeInv'
        <3>1. k \in Nat
            BY BlockAssumption
        <3> QED BY <1>7, <2>1, <3>1, WholePerform
    <2> QED BY <1>7, <2>1, WholeLose DEF Outside
<1> QED BY <1>1, <1>2, <1>3, <1>4, <1>5, <1>6, <1>7, <1>8 DEF Next

\* A transfer that returns has moved every word, each at its own address and with
\* its own data, and
\* gives the caller the words it read, in order and no others.
THEOREM ReturnsWholeTransfer == FairSpec => []WholeWhenReturned
<1>1. FairSpec => []WholeInv
    BY WholeInit, WholeStep, RunInvariant, PTL DEF FairSpec
<1>2. RunInv /\ WholeInv => WholeWhenReturned
    BY DEF WholeInv, WholeDone, WholeWhenReturned, WordAt
<1> QED BY <1>1, <1>2, RunInvariant, PTL

-----------------------------------------------------------------------------
(***************************************************************************)
(* The trigger lines and the pairs of trigger words.  What counts is which *)
(* packets that assert a line, or pop a word, can still be performed: none *)
(* that a later packet, already acknowledged, has overtaken.               *)
(***************************************************************************)
InCommand == phase \in {"command", "asking"}

\* Of a step of a command, a packet of one word, or an entry of the log.
Asserts(x) == x.op = "write" /\ x.addr = force_trig /\ x.data # 0
Pops(x)    == x.op = "read" /\ x.addr = trig_info

Clears(s)  == s.op = "write" /\ s.addr = force_trig /\ s.data = 0

Clear   == set(force_trig, 0)
PopOnce == get(trig_info, TRUE)

\* Packet p covers the address.
Covers(p, addr) == addr \in p.addr .. p.addr + (IF p.fifo THEN 0 ELSE p.words - 1)

\* A command is at its first step, or at the second of two.
Remains ==
    InCommand =>
        \/ values = <<>> /\ todo \in Commands
        \/ /\ Len(values) = 1
           /\ \E c \in Commands : Len(c) = 2 /\ todo = Tail(c)

\* The packet of the step being made, what is in the log of it, and what was done
\* once it is answered.
IsStep(p, s) == p.op = s.op /\ p.addr = s.addr /\ p.data = <<s.data>>

IsEntry(x, s) == x.op = s.op /\ x.addr = s.addr /\ x.data = s.data

Asked ==
    phase = "asking" =>
        /\ \A i \in DOMAIN backlog :
              backlog[i].call = calls =>
                 IsStep(backlog[i], todo[1]) /\ backlog[i].words = 1 /\ backlog[i].first = 0
        /\ Answered(calls, 0) =>
              /\ backlog = <<>> /\ log # <<>> /\ IsEntry(log[Len(log)], todo[1])
              /\ answer.at + 1 = Len(log)

\* No line is asserted, and no packet can assert one.
Low(l) ==
    \A i \in DOMAIN l :
        Asserts(l[i]) => \E j \in DOMAIN l : i < j /\ l[j].op = "write" /\ l[j].addr = force_trig
                                                   /\ l[j].data = 0

PacketCalm(p) == \A j \in 1 .. p.words : ~Asserts(Access(p, j))

CallCalm == phase \in {"looping", "waiting"} =>
               \A j \in WordsFor(call, force_trig) : call.data[j] = 0

Calm == Low(log) /\ (\A i \in DOMAIN backlog : PacketCalm(backlog[i])) /\ CallCalm

\* The last step of the command clears the lines.
Clearing == InCommand /\ Clears(todo[Len(todo)])

CalmInv == Remains /\ Asked /\ (unreleased \/ Clearing \/ Calm)

-----------------------------------------------------------------------------
Emptied(l) == Max({i \in DOMAIN l : l[i].op = "write" /\ l[i].addr = trig_info} \cup {0})

PopsTo(l, n) == {j \in Emptied(l) + 1 .. n : Pops(l[j])}

\* No packet but that of the step being made can pop a word.
Unskewed ==
    /\ \A i \in DOMAIN backlog :
          Covers(backlog[i], trig_info) =>
             /\ backlog[i].words = 1
             /\ backlog[i].op = "read" => backlog[i].call = calls /\ phase = "asking"
    /\ phase \in {"looping", "waiting"} => WordsFor(call, trig_info) = {}

\* The words the command has popped.
Popped ==
    IF InCommand /\ todo[1] = PopOnce
    THEN Len(values) + (IF phase = "asking" /\ Answered(calls, 0) THEN 1 ELSE 0)
    ELSE 0

\* The second step of a command that read before reads the same address, and
\* nothing is done in between.
SecondRead ==
    InCommand /\ Len(values) = 1 =>
        \/ values[1] = None /\ todo[1] = Clear
        \/ /\ values[1] \in DOMAIN log /\ log[values[1]].op = "read"
           /\ todo[1] = get(log[values[1]].addr, TRUE)
           /\ IF phase = "asking" /\ Answered(calls, 0) THEN values[1] + 1 = Len(log)
              ELSE values[1] = Len(log)
           /\ \A i \in DOMAIN backlog : backlog[i].call = calls /\ phase = "asking"

\* The two words of the last command that returned two.
ReturnedPair ==
    outcome.kind = "returned" /\ Len(outcome.values) = 2 /\ outcome.values[1] # None =>
        LET a == outcome.values[1]
        IN  /\ outcome.values[2] = a + 1 /\ a \in DOMAIN log /\ a + 1 \in DOMAIN log
            /\ log[a].op = "read" /\ log[a + 1].op = "read" /\ log[a + 1].addr = log[a].addr
            /\ (log[a].addr = trig_info /\ ~skewed /\ Emptied(log) < a) =>
                   Cardinality(PopsTo(log, a)) % 2 = 1

\* The pops since the FIFO was emptied pair up, but for those of the command.
InPairs == Cardinality(PopsTo(log, Len(log))) % 2 = Popped % 2

PairInv == SecondRead /\ ReturnedPair /\ (~skewed => Unskewed /\ InPairs)


-----------------------------------------------------------------------------
\* The steps a command is made of.
Steps == [op : Ops, addr : Nat, data : Nat, strict : BOOLEAN]

\* The commands, as far as the trigger lines and the pairs go: one step, which is
\* strict if it writes the lines and a pop of its own if it reads the FIFO, a pulse,
\* or two reads of one register.
LEMMA CommandShapes ==
    ASSUME NEW c \in Commands
    PROVE  /\ c \in Seq(Steps) /\ Len(c) \in {1, 2}
           /\ Len(c) = 1 => /\ c[1].addr = force_trig => c[1].op = "write" /\ c[1].strict = TRUE
                            /\ c[1].addr = trig_info /\ c[1].op = "read" => c[1] = PopOnce
           /\ Len(c) = 2 => \/ c[1].op = "write" /\ c[1].addr = force_trig /\ c[1].strict = FALSE
                               /\ c[1].data # 0 /\ c[2] = Clear
                            \/ c[1] = get(c[1].addr, TRUE) /\ c[2] = c[1] /\ c[1].addr # force_trig
<1>1. c \in Seq(Steps)
    BY CommandsTyped DEF Steps
<1> DEFINE Single(s) ==
               /\ s.addr = force_trig => s.op = "write" /\ s.strict = TRUE
               /\ s.addr = trig_info /\ s.op = "read" => s = PopOnce
           Shape(d) ==
               /\ Len(d) \in {1, 2}
               /\ Len(d) = 1 => Single(d[1])
               /\ Len(d) = 2 =>
                     \/ d[1].op = "write" /\ d[1].addr = force_trig /\ d[1].strict = FALSE
                        /\ d[1].data # 0 /\ d[2] = Clear
                     \/ d[1] = get(d[1].addr, TRUE) /\ d[2] = d[1] /\ d[1].addr # force_trig
<1>2. ASSUME NEW bit \in {1, 2} PROVE Shape(Pulse(bit))
    <2>1. /\ Len(Pulse(bit)) = 2 /\ Pulse(bit)[1] = set(force_trig, bit)
          /\ Pulse(bit)[2] = set(force_trig, 0)
        BY DEF Pulse
    <2>2. /\ set(force_trig, bit).op = "write" /\ set(force_trig, bit).addr = force_trig
          /\ set(force_trig, bit).strict = FALSE /\ set(force_trig, bit).data # 0
        BY DEF set
    <2> HIDE DEF Single
    <2>3. /\ Len(Pulse(bit)) # 1 /\ Pulse(bit)[1].op = "write"
          /\ Pulse(bit)[1].addr = force_trig /\ Pulse(bit)[1].strict = FALSE
          /\ Pulse(bit)[1].data # 0
        BY <2>1, <2>2
    <2> QED BY <2>1, <2>3 DEF Clear
<1>3. ASSUME NEW g, g = get(g.addr, TRUE), g.addr # force_trig PROVE Shape(<<g, g>>)
    <2> DEFINE d == <<g, g>>
    <2>1. Len(d) = 2 /\ d[1] = g /\ d[2] = g
        OBVIOUS
    <2> HIDE DEF d, Single
    <2>2. Len(d) # 1 /\ Len(d) \in {1, 2} /\ d[2] = d[1] /\ d[1].addr # force_trig
        BY <1>3, <2>1
    <2>3. d[1] = get(d[1].addr, TRUE)
        BY <1>3, <2>1, Zenon
    <2>4. Shape(d)
        BY <2>2, <2>3
    <2> QED BY <2>4 DEF d
<1>4. ASSUME NEW s, Single(s) PROVE Shape(<<s>>)
    <2> HIDE DEF Single
    <2>1. Len(<<s>>) = 1 /\ <<s>>[1] = s
        OBVIOUS
    <2> QED BY <1>4, <2>1
<1>5. ASSUME NEW b PROVE Single(get(other, b))
    <2>1. get(other, b).addr = other
        BY DEF get
    <2> QED BY <2>1, CtuAssumption
<1>6. Single(set(other, 1)) /\ Single(set(trig_info, 0)) /\ Single(PopOnce)
    <2>1. /\ set(other, 1).addr = other /\ set(trig_info, 0).addr = trig_info
          /\ set(trig_info, 0).op = "write" /\ PopOnce.addr = trig_info
        BY DEF get, set, PopOnce
    <2> QED BY <2>1, CtuAssumption
<1>7. ASSUME NEW a, NEW d PROVE Single([set(a, d) EXCEPT !.strict = TRUE])
    <2> DEFINE e == [set(a, d) EXCEPT !.strict = TRUE]
    <2>1. e.op = "write" /\ e.strict = TRUE
        BY DEF set
    <2> HIDE DEF e
    <2>2. Single(e)
        BY <2>1
    <2> QED BY <2>2 DEF e
<1>9. \A a : get(a, TRUE) = get(get(a, TRUE).addr, TRUE) /\ get(a, TRUE).addr = a
    BY DEF get
<1> HIDE DEF Shape, Single
<1>8. Shape(c)
    <2>1. Shape(Pulse(1)) /\ Shape(Pulse(2))
        BY <1>2
    <2>2. Shape(TriggerInfo) /\ Shape(<<get(other, TRUE), get(other, TRUE)>>)
        BY <1>3, <1>9, CtuAssumption DEF TriggerInfo
    <2>3. /\ Shape(<<get(other, FALSE)>>) /\ Shape(<<get(other, TRUE)>>)
          /\ Shape(<<set(other, 1)>>) /\ Shape(<<set(trig_info, 0)>>) /\ Shape(<<PopOnce>>)
        BY <1>4, <1>5, <1>6, Zenon
    <2>4. ASSUME NEW x \in GetAndShow PROVE Shape(x)
        BY <2>3, Zenon DEF GetAndShow, PopOnce
    <2>5. ASSUME NEW x \in SetAndShow PROVE Shape(x)
        <3>1. PICK a \in {trig_info, force_trig, other}, d \in Typed :
                  x = <<[set(a, d) EXCEPT !.strict = TRUE]>>
            BY DEF SetAndShow
        <3> QED BY <1>4, <1>7, <3>1, Zenon
    <2> QED BY <2>1, <2>2, <2>3, <2>4, <2>5, Zenon DEF Commands
<1> QED BY <1>1, <1>8 DEF Shape, Single

\* A set of numbers up to some limit has a largest one, and Max gives it.
LEMMA MaxIs ==
    ASSUME NEW S, S \subseteq Nat, NEW n \in S, \A m \in S : m <= n
    PROVE  Max(S) = n
<1>1. Max(S) \in S /\ \A y \in S : Max(S) >= y
    <2>1. n \in S /\ \A y \in S : n >= y
        OBVIOUS
    <2> QED BY <2>1 DEF Max
<1>2. Max(S) \in Nat /\ n \in Nat /\ Max(S) <= n /\ Max(S) >= n
    BY <1>1
<1> QED BY <1>2

\* A set of numbers that is not empty and stays up to some limit has its largest
\* one for Max.
LEMMA MaxOf ==
    ASSUME NEW n \in Nat, NEW S, S \subseteq 0 .. n, S # {}
    PROVE  Max(S) \in S /\ \A y \in S : y <= Max(S)
<1> DEFINE T == {n - x : x \in S}
<1>1. T \subseteq Nat /\ T # {}
    <2>1. \A x \in S : n - x \in Nat
        OBVIOUS
    <2> QED BY <2>1
<1>2. \E k \in T : \A m \in T : k <= m
    <2> HIDE DEF T
    <2>1. \E k \in T : \A m \in T : ~ (<<m, k>> \in OpToRel(<, Nat))
        BY <1>1, NatLessThanWellFounded, WFMin, Zenon
    <2>2. PICK k \in T : \A m \in T : ~(m < k)
        BY <2>1, <1>1 DEF OpToRel
    <2>3. \A m \in T : k <= m
        BY <1>1, <2>2
    <2> QED BY <2>3
<1>3. PICK k \in T : \A m \in T : k <= m
    BY <1>2
<1>4. PICK x \in S : k = n - x
    BY <1>3
<1>5. \A y \in S : y <= x
    <2> SUFFICES ASSUME NEW y \in S PROVE y <= x
        OBVIOUS
    <2>1. n - y \in T
        OBVIOUS
    <2>2. n - x <= n - y
        BY <1>3, <1>4, <2>1
    <2>3. x \in Nat /\ y \in Nat
        OBVIOUS
    <2> QED BY <2>2, <2>3
<1>6. Max(S) = x
    <2>1. S \subseteq Nat
        OBVIOUS
    <2> QED BY <1>5, <2>1, MaxIs
<1> QED BY <1>5, <1>6

Empties(x) == x.op = "write" /\ x.addr = trig_info

\* Log m continues log l.
Continues(l, m) ==
    /\ l \in Seq(Entries) /\ m \in Seq(Entries) /\ Len(l) <= Len(m)
    /\ \A i \in 1 .. Len(l) : m[i] = l[i]

\* Where the FIFO was emptied last.
LEMMA EmptiedFacts ==
    ASSUME NEW l \in Seq(Entries)
    PROVE  /\ Emptied(l) \in 0 .. Len(l)
           /\ Emptied(l) # 0 => Empties(l[Emptied(l)])
           /\ \A i \in 1 .. Len(l) : Empties(l[i]) => i <= Emptied(l)
<1> DEFINE S == {i \in DOMAIN l : l[i].op = "write" /\ l[i].addr = trig_info} \cup {0}
<1>1. S \subseteq 0 .. Len(l) /\ S # {} /\ Len(l) \in Nat /\ DOMAIN l = 1 .. Len(l)
    OBVIOUS
<1>2. Emptied(l) \in S /\ \A y \in S : y <= Emptied(l)
    <2> HIDE DEF S
    <2>1. Max(S) \in S /\ \A y \in S : y <= Max(S)
        BY <1>1, MaxOf
    <2> QED BY <2>1 DEF Emptied, S
<1> QED BY <1>1, <1>2 DEF Empties

\* And it is known by that: an entry that empties it, with none behind.
LEMMA EmptiedIs ==
    ASSUME NEW l \in Seq(Entries), NEW n \in 0 .. Len(l), n = 0 \/ Empties(l[n]),
           \A i \in 1 .. Len(l) : n < i => ~Empties(l[i])
    PROVE  Emptied(l) = n
<1>1. /\ Emptied(l) \in 0 .. Len(l) /\ (Emptied(l) # 0 => Empties(l[Emptied(l)]))
      /\ \A i \in 1 .. Len(l) : Empties(l[i]) => i <= Emptied(l)
    BY EmptiedFacts
<1>2. Len(l) \in Nat
    OBVIOUS
<1> HIDE DEF Emptied
<1>3. n <= Emptied(l)
    BY <1>1, <1>2
<1>4. ~(n < Emptied(l))
    BY <1>1, <1>2
<1> QED BY <1>1, <1>2, <1>3, <1>4

\* As the log goes on, the place stays or moves behind its old end; and if it
\* stays, so do the pops since.
LEMMA EmptiedGrows ==
    ASSUME NEW l, NEW m, Continues(l, m)
    PROVE  /\ Emptied(m) = Emptied(l) \/ Emptied(m) > Len(l)
           /\ (\A i \in 1 .. Len(m) : Len(l) < i => ~Empties(m[i])) => Emptied(m) = Emptied(l)
           /\ Emptied(m) = Emptied(l) => \A n \in 0 .. Len(l) : PopsTo(m, n) = PopsTo(l, n)
<1>1. /\ l \in Seq(Entries) /\ m \in Seq(Entries) /\ Len(l) <= Len(m)
      /\ Len(l) \in Nat /\ Len(m) \in Nat /\ \A i \in 1 .. Len(l) : m[i] = l[i]
    BY DEF Continues
<1>2. /\ Emptied(l) \in 0 .. Len(l) /\ (Emptied(l) # 0 => Empties(l[Emptied(l)]))
      /\ \A i \in 1 .. Len(l) : Empties(l[i]) => i <= Emptied(l)
    BY <1>1, EmptiedFacts
<1>3. /\ Emptied(m) \in 0 .. Len(m) /\ (Emptied(m) # 0 => Empties(m[Emptied(m)]))
      /\ \A i \in 1 .. Len(m) : Empties(m[i]) => i <= Emptied(m)
    BY <1>1, EmptiedFacts
<1> HIDE DEF Emptied
<1>4. Emptied(l) <= Emptied(m)
    BY <1>1, <1>2, <1>3
<1>5. Emptied(m) <= Len(l) => Emptied(m) <= Emptied(l)
    BY <1>1, <1>2, <1>3
<1>6. Emptied(m) = Emptied(l) \/ Emptied(m) > Len(l)
    BY <1>1, <1>2, <1>3, <1>4, <1>5
<1>7. ASSUME \A i \in 1 .. Len(m) : Len(l) < i => ~Empties(m[i])
      PROVE  Emptied(m) = Emptied(l)
    BY <1>1, <1>2, <1>3, <1>6, <1>7
<1>8. ASSUME Emptied(m) = Emptied(l), NEW n \in 0 .. Len(l)
      PROVE  PopsTo(m, n) = PopsTo(l, n)
    <2>1. \A j \in Emptied(l) + 1 .. n : j \in 1 .. Len(l)
        BY <1>1, <1>2
    <2>2. \A j \in Emptied(l) + 1 .. n : m[j] = l[j]
        BY <1>1, <2>1
    <2> QED BY <1>8, <2>2 DEF PopsTo, Pops
<1> QED BY <1>6, <1>7, <1>8

\* The pops since are finitely many.
LEMMA PopsFinite ==
    ASSUME NEW l \in Seq(Entries), NEW n \in 0 .. Len(l)
    PROVE  IsFiniteSet(PopsTo(l, n)) /\ Cardinality(PopsTo(l, n)) \in Nat
<1>1. Emptied(l) + 1 \in Int /\ n \in Int
    BY EmptiedFacts
<1>2. IsFiniteSet(Emptied(l) + 1 .. n)
    BY <1>1, FS_Interval
<1>3. PopsTo(l, n) \subseteq Emptied(l) + 1 .. n
    BY DEF PopsTo
<1> QED BY <1>2, <1>3, FS_Subset, FS_CardinalityType

\* One more entry: a pop counts one more, a write starts again from none, and
\* anything else changes nothing.
LEMMA OneMoreEntry ==
    ASSUME NEW l, NEW m, Continues(l, m), Len(m) = Len(l) + 1
    PROVE  /\ Empties(m[Len(m)]) => /\ Emptied(m) = Len(m)
                                    /\ Cardinality(PopsTo(m, Len(m))) = 0
           /\ Pops(m[Len(m)]) => /\ Emptied(m) = Emptied(l)
                                 /\ Cardinality(PopsTo(m, Len(m))) =
                                       Cardinality(PopsTo(l, Len(l))) + 1
<1>1. /\ l \in Seq(Entries) /\ m \in Seq(Entries) /\ Len(l) \in Nat /\ Len(m) \in Nat
      /\ Len(m) \in 1 .. Len(m)
    BY DEF Continues
<1>2. ASSUME Empties(m[Len(m)])
      PROVE  Emptied(m) = Len(m) /\ Cardinality(PopsTo(m, Len(m))) = 0
    <2>1. Emptied(m) = Len(m)
        BY <1>1, <1>2, EmptiedIs
    <2>2. PopsTo(m, Len(m)) = {}
        BY <1>1, <2>1 DEF PopsTo
    <2> QED BY <2>1, <2>2, FS_EmptySet
<1>3. ASSUME Pops(m[Len(m)])
      PROVE  /\ Emptied(m) = Emptied(l)
             /\ Cardinality(PopsTo(m, Len(m))) = Cardinality(PopsTo(l, Len(l))) + 1
    <2>1. ~Empties(m[Len(m)])
        BY <1>3 DEF Pops, Empties
    <2>2. \A i \in 1 .. Len(m) : Len(l) < i => ~Empties(m[i])
        BY <1>1, <2>1
    <2>3. Emptied(m) = Emptied(l) /\ PopsTo(m, Len(l)) = PopsTo(l, Len(l))
        BY <1>1, <2>2, EmptiedGrows
    <2>4. Emptied(l) \in 0 .. Len(l)
        BY <1>1, EmptiedFacts
    <2> HIDE DEF Emptied
    <2>5. PopsTo(m, Len(m)) = PopsTo(m, Len(l)) \cup {Len(m)}
        BY <1>1, <1>3, <2>3, <2>4 DEF PopsTo
    <2>6. Len(m) \notin PopsTo(l, Len(l))
        BY <1>1, <2>4 DEF PopsTo
    <2>7. IsFiniteSet(PopsTo(l, Len(l)))
        BY <1>1, PopsFinite
    <2>8. Cardinality(PopsTo(l, Len(l)) \cup {Len(m)}) = Cardinality(PopsTo(l, Len(l))) + 1
        BY <2>6, <2>7, FS_AddElement
    <2> QED BY <2>3, <2>5, <2>8
<1> QED BY <1>2, <1>3

\* Entries of no concern.
LEMMA NoneOfThem ==
    ASSUME NEW l, NEW m, Continues(l, m),
           \A i \in 1 .. Len(m) : Len(l) < i => ~Empties(m[i]) /\ ~Pops(m[i])
    PROVE  /\ Emptied(m) = Emptied(l)
           /\ Cardinality(PopsTo(m, Len(m))) = Cardinality(PopsTo(l, Len(l)))
<1>1. /\ l \in Seq(Entries) /\ m \in Seq(Entries) /\ Len(l) \in Nat /\ Len(m) \in Nat
      /\ Len(l) <= Len(m)
    BY DEF Continues
<1>2. Emptied(m) = Emptied(l) /\ PopsTo(m, Len(l)) = PopsTo(l, Len(l))
    BY <1>1, EmptiedGrows
<1>3. Emptied(l) \in 0 .. Len(l)
    BY <1>1, EmptiedFacts
<1> HIDE DEF Emptied
<1>4. PopsTo(m, Len(m)) = PopsTo(m, Len(l))
    BY <1>1, <1>2, <1>3 DEF PopsTo
<1> QED BY <1>2, <1>4

-----------------------------------------------------------------------------
\* Where a command stands.
LEMMA CommandNow ==
    ASSUME Remains, ClientTypeOK, InCommand
    PROVE  /\ todo \in Seq(Steps) /\ Len(todo) \in {1, 2} /\ Head(todo) = todo[1]
           /\ todo[1] \in Steps
           /\ Len(todo) = 2 =>
                 /\ values = <<>> /\ todo \in Commands
                 /\ \/ todo[1].op = "write" /\ todo[1].addr = force_trig /\ todo[1].strict = FALSE
                       /\ todo[1].data # 0 /\ todo[2] = Clear
                    \/ /\ todo[1] = get(todo[1].addr, TRUE) /\ todo[2] = todo[1]
                       /\ todo[1].addr # force_trig
           /\ Len(todo) = 1 =>
                 \/ /\ values = <<>>
                    /\ todo[1].addr = force_trig => todo[1].op = "write" /\ todo[1].strict = TRUE
                    /\ todo[1].addr = trig_info /\ todo[1].op = "read" => todo[1] = PopOnce
                 \/ /\ Len(values) = 1
                    /\ \/ todo[1] = Clear
                       \/ todo[1] = get(todo[1].addr, TRUE) /\ todo[1].addr # force_trig
<1>1. CASE values = <<>> /\ todo \in Commands
    <2>1. /\ todo \in Seq(Steps) /\ Len(todo) \in {1, 2}
          /\ Len(todo) = 1 =>
                /\ todo[1].addr = force_trig => todo[1].op = "write" /\ todo[1].strict = TRUE
                /\ todo[1].addr = trig_info /\ todo[1].op = "read" => todo[1] = PopOnce
          /\ Len(todo) = 2 => \/ todo[1].op = "write" /\ todo[1].addr = force_trig
                                 /\ todo[1].strict = FALSE /\ todo[1].data # 0 /\ todo[2] = Clear
                              \/ /\ todo[1] = get(todo[1].addr, TRUE) /\ todo[2] = todo[1]
                                 /\ todo[1].addr # force_trig
        BY <1>1, CommandShapes
    <2>2. Head(todo) = todo[1] /\ todo[1] \in Steps
        BY <2>1
    <2> QED BY <1>1, <2>1, <2>2
<1>2. CASE Len(values) = 1 /\ \E c \in Commands : Len(c) = 2 /\ todo = Tail(c)
    <2>1. PICK c \in Commands : Len(c) = 2 /\ todo = Tail(c)
        BY <1>2
    <2>2. /\ c \in Seq(Steps)
          /\ \/ c[2] = Clear
             \/ c[1] = get(c[1].addr, TRUE) /\ c[2] = c[1] /\ c[1].addr # force_trig
        BY <2>1, CommandShapes
    <2>3. /\ todo \in Seq(Steps) /\ Len(todo) = 1 /\ todo[1] = c[2] /\ Head(todo) = todo[1]
          /\ todo[1] \in Steps
        BY <2>1, <2>2
    <2>4. todo[1] = Clear \/ (todo[1] = get(todo[1].addr, TRUE) /\ todo[1].addr # force_trig)
        BY <2>2, <2>3, Zenon
    <2>5. Len(todo) # 2 /\ Len(todo) \in {1, 2}
        BY <2>3
    <2> QED BY <1>2, <2>3, <2>4, <2>5
<1> QED BY <1>1, <1>2 DEF Remains

\* A step that asserts a line is followed by the one that clears it, or it is what
\* an operator typed.
LEMMA AssertsThenClears ==
    ASSUME Remains, ClientTypeOK, InCommand, Asserts(todo[1])
    PROVE  Clearing \/ todo[1].strict = TRUE
<1>1. /\ Len(todo) \in {1, 2}
      /\ Len(todo) = 2 => todo[2] = Clear \/ todo[1] = get(todo[1].addr, TRUE)
      /\ Len(todo) = 1 => \/ todo[1].addr = force_trig => todo[1].strict = TRUE
                          \/ todo[1] = Clear \/ todo[1] = get(todo[1].addr, TRUE)
    BY CommandNow
<1>2. /\ todo[1].addr = force_trig /\ todo[1].op = "write" /\ todo[1].data # 0
      /\ Clear.data = 0 /\ \A a : get(a, TRUE).op = "read"
    BY DEF Asserts, Clear, set, get
<1>3. todo[1] # Clear /\ todo[1] # get(todo[1].addr, TRUE)
    <2>1. todo[1].data # Clear.data
        BY <1>2
    <2>2. todo[1].op # get(todo[1].addr, TRUE).op
        BY <1>2
    <2> QED BY <2>1, <2>2, Zenon
<1>4. (Len(todo) = 2 /\ todo[2] = Clear) \/ todo[1].strict = TRUE
    BY <1>1, <1>2, <1>3
<1>5. Clears(Clear)
    BY DEF Clears, Clear, set
<1> QED BY <1>4, <1>5 DEF Clearing

\* A step of a command returns.
LEMMA StepFacts ==
    ASSUME RunInv, Remains, NEW ok \in BOOLEAN, Step(ok)
    PROVE  /\ phase = "asking" /\ InCommand /\ (ok => Answered(calls, 0))
           /\ UNCHANGED <<calls, backlog, answer, log, call, remaining>>
           /\ \/ todo' = <<>> /\ phase' = "dead" /\ todo[1].strict = TRUE
                 /\ outcome'.kind = "TypeError"
              \/ todo' = <<>> /\ phase' = "idle" /\ Len(todo) = 1
                 /\ outcome' = [kind |-> "returned", values |-> values']
              \/ /\ phase' = "command" /\ Len(todo) = 2 /\ todo \in Commands
                 /\ todo' = Tail(todo) /\ todo'[1] = todo[2] /\ Len(todo') = 1
                 /\ Len(values') = 1 /\ outcome' = outcome
<1>1. ClientTypeOK /\ phase = "asking" /\ InCommand
    BY DEF RunInv, Step, InCommand
<1>2. /\ todo \in Seq(Steps) /\ Len(todo) \in {1, 2} /\ Head(todo) = todo[1]
      /\ Len(todo) = 2 => values = <<>> /\ todo \in Commands
    BY <1>1, CommandNow
<1>3. /\ ok => Answered(calls, 0)
      /\ UNCHANGED <<calls, backlog, answer, log, call, remaining>>
    BY DEF Step, blockVars
<1>4. CASE phase' = "dead"
    <2>1. todo' = <<>> /\ outcome'.kind = "TypeError" /\ todo[1].strict
        BY <1>2, <1>4 DEF Step, Stops
    <2>2. todo[1] \in Steps
        BY <1>2
    <2>3. todo[1].strict \in BOOLEAN
        BY <2>2 DEF Steps
    <2> QED BY <1>1, <1>3, <1>4, <2>1, <2>3
<1>5. CASE phase' # "dead"
    <2>1. /\ todo' = Tail(todo)
          /\ IF todo' = <<>>
             THEN phase' = "idle" /\ outcome' = [kind |-> "returned", values |-> values']
             ELSE phase' = "command" /\ UNCHANGED outcome
        BY <1>5 DEF Step
    <2>2. CASE Len(todo) = 1
        <3>1. todo' = <<>>
            BY <1>2, <2>1, <2>2
        <3> QED BY <1>1, <1>3, <2>1, <2>2, <3>1
    <2>3. CASE Len(todo) = 2
        <3>1. Len(todo') = 1 /\ todo'[1] = todo[2] /\ todo' # <<>>
            <4>1. Len(Tail(todo)) = 1 /\ Tail(todo)[1] = todo[2]
                BY <1>2, <2>3
            <4>2. Tail(todo) # <<>>
                <5> DEFINE t == Tail(todo)
                <5>1. t \in Seq(Steps) /\ Len(t) = 1
                    BY <1>2, <2>3
                <5> HIDE DEF t
                <5>2. t # <<>>
                    BY <5>1
                <5> QED BY <5>2 DEF t
            <4> QED BY <2>1, <4>1, <4>2
        <3>2. values = <<>>
            BY <1>2, <2>3
        <3>3. PICK v : values' = Append(values, v)
            BY DEF Step
        <3>4. Len(values') = 1
            BY <3>2, <3>3
        <3> QED BY <1>1, <1>2, <1>3, <2>1, <2>3, <3>1, <3>4
    <2> QED BY <1>2, <2>2, <2>3
<1> QED BY <1>4, <1>5

\* The packet of a step, and what it is once it is sent.
LEMMA AskFacts ==
    ASSUME RunInv, Remains, Ask
    PROVE  /\ phase = "command" /\ phase' = "asking" /\ calls' = calls + 1 /\ InCommand
           /\ UNCHANGED <<answer, log, call, remaining, todo, values, outcome, skewed>>
           /\ unreleased' = (unreleased \/ (/\ todo[1].strict /\ todo[1].addr = force_trig
                                            /\ todo[1].data # 0))
           /\ todo[1] \in Steps
           /\ DOMAIN backlog' = DOMAIN backlog \cup {Len(backlog) + 1}
           /\ \A i \in DOMAIN backlog : backlog'[i] = backlog[i] /\ backlog'[i].call # calls'
           /\ LET p == backlog'[Len(backlog) + 1]
              IN  IsStep(p, todo[1]) /\ p.words = 1 /\ p.first = 0 /\ p.call = calls'
           /\ ~Answered(calls, 0)'
<1>1. ClientTypeOK /\ InCommand /\ phase = "command" /\ ExchangeTypeOK /\ NoneAhead
    BY DEF RunInv, Ask, InCommand
<1>2. Head(todo) = todo[1] /\ todo[1] \in Steps
    BY <1>1, CommandNow
<1> DEFINE p == [call |-> calls', first |-> 0, op |-> todo[1].op, fifo |-> FALSE,
                 addr |-> todo[1].addr, words |-> 1, data |-> <<todo[1].data>>]
<1>3. /\ phase' = "asking" /\ calls' = calls + 1 /\ backlog' = Append(backlog, p)
      /\ UNCHANGED <<answer, log, call, remaining, todo, values, outcome, skewed>>
      /\ unreleased' = (unreleased \/ (/\ todo[1].strict /\ todo[1].addr = force_trig
                                       /\ todo[1].data # 0))
    BY <1>2 DEF Ask, blockVars, ctuVars
<1>4. IsStep(p, todo[1]) /\ p.words = 1 /\ p.first = 0 /\ p.call = calls'
    BY DEF IsStep
<1> HIDE DEF p
<1>5. /\ DOMAIN backlog' = DOMAIN backlog \cup {Len(backlog) + 1}
      /\ \A i \in DOMAIN backlog : backlog'[i] = backlog[i]
      /\ backlog'[Len(backlog) + 1] = p
    <2>1. backlog \in Seq(Packets)
        BY <1>1 DEF ExchangeTypeOK
    <2> QED BY <1>3, <2>1
<1>6. \A i \in DOMAIN backlog : backlog[i].call # calls'
    <2>1. \A i \in DOMAIN backlog : backlog[i] \in Packets /\ backlog[i].call <= calls
        BY <1>1 DEF ExchangeTypeOK, NoneAhead
    <2>2. \A i \in DOMAIN backlog : backlog[i].call \in Nat
        BY <2>1 DEF Packets
    <2>3. calls \in Nat
        BY <1>1 DEF ExchangeTypeOK
    <2> QED BY <1>3, <2>1, <2>2, <2>3
<1>7. ~Answered(calls, 0)'
    <2>1. answer.call \in Nat /\ calls \in Nat /\ answer.call <= calls
        BY <1>1 DEF ExchangeTypeOK, NoneAhead
    <2> QED BY <1>3, <2>1 DEF Answered
<1> QED BY <1>1, <1>2, <1>3, <1>4, <1>5, <1>6, <1>7

\* What is there of a packet that was performed: the entries of its words.
LEMMA NewEntries ==
    ASSUME ExchangeTypeOK, NEW k \in Nat, Perform(k)
    PROVE  /\ Continues(log, log') /\ Len(log') = Len(log) + k /\ k <= backlog[1].words
           /\ backlog # <<>> /\ backlog[1] \in Packets
           /\ 1 \in DOMAIN backlog
           /\ \A i \in 1 .. Len(log') : Len(log) < i =>
                 /\ log'[i].op = backlog[1].op
                 /\ \E j \in 1 .. backlog[1].words : log'[i] = Access(backlog[1], j)
                 /\ Covers(backlog[1], log'[i].addr)
                 /\ backlog[1].words = 1 => /\ log'[i].addr = backlog[1].addr
                                            /\ log'[i].data = backlog[1].data[1]
           /\ \A i \in DOMAIN backlog' : i + 1 \in DOMAIN backlog /\ backlog'[i] = backlog[i + 1]
           /\ UNCHANGED <<phase, calls>>
           /\ answer' = IF k = backlog[1].words
                        THEN [call |-> backlog[1].call, first |-> backlog[1].first,
                              words |-> backlog[1].words, at |-> Len(log)]
                        ELSE answer
<1> DEFINE p == backlog[1]
<1>1. /\ backlog # <<>> /\ k <= p.words /\ p \in Packets
      /\ Len(log') = Len(log) + k
      /\ \A i \in 1 .. Len(log) : log'[i] = log[i]
      /\ \A j \in 1 .. k : log'[Len(log) + j] = Access(p, j)
      /\ log' \in Seq(Entries)
      /\ backlog' \in Seq(Packets) /\ Len(backlog') = Len(backlog) - 1
      /\ \A i \in 1 .. Len(backlog) - 1 : backlog'[i] = backlog[i + 1]
    BY PerformedFacts
<1>2. /\ log \in Seq(Entries) /\ Len(log) \in Nat /\ Len(backlog) \in Nat
      /\ DOMAIN backlog = 1 .. Len(backlog) /\ DOMAIN backlog' = 1 .. Len(backlog')
      /\ backlog \in Seq(Packets) /\ Head(backlog) = backlog[1]
    BY <1>1 DEF ExchangeTypeOK
<1>3. Continues(log, log') /\ 1 \in DOMAIN backlog
    BY <1>1, <1>2 DEF Continues
<1>4. \A i \in DOMAIN backlog' : i + 1 \in DOMAIN backlog /\ backlog'[i] = backlog[i + 1]
    BY <1>1, <1>2
<1>5. /\ UNCHANGED <<phase, calls>>
      /\ answer' = IF k = p.words
                   THEN [call |-> p.call, first |-> p.first, words |-> p.words, at |-> Len(log)]
                   ELSE answer
    BY <1>2 DEF Perform
<1> HIDE DEF p
<1>6. ASSUME NEW i \in 1 .. Len(log'), Len(log) < i
      PROVE  /\ log'[i].op = p.op /\ (\E j \in 1 .. p.words : log'[i] = Access(p, j))
             /\ Covers(p, log'[i].addr)
             /\ p.words = 1 => log'[i].addr = p.addr /\ log'[i].data = p.data[1]
    <2> DEFINE j == i - Len(log)
    <2>1. j \in 1 .. k /\ Len(log) + j = i
        BY <1>1, <1>2, <1>6
    <2> HIDE DEF j
    <2>2. log'[i] = Access(p, j)
        BY <1>1, <2>1
    <2>3. /\ log'[i].op = p.op /\ log'[i].data = p.data[j]
          /\ log'[i].addr = p.addr + (IF p.fifo THEN 0 ELSE j - 1)
        BY <2>2 DEF Access
    <2>4. p.addr \in Nat /\ p.words \in Nat /\ j <= p.words /\ 1 <= j
        BY <1>1, <2>1 DEF Packets
    <2>5. j \in Nat /\ \A n \in Nat : n \in n .. n + 0
        BY <2>1
    <2>8. (\E h \in 1 .. p.words : log'[i] = Access(p, h)) /\ (p.words = 1 => j = 1)
        BY <2>2, <2>4, <2>5
    <2>6. CASE p.fifo
        <3>1. log'[i].addr = p.addr
            BY <2>3, <2>4, <2>6
        <3>2. Covers(p, log'[i].addr)
            BY <2>4, <2>5, <2>6, <3>1 DEF Covers
        <3> QED BY <2>3, <2>8, <3>1, <3>2
    <2>7. CASE ~p.fifo
        <3>1. log'[i].addr = p.addr + (j - 1)
            BY <2>3, <2>7
        <3>2. Covers(p, log'[i].addr)
            BY <2>4, <2>5, <2>7, <3>1 DEF Covers
        <3>3. p.words = 1 => log'[i].addr = p.addr
            BY <2>4, <2>5, <3>1
        <3> QED BY <2>3, <2>8, <3>2, <3>3
    <2> QED BY <2>6, <2>7
<1> QED BY <1>1, <1>3, <1>4, <1>5, <1>6 DEF p

\* An entry that asserts a line comes of a packet that does.
LEMMA NewAsserts ==
    ASSUME ExchangeTypeOK, NEW k \in Nat, Perform(k),
           NEW i \in 1 .. Len(log'), Len(log) < i, Asserts(log'[i])
    PROVE  ~PacketCalm(backlog[1])
<1>1. \E j \in 1 .. backlog[1].words : log'[i] = Access(backlog[1], j)
    BY NewEntries
<1> QED BY <1>1 DEF PacketCalm

\* The answer to a step of a command is there when its packet was performed,
\* after everything sent before it.
LEMMA PerformAsked ==
    ASSUME RunInv, Asked, NEW k \in Nat, Perform(k), UNCHANGED <<blockVars, ctuVars>>
    PROVE  /\ Asked'
           /\ phase = "asking" => ~Answered(calls, 0)
           /\ phase = "asking" /\ Answered(calls, 0)' =>
                 k = 1 /\ backlog[1].call = calls /\ IsStep(backlog[1], todo[1])
           /\ phase = "asking" /\ backlog[1].call = calls /\ k = 1 => Answered(calls, 0)'
<1>1. ExchangeTypeOK /\ NoneAhead /\ PacketsContinue
    BY DEF RunInv
<1> DEFINE p == backlog[1]
<1>2. /\ Len(log') = Len(log) + k /\ k <= p.words /\ p \in Packets /\ backlog # <<>>
      /\ 1 \in DOMAIN backlog /\ Continues(log, log')
      /\ \A i \in 1 .. Len(log') : Len(log) < i =>
            /\ log'[i].op = p.op
            /\ p.words = 1 => log'[i].addr = p.addr /\ log'[i].data = p.data[1]
      /\ \A i \in DOMAIN backlog' : i + 1 \in DOMAIN backlog /\ backlog'[i] = backlog[i + 1]
      /\ UNCHANGED <<phase, calls, todo>>
      /\ answer' = IF k = p.words
                   THEN [call |-> p.call, first |-> p.first, words |-> p.words, at |-> Len(log)]
                   ELSE answer
    BY <1>1, NewEntries DEF ctuVars
<1>3. phase = "asking" => ~Answered(calls, 0)
    BY <1>2 DEF Asked
<1>4. ASSUME phase = "asking", Answered(calls, 0)'
      PROVE  k = 1 /\ k = p.words /\ p.call = calls /\ IsStep(p, todo[1]) /\ answer'.at = Len(log)
    <2>1. k = p.words /\ p.call = calls /\ answer'.at = Len(log)
        BY <1>2, <1>3, <1>4 DEF Answered
    <2>2. IsStep(p, todo[1]) /\ p.words = 1
        BY <1>2, <1>4, <2>1 DEF Asked
    <2> QED BY <2>1, <2>2
<1>5. ASSUME phase = "asking", p.call = calls, k = 1
      PROVE  Answered(calls, 0)'
    <2>1. p.words = 1
        BY <1>2, <1>5 DEF Asked
    <2>2. p.first = 0
        BY <1>2, <1>5 DEF Asked
    <2> QED BY <1>2, <1>5, <2>1, <2>2 DEF Answered
<1>6. Asked'
    <2> SUFFICES ASSUME phase = "asking"
                 PROVE  /\ (\A i \in DOMAIN backlog :
                              backlog[i].call = calls =>
                                 IsStep(backlog[i], todo[1]) /\ backlog[i].words = 1
                                    /\ backlog[i].first = 0)'
                        /\ (Answered(calls, 0) =>
                              /\ backlog = <<>> /\ log # <<>> /\ IsEntry(log[Len(log)], todo[1])
                              /\ answer.at + 1 = Len(log))'
        BY <1>2 DEF Asked
    <2>1. (\A i \in DOMAIN backlog :
             backlog[i].call = calls =>
                IsStep(backlog[i], todo[1]) /\ backlog[i].words = 1 /\ backlog[i].first = 0)'
        BY <1>2 DEF Asked, IsStep
    <2>2. ASSUME Answered(calls, 0)'
          PROVE  (/\ backlog = <<>> /\ log # <<>> /\ IsEntry(log[Len(log)], todo[1])
                  /\ answer.at + 1 = Len(log))'
        <3>1. k = 1 /\ k = p.words /\ p.call = calls /\ IsStep(p, todo[1]) /\ answer'.at = Len(log)
            BY <1>4, <2>2
        <3>2. Len(log) \in Nat /\ log' \in Seq(Entries) /\ Len(log') = Len(log) + 1
            BY <1>1, <1>2, <3>1 DEF Continues, ExchangeTypeOK
        <3>3. log' # <<>> /\ Len(log') \in 1 .. Len(log') /\ Len(log) < Len(log')
            BY <3>2, EmptySeq
        <3>4. IsEntry(log'[Len(log')], todo'[1])
            <4>1. p.op = todo[1].op /\ p.addr = todo[1].addr /\ p.data = <<todo[1].data>>
                BY <3>1 DEF IsStep
            <4>2. p.data[1] = todo[1].data
                BY <4>1
            <4>3. p.words = 1
                BY <3>1
            <4> QED BY <1>2, <3>3, <4>1, <4>2, <4>3 DEF IsEntry
        <3>5. backlog' = <<>>
            <4>1. \A i \in DOMAIN backlog : i > 1 => FALSE
                <5> SUFFICES ASSUME NEW i \in DOMAIN backlog, i > 1 PROVE FALSE
                    OBVIOUS
                <5>1. backlog[1].call < backlog[i].call /\ backlog[i].call <= calls
                    BY <1>1, <1>2 DEF NoneAhead
                <5>2. backlog[i] \in Packets /\ calls \in Nat
                    BY <1>1 DEF ExchangeTypeOK
                <5>3. backlog[i].call \in Nat
                    BY <5>2 DEF Packets
                <5> QED BY <3>1, <5>1, <5>2, <5>3
            <4>2. DOMAIN backlog' = {}
                <5> SUFFICES ASSUME NEW i \in DOMAIN backlog' PROVE FALSE
                    OBVIOUS
                <5>1. backlog' \in Seq(Packets)
                    BY <1>1, PerformedFacts
                <5>2. i > 0 /\ i + 1 \in DOMAIN backlog /\ i + 1 > 1
                    BY <1>2, <5>1
                <5> QED BY <4>1, <5>2
            <4>3. backlog' \in Seq(Packets)
                BY <1>1, PerformedFacts
            <4> QED BY <4>2, <4>3
        <3> QED BY <3>1, <3>2, <3>3, <3>4, <3>5
    <2> QED BY <2>1, <2>2
<1> QED BY <1>3, <1>4, <1>5, <1>6 DEF p

\* What is in the log and cannot be undone stays as long as nothing asserting follows.
LEMMA LowStays ==
    ASSUME Low(log), Continues(log, log'),
           \A i \in 1 .. Len(log') : Len(log) < i => ~Asserts(log'[i])
    PROVE  Low(log')
<1>1. /\ DOMAIN log = 1 .. Len(log) /\ DOMAIN log' = 1 .. Len(log') /\ Len(log) \in Nat
      /\ Len(log') \in Nat /\ Len(log) <= Len(log') /\ \A i \in 1 .. Len(log) : log'[i] = log[i]
    BY DEF Continues
<1> SUFFICES ASSUME NEW i \in DOMAIN log', Asserts(log'[i])
             PROVE  \E j \in DOMAIN log' : i < j /\ log'[j].op = "write"
                                           /\ log'[j].addr = force_trig /\ log'[j].data = 0
    BY DEF Low
<1>2. i \in DOMAIN log /\ Asserts(log[i])
    BY <1>1
<1>3. PICK j \in DOMAIN log : i < j /\ log[j].op = "write" /\ log[j].addr = force_trig
                              /\ log[j].data = 0
    BY <1>2 DEF Low
<1>4. j \in DOMAIN log' /\ log'[j] = log[j]
    BY <1>1
<1> QED BY <1>3, <1>4

\* The last write but for a clearing one keeps the line low.
LEMMA LowAfterClear ==
    ASSUME ExchangeTypeOK, log # <<>>, NEW s, Clears(s), IsEntry(log[Len(log)], s)
    PROVE  Low(log)
<1>1. DOMAIN log = 1 .. Len(log) /\ Len(log) \in 1 .. Len(log)
    BY EmptySeq DEF ExchangeTypeOK
<1>2. /\ log[Len(log)].op = "write" /\ log[Len(log)].addr = force_trig
      /\ log[Len(log)].data = 0
    BY DEF IsEntry, Clears
<1> SUFFICES ASSUME NEW i \in DOMAIN log, Asserts(log[i])
             PROVE  \E j \in DOMAIN log : i < j /\ log[j].op = "write"
                                          /\ log[j].addr = force_trig /\ log[j].data = 0
    BY DEF Low
<1>3. i # Len(log)
    BY <1>2 DEF Asserts
<1>4. i < Len(log)
    BY <1>1, <1>3
<1> QED BY <1>1, <1>2, <1>4

\* A packet is performed.
LEMMA CalmPerform ==
    ASSUME RunInv, CalmInv, NEW k \in Nat, Perform(k), UNCHANGED <<blockVars, ctuVars>>
    PROVE  CalmInv'
<1>1. ExchangeTypeOK /\ Remains /\ Asked
    BY DEF RunInv, CalmInv
<1>2. /\ Continues(log, log') /\ 1 \in DOMAIN backlog
      /\ \A i \in DOMAIN backlog' : i + 1 \in DOMAIN backlog /\ backlog'[i] = backlog[i + 1]
      /\ UNCHANGED <<phase, calls, call, todo, values, unreleased>>
    BY <1>1, NewEntries DEF ctuVars, blockVars
<1>3. Remains' /\ Asked'
    BY <1>1, <1>2, PerformAsked DEF Remains, InCommand
<1>4. Clearing => Clearing'
    BY <1>2 DEF Clearing, InCommand
<1>5. Calm => Calm'
    <2> SUFFICES ASSUME Calm PROVE Calm'
        OBVIOUS
    <2>1. \A i \in 1 .. Len(log') : Len(log) < i => ~Asserts(log'[i])
        BY <1>1, <1>2, NewAsserts DEF Calm
    <2>2. Low(log')
        BY <1>2, <2>1, LowStays DEF Calm
    <2> QED BY <1>2, <2>2 DEF Calm, CallCalm
<1> QED BY <1>2, <1>3, <1>4, <1>5 DEF CalmInv

\* A packet is lost.
LEMMA LostFacts ==
    ASSUME ExchangeTypeOK, LoseRequest
    PROVE  /\ UNCHANGED <<phase, calls, answer, log>>
           /\ \A j \in DOMAIN backlog' : \E i \in DOMAIN backlog : backlog'[j] = backlog[i]
           /\ backlog # <<>>
<1>1. PICK i \in DOMAIN backlog :
        backlog' = [j \in 1 .. Len(backlog) - 1 |-> backlog[IF j < i THEN j ELSE j + 1]]
    BY DEF LoseRequest
<1>2. DOMAIN backlog = 1 .. Len(backlog) /\ Len(backlog) \in Nat
    BY DEF ExchangeTypeOK
<1>3. ASSUME NEW j \in DOMAIN backlog' PROVE \E n \in DOMAIN backlog : backlog'[j] = backlog[n]
    <2>1. j \in 1 .. Len(backlog) - 1
        BY <1>1
    <2>2. (IF j < i THEN j ELSE j + 1) \in DOMAIN backlog
        BY <1>2, <2>1
    <2> QED BY <1>1, <2>1, <2>2
<1> QED BY <1>2, <1>3 DEF LoseRequest

\* A lost packet was the last to be sent: what is calm, or being cleared, stays so.
LEMMA CalmLose ==
    ASSUME RunInv, CalmInv, LoseRequest, UNCHANGED <<blockVars, ctuVars>>
    PROVE  CalmInv'
<1>1. ExchangeTypeOK /\ Remains /\ Asked
    BY DEF RunInv, CalmInv
<1>2. /\ UNCHANGED <<phase, calls, call, answer, log, todo, values, unreleased>>
      /\ \A j \in DOMAIN backlog' : \E i \in DOMAIN backlog : backlog'[j] = backlog[i]
      /\ backlog # <<>>
    BY <1>1, LostFacts DEF ctuVars, blockVars
<1>3. Remains'
    BY <1>1, <1>2 DEF Remains, InCommand
<1>4. Asked'
    BY <1>1, <1>2 DEF Asked, Answered, IsStep
<1>5. Clearing => Clearing'
    BY <1>2 DEF Clearing, InCommand
<1>6. Calm => Calm'
    BY <1>2 DEF Calm, CallCalm
<1> QED BY <1>2, <1>3, <1>4, <1>5, <1>6 DEF CalmInv

\* A step is sent.
LEMMA CalmAsk ==
    ASSUME RunInv, CalmInv, Ask
    PROVE  CalmInv'
<1>1. Remains /\ Asked /\ ClientTypeOK
    BY DEF RunInv, CalmInv
<1> DEFINE p == backlog'[Len(backlog) + 1]
<1>2. /\ phase = "command" /\ phase' = "asking" /\ InCommand /\ InCommand'
      /\ UNCHANGED <<answer, log, todo, values>>
      /\ unreleased' = (unreleased \/ (/\ todo[1].strict /\ todo[1].addr = force_trig
                                       /\ todo[1].data # 0))
      /\ todo[1] \in Steps
      /\ DOMAIN backlog' = DOMAIN backlog \cup {Len(backlog) + 1}
      /\ \A i \in DOMAIN backlog : backlog'[i] = backlog[i] /\ backlog'[i].call # calls'
      /\ IsStep(p, todo[1]) /\ p.words = 1 /\ p.first = 0 /\ p.call = calls'
      /\ ~Answered(calls, 0)'
    BY <1>1, AskFacts DEF InCommand
<1> HIDE DEF p
<1>3. \A i \in DOMAIN backlog' : i \in DOMAIN backlog \/ backlog'[i] = p
    BY <1>2 DEF p
<1>4. Remains'
    BY <1>1, <1>2, <1>3 DEF Remains
<1>5. Asked'
    <2>1. ASSUME NEW i \in DOMAIN backlog', backlog'[i].call = calls'
          PROVE  IsStep(backlog'[i], todo'[1]) /\ backlog'[i].words = 1 /\ backlog'[i].first = 0
        BY <1>2, <1>3, <2>1
    <2> QED BY <1>2, <2>1 DEF Asked
<1>6. Clearing => Clearing'
    BY <1>2 DEF Clearing
<1>7. Calm => Calm' \/ Clearing' \/ unreleased'
    <2>1. CASE Asserts(todo[1])
        <3>1. Clearing \/ todo[1].strict = TRUE
            BY <1>1, <1>2, <2>1, AssertsThenClears
        <3>2. todo[1].strict = TRUE => unreleased'
            BY <1>2, <2>1 DEF Asserts
        <3> QED BY <1>6, <3>1, <3>2
    <2>2. CASE ~Asserts(todo[1])
        <3>1. p.op = todo[1].op /\ p.addr = todo[1].addr /\ p.data[1] = todo[1].data
            <4>1. p.data = <<todo[1].data>> /\ <<todo[1].data>>[1] = todo[1].data
                BY <1>2 DEF IsStep
            <4> QED BY <1>2, <4>1 DEF IsStep
        <3>2. p.addr \in Nat
            BY <1>2, <3>1 DEF Steps
        <3>3. PacketCalm(p)
            <4> SUFFICES ASSUME NEW j \in 1 .. p.words PROVE ~Asserts(Access(p, j))
                BY DEF PacketCalm
            <4>1. j = 1
                BY <1>2
            <4>2. /\ Access(p, 1).op = p.op /\ Access(p, 1).data = p.data[1]
                  /\ Access(p, 1).addr = p.addr
                BY <3>2 DEF Access
            <4> QED BY <2>2, <3>1, <4>1, <4>2 DEF Asserts
        <3> QED BY <1>2, <1>3, <3>3 DEF Calm, CallCalm
    <2> QED BY <2>1, <2>2
<1>8. unreleased => unreleased'
    BY <1>2
<1> QED BY <1>2, <1>4, <1>5, <1>6, <1>7, <1>8 DEF CalmInv

\* A step returns: the clearing write, if acknowledged, was done last of all.
LEMMA CalmStepReturns ==
    ASSUME RunInv, CalmInv, NEW ok \in BOOLEAN, Step(ok)
    PROVE  CalmInv'
<1>1. Remains /\ Asked /\ ClientTypeOK /\ ExchangeTypeOK
    BY DEF RunInv, CalmInv
<1>2. /\ phase = "asking" /\ InCommand /\ (ok => Answered(calls, 0))
      /\ UNCHANGED <<calls, backlog, answer, log>>
      /\ \/ todo' = <<>> /\ phase' = "dead" /\ todo[1].strict = TRUE
         \/ todo' = <<>> /\ phase' = "idle" /\ Len(todo) = 1
         \/ /\ phase' = "command" /\ Len(todo) = 2 /\ todo \in Commands
            /\ todo' = Tail(todo) /\ todo'[1] = todo[2] /\ Len(todo') = 1
            /\ Len(values') = 1
    BY <1>1, StepFacts
<1>3. /\ Len(todo) \in {1, 2} /\ Head(todo) = todo[1]
      /\ Len(todo) = 2 =>
            \/ todo[1].op = "write" /\ todo[1].addr = force_trig /\ todo[1].strict = FALSE
               /\ todo[2] = Clear
            \/ todo[1] = get(todo[1].addr, TRUE) /\ todo[2] = todo[1]
      /\ todo[1].addr = force_trig /\ todo[1].data = 0 => Clears(todo[1])
    <2>1. Clears(Clear)
        BY DEF Clears, Clear, set
    <2> QED BY <1>1, <1>2, <2>1, CommandNow DEF Clears
<1>4. Remains'
    BY <1>2 DEF Remains, InCommand
<1>5. Asked'
    BY <1>1, <1>2 DEF Asked
<1>6. Calm => Calm'
    BY <1>2 DEF Calm, CallCalm
<1>7. unreleased' = IF todo[1].addr = force_trig /\ todo[1].data = 0 THEN ~ok ELSE unreleased
    BY <1>3 DEF Step
<1>8. CASE Clears(todo[1])
    <2>1. todo[1].addr = force_trig /\ todo[1].data = 0
        BY <1>8 DEF Clears
    <2>2. unreleased' = ~ok
        BY <1>7, <1>8, <2>1
    <2>3. ok => Calm
        <3> SUFFICES ASSUME ok PROVE Calm
            OBVIOUS
        <3>1. backlog = <<>> /\ log # <<>> /\ IsEntry(log[Len(log)], todo[1])
            BY <1>1, <1>2 DEF Asked
        <3>2. Low(log)
            BY <1>1, <1>8, <3>1, LowAfterClear
        <3> QED BY <1>2, <3>1, <3>2 DEF Calm, CallCalm
    <2> QED BY <1>4, <1>5, <1>6, <2>2, <2>3 DEF CalmInv
<1>9. CASE ~Clears(todo[1])
    <2>1. Clearing => Len(todo) = 2 /\ Clears(todo[2])
        BY <1>3, <1>9 DEF Clearing
    <2>2. ASSUME Clearing PROVE Clearing'
        <3>1. todo[1].strict = FALSE
            <4>1. todo[2] # todo[1]
                BY <1>9, <2>1, <2>2
            <4> QED BY <1>3, <2>1, <2>2, <4>1
        <3>2. phase' = "command" /\ Clears(todo'[1]) /\ Len(todo') = 1
            BY <1>2, <2>1, <2>2, <3>1
        <3> QED BY <3>2 DEF Clearing, InCommand
    <2>3. unreleased' = unreleased
        <3>1. ~(todo[1].addr = force_trig /\ todo[1].data = 0)
            BY <1>3, <1>9
        <3> QED BY <1>7, <3>1, Zenon
    <2> QED BY <1>4, <1>5, <1>6, <2>2, <2>3 DEF CalmInv
<1> QED BY <1>8, <1>9

\* A part of a transfer is sent: it asserts no line if the transfer does not.
LEMMA CalmSendPart ==
    ASSUME RunInv, CalmInv, SendPart, UNCHANGED <<todo, values>>, unreleased => unreleased'
    PROVE  CalmInv'
<1>1. Remains /\ ExchangeTypeOK /\ ClientTypeOK
    BY DEF RunInv, CalmInv
<1> DEFINE d == SubSeq(call.data, First + 1, First + Words)
           p == [call |-> call.n, first |-> First, op |-> call.op, fifo |-> call.fifo,
                 addr |-> call.addr + Offset, words |-> Words % WordRange, data |-> d]
<1>2. /\ phase = "looping" /\ phase' = "waiting" /\ backlog' = Append(backlog, p)
      /\ UNCHANGED <<log, todo, values, call>>
    BY DEF SendPart, blockVars
<1>3. remaining > 0
    BY <1>2 DEF RunInv, BetweenParts
<1>4. /\ Words \in 1 .. remaining /\ Words % WordRange = Words /\ First \in 0 .. call.depth - 1
      /\ \A j \in 1 .. Words : d[j] = call.data[First + j]
    BY <1>1, <1>3, WordsInHeader, SliceFacts
<1>5. /\ p.words = Words /\ p.fifo = call.fifo /\ p.addr = call.addr + Offset
      /\ \A j \in 1 .. Words : p.data[j] = call.data[First + j]
    BY <1>4
<1> HIDE DEF p, d
<1>6. \A i \in DOMAIN backlog' :
         backlog'[i] = p \/ (i \in DOMAIN backlog /\ backlog'[i] = backlog[i])
    <2>1. backlog \in Seq(Packets)
        BY <1>1 DEF ExchangeTypeOK
    <2> QED BY <1>2, <2>1
<1>7. CallCalm => PacketCalm(p)
    <2> SUFFICES ASSUME CallCalm, NEW j \in 1 .. Words, Access(p, j).addr = force_trig
                 PROVE  Access(p, j).data = 0
        BY <1>5 DEF PacketCalm, Asserts
    <2>1. /\ call.addr \in Nat /\ call.depth \in Nat /\ remaining \in Nat
          /\ First = call.depth - remaining
        BY <1>1 DEF ClientTypeOK, First
    <2>2. First + j \in 1 .. call.depth
        BY <1>4, <2>1
    <2>3. call.addr + (IF call.fifo THEN 0 ELSE (First + j) - 1) = force_trig
        <3>1. call.addr + Offset + (IF call.fifo THEN 0 ELSE j - 1) = force_trig
            BY <1>5 DEF Access
        <3> HIDE DEF First
        <3>2. CASE call.fifo
            BY <2>1, <3>1, <3>2 DEF Offset
        <3>3. CASE ~call.fifo
            BY <1>4, <2>1, <3>1, <3>3 DEF Offset
        <3> QED BY <3>2, <3>3
    <2>4. First + j \in WordsFor(call, force_trig)
        <3> DEFINE n == First + j
        <3>1. n \in 1 .. call.depth /\ call.addr + (IF call.fifo THEN 0 ELSE n - 1) = force_trig
            BY <2>2, <2>3
        <3> HIDE DEF n
        <3>2. n \in WordsFor(call, force_trig)
            BY <3>1 DEF WordsFor
        <3> QED BY <3>2 DEF n
    <2>5. call.data[First + j] = 0
        BY <1>2, <2>4 DEF CallCalm
    <2> QED BY <1>5, <2>5 DEF Access
<1>8. Remains' /\ Asked' /\ ~Clearing
    BY <1>1, <1>2 DEF Remains, Asked, Clearing, InCommand
<1>9. Calm => Calm'
    BY <1>2, <1>6, <1>7 DEF Calm, CallCalm
<1> QED BY <1>8, <1>9 DEF CalmInv

\* The lines stay calm from one call to the next.
LEMMA CalmStep == RunInv /\ CalmInv /\ [Next]_vars => CalmInv'
<1> SUFFICES ASSUME RunInv, CalmInv, [Next]_vars
             PROVE  CalmInv'
    OBVIOUS
<1>1. Remains /\ Asked /\ (unreleased \/ Clearing \/ Calm)
    BY DEF CalmInv
\* What else there is sends nothing and performs nothing, outside of a command.
<1>2. ASSUME UNCHANGED <<backlog, log>>, unreleased => unreleased', ~InCommand,
             InCommand' => phase' = "command" /\ values' = <<>> /\ todo' \in Commands,
             CallCalm => CallCalm' \/ unreleased'
      PROVE  CalmInv'
    <2>1. Remains' /\ Asked'
        BY <1>1, <1>2 DEF Remains, Asked, InCommand
    <2>2. ~Clearing /\ (Calm => Calm' \/ unreleased')
        BY <1>2 DEF Clearing, Calm
    <2> QED BY <1>1, <1>2, <2>1, <2>2 DEF CalmInv
<1>3. CASE UNCHANGED vars
    BY <1>1, <1>3 DEF vars, exchangeVars, blockVars, ctuVars, CalmInv, Remains, Asked,
        Clearing, Calm, CallCalm, InCommand, IsStep, IsEntry, Answered
<1>4. CASE Command
    BY <1>2, <1>4 DEF Command, InCommand, CallCalm
<1>5. CASE Ask
    BY <1>5, CalmAsk
<1>6. CASE Restart \/ GetRefused
    BY <1>2, <1>6 DEF Restart, GetRefused, InCommand, ctuVars, CallCalm
<1>7. ASSUME NEW ok \in BOOLEAN, Step(ok) PROVE CalmInv'
    BY <1>7, CalmStepReturns
<1>8. CASE GlibBlockCall
    <2>1. /\ UNCHANGED <<todo, values, outcome>> /\ BlockCall
          /\ unreleased' = (unreleased \/ (/\ phase' = "looping"
                                            /\ \E j \in WordsFor(call', force_trig) :
                                                  call'.data[j] # 0))
        BY <1>8 DEF GlibBlockCall
    <2>2. CASE SendPart
        BY <2>1, <2>2, CalmSendPart
    <2>3. CASE ~SendPart
        <3>1. UNCHANGED <<backlog, log>> /\ ~InCommand /\ ~InCommand' /\ phase' # "waiting"
            BY <2>1, <2>3 DEF BlockCall, Begin, PartDone, PartFails, InCommand
        <3>2. CallCalm' \/ unreleased'
            BY <2>1, <3>1 DEF CallCalm
        <3> QED BY <1>2, <2>1, <3>1, <3>2
    <2> QED BY <2>2, <2>3
<1>9. CASE Outside /\ UNCHANGED <<blockVars, ctuVars>>
    <2>1. ASSUME NEW k \in 0 .. MAX_BLOCK_TRANSFER_DEPTH, Perform(k)
          PROVE  CalmInv'
        <3>1. k \in Nat
            BY BlockAssumption
        <3> QED BY <1>9, <2>1, <3>1, CalmPerform
    <2> QED BY <1>9, <2>1, CalmLose DEF Outside
<1> QED BY <1>3, <1>4, <1>5, <1>6, <1>7, <1>8, <1>9 DEF Next

\* Nothing was asserted at the start.
LEMMA CalmInit == Init => CalmInv
<1> SUFFICES ASSUME Init PROVE CalmInv
    OBVIOUS
<1> USE DEF Init, BlockInit, ExchangeInit
<1>1. Remains /\ Asked
    BY DEF Remains, Asked, InCommand
<1>2. Calm
    BY DEF Calm, Low, CallCalm
<1> QED BY <1>1, <1>2 DEF CalmInv

\* A log that is low shows the level 0.
LEMMA LowLevel ==
    ASSUME ExchangeTypeOK, Low(log)
    PROVE  Level(force_trig) = 0
<1> DEFINE W == WritesTo(force_trig)
<1>1. CASE W = {}
    BY <1>1 DEF Level
<1>2. CASE W # {}
    <2>1. W \subseteq 0 .. Len(log) /\ Len(log) \in Nat
        BY DEF WritesTo, ExchangeTypeOK
    <2>2. Max(W) \in W /\ \A y \in W : y <= Max(W)
        <3> HIDE DEF W
        <3> QED BY <1>2, <2>1, MaxOf
    <2>3. Max(W) \in DOMAIN log /\ log[Max(W)].op = "write" /\ log[Max(W)].addr = force_trig
        BY <2>2 DEF WritesTo
    <2>4. log[Max(W)].data = 0
        <3> SUFFICES ASSUME log[Max(W)].data # 0 PROVE FALSE
            OBVIOUS
        <3>1. PICK j \in DOMAIN log : Max(W) < j /\ log[j].op = "write"
                                      /\ log[j].addr = force_trig
            BY <2>3 DEF Low, Asserts
        <3>2. j \in W
            BY <3>1 DEF WritesTo
        <3>3. j \in Nat /\ Max(W) \in Nat
            BY <2>1, <2>2, <3>2
        <3> HIDE DEF W
        <3> QED BY <2>2, <3>1, <3>2, <3>3
    <2> QED BY <1>2, <2>4 DEF Level
<1> QED BY <1>1, <1>2

\* The inductive invariant of the trigger lines: unless a clearing write went
\* unacknowledged or is still to come, or a line was asserted by an operator or a
\* block call, no line is asserted and nothing that can still be performed, words of
\* a transfer included, asserts one.
THEOREM LinesCalm == FairSpec => []CalmInv
<1> QED BY CalmInit, CalmStep, RunInvariant, PTL DEF FairSpec

\* Between commands of ctu_control.py a line is asserted only if a clearing write was
\* not acknowledged, or an operator or a block call asserted it by its own value.
THEOREM LinesReleased == FairSpec => []TriggerReleased
<1>1. RunInv /\ CalmInv => TriggerReleased
    <2> SUFFICES ASSUME RunInv, CalmInv, phase = "idle", ~unreleased
                 PROVE  Level(force_trig) = 0
        BY DEF TriggerReleased
    <2>1. Low(log) /\ ExchangeTypeOK
        BY DEF CalmInv, Calm, Clearing, InCommand, RunInv
    <2> QED BY <2>1, LowLevel
<1> QED BY <1>1, LinesCalm, RunInvariant, PTL

-----------------------------------------------------------------------------
\* A get of a command returns the word read last, and nothing is left to be
\* performed; a strict one returns it or ends the program.
LEMMA GetReturns ==
    ASSUME RunInv, CalmInv, NEW ok \in BOOLEAN, Step(ok), ok \/ phase' # "dead",
           todo[1].op = "read", todo[1].strict = TRUE
    PROVE  /\ ok /\ phase' # "dead" /\ values' = Append(values, Len(log))
           /\ log # <<>> /\ Len(log) \in DOMAIN log /\ IsEntry(log[Len(log)], todo[1])
           /\ backlog = <<>>
<1>1. /\ ClientTypeOK /\ ExchangeTypeOK /\ Remains /\ Asked
      /\ phase = "asking" /\ InCommand
    BY DEF RunInv, CalmInv, Step, InCommand
<1>2. Head(todo) = todo[1] /\ todo[1] \in Steps
    BY <1>1, CommandNow
<1> DEFINE value == IF ok /\ todo[1].op = "read" THEN answer.at + 1 ELSE None
<1>3. /\ values' = Append(values, value) /\ (ok => Answered(calls, 0))
      /\ phase' = "dead" <=> value = None
    <2>1. /\ values' = Append(values, value)
          /\ phase' = "dead" => Stops(todo[1], value, ok)
          /\ Stops(todo[1], value, ok) => phase' = "dead"
        BY <1>2 DEF Step
    <2> QED BY <1>1, <2>1 DEF Stops, Step
<1>4. ok
    BY <1>3 DEF None
<1>5. backlog = <<>> /\ log # <<>> /\ IsEntry(log[Len(log)], todo[1]) /\ answer.at + 1 = Len(log)
    BY <1>1, <1>3, <1>4 DEF Asked
<1>6. Len(log) \in DOMAIN log /\ Len(log) # 0
    BY <1>1, <1>5, EmptySeq DEF ExchangeTypeOK
<1> QED BY <1>3, <1>4, <1>5, <1>6 DEF None

\* A read of trig_info in a command is strict, alone or one of a pair.
LEMMA PopStep ==
    ASSUME Remains, ClientTypeOK, InCommand, todo[1].addr = trig_info, todo[1].op = "read"
    PROVE  todo[1] = PopOnce /\ todo[1].strict = TRUE
<1>1. /\ Len(todo) \in {1, 2}
      /\ Len(todo) = 2 =>
            \/ todo[1].op = "write"
            \/ todo[1] = get(todo[1].addr, TRUE)
      /\ Len(todo) = 1 =>
            \/ todo[1].addr = trig_info /\ todo[1].op = "read" => todo[1] = PopOnce
            \/ todo[1] = Clear \/ todo[1] = get(todo[1].addr, TRUE)
    BY CommandNow
<1>2. Clear.op = "write"
    BY DEF Clear, set
<1>3. todo[1] = PopOnce
    BY <1>1, <1>2 DEF PopOnce
<1>4. PopOnce.strict = TRUE
    BY DEF PopOnce, get
<1> QED BY <1>3, <1>4

\* A single word at an address.
LEMMA CoversOne ==
    ASSUME NEW p \in Packets, p.words = 1, NEW a \in Nat
    PROVE  Covers(p, a) <=> p.addr = a
<1>1. p.addr \in Nat /\ p.addr + (IF p.fifo THEN 0 ELSE p.words - 1) = p.addr
    BY DEF Packets
<1> QED BY <1>1 DEF Covers

\* How many words the command has popped.
LEMMA PoppedIs ==
    ASSUME Remains
    PROVE  /\ Popped \in Nat
           /\ ~(InCommand /\ todo[1] = PopOnce) => Popped = 0
           /\ InCommand => Len(values) \in {0, 1}
<1>1. InCommand => Len(values) \in {0, 1}
    BY DEF Remains
<1> QED BY <1>1 DEF Popped

\* The pairs returned stay what they are.
LEMMA ReturnedStays ==
    ASSUME ReturnedPair, Continues(log, log'), outcome' = outcome,
           (skewed => skewed') \/ Emptied(log') = Len(log')
    PROVE  ReturnedPair'
<1> SUFFICES ASSUME outcome.kind = "returned", Len(outcome.values) = 2,
                    outcome.values[1] # None
             PROVE  LET a == outcome.values[1]
                    IN  /\ outcome.values[2] = a + 1 /\ a \in DOMAIN log' /\ a + 1 \in DOMAIN log'
                        /\ log'[a].op = "read" /\ log'[a + 1].op = "read"
                        /\ log'[a + 1].addr = log'[a].addr
                        /\ (log'[a].addr = trig_info /\ ~skewed' /\ Emptied(log') < a) =>
                               Cardinality(PopsTo(log', a)) % 2 = 1
    BY DEF ReturnedPair
<1> DEFINE a == outcome.values[1]
<1>1. /\ outcome.values[2] = a + 1 /\ a \in DOMAIN log /\ a + 1 \in DOMAIN log
      /\ log[a].op = "read" /\ log[a + 1].op = "read" /\ log[a + 1].addr = log[a].addr
      /\ (log[a].addr = trig_info /\ ~skewed /\ Emptied(log) < a) =>
             Cardinality(PopsTo(log, a)) % 2 = 1
    BY DEF ReturnedPair
<1> HIDE DEF a
<1>2. /\ DOMAIN log = 1 .. Len(log) /\ DOMAIN log' = 1 .. Len(log') /\ Len(log) \in Nat
      /\ Len(log') \in Nat /\ Len(log) <= Len(log') /\ \A i \in 1 .. Len(log) : log'[i] = log[i]
    BY DEF Continues
<1>3. /\ Emptied(log') = Emptied(log) \/ Emptied(log') > Len(log)
      /\ Emptied(log') = Emptied(log) => PopsTo(log', a) = PopsTo(log, a)
    <2>1. a \in 0 .. Len(log)
        BY <1>1, <1>2
    <2> QED BY <2>1, EmptiedGrows
<1>4. /\ a \in DOMAIN log' /\ a + 1 \in DOMAIN log'
      /\ log'[a] = log[a] /\ log'[a + 1] = log[a + 1]
    BY <1>1, <1>2
<1>5. ASSUME log'[a].addr = trig_info, ~skewed', Emptied(log') < a
      PROVE  Cardinality(PopsTo(log', a)) % 2 = 1
    <2>1. a < Len(log') /\ a <= Len(log) /\ a \in Nat
        BY <1>1, <1>2
    <2>2. Emptied(log') \in Nat
        BY EmptiedFacts DEF Continues
    <2> HIDE DEF Emptied
    <2>3. ~skewed
        BY <1>2, <1>5, <2>1, <2>2
    <2>4. Emptied(log') = Emptied(log)
        BY <1>2, <1>3, <1>5, <2>1, <2>2
    <2> QED BY <1>1, <1>3, <1>4, <1>5, <2>3, <2>4
<1> QED BY <1>1, <1>4, <1>5 DEF a

\* A packet is performed that pops a word: it is the step being made.
LEMMA PopPerformed ==
    ASSUME RunInv, CalmInv, Unskewed, NEW k \in Nat, Perform(k),
           UNCHANGED <<blockVars, ctuVars>>, Covers(backlog[1], trig_info),
           backlog[1].op = "read"
    PROVE  /\ phase = "asking" /\ InCommand /\ todo[1] = PopOnce /\ ~Answered(calls, 0)
           /\ k = 1 => Answered(calls, 0)'
           /\ backlog[1].addr = trig_info /\ backlog[1].words = 1
<1>1. ExchangeTypeOK /\ ClientTypeOK /\ Remains /\ Asked
    BY DEF RunInv, CalmInv
<1>2. 1 \in DOMAIN backlog /\ backlog[1] \in Packets
    BY <1>1, NewEntries
<1>3. backlog[1].call = calls /\ phase = "asking" /\ backlog[1].words = 1
    BY <1>2 DEF Unskewed
<1>4. backlog[1].addr = trig_info
    BY <1>2, <1>3, CoversOne, CtuAssumption
<1>5. IsStep(backlog[1], todo[1]) /\ InCommand
    BY <1>1, <1>2, <1>3 DEF Asked, InCommand
<1>6. todo[1] = PopOnce
    BY <1>1, <1>4, <1>5, PopStep DEF IsStep
<1>7. ~Answered(calls, 0) /\ (k = 1 => Answered(calls, 0)')
    BY <1>1, <1>3, PerformAsked
<1> QED BY <1>3, <1>4, <1>5, <1>6, <1>7

\* What is performed keeps the pops paired.
LEMMA PairsPerform ==
    ASSUME RunInv, CalmInv, SecondRead, Unskewed, InPairs, NEW k \in Nat, Perform(k),
           UNCHANGED <<blockVars, ctuVars>>
    PROVE  Unskewed' /\ InPairs'
<1>1. ExchangeTypeOK /\ ClientTypeOK /\ Remains /\ Asked
    BY DEF RunInv, CalmInv
<1> DEFINE p == backlog[1]
           n == Cardinality(PopsTo(log, Len(log)))
           m == Cardinality(PopsTo(log', Len(log')))
<1>2. /\ Continues(log, log') /\ Len(log') = Len(log) + k /\ k <= p.words /\ p \in Packets
      /\ 1 \in DOMAIN backlog
      /\ \A i \in 1 .. Len(log') : Len(log) < i =>
            /\ log'[i].op = p.op /\ Covers(p, log'[i].addr)
            /\ p.words = 1 => log'[i].addr = p.addr
      /\ \A i \in DOMAIN backlog' : i + 1 \in DOMAIN backlog /\ backlog'[i] = backlog[i + 1]
      /\ UNCHANGED <<phase, calls, todo, values, call>>
    BY <1>1, NewEntries DEF ctuVars, blockVars
<1>3. Unskewed'
    BY <1>2 DEF Unskewed
<1>4. /\ phase = "asking" => ~Answered(calls, 0)
      /\ phase = "asking" /\ Answered(calls, 0)' => k = 1 /\ p.call = calls /\ IsStep(p, todo[1])
    BY <1>1, PerformAsked
<1>5. n \in Nat /\ n % 2 = Popped % 2 /\ Len(log) \in Nat
    <2>1. log \in Seq(Entries) /\ Len(log) \in 0 .. Len(log)
        BY <1>1 DEF ExchangeTypeOK
    <2> QED BY <2>1, PopsFinite DEF InPairs
<1> SUFFICES m % 2 = Popped' % 2
    BY <1>3 DEF InPairs
<1> HIDE DEF p
<1>6. /\ Popped \in Nat
      /\ InCommand => Len(values) \in {0, 1}
      /\ PopOnce.op = "read" /\ PopOnce.addr = trig_info
    BY <1>1, PoppedIs DEF PopOnce, get
\* Unless the answer comes to a pop, their number is the same.
<1>7. ASSUME ~(phase = "asking" /\ todo[1] = PopOnce /\ Answered(calls, 0)')
      PROVE  Popped' = Popped
    BY <1>2, <1>4, <1>7 DEF Popped, InCommand
<1>8. CASE ~Covers(p, trig_info)
    <2>1. \A i \in 1 .. Len(log') : Len(log) < i => ~Empties(log'[i]) /\ ~Pops(log'[i])
        BY <1>2, <1>8 DEF Empties, Pops
    <2>2. m = n
        BY <1>2, <2>1, NoneOfThem
    <2>3. ~(phase = "asking" /\ todo[1] = PopOnce /\ Answered(calls, 0)')
        <3> SUFFICES ASSUME phase = "asking", todo[1] = PopOnce, Answered(calls, 0)'
                     PROVE  FALSE
            OBVIOUS
        <3>1. p.addr = trig_info /\ p.call = calls
            BY <1>4, <1>6 DEF IsStep
        <3>2. p.words = 1
            BY <1>2, <3>1 DEF Asked, p, CalmInv
        <3> QED BY <1>2, <1>8, <3>1, <3>2, CoversOne, CtuAssumption
    <2> QED BY <1>5, <1>7, <2>2, <2>3
<1>9. CASE Covers(p, trig_info) /\ k = 0
    <2>1. \A i \in 1 .. Len(log') : Len(log) < i => ~Empties(log'[i]) /\ ~Pops(log'[i])
        BY <1>2, <1>5, <1>9
    <2>2. m = n
        BY <1>2, <2>1, NoneOfThem
    <2> QED BY <1>4, <1>5, <1>7, <1>9, <2>2
<1>10. CASE Covers(p, trig_info) /\ k # 0
    <2>1. p.words = 1 /\ k = 1 /\ p.addr = trig_info
        <3>1. p.words = 1
            BY <1>2, <1>10 DEF Unskewed, p
        <3> QED BY <1>2, <1>10, <3>1, CoversOne, CtuAssumption
    <2>2. Len(log') = Len(log) + 1 /\ Len(log') \in 1 .. Len(log') /\ Len(log) < Len(log')
        BY <1>2, <1>5, <2>1
    <2>3. log'[Len(log')].op = p.op /\ log'[Len(log')].addr = trig_info
        BY <1>2, <2>1, <2>2
    <2>4. CASE p.op = "read"
        <3>1. Pops(log'[Len(log')])
            BY <2>3, <2>4 DEF Pops
        <3>2. m = n + 1
            BY <1>2, <2>2, <3>1, OneMoreEntry
        <3>3. /\ phase = "asking" /\ InCommand /\ todo[1] = PopOnce /\ ~Answered(calls, 0)
              /\ Answered(calls, 0)'
            BY <1>10, <2>1, <2>4, PopPerformed DEF p
        <3>4. Popped = Len(values) /\ Popped' = Len(values) + 1
            BY <1>2, <1>6, <3>3 DEF Popped, InCommand
        <3> QED BY <1>5, <1>6, <3>2, <3>4
    <2>5. CASE p.op = "write"
        <3>1. Empties(log'[Len(log')])
            BY <2>3, <2>5 DEF Empties
        <3>2. m = 0
            BY <1>2, <2>2, <3>1, OneMoreEntry
        <3>3. ASSUME phase = "asking", todo[1] = PopOnce, p.call = calls
              PROVE  FALSE
            BY <1>2, <1>6, <2>5, <3>3 DEF Asked, IsStep, CalmInv, p
        <3>4. Popped' = Popped
            BY <1>4, <1>7, <3>3
        <3>5. ASSUME InCommand, todo[1] = PopOnce
              PROVE  Popped = 0
            <4>1. todo[1] # Clear
                BY <1>6, <3>5 DEF Clear, set
            <4>2. Len(values) # 1
                <5> SUFFICES ASSUME Len(values) = 1 PROVE FALSE
                    OBVIOUS
                <5>1. phase = "asking" /\ p.call = calls
                    BY <1>2, <3>5, <4>1 DEF SecondRead, p
                <5> QED BY <3>3, <3>5, <5>1
            <4> QED BY <1>4, <1>6, <3>5, <4>2 DEF Popped
        <3>6. Popped = 0
            BY <1>1, <3>5, PoppedIs
        <3> QED BY <3>2, <3>4, <3>6
    <2> QED BY <1>2, <2>4, <2>5 DEF Packets, Ops
<1> QED BY <1>8, <1>9, <1>10

\* The second of two reads comes right after the first.
LEMMA SecondPerform ==
    ASSUME RunInv, CalmInv, SecondRead, NEW k \in Nat, Perform(k),
           UNCHANGED <<blockVars, ctuVars>>
    PROVE  SecondRead'
<1>1. ExchangeTypeOK /\ Remains /\ Asked
    BY DEF RunInv, CalmInv
<1>2. /\ Continues(log, log') /\ Len(log') = Len(log) + k /\ k <= backlog[1].words
      /\ 1 \in DOMAIN backlog
      /\ \A i \in DOMAIN backlog' : i + 1 \in DOMAIN backlog /\ backlog'[i] = backlog[i + 1]
      /\ UNCHANGED <<phase, calls, todo, values>>
    BY <1>1, NewEntries DEF ctuVars
<1> SUFFICES ASSUME InCommand, Len(values) = 1, ~(values[1] = None /\ todo[1] = Clear)
             PROVE  SecondRead'
    BY <1>2 DEF SecondRead, InCommand
<1> DEFINE v == values[1]
<1>3. /\ v \in DOMAIN log /\ log[v].op = "read" /\ todo[1] = get(log[v].addr, TRUE)
      /\ IF phase = "asking" /\ Answered(calls, 0) THEN v + 1 = Len(log) ELSE v = Len(log)
      /\ \A i \in DOMAIN backlog : backlog[i].call = calls /\ phase = "asking"
    BY DEF SecondRead
<1> HIDE DEF v
<1>4. v \in DOMAIN log' /\ log'[v] = log[v] /\ Len(log) \in Nat
    BY <1>2, <1>3 DEF Continues
<1>5. phase = "asking" /\ backlog[1].call = calls /\ backlog[1].words = 1
    BY <1>1, <1>2, <1>3 DEF Asked
<1>6. v = Len(log) /\ (Answered(calls, 0)' <=> k = 1) /\ k \in {0, 1}
    <2>1. k \in {0, 1}
        BY <1>2, <1>5
    <2>2. /\ ~Answered(calls, 0)
          /\ Answered(calls, 0)' => k = 1
          /\ k = 1 => Answered(calls, 0)'
        BY <1>1, <1>5, PerformAsked
    <2> QED BY <1>3, <2>1, <2>2
<1>7. IF Answered(calls, 0)' THEN v + 1 = Len(log') ELSE v = Len(log')
    BY <1>2, <1>4, <1>6
<1>8. \A i \in DOMAIN backlog' : backlog'[i].call = calls'
    BY <1>2, <1>3
<1> QED BY <1>2, <1>3, <1>4, <1>5, <1>7, <1>8 DEF SecondRead, v

\* Performing a packet keeps the pairs.
LEMMA PairPerform ==
    ASSUME RunInv, CalmInv, PairInv, NEW k \in Nat, Perform(k),
           UNCHANGED <<blockVars, ctuVars>>
    PROVE  PairInv'
<1>1. UNCHANGED <<outcome, skewed>>
    BY DEF ctuVars
<1>2. Continues(log, log')
    BY NewEntries DEF RunInv
<1>3. ReturnedPair'
    BY <1>1, <1>2, ReturnedStays DEF PairInv
<1>4. SecondRead'
    BY SecondPerform DEF PairInv
<1>5. ~skewed' => Unskewed' /\ InPairs'
    BY <1>1, PairsPerform DEF PairInv
<1> QED BY <1>3, <1>4, <1>5 DEF PairInv

\* A packet is lost.
LEMMA PairLose ==
    ASSUME RunInv, PairInv, LoseRequest, UNCHANGED <<blockVars, ctuVars>>
    PROVE  PairInv'
<1>1. /\ UNCHANGED <<phase, calls, answer, log, todo, values, outcome, skewed, call>>
      /\ \A j \in DOMAIN backlog' : \E i \in DOMAIN backlog : backlog'[j] = backlog[i]
    BY LostFacts DEF RunInv, ctuVars, blockVars
<1>2. SecondRead'
    BY <1>1 DEF PairInv, SecondRead, InCommand, Answered
<1>3. ReturnedPair'
    BY <1>1 DEF PairInv, ReturnedPair
<1>4. Unskewed => Unskewed'
    BY <1>1 DEF Unskewed
<1>5. Popped' = Popped
    BY <1>1 DEF Popped, InCommand, Answered
<1>6. InPairs => InPairs'
    BY <1>1, <1>5 DEF InPairs
<1> QED BY <1>1, <1>2, <1>3, <1>4, <1>6 DEF PairInv

\* A step is sent.
LEMMA PairAsk ==
    ASSUME RunInv, CalmInv, PairInv, Ask
    PROVE  PairInv'
<1> DEFINE p == backlog'[Len(backlog) + 1]
<1>1. /\ phase = "command" /\ phase' = "asking" /\ InCommand /\ InCommand'
      /\ UNCHANGED <<answer, log, call, todo, values, outcome, skewed>>
      /\ DOMAIN backlog' = DOMAIN backlog \cup {Len(backlog) + 1}
      /\ \A i \in DOMAIN backlog : backlog'[i] = backlog[i]
      /\ p.words = 1 /\ p.call = calls' /\ ~Answered(calls, 0)'
    BY AskFacts DEF CalmInv, InCommand
<1> HIDE DEF p
<1>2. \A i \in DOMAIN backlog' :
         (i \in DOMAIN backlog /\ backlog'[i] = backlog[i]) \/ backlog'[i] = p
    BY <1>1 DEF p
<1>3. SecondRead'
    <2>1. Len(values) = 1 => \/ values[1] = None /\ todo[1] = Clear
                             \/ \A i \in DOMAIN backlog : FALSE
        BY <1>1 DEF PairInv, SecondRead
    <2> QED BY <1>1, <1>2, <2>1 DEF PairInv, SecondRead
<1>4. ReturnedPair'
    BY <1>1 DEF PairInv, ReturnedPair
<1>5. Unskewed => Unskewed'
    <2> SUFFICES ASSUME Unskewed PROVE Unskewed'
        OBVIOUS
    <2>1. ASSUME NEW i \in DOMAIN backlog', Covers(backlog'[i], trig_info)
          PROVE  backlog'[i].words = 1 /\ (backlog'[i].op = "read" => backlog'[i].call = calls')
        <3>1. CASE backlog'[i] = p
            BY <1>1, <3>1
        <3>2. CASE i \in DOMAIN backlog /\ backlog'[i] = backlog[i]
            BY <1>1, <2>1, <3>2 DEF Unskewed
        <3> QED BY <1>2, <3>1, <3>2
    <2> QED BY <1>1, <2>1 DEF Unskewed
<1>6. Popped' = Popped
    BY <1>1 DEF Popped
<1>7. InPairs => InPairs'
    BY <1>1, <1>6 DEF InPairs
<1> QED BY <1>1, <1>3, <1>4, <1>5, <1>7 DEF PairInv

\* A step returns: what the second of two reads must find.
LEMMA SecondStep ==
    ASSUME RunInv, CalmInv, NEW ok \in BOOLEAN, Step(ok)
    PROVE  SecondRead'
<1>1. Remains /\ ClientTypeOK
    BY DEF RunInv, CalmInv
<1> SUFFICES ASSUME InCommand' PROVE SecondRead'
    BY DEF SecondRead
<1>2. /\ phase = "asking" /\ InCommand /\ UNCHANGED <<calls, backlog, answer, log>>
      /\ phase' = "command" /\ Len(todo) = 2 /\ todo' = Tail(todo) /\ todo'[1] = todo[2]
      /\ Len(values') = 1
    BY <1>1, StepFacts DEF InCommand
<1>3. /\ values = <<>> /\ Head(todo) = todo[1]
      /\ \/ todo[1].op = "write" /\ todo[2] = Clear
         \/ todo[1] = get(todo[1].addr, TRUE) /\ todo[2] = todo[1]
    BY <1>1, <1>2, CommandNow
<1>4. CASE todo[1].op = "write" /\ todo[2] = Clear
    <2>1. values' = Append(values, None)
        BY <1>3, <1>4 DEF Step
    <2>2. values'[1] = None
        BY <1>3, <2>1
    <2> QED BY <1>2, <1>4, <2>2 DEF SecondRead
<1>5. CASE todo[1] = get(todo[1].addr, TRUE) /\ todo[2] = todo[1]
    <2>1. todo[1].op = "read" /\ todo[1].strict = TRUE
        <3>1. \A a : get(a, TRUE).op = "read" /\ get(a, TRUE).strict = TRUE
            BY DEF get
        <3> QED BY <1>5, <3>1
    <2>2. /\ values' = Append(values, Len(log))
          /\ Len(log) \in DOMAIN log /\ IsEntry(log[Len(log)], todo[1]) /\ backlog = <<>>
        BY <1>2, <2>1, GetReturns
    <2>3. values'[1] = Len(log)
        BY <1>3, <2>2
    <2>4. log[Len(log)].op = "read" /\ todo'[1] = get(log[Len(log)].addr, TRUE)
        BY <1>2, <1>5, <2>1, <2>2 DEF IsEntry
    <2>5. /\ values'[1] = Len(log') /\ Len(log') \in DOMAIN log' /\ log' = log
          /\ phase' # "asking" /\ DOMAIN backlog' = {}
        BY <1>2, <2>2, <2>3
    <2> QED BY <2>4, <2>5 DEF SecondRead
<1> QED BY <1>3, <1>4, <1>5

\* The pops up to the last entry, if that is one.
LEMMA LastPop ==
    ASSUME NEW l \in Seq(Entries), NEW v \in Nat, v + 1 = Len(l), Pops(l[Len(l)]), Emptied(l) < v
    PROVE  Cardinality(PopsTo(l, Len(l))) = Cardinality(PopsTo(l, v)) + 1
<1>1. Len(l) \in Nat /\ v \in 0 .. Len(l) /\ Emptied(l) \in Nat
    BY EmptiedFacts
<1> HIDE DEF Emptied
<1>2. PopsTo(l, Len(l)) = PopsTo(l, v) \cup {Len(l)}
    BY <1>1 DEF PopsTo
<1>3. Len(l) \notin PopsTo(l, v)
    BY <1>1 DEF PopsTo
<1>4. IsFiniteSet(PopsTo(l, v))
    BY <1>1, PopsFinite
<1> QED BY <1>2, <1>3, <1>4, FS_AddElement

\* A command that returns two words that were read returns a pair.
LEMMA ReturnedStep ==
    ASSUME RunInv, CalmInv, PairInv, NEW ok \in BOOLEAN, Step(ok)
    PROVE  ReturnedPair'
<1>1. /\ Remains /\ ClientTypeOK /\ ExchangeTypeOK /\ Asked /\ SecondRead
    BY DEF RunInv, CalmInv, PairInv
<1>2. /\ phase = "asking" /\ InCommand /\ UNCHANGED <<calls, backlog, answer, log>>
      /\ ok => Answered(calls, 0)
      /\ \/ todo' = <<>> /\ phase' = "dead" /\ outcome'.kind = "TypeError"
         \/ todo' = <<>> /\ phase' = "idle" /\ Len(todo) = 1
            /\ outcome' = [kind |-> "returned", values |-> values']
         \/ phase' = "command" /\ outcome' = outcome
    BY <1>1, StepFacts
<1>3. Head(todo) = todo[1] /\ todo[1] \in Steps
    BY <1>1, <1>2, CommandNow
<1>4. log \in Seq(Entries) /\ Continues(log, log') /\ Len(log) \in Nat
    BY <1>1, <1>2 DEF ExchangeTypeOK, Continues
<1>5. /\ skewed' = IF todo[1].addr # trig_info THEN skewed
                   ELSE IF todo[1].op = "write" THEN skewed /\ ~ok ELSE skewed \/ ~ok \/ Alone
    BY <1>3 DEF Step
\* The mark is taken back only where the FIFO was seen empty.
<1>6. (skewed => skewed') \/ Emptied(log') = Len(log')
    <2> SUFFICES ASSUME skewed, ~skewed' PROVE Emptied(log') = Len(log')
        OBVIOUS
    <2>1. todo[1].addr = trig_info /\ todo[1].op = "write" /\ ok
        BY <1>5, Zenon
    <2>2. log # <<>> /\ IsEntry(log[Len(log)], todo[1])
        BY <1>1, <1>2, <2>1 DEF Asked
    <2>3. Empties(log[Len(log)]) /\ Len(log) \in 1 .. Len(log)
        BY <1>4, <2>1, <2>2, EmptySeq DEF IsEntry, Empties
    <2>4. Emptied(log) = Len(log)
        BY <1>4, <2>3, EmptiedIs
    <2> QED BY <1>2, <2>4
<1>7. CASE outcome' = outcome
    BY <1>4, <1>6, <1>7, ReturnedStays DEF PairInv
<1>8. CASE outcome'.kind = "TypeError"
    BY <1>8 DEF ReturnedPair
<1>9. CASE phase' = "idle" /\ Len(todo) = 1 /\ outcome' = [kind |-> "returned", values |-> values']
    <2> SUFFICES ASSUME Len(values') = 2, values'[1] # None PROVE ReturnedPair'
        BY <1>9 DEF ReturnedPair
    <2>1. PICK x : values' = Append(values, x)
        BY DEF Step
    <2>2. Len(values) = 1 /\ values'[1] = values[1] /\ values'[2] = x
        <3>1. Len(values) \in {0, 1} /\ (Len(values) = 0 => values = <<>>)
            BY <1>1, <1>2 DEF Remains
        <3> QED BY <2>1, <3>1
    <2> DEFINE v == values[1]
    <2>3. /\ v \in DOMAIN log /\ log[v].op = "read" /\ todo[1] = get(log[v].addr, TRUE)
          /\ Answered(calls, 0) => v + 1 = Len(log)
        BY <1>1, <1>2, <2>2 DEF SecondRead
    <2>4. todo[1].op = "read" /\ todo[1].strict = TRUE /\ todo[1].addr = log[v].addr
        BY <2>3 DEF get
    <2>5. /\ ok /\ values' = Append(values, Len(log))
          /\ Len(log) \in DOMAIN log /\ IsEntry(log[Len(log)], todo[1])
        BY <1>9, <2>4, GetReturns
    <2>6. values'[2] = Len(log)
        BY <2>2, <2>5
    <2> HIDE DEF v
    <2>7. v + 1 = Len(log) /\ v \in Nat /\ log[v + 1].op = "read" /\ log[v + 1].addr = log[v].addr
        <3>1. v + 1 = Len(log) /\ v \in Nat
            BY <1>2, <1>4, <2>3, <2>5
        <3>2. log[Len(log)].op = "read" /\ log[Len(log)].addr = log[v].addr
            BY <2>4, <2>5 DEF IsEntry
        <3> QED BY <3>1, <3>2
    <2>8. ASSUME log[v].addr = trig_info, ~skewed', Emptied(log) < v
          PROVE  Cardinality(PopsTo(log, v)) % 2 = 1
        <3>1. ~skewed
            BY <1>5, <2>4, <2>8
        <3>2. Cardinality(PopsTo(log, Len(log))) % 2 = Popped % 2
            BY <3>1 DEF PairInv, InPairs
        <3>3. Popped = 2
            <4>1. todo[1] = PopOnce
                BY <2>3, <2>8 DEF PopOnce
            <4> QED BY <1>2, <2>2, <2>5, <4>1 DEF Popped
        <3>4. Cardinality(PopsTo(log, Len(log))) = Cardinality(PopsTo(log, v)) + 1
            BY <1>4, <2>4, <2>7, <2>8, LastPop DEF Pops
        <3>5. Cardinality(PopsTo(log, v)) \in Nat
            BY <1>4, <2>7, PopsFinite
        <3> QED BY <3>2, <3>3, <3>4, <3>5
    <2> QED BY <1>2, <1>9, <2>2, <2>3, <2>5, <2>6, <2>7, <2>8 DEF ReturnedPair, v
<1> QED BY <1>2, <1>7, <1>8, <1>9

\* A step returns: what may still pop a word, and the pairs.
LEMMA PairsStep ==
    ASSUME RunInv, CalmInv, PairInv, NEW ok \in BOOLEAN, Step(ok), ~skewed'
    PROVE  Unskewed' /\ InPairs'
<1>1. /\ Remains /\ ClientTypeOK /\ ExchangeTypeOK /\ Asked
    BY DEF RunInv, CalmInv
<1>2. /\ phase = "asking" /\ InCommand
      /\ UNCHANGED <<calls, backlog, answer, log>>
      /\ ok => Answered(calls, 0)
      /\ \/ todo' = <<>> /\ phase' = "dead"
         \/ todo' = <<>> /\ phase' = "idle" /\ Len(todo) = 1
         \/ /\ phase' = "command" /\ Len(todo) = 2 /\ todo'[1] = todo[2]
            /\ Len(values') = 1
    BY <1>1, StepFacts
<1>3. /\ Head(todo) = todo[1] /\ todo[1] \in Steps /\ Len(todo) \in {1, 2}
      /\ Len(todo) = 2 =>
            /\ values = <<>>
            /\ \/ todo[1].op = "write" /\ todo[1].addr = force_trig /\ todo[2] = Clear
               \/ todo[1] = get(todo[1].addr, TRUE) /\ todo[2] = todo[1]
    BY <1>1, <1>2, CommandNow
<1>4. log \in Seq(Entries) /\ Len(log) \in Nat
    BY <1>1 DEF ExchangeTypeOK
<1>5. skewed' = IF todo[1].addr # trig_info THEN skewed
                ELSE IF todo[1].op = "write" THEN skewed /\ ~ok ELSE skewed \/ ~ok \/ Alone
    BY <1>3 DEF Step
<1>6. /\ PopOnce.op = "read" /\ PopOnce.addr = trig_info /\ Clear # PopOnce
    <2>1. PopOnce.op = "read" /\ PopOnce.addr = trig_info /\ Clear.op = "write"
        BY DEF PopOnce, Clear, set, get
    <2> QED BY <2>1
<1>7. phase' \notin {"looping", "waiting", "asking"}
    BY <1>2
\* A step that pops nothing.
<1>8. CASE ~(todo[1].addr = trig_info /\ todo[1].op = "read")
    <2>1. Popped = 0
        BY <1>1, <1>6, <1>8, PoppedIs
    <2>2. Popped' = 0
        <3>1. CASE phase' = "command"
            <4>1. todo'[1] = Clear \/ todo'[1] = todo[1]
                BY <1>2, <1>3, <3>1
            <4>2. todo'[1] # PopOnce
                BY <1>6, <1>8, <4>1
            <4> QED BY <4>2 DEF Popped
        <3>2. CASE phase' # "command"
            BY <1>7, <3>2 DEF Popped, InCommand
        <3> QED BY <3>1, <3>2
    <2>3. CASE skewed
        <3>1. todo[1].addr = trig_info /\ todo[1].op = "write" /\ ok
            BY <1>5, <2>3, Zenon
        <3>2. log # <<>> /\ IsEntry(log[Len(log)], todo[1]) /\ backlog = <<>>
            BY <1>1, <1>2, <3>1 DEF Asked
        <3>3. Empties(log[Len(log)]) /\ Len(log) \in 1 .. Len(log)
            BY <1>4, <3>1, <3>2, EmptySeq DEF IsEntry, Empties
        <3>4. Emptied(log) = Len(log)
            BY <1>4, <3>3, EmptiedIs
        <3>5. PopsTo(log, Len(log)) = {}
            BY <1>4, <3>4 DEF PopsTo
        <3>6. Cardinality(PopsTo(log, Len(log))) = 0
            BY <3>5, FS_EmptySet
        <3>7. InPairs'
            BY <1>2, <2>2, <3>6 DEF InPairs
        <3>8. DOMAIN backlog' = {}
            BY <1>2, <3>2
        <3> QED BY <1>7, <3>7, <3>8 DEF Unskewed
    <2>4. CASE ~skewed
        <3>1. Unskewed /\ InPairs
            BY <2>4 DEF PairInv
        <3>2. InPairs'
            BY <1>2, <2>1, <2>2, <3>1 DEF InPairs
        <3>3. ASSUME NEW i \in DOMAIN backlog, Covers(backlog[i], trig_info)
              PROVE  backlog[i].words = 1 /\ backlog[i].op # "read"
            <4>1. backlog[i].words = 1 /\ backlog[i] \in Packets
                BY <1>1, <3>1, <3>3 DEF Unskewed, ExchangeTypeOK
            <4>2. backlog[i].addr = trig_info
                BY <3>3, <4>1, CoversOne, CtuAssumption
            <4>3. ASSUME backlog[i].op = "read" PROVE FALSE
                <5>1. backlog[i].call = calls
                    BY <3>1, <3>3, <4>3 DEF Unskewed
                <5>2. IsStep(backlog[i], todo[1])
                    BY <1>1, <1>2, <5>1 DEF Asked
                <5> QED BY <1>8, <4>2, <4>3, <5>2 DEF IsStep
            <4> QED BY <4>1, <4>3
        <3>4. Unskewed'
            BY <1>2, <1>7, <3>3 DEF Unskewed
        <3> QED BY <3>2, <3>4
    <2> QED BY <2>3, <2>4
\* One that pops a word.
<1>9. CASE todo[1].addr = trig_info /\ todo[1].op = "read"
    <2>1. ok /\ ~skewed /\ ~Alone
        BY <1>5, <1>9
    <2>2. /\ todo[1] = PopOnce /\ todo[1].strict = TRUE
        BY <1>1, <1>2, <1>9, PopStep
    <2>9. Len(todo) = 1 => Len(values) = 1
        <3> SUFFICES ASSUME Len(todo) = 1 PROVE Len(values) = 1
            OBVIOUS
        <3>1. todo \in Seq(Steps)
            BY <1>1, <1>2, CommandNow
        <3> DEFINE t == Tail(todo)
        <3>2. t \in Seq(Steps) /\ Len(t) = 0
            BY <3>1
        <3>3. t = <<>>
            <4> HIDE DEF t
            <4> QED BY <3>2
        <3> QED BY <1>1, <1>2, <2>1, <3>3 DEF Alone, Remains
    <2>3. phase' # "dead" /\ backlog = <<>>
        BY <1>9, <2>1, <2>2, GetReturns
    <2>4. Unskewed'
        <3>1. DOMAIN backlog' = {}
            BY <1>2, <2>3
        <3> QED BY <1>7, <3>1 DEF Unskewed
    <2>5. Cardinality(PopsTo(log, Len(log))) % 2 = Popped % 2
        BY <2>1 DEF PairInv, InPairs
    <2>6. Popped = Len(values) + 1
        BY <1>2, <2>1, <2>2 DEF Popped
    <2>7. Popped' % 2 = Popped % 2
        <3>1. CASE Len(todo) = 1
            <4>1. ~InCommand'
                BY <1>2, <2>3, <3>1 DEF InCommand
            <4>2. Popped' = 0
                BY <4>1 DEF Popped
            <4>3. Len(values) = 1
                BY <2>9, <3>1
            <4>4. Popped = 2
                BY <2>6, <4>3
            <4> QED BY <4>2, <4>4
        <3>2. CASE Len(todo) = 2
            <4>1. Popped = 1
                BY <1>3, <2>6, <3>2
            <4>2. phase' = "command" /\ todo'[1] = PopOnce /\ Len(values') = 1
                <5>1. phase' = "command" /\ todo'[1] = todo[2] /\ Len(values') = 1
                    BY <1>2, <2>3, <3>2
                <5>2. todo[2] = todo[1]
                    BY <1>3, <1>9, <3>2
                <5> QED BY <2>2, <5>1, <5>2
            <4>3. Popped' = 1
                BY <4>2 DEF Popped, InCommand
            <4> QED BY <4>1, <4>3
        <3> QED BY <1>3, <3>1, <3>2
    <2>8. InPairs'
        BY <1>2, <2>5, <2>7 DEF InPairs
    <2> QED BY <2>4, <2>8
<1> QED BY <1>8, <1>9

\* A call of another kind: a transfer that covers the FIFO marks it.
LEMMA PairGlib ==
    ASSUME RunInv, PairInv, GlibBlockCall
    PROVE  PairInv'
<1>1. /\ ClientTypeOK /\ ExchangeTypeOK
    BY DEF RunInv
<1>2. /\ BlockCall /\ UNCHANGED <<todo, values, outcome>>
      /\ skewed' = (skewed \/ (phase' = "looping" /\ WordsFor(call', trig_info) # {}))
    BY DEF GlibBlockCall
<1>3. UNCHANGED <<log, answer>> /\ phase # "asking" /\ ~InCommand /\ ~InCommand'
    BY <1>2 DEF BlockCall, Begin, SendPart, PartDone, PartFails, InCommand
<1>4. SecondRead' /\ ReturnedPair'
    BY <1>2, <1>3 DEF PairInv, SecondRead, ReturnedPair
<1>5. Popped = 0 /\ Popped' = 0
    BY <1>3 DEF Popped
<1> SUFFICES ASSUME ~skewed' PROVE Unskewed' /\ InPairs'
    BY <1>4 DEF PairInv
<1>6. Unskewed /\ InPairs /\ (phase' = "looping" => WordsFor(call', trig_info) = {})
    BY <1>2 DEF PairInv
<1>7. InPairs'
    BY <1>3, <1>5, <1>6 DEF InPairs
<1>8. \A i \in DOMAIN backlog : Covers(backlog[i], trig_info) =>
         backlog[i].words = 1 /\ backlog[i].op # "read"
    BY <1>3, <1>6 DEF Unskewed
<1>9. CASE ~SendPart
    <2>1. backlog' = backlog /\ phase' # "waiting"
        BY <1>2, <1>6, <1>9 DEF BlockCall, Begin, PartDone, PartFails
    <2>2. Unskewed'
        BY <1>3, <1>6, <1>8, <2>1 DEF Unskewed
    <2> QED BY <1>7, <2>2
<1>10. CASE SendPart
    <2> DEFINE p == [call |-> call.n, first |-> First, op |-> call.op, fifo |-> call.fifo,
                     addr |-> call.addr + Offset, words |-> Words % WordRange,
                 data |-> SubSeq(call.data, First + 1, First + Words)]
    <2>1. /\ phase = "looping" /\ phase' = "waiting" /\ call' = call
          /\ backlog' = Append(backlog, p)
        BY <1>10 DEF SendPart, blockVars
    <2>2. WordsFor(call, trig_info) = {}
        BY <1>6, <2>1 DEF Unskewed
    <2>3. p.addr = call.addr + Offset /\ p.fifo = call.fifo /\ p.words = Words
          /\ Words \in 1 .. remaining /\ First \in 0 .. call.depth - 1
        <3>1. remaining > 0
            BY <2>1 DEF RunInv, BetweenParts
        <3> QED BY <1>1, <3>1, WordsInHeader
    <2> HIDE DEF p
    <2>4. ~Covers(p, trig_info)
        <3> SUFFICES ASSUME Covers(p, trig_info)
                     PROVE  \E j \in 1 .. call.depth :
                               call.addr + (IF call.fifo THEN 0 ELSE j - 1) = trig_info
            BY <2>2 DEF WordsFor
        <3>1. /\ call.addr \in Nat /\ call.depth \in Nat /\ remaining \in Nat
              /\ remaining <= call.depth /\ trig_info \in Nat
            BY <1>1, CtuAssumption DEF ClientTypeOK
        <3>2. CASE call.fifo
            <4>1. p.addr = call.addr
                BY <2>3, <3>1, <3>2 DEF Offset
            <4>2. call.addr = trig_info
                BY <2>3, <3>1, <3>2, <4>1 DEF Covers
            <4>3. 1 \in 1 .. call.depth /\ call.addr + 0 = trig_info
                BY <2>3, <3>1, <4>2
            <4> QED BY <3>2, <4>3
        <3>3. CASE ~call.fifo
            <4>1. p.addr = call.addr + First /\ First = call.depth - remaining
                BY <2>3, <3>3 DEF Offset, First
            <4>2. p.addr \in Nat /\ call.addr <= p.addr
                  /\ p.addr + (p.words - 1) <= call.addr + (call.depth - 1)
                BY <2>3, <3>1, <4>1
            <4>3. p.words - 1 \in Int /\ call.depth - 1 \in Int
                BY <2>3, <3>1
            <4>4. trig_info \in p.addr .. p.addr + (p.words - 1)
                BY <2>3, <3>3 DEF Covers
            <4> DEFINE j == trig_info - call.addr + 1
            <4>5. j \in 1 .. call.depth /\ call.addr + (j - 1) = trig_info
                BY <3>1, <4>2, <4>3, <4>4
            <4> HIDE DEF j
            <4> QED BY <3>3, <4>5
        <3> QED BY <3>2, <3>3
    <2>5. \A i \in DOMAIN backlog' :
             backlog'[i] = p \/ (i \in DOMAIN backlog /\ backlog'[i] = backlog[i])
        <3>1. backlog \in Seq(Packets)
            BY <1>1 DEF ExchangeTypeOK
        <3> QED BY <2>1, <3>1
    <2>6. Unskewed'
        BY <1>8, <2>1, <2>2, <2>4, <2>5 DEF Unskewed
    <2> QED BY <1>7, <2>6
<1> QED BY <1>9, <1>10

\* One lemma for every step of the machine.
LEMMA PairStep == RunInv /\ CalmInv /\ PairInv /\ [Next]_vars => PairInv'
<1> SUFFICES ASSUME RunInv, CalmInv, PairInv, [Next]_vars
             PROVE  PairInv'
    OBVIOUS
<1>1. SecondRead /\ ReturnedPair /\ (~skewed => Unskewed /\ InPairs)
    BY DEF PairInv
<1>2. CASE UNCHANGED vars
    BY <1>1, <1>2 DEF vars, exchangeVars, blockVars, ctuVars, PairInv, SecondRead, ReturnedPair,
        Unskewed, InPairs, Popped, InCommand, Answered
<1>3. CASE Command \/ Restart \/ GetRefused
    <2>1. /\ UNCHANGED <<calls, backlog, log, skewed, call>>
          /\ ~InCommand /\ phase # "asking"
          /\ phase' \in {"command", "idle", "dead"}
          /\ phase' = "command" => values' = <<>>
          /\ outcome' = outcome \/ outcome'.kind # "returned"
        BY <1>3 DEF Command, Restart, GetRefused, InCommand, ctuVars, blockVars
    <2>2. SecondRead'
        <3>1. Len(<<>>) = 0
            OBVIOUS
        <3> QED BY <2>1, <3>1 DEF SecondRead, InCommand
    <2>3. ReturnedPair'
        BY <1>1, <2>1 DEF ReturnedPair
    <2>4. Popped = 0 /\ Popped' = 0
        <3>1. phase' = "command" => Len(values') = 0
            BY <2>1
        <3> QED BY <2>1, <3>1 DEF Popped, InCommand
    <2>5. InPairs => InPairs'
        BY <2>1, <2>4 DEF InPairs
    <2>6. Unskewed => Unskewed'
        BY <2>1 DEF Unskewed
    <2> QED BY <1>1, <2>1, <2>2, <2>3, <2>5, <2>6 DEF PairInv
<1>4. CASE Ask
    BY <1>4, PairAsk
<1>5. ASSUME NEW ok \in BOOLEAN, Step(ok) PROVE PairInv'
    BY <1>5, SecondStep, ReturnedStep, PairsStep DEF PairInv
<1>6. CASE GlibBlockCall
    BY <1>6, PairGlib
<1>7. CASE Outside /\ UNCHANGED <<blockVars, ctuVars>>
    <2>1. ASSUME NEW k \in 0 .. MAX_BLOCK_TRANSFER_DEPTH, Perform(k)
          PROVE  PairInv'
        <3>1. k \in Nat
            BY BlockAssumption
        <3> QED BY <1>7, <2>1, <3>1, PairPerform
    <2> QED BY <1>7, <2>1, PairLose DEF Outside
<1> QED BY <1>2, <1>3, <1>4, <1>5, <1>6, <1>7 DEF Next

\* Nothing was popped at the start.
LEMMA PairInit == Init => PairInv
<1> SUFFICES ASSUME Init PROVE PairInv
    OBVIOUS
<1> USE DEF Init, BlockInit, ExchangeInit
<1>1. SecondRead /\ ReturnedPair /\ Unskewed
    BY DEF SecondRead, ReturnedPair, Unskewed, InCommand
<1>2. InPairs
    <2>1. Popped = 0 /\ Len(log) = 0 /\ log \in Seq(Entries)
        BY DEF Popped, InCommand
    <2>2. Emptied(log) \in 0 .. Len(log)
        <3>1. \A l \in Seq(Entries) : Emptied(l) \in 0 .. Len(l)
            BY EmptiedFacts
        <3> QED BY <2>1, <3>1
    <2>3. PopsTo(log, Len(log)) = {}
        BY <2>1, <2>2 DEF PopsTo
    <2> QED BY <2>1, <2>3, FS_EmptySet DEF InPairs
<1> QED BY <1>1, <1>2 DEF PairInv

\* trigger_information of ctu_control.py returns two words popped one right after
\* the other, the first half of a trigger first: the inductive invariant is that
\* the words popped since the FIFO was emptied pair up, unless one was popped by a
\* call that is not such a command, or by one whose answer did not come.
THEOREM PairsTogether == FairSpec => []PairTogether
<1>1. FairSpec => []PairInv
    BY PairInit, PairStep, LinesCalm, RunInvariant, PTL DEF FairSpec
<1>2. PairInv => PairTogether
    <2> SUFFICES ASSUME PairInv, outcome.kind = "returned", Len(outcome.values) = 2,
                        outcome.values[1] # None, log[outcome.values[1]].addr = trig_info
                 PROVE  LET a == outcome.values[1]
                            b == outcome.values[2]
                            emptied == Max(WritesTo(trig_info) \cup {0})
                            pops(i) == {j \in emptied + 1 .. i :
                                           log[j].op = "read" /\ log[j].addr = trig_info}
                        IN  /\ b = a + 1 /\ log[b].op = "read" /\ log[b].addr = trig_info
                            /\ (~skewed /\ emptied < a) => Cardinality(pops(a)) % 2 = 1
        BY DEF PairTogether
    <2>1. Emptied(log) = Max(WritesTo(trig_info) \cup {0})
        BY DEF Emptied, WritesTo
    <2>2. \A i : PopsTo(log, i) = {j \in Emptied(log) + 1 .. i :
                                      log[j].op = "read" /\ log[j].addr = trig_info}
        BY DEF PopsTo, Pops
    <2> QED BY <2>1, <2>2 DEF PairInv, ReturnedPair
<1> QED BY <1>1, <1>2, PTL
=============================================================================
