-------------------------- MODULE BufferRingProofs --------------------------
(***************************************************************************)
(* Proofs about BufferRing, for a ring of any size.  RingInv is inductive  *)
(* (RingInvStep); the ownership and ordering properties of the ring follow *)
(* from it, and so does the refinement of BufferFifo.                      *)
(***************************************************************************)
EXTENDS BufferRing, TLAPS

\* The pointers of the selector stay on the ring.
LEMMA NextBufOnRing == \A b \in Buffers : NextBuf(b) \in Buffers
  BY NBufAssumption DEF Buffers, NextBuf

\* Two buffers have different successors.
LEMMA NextBufInjective ==
    \A b, c \in Buffers : NextBuf(b) = NextBuf(c) => b = c
  BY NBufAssumption DEF Buffers, NextBuf

\* After reset the ring satisfies its invariant.
LEMMA RingInvInit == RingInit => RingInv
<1> SUFFICES ASSUME RingInit PROVE RingInv
  OBVIOUS
<1>1. order = <<>> /\ Len(order) = 0 /\ order \in Seq(Buffers)
  BY DEF RingInit
<1>2. RingTypeOK
  <2>1. 0 \in Buffers
    BY NBufAssumption DEF Buffers
  <2> QED
    BY <1>1, <2>1 DEF RingInit, SelInit, RingTypeOK, SelTypeOK
<1>3. FreeOrPending /\ WriterOwnsFreeBuffer /\ SendsOldest /\ PendingIsOrder
  BY <1>1 DEF RingInit, SelInit, FreeOrPending, WriterOwnsFreeBuffer,
     SendsOldest, PendingIsOrder
<1>4. Consecutive /\ ReaderFindsOldest /\ WriterFindsNext
  BY <1>1 DEF Consecutive, ReaderFindsOldest, WriterFindsNext
<1> QED
  BY <1>2, <1>3, <1>4 DEF RingInv

-----------------------------------------------------------------------------
\* One edge of the clock, spelled out on the history: the oldest entry leaves
\* when sent is pulsed, write_sig joins when written is.
LEMMA TickOrder ==
    ASSUME RingInv, NEW written \in BOOLEAN, NEW we \in BOOLEAN,
           NEW sent \in BOOLEAN, Tick(written, we, sent)
    PROVE  LET off == IF sent THEN 1 ELSE 0
               add == IF written THEN 1 ELSE 0
           IN  /\ sent => Len(order) > 0 /\ send_sig = order[1]
               /\ order' \in Seq(Buffers)
               /\ Len(order') = Len(order) - off + add
               /\ \A i \in 1 .. Len(order') :
                     order'[i] = IF i <= Len(order) - off THEN order[i + off]
                                 ELSE write_sig
<1> DEFINE kept == IF sent THEN Tail(order) ELSE order
           off == IF sent THEN 1 ELSE 0
           add == IF written THEN 1 ELSE 0
<1>1. order \in Seq(Buffers) /\ write_sig \in Buffers
  BY DEF RingInv, RingTypeOK, SelTypeOK
<1>2. sent => Len(order) > 0 /\ send_sig = order[1]
  BY <1>1 DEF Tick, RingInv, SendsOldest
<1>3. /\ kept \in Seq(Buffers)
      /\ Len(kept) = Len(order) - off
      /\ \A i \in 1 .. Len(kept) : kept[i] = order[i + off]
  BY <1>1, <1>2
<1>4. order' = IF written THEN Append(kept, write_sig) ELSE kept
  BY DEF Tick
<1> HIDE DEF kept
<1>5. /\ order' \in Seq(Buffers)
      /\ Len(order') = Len(kept) + add
      /\ \A i \in 1 .. Len(order') :
            order'[i] = IF i <= Len(kept) THEN kept[i] ELSE write_sig
  <2>1. CASE written
    BY <1>1, <1>3, <1>4, <2>1
  <2>2. CASE ~written
    BY <1>3, <1>4, <2>2
  <2> QED
    BY <2>1, <2>2
<1> QED
  BY <1>2, <1>3, <1>5

\* One edge keeps the invariant.  off and add say how much the history loses
\* at its head and gains at its tail.
LEMMA RingInvStep == RingInv /\ [RingNext]_ringVars => RingInv'
<1> SUFFICES ASSUME RingInv, [RingNext]_ringVars
             PROVE  RingInv'
  OBVIOUS
<1>1. CASE UNCHANGED ringVars
  BY <1>1 DEF ringVars, selVars, RingInv, RingTypeOK, SelTypeOK, FreeOrPending,
     WriterOwnsFreeBuffer, SendsOldest, PendingIsOrder, Consecutive,
     ReaderFindsOldest, WriterFindsNext
<1>2. ASSUME NEW written \in BOOLEAN, NEW we \in BOOLEAN, NEW sent \in BOOLEAN,
             Tick(written, we, sent)
      PROVE  RingInv'
  <2> DEFINE off == IF sent THEN 1 ELSE 0
             add == IF written THEN 1 ELSE 0
             n   == Len(order)
  <2>1. /\ sent => n > 0 /\ send_sig = order[1]
        /\ order' \in Seq(Buffers)
        /\ Len(order') = n - off + add
        /\ \A i \in 1 .. Len(order') :
              order'[i] = IF i <= n - off THEN order[i + off] ELSE write_sig
    BY <1>2, TickOrder
  <2>2. /\ SelTypeOK /\ order \in Seq(Buffers) /\ n \in Nat
        /\ \A i \in 1 .. n : order[i] \in Buffers
    BY DEF RingInv, RingTypeOK
  <2>3. /\ send_pending = {order[i] : i \in 1 .. n}
        /\ \A i, j \in 1 .. n : order[i] = order[j] => i = j
    BY DEF RingInv, PendingIsOrder
  <2>4. written => ~busy /\ write_sig \notin send_pending
    BY <1>2 DEF Tick, RingInv, WriterOwnsFreeBuffer, FreeOrPending
  <2>5. sent => sending /\ send_sig \in send_pending
    BY <1>2, <2>1, <2>2, <2>3 DEF Tick
  <2>6. send_pending' = (send_pending \cup (IF written THEN {write_sig} ELSE {}))
                            \ (IF sent THEN {send_sig} ELSE {})
    BY <1>2, <2>2 DEF Tick, Clock, SendPendingBlock, Taken, Released, SelTypeOK
  <2>7. RingTypeOK'
    BY <1>2, <2>1, <2>2, NextBufOnRing DEF RingTypeOK, SelTypeOK, Tick, Clock,
       FreeBlock, CleanBlock, SendPendingBlock, BusyBlock, ReqSendBlock,
       WriteBlock, SendBlock, Taken, Released
  <2>8. FreeOrPending'
    BY <1>2, <2>2 DEF RingInv, FreeOrPending, SelTypeOK, Tick, Clock, FreeBlock,
       SendPendingBlock, Taken, Released
  <2>9. /\ free = Buffers \ send_pending
        /\ busy' = IF busy /\ write_sig \notin send_pending THEN FALSE
                   ELSE busy \/ written
        /\ write_sig' = IF busy /\ write_sig \in send_pending
                        THEN NextBuf(write_sig) ELSE write_sig
        /\ send_sig' = IF ~sending /\ send_sig \notin send_pending
                       THEN NextBuf(send_sig) ELSE send_sig
        /\ sending' = ((~sending /\ send_sig \in send_pending)
                           \/ (sending /\ ~sent))
    BY <1>2, <2>2 DEF RingInv, FreeOrPending, SelTypeOK, Tick, Clock, BusyBlock,
       WriteBlock, SendBlock, ReqSendBlock
  <2>10. WriterOwnsFreeBuffer'
    <3>1. ~busy' => write_sig' = write_sig /\ ~written
                    /\ write_sig \notin send_pending
      BY <2>2, <2>4, <2>9 DEF SelTypeOK, RingInv, WriterOwnsFreeBuffer
    <3> QED
      BY <2>2, <2>6, <2>8, <3>1 DEF WriterOwnsFreeBuffer, FreeOrPending, SelTypeOK
  <2>11. PendingIsOrder'
    <3>1. \A i, j \in 1 .. Len(order') : order'[i] = order'[j] => i = j
      BY <2>1, <2>2, <2>3, <2>4
    <3>2. \A i \in 1 .. Len(order') : order'[i] \in send_pending'
      BY <2>1, <2>2, <2>3, <2>4, <2>5, <2>6
    <3>3. ASSUME NEW b \in send_pending'
          PROVE  \E i \in 1 .. Len(order') : order'[i] = b
      <4>1. CASE written /\ b = write_sig
        BY <2>1, <2>2, <4>1
      <4>2. CASE ~(written /\ b = write_sig)
        <5>1. b \in send_pending /\ (sent => b # send_sig)
          BY <2>6, <3>3, <4>2
        <5>2. PICK k \in 1 .. n : order[k] = b
          BY <2>3, <5>1
        <5>3. k - off \in 1 .. n - off
          BY <2>1, <2>2, <5>1, <5>2
        <5>4. k - off \in 1 .. Len(order') /\ order'[k - off] = order[k]
          BY <2>1, <2>2, <5>3
        <5> QED
          BY <5>2, <5>4
      <4> QED
        BY <4>1, <4>2
    <3> QED
      BY <3>1, <3>2, <3>3 DEF PendingIsOrder
  <2>12. (sending \/ send_sig \in send_pending) => n > 0 /\ send_sig = order[1]
    <3>1. CASE sending
      BY <2>2, <3>1 DEF RingInv, SendsOldest
    <3>2. CASE ~sending /\ send_sig \in send_pending
      <4>1. PICK k \in 1 .. n : send_sig = order[k]
        BY <2>3, <3>2
      <4>2. k \notin 2 .. n
        BY <4>1 DEF RingInv, ReaderFindsOldest
      <4> QED
        BY <2>2, <4>1, <4>2
    <3> QED
      BY <3>1, <3>2
  <2>13. SendsOldest'
    <3>1. sending' => ~sent /\ send_sig' = send_sig /\ n > 0
                         /\ send_sig = order[1]
      BY <2>5, <2>9, <2>12
    <3>2. sending' => Len(order') > 0 /\ order'[1] = order[1]
      BY <2>1, <2>2, <3>1
    <3> QED
      BY <2>1, <3>1, <3>2 DEF SendsOldest
  <2>14. Consecutive'
    <3> SUFFICES ASSUME NEW i \in 1 .. Len(order') - 1
                 PROVE  order'[i + 1] = NextBuf(order'[i])
      BY DEF Consecutive
    <3>1. CASE i + 1 <= n - off
      <4>1. i + off \in 1 .. n - 1
        BY <2>2, <3>1
      <4>2. order[(i + off) + 1] = NextBuf(order[i + off])
        BY <4>1 DEF RingInv, Consecutive
      <4>3. order'[i] = order[i + off] /\ order'[i + 1] = order[(i + off) + 1]
        BY <2>1, <2>2, <3>1
      <4> QED
        BY <4>2, <4>3
    <3>2. CASE i + 1 > n - off
      <4>1. written /\ i = n - off /\ n > 0
        BY <2>1, <2>2, <3>2
      <4>2. order'[i] = order[n] /\ order'[i + 1] = write_sig
        BY <2>1, <2>2, <4>1
      <4>3. write_sig = NextBuf(order[n])
        BY <2>2, <2>4, <4>1 DEF RingInv, WriterFindsNext
      <4> QED
        BY <4>2, <4>3
    <3> QED
      BY <2>2, <3>1, <3>2
  <2>15. ReaderFindsOldest'
    <3> SUFFICES ASSUME NEW i \in 2 .. Len(order')
                 PROVE  send_sig' # order'[i]
      BY DEF ReaderFindsOldest
    <3>1. CASE sending \/ send_sig \in send_pending
      <4>1. n > 0 /\ send_sig = order[1] /\ send_sig' = send_sig
        BY <2>9, <2>12, <3>1
      <4>2. CASE i <= n - off
        BY <2>1, <2>2, <2>3, <4>1, <4>2
      <4>3. CASE i > n - off
        <5>1. written /\ order'[i] = write_sig
          BY <2>1, <2>2, <4>3
        <5>2. send_sig \in send_pending
          BY <2>2, <2>3, <4>1
        <5> QED
          BY <2>4, <4>1, <5>1, <5>2
      <4> QED
        BY <2>2, <4>2, <4>3
    <3>2. CASE ~sending /\ send_sig \notin send_pending
      <4>1. send_sig' = NextBuf(send_sig) /\ ~sent
        BY <2>5, <2>9, <3>2
      <4>2. i - 1 \in 1 .. Len(order') - 1 /\ i - 1 \in 1 .. n
              /\ order'[i - 1] = order[i - 1]
        BY <2>1, <2>2, <4>1
      <4>3. order'[(i - 1) + 1] = NextBuf(order'[i - 1])
        BY <2>14, <4>2 DEF Consecutive
      <4>4. order[i - 1] \in send_pending /\ order[i - 1] \in Buffers
        BY <2>2, <2>3, <4>2
      <4>5. NextBuf(send_sig) # NextBuf(order[i - 1])
        BY <2>2, <3>2, <4>4, NextBufInjective DEF SelTypeOK
      <4>6. (i - 1) + 1 = i
        OBVIOUS
      <4> QED
        BY <4>1, <4>2, <4>3, <4>5, <4>6
    <3> QED
      BY <3>1, <3>2
  <2>16. WriterFindsNext'
    <3> SUFFICES ASSUME order' # <<>>
                 PROVE  \/ write_sig' = NextBuf(order'[Len(order')])
                        \/ busy' /\ write_sig' \in send_pending'
      BY DEF WriterFindsNext
    <3>1. CASE written
      <4>1. busy' /\ write_sig' = write_sig
        BY <2>4, <2>9, <3>1
      <4>2. write_sig \in send_pending'
        BY <2>4, <2>5, <2>6, <3>1
      <4> QED
        BY <4>1, <4>2
    <3>2. CASE ~written
      <4>1. n - off > 0 /\ order'[Len(order')] = order[n]
        BY <2>1, <2>2, <3>2
      <4>2. CASE ~(busy /\ write_sig \in send_pending)
        <5>1. write_sig = NextBuf(order[n])
          BY <2>2, <4>1, <4>2 DEF RingInv, WriterFindsNext
        <5> QED
          BY <2>9, <4>1, <4>2, <5>1
      <4>3. CASE busy /\ write_sig \in send_pending
        <5>1. busy' /\ write_sig' = NextBuf(write_sig)
          BY <2>9, <4>3
        <5>2. PICK k \in 1 .. n : write_sig = order[k]
          BY <2>3, <4>3
        <5>3. CASE k = n
          BY <4>1, <5>1, <5>2, <5>3
        <5>4. CASE k # n
          <6>1. k \in 1 .. n - 1 /\ k + 1 \in 2 .. n
            BY <2>2, <5>2, <5>4
          <6>2. order[k + 1] = NextBuf(order[k])
            BY <6>1 DEF RingInv, Consecutive
          <6>3. order[k + 1] \in send_pending /\ (sent => order[k + 1] # send_sig)
            BY <2>1, <2>2, <2>3, <6>1
          <6>4. order[k + 1] \in send_pending'
            BY <2>6, <6>3
          <6> QED
            BY <5>1, <5>2, <6>2, <6>4
        <5> QED
          BY <5>3, <5>4
      <4> QED
        BY <4>2, <4>3
    <3> QED
      BY <3>1, <3>2
  <2> QED
    BY <2>7, <2>8, <2>10, <2>11, <2>13, <2>14, <2>15, <2>16 DEF RingInv
<1> QED
  BY <1>1, <1>2 DEF RingNext

-----------------------------------------------------------------------------
\* The inductive invariant holds for a ring of any size.
THEOREM RingInvariant == RingSpec => []RingInv
<1>1. RingInit => RingInv
  BY RingInvInit
<1>2. RingInv /\ [RingNext]_ringVars => RingInv'
  BY RingInvStep
<1> QED
  BY <1>1, <1>2, PTL DEF RingSpec

\* Type correctness of the selector and of the history.
THEOREM RingTypeCorrect == RingSpec => []RingTypeOK
<1>1. RingInv => RingTypeOK
  BY DEF RingInv
<1> QED
  BY <1>1, RingInvariant, PTL

\* The two separately kept bit vectors stay complements of each other.
THEOREM RingComplement == RingSpec => []FreeOrPending
<1>1. RingInv => FreeOrPending
  BY DEF RingInv
<1> QED
  BY <1>1, RingInvariant, PTL

\* The writer never holds a buffer that still has to be sent.
THEOREM RingOwnership == RingSpec => []WriterOwnsFreeBuffer
<1>1. RingInv => WriterOwnsFreeBuffer
  BY DEF RingInv
<1> QED
  BY <1>1, RingInvariant, PTL

\* Packets are sent in the order they were written, on a ring of any size and
\* whatever the reader's and the writer's speeds.
THEOREM RingOrder == RingSpec => []SendsOldest
<1>1. RingInv => SendsOldest
  BY DEF RingInv
<1> QED
  BY <1>1, RingInvariant, PTL

\* Each packet waits exactly once, and nothing else waits.
THEOREM RingNoLoss == RingSpec => []PendingIsOrder
<1>1. RingInv => PendingIsOrder
  BY DEF RingInv
<1> QED
  BY <1>1, RingInvariant, PTL

-----------------------------------------------------------------------------
\* What the writer does in one edge is a Put of the abstract queue.
LEMMA TickIsPut ==
    ASSUME RingInv, NEW written \in BOOLEAN, NEW we \in BOOLEAN,
           NEW sent \in BOOLEAN, Tick(written, we, sent)
    PROVE  Fifo!Put(IF sent THEN Tail(order) ELSE order, order')
<1>1. CASE ~written
  BY <1>1 DEF Tick, Fifo!Put
<1>2. CASE written
  <2>1. write_sig \in Buffers /\ write_sig \notin send_pending
    BY <1>2 DEF Tick, RingInv, RingTypeOK, SelTypeOK, WriterOwnsFreeBuffer,
       FreeOrPending
  <2>2. write_sig \in Buffers \ Fifo!Held
    BY <2>1 DEF RingInv, PendingIsOrder, Fifo!Held
  <2> QED
    BY <1>2, <2>2 DEF Tick, Fifo!Put
<1> QED
  BY <1>1, <1>2

\* Every edge of the ring is a step of the abstract queue or leaves it alone.
LEMMA RingStepSimulation ==
    RingInv /\ [RingNext]_ringVars => [Fifo!FifoNext]_(Fifo!fifoVars)
<1> SUFFICES ASSUME RingInv, [RingNext]_ringVars
             PROVE  [Fifo!FifoNext]_(Fifo!fifoVars)
  OBVIOUS
<1>1. CASE UNCHANGED ringVars
  BY <1>1 DEF ringVars, selVars, Fifo!fifoVars
<1>2. ASSUME NEW written \in BOOLEAN, NEW we \in BOOLEAN, NEW sent \in BOOLEAN,
             Tick(written, we, sent)
      PROVE  Fifo!FifoNext
  <2> DEFINE cur == IF sending THEN send_sig ELSE None
  <2>1. Fifo!Put(IF sent THEN Tail(order) ELSE order, order')
    BY <1>2, TickIsPut
  <2>2. /\ send_sig \in Buffers /\ sending \in BOOLEAN
        /\ sending => order # <<>> /\ send_sig = Head(order)
        /\ None \notin Buffers
    BY NoneAssumption DEF RingInv, RingTypeOK, SelTypeOK, SendsOldest
  <2>3. /\ sending' = ((~sending /\ send_sig \in send_pending)
                           \/ (sending /\ ~sent))
        /\ send_sig' = IF ~sending /\ send_sig \notin send_pending
                       THEN NextBuf(send_sig) ELSE send_sig
        /\ sent => sending
    BY <1>2 DEF Tick, Clock, ReqSendBlock, SendBlock
  <2>4. CASE sent
    <3>1. cur # None /\ cur = Head(order) /\ order # <<>> /\ cur' = None
      BY <2>2, <2>3, <2>4
    <3> QED
      BY <2>1, <2>4, <3>1 DEF Fifo!FifoNext, Fifo!Finish
  <2>5. CASE ~sent /\ ~sending /\ send_sig \in send_pending
    <3>1. PICK k \in 1 .. Len(order) : send_sig = order[k]
      BY <2>5 DEF RingInv, PendingIsOrder
    <3>2. k \notin 2 .. Len(order) /\ order \in Seq(Buffers)
      BY <3>1 DEF RingInv, ReaderFindsOldest, RingTypeOK
    <3>3. order # <<>> /\ send_sig = Head(order)
      BY <3>1, <3>2
    <3>4. cur = None /\ cur' = Head(order)
      BY <2>3, <2>5, <3>3
    <3> QED
      BY <2>1, <2>5, <3>3, <3>4 DEF Fifo!FifoNext, Fifo!Start
  <2>6. CASE ~sent /\ (sending \/ send_sig \notin send_pending)
    <3>1. cur' = cur
      BY <2>2, <2>3, <2>6
    <3> QED
      BY <2>1, <2>6, <3>1 DEF Fifo!FifoNext, Fifo!Fill
  <2> QED
    BY <2>4, <2>5, <2>6
<1> QED
  BY <1>1, <1>2 DEF RingNext

\* The ring of buffers implements the first-in first-out queue of packets.
THEOREM RingImplementsFifo == RingSpec => ImplementsFifo
<1>1. RingInit => Fifo!FifoInit
  BY DEF RingInit, SelInit, Fifo!FifoInit
<1>2. RingInv /\ [RingNext]_ringVars => [Fifo!FifoNext]_(Fifo!fifoVars)
  BY RingStepSimulation
<1> QED
  BY <1>1, <1>2, RingInvariant, PTL DEF RingSpec, ImplementsFifo, Fifo!FifoSpec

=============================================================================
