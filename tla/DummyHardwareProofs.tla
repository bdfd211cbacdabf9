------------------------ MODULE DummyHardwareProofs ------------------------
(***************************************************************************)
(* The stand-in server answers whoever asked, once and in the order of     *)
(* asking, and every answer passes the checks of the client, for any       *)
(* number of clients and packets, any requests and a queue of any length,  *)
(* over UDP and over TCP.                                                  *)
(*                                                                         *)
(* First the framing: what serialise writes deserialise reads.  FlattenSeq *)
(* and deserialise are recursive functions; a fact of all their values is  *)
(* got from the least number at which it would be false (CountingUp).      *)
(*                                                                         *)
(* Then the server.  A packet goes through five places: what has come in,  *)
(* the hand of the main thread, the queue, the handler and the replies.    *)
(* Where recv returned several packets at once, what counts is the first.  *)
(*                                                                         *)
(* Last what the handler answers: it performs one whole request, and has a *)
(* response for each element that it has performed.                        *)
(***************************************************************************)
EXTENDS DummyHardware, SequenceTheorems, WellFoundedInduction, TLAPS

\* A nonempty set of numbers has a least one.
LEMMA LeastOf ==
    ASSUME NEW T, T \subseteq Nat, T # {}
    PROVE  \E n \in T : \A m \in T : n <= m
<1>1. \E n \in T : \A m \in T : ~ (<<m, n>> \in OpToRel(<, Nat))
    BY NatLessThanWellFounded, WFMin, Zenon
<1>2. PICK n \in T : \A m \in T : ~(m < n)
    BY <1>1 DEF OpToRel
<1>3. \A m \in T : n <= m
    <2> SUFFICES ASSUME NEW m \in T PROVE n <= m
        OBVIOUS
    <2>1. m \in Nat /\ n \in Nat /\ ~(m < n)
        BY <1>2
    <2> QED BY <2>1
<1> QED BY <1>3

\* Counting up from 0: a set that holds each number after the one it holds.
LEMMA CountingUp ==
    ASSUME NEW n \in Nat, NEW T, 0 \in T, \A k \in 0 .. n - 1 : k \in T => k + 1 \in T
    PROVE  \A k \in 0 .. n : k \in T
<1> DEFINE Missing == {k \in 0 .. n : k \notin T}
<1> SUFFICES ASSUME Missing # {} PROVE FALSE
    OBVIOUS
<1>1. Missing \subseteq Nat
    OBVIOUS
<1>2. PICK m \in Missing : \A k \in Missing : m <= k
    <2> HIDE DEF Missing
    <2> QED BY <1>1, LeastOf
<1>3. m \in 0 .. n /\ m \notin T /\ m # 0 /\ m - 1 \in 0 .. n - 1 /\ m - 1 \in 0 .. n
      /\ (m - 1) + 1 = m
    BY <1>2
<1>4. m - 1 \notin T
    BY <1>3
<1>5. m - 1 \in Missing /\ ~(m <= m - 1)
    BY <1>3, <1>4
<1> QED
    <2> HIDE DEF Missing
    <2> QED BY <1>2, <1>5

\* A function on 1 .. n is a sequence.
LEMMA ListIs ==
    ASSUME NEW S, NEW n \in Nat, NEW s, s = [i \in 1 .. n |-> s[i]],
           \A i \in 1 .. n : s[i] \in S
    PROVE  s \in Seq(S) /\ Len(s) = n /\ DOMAIN s = 1 .. n
<1>1. s \in [1 .. n -> S]
    OBVIOUS
<1> QED BY <1>1

\* What \o gives.
LEMMA ConcatIs ==
    ASSUME NEW S, NEW s \in Seq(S), NEW t \in Seq(S)
    PROVE  /\ s \o t \in Seq(S) /\ Len(s \o t) = Len(s) + Len(t)
           /\ Len(s) \in Nat /\ Len(t) \in Nat
           /\ \A i \in 1 .. Len(s) : (s \o t)[i] = s[i]
           /\ \A i \in 1 .. Len(t) : (s \o t)[Len(s) + i] = t[i]
OBVIOUS

-----------------------------------------------------------------------------
\* FlattenSeq

\* F lists the first 0, 1 .. n sequences put together.
Growing(F, n, seqs) == F[0] = <<>> /\ \A i \in 1 .. n : F[i] = F[i - 1] \o seqs[i]

\* There is such a list.
LEMMA GrowingExists ==
    ASSUME NEW S, NEW n \in Nat, NEW seqs \in [1 .. n -> Seq(S)]
    PROVE  \E F \in [0 .. n -> Seq(S)] : Growing(F, n, seqs)
<1> DEFINE Good(m, F) == F[0] = <<>> /\ \A i \in 1 .. m : F[i] = F[i - 1] \o seqs[i]
           T == {m \in 0 .. n : \E F \in [0 .. m -> Seq(S)] : Good(m, F)}
<1>1. 0 \in T
    <2> DEFINE F == [i \in 0 .. 0 |-> <<>>]
    <2>1. F \in [0 .. 0 -> Seq(S)]
        OBVIOUS
    <2>2. Good(0, F)
        OBVIOUS
    <2> HIDE DEF F, Good
    <2> QED BY <2>1, <2>2
<1>2. ASSUME NEW k \in 0 .. n - 1, k \in T
      PROVE  k + 1 \in T
    <2>1. PICK F \in [0 .. k -> Seq(S)] : Good(k, F)
        BY <1>2
    <2> DEFINE next == F[k] \o seqs[k + 1]
               G == [i \in 0 .. k + 1 |-> IF i <= k THEN F[i] ELSE next]
    <2>2. F[k] \in Seq(S) /\ seqs[k + 1] \in Seq(S) /\ k + 1 \in 0 .. n
        BY <1>2
    <2>3. F[k] \o seqs[k + 1] \in Seq(S)
        BY <2>2, ConcatIs
    <2>4. G \in [0 .. k + 1 -> Seq(S)]
        BY <2>3
    <2>5. G[0] = <<>> /\ G[k + 1] = F[k] \o seqs[k + 1] /\ G[k] = F[k]
        <3>1. /\ k \in 0 .. k + 1 /\ k + 1 \in 0 .. k + 1 /\ 0 \in 0 .. k + 1
              /\ 0 <= k /\ k <= k /\ ~(k + 1 <= k)
            OBVIOUS
        <3>2. F[0] = <<>>
            BY <2>1
        <3> HIDE DEF next
        <3>3. G[0] = F[0] /\ G[k + 1] = next /\ G[k] = F[k]
            BY <3>1
        <3> HIDE DEF G
        <3> QED BY <3>2, <3>3 DEF next
    <2>6. \A i \in 1 .. k : G[i] = F[i] /\ G[i - 1] = F[i - 1] /\ i - 1 \in 0 .. k
        OBVIOUS
    <2>7. Good(k + 1, G)
        <3> SUFFICES ASSUME NEW i \in 1 .. k + 1
                     PROVE  G[i] = G[i - 1] \o seqs[i]
            BY <2>5
        <3> HIDE DEF G
        <3>1. CASE i = k + 1
            <4>1. i - 1 = k
                BY <3>1
            <4> QED BY <2>5, <3>1, <4>1
        <3>2. CASE i \in 1 .. k
            BY <2>1, <2>6, <3>2
        <3>3. i = k + 1 \/ i \in 1 .. k
            OBVIOUS
        <3> QED BY <3>1, <3>2, <3>3
    <2> HIDE DEF G, Good
    <2> QED BY <2>2, <2>4, <2>7
<1>3. n \in T
    <2> HIDE DEF T
    <2>1. \A k \in 0 .. n - 1 : k \in T => k + 1 \in T
        BY <1>2
    <2>2. \A k \in 0 .. n : k \in T
        BY <1>1, <2>1, CountingUp
    <2> QED BY <2>2
<1> QED BY <1>3 DEF Growing

\* FlattenSeq gives the last of them.
LEMMA FlattenIs ==
    ASSUME NEW S, NEW n \in Nat, NEW seqs \in [1 .. n -> Seq(S)]
    PROVE  \E F \in [0 .. n -> Seq(S)] : Growing(F, n, seqs) /\ FlattenSeq(seqs) = F[n]
<1>1. Len(seqs) = n
    OBVIOUS
<1>2. PICK F0 \in [0 .. n -> Seq(S)] : Growing(F0, n, seqs)
    BY GrowingExists
<1>3. CASE n = 0
    <2>1. seqs \in Seq(Seq(S)) /\ Len(seqs) = 0
        BY <1>1, <1>3
    <2>2. seqs = <<>>
        BY <2>1
    <2>3. FlattenSeq(seqs) = F0[n]
        BY <1>2, <1>3, <2>1, <2>2 DEF FlattenSeq, Growing
    <2> QED BY <1>2, <2>3
<1>4. CASE n # 0
    <2> DEFINE Flat(g) == [i \in 1 .. n |-> IF i = 1 THEN seqs[i] ELSE g[i - 1] \o seqs[i]]
               P == CHOOSE g : g = Flat(g)
               F == [i \in 0 .. n |-> IF i = 0 THEN <<>> ELSE P[i]]
    <2>1. FlattenSeq(seqs) = P[n]
        BY <1>1, <1>4 DEF FlattenSeq
    <2>2. \A s \in Seq(S) : <<>> \o s = s
        OBVIOUS
    <2>3. \E g : g = Flat(g)
        <3> DEFINE g0 == [i \in 1 .. n |-> F0[i]]
        <3>1. \A i \in 1 .. n : g0[i] = IF i = 1 THEN seqs[i] ELSE g0[i - 1] \o seqs[i]
            <4> SUFFICES ASSUME NEW i \in 1 .. n
                         PROVE  g0[i] = IF i = 1 THEN seqs[i] ELSE g0[i - 1] \o seqs[i]
                OBVIOUS
            <4>1. g0[i] = F0[i] /\ F0[i] = F0[i - 1] \o seqs[i]
                BY <1>2 DEF Growing
            <4>2. CASE i = 1
                <5>1. F0[i - 1] = <<>> /\ seqs[i] \in Seq(S)
                    BY <1>2, <4>2 DEF Growing
                <5> QED BY <2>2, <4>1, <4>2, <5>1
            <4>3. CASE i # 1
                <5>1. i - 1 \in 1 .. n
                    BY <4>3
                <5>2. g0[i - 1] = F0[i - 1]
                    BY <5>1
                <5> QED BY <4>1, <4>3, <5>2
            <4> QED BY <4>2, <4>3
        <3>2. g0 = [i \in 1 .. n |-> g0[i]]
            OBVIOUS
        <3> HIDE DEF g0
        <3>3. g0 = Flat(g0)
            BY <3>1, <3>2
        <3> QED BY <3>3
    <2>4. P = Flat(P)
        <3> HIDE DEF Flat
        <3> QED BY <2>3
    <2> HIDE DEF P
    <2>5. \A i \in 1 .. n : P[i] = IF i = 1 THEN seqs[i] ELSE P[i - 1] \o seqs[i]
        BY <2>4
    <2>6. F[0] = <<>> /\ \A i \in 1 .. n : F[i] = P[i]
        OBVIOUS
    <2>7. F = [i \in 0 .. n |-> F[i]]
        OBVIOUS
    <2> HIDE DEF F
    <2>8. \A i \in 1 .. n : F[i] = F[i - 1] \o seqs[i]
        <3> SUFFICES ASSUME NEW i \in 1 .. n
                     PROVE  F[i] = F[i - 1] \o seqs[i]
            OBVIOUS
        <3>1. CASE i = 1
            <4>1. F[i - 1] = <<>> /\ seqs[i] \in Seq(S) /\ F[i] = seqs[i]
                BY <2>5, <2>6, <3>1
            <4> QED BY <2>2, <4>1
        <3>2. CASE i # 1
            <4>1. i - 1 \in 1 .. n
                BY <3>2
            <4> QED BY <2>5, <2>6, <3>2, <4>1
        <3> QED BY <3>1, <3>2
    <2>9. \A m \in 0 .. n : F[m] \in Seq(S)
        <3> DEFINE T == {m \in 0 .. n : F[m] \in Seq(S)}
        <3>1. 0 \in T
            <4>1. <<>> \in Seq(S) /\ 0 \in 0 .. n
                OBVIOUS
            <4> QED BY <2>6, <4>1
        <3>2. ASSUME NEW k \in 0 .. n - 1, k \in T
              PROVE  k + 1 \in T
            <4>1. k + 1 \in 1 .. n /\ k + 1 \in 0 .. n /\ (k + 1) - 1 = k
                OBVIOUS
            <4>2. F[k + 1] = F[k] \o seqs[k + 1] /\ F[k] \in Seq(S) /\ seqs[k + 1] \in Seq(S)
                BY <2>8, <3>2, <4>1
            <4>3. F[k + 1] \in Seq(S)
                BY <4>2, ConcatIs
            <4> QED BY <4>1, <4>3
        <3>3. \A k \in 0 .. n - 1 : k \in T => k + 1 \in T
            BY <3>2
        <3>4. \A k \in 0 .. n : k \in T
            <4> HIDE DEF T
            <4> QED BY <3>1, <3>3, CountingUp
        <3> QED BY <3>4
    <2>10. F \in [0 .. n -> Seq(S)]
        BY <2>7, <2>9
    <2>11. FlattenSeq(seqs) = F[n]
        BY <1>4, <2>1, <2>6
    <2> QED BY <2>6, <2>8, <2>10, <2>11 DEF Growing
<1> QED BY <1>3, <1>4

\* flat holds the n sequences one behind the other, the i-th after off[i - 1] others.
Laid(off, n, seqs, flat) ==
    /\ off \in [0 .. n -> Nat] /\ off[0] = 0 /\ Len(flat) = off[n]
    /\ \A i \in 1 .. n : off[i] = off[i - 1] + Len(seqs[i]) /\ off[i] <= off[n]
    /\ \A i \in 1 .. n : \A j \in 1 .. Len(seqs[i]) : flat[off[i - 1] + j] = seqs[i][j]

\* FlattenSeq lays its sequences so.
LEMMA FlattenLays ==
    ASSUME NEW S, NEW n \in Nat, NEW seqs \in [1 .. n -> Seq(S)]
    PROVE  /\ FlattenSeq(seqs) \in Seq(S)
           /\ \E off : Laid(off, n, seqs, FlattenSeq(seqs))
<1>1. PICK F \in [0 .. n -> Seq(S)] : Growing(F, n, seqs) /\ FlattenSeq(seqs) = F[n]
    BY FlattenIs
<1> DEFINE off == [i \in 0 .. n |-> Len(F[i])]
<1>2. /\ \A i \in 0 .. n : F[i] \in Seq(S) /\ Len(F[i]) \in Nat
      /\ F[0] = <<>>
      /\ \A i \in 1 .. n : i - 1 \in 0 .. n /\ i \in 0 .. n /\ F[i] = F[i - 1] \o seqs[i]
    <2>1. \A i \in 0 .. n : F[i] \in Seq(S)
        OBVIOUS
    <2>2. \A s \in Seq(S) : Len(s) \in Nat
        OBVIOUS
    <2>3. \A i \in 1 .. n : i - 1 \in 0 .. n /\ i \in 0 .. n
        OBVIOUS
    <2>4. F[0] = <<>> /\ \A i \in 1 .. n : F[i] = F[i - 1] \o seqs[i]
        BY <1>1 DEF Growing
    <2> QED BY <2>1, <2>2, <2>3, <2>4
<1>3. ASSUME NEW i \in 1 .. n
      PROVE  /\ Len(F[i]) = Len(F[i - 1]) + Len(seqs[i]) /\ Len(seqs[i]) \in Nat
             /\ \A x \in 1 .. Len(F[i - 1]) : F[i][x] = F[i - 1][x]
             /\ \A j \in 1 .. Len(seqs[i]) : F[i][Len(F[i - 1]) + j] = seqs[i][j]
    <2>1. F[i - 1] \in Seq(S) /\ seqs[i] \in Seq(S) /\ F[i] = F[i - 1] \o seqs[i]
        BY <1>2
    <2> QED BY <2>1, ConcatIs
<1>4. \A m \in 0 .. n : \A i \in 0 .. m :
          Len(F[i]) <= Len(F[m]) /\ \A x \in 1 .. Len(F[i]) : F[m][x] = F[i][x]
    <2> DEFINE Begins(i, m) ==
                   Len(F[i]) <= Len(F[m]) /\ \A x \in 1 .. Len(F[i]) : F[m][x] = F[i][x]
               T == {m \in 0 .. n : \A i \in 0 .. m : Begins(i, m)}
    <2>1. \A i \in 0 .. n : Begins(i, i)
        BY <1>2
    <2>2. 0 \in T
        <3>1. \A i \in 0 .. 0 : i = 0
            OBVIOUS
        <3>2. 0 \in 0 .. n
            OBVIOUS
        <3> HIDE DEF Begins
        <3> QED BY <2>1, <3>1, <3>2
    <2>3. ASSUME NEW k \in 0 .. n - 1, k \in T
          PROVE  k + 1 \in T
        <3>1. k + 1 \in 1 .. n /\ k + 1 \in 0 .. n /\ (k + 1) - 1 = k /\ k \in 0 .. n
            OBVIOUS
        <3>2. Begins(k, k + 1)
            <4>1. \A i \in 1 .. n :
                      /\ Len(F[i]) = Len(F[i - 1]) + Len(seqs[i]) /\ Len(seqs[i]) \in Nat
                      /\ \A x \in 1 .. Len(F[i - 1]) : F[i][x] = F[i - 1][x]
                BY <1>3
            <4>2. /\ Len(F[k + 1]) = Len(F[k]) + Len(seqs[k + 1]) /\ Len(seqs[k + 1]) \in Nat
                  /\ \A x \in 1 .. Len(F[k]) : F[k + 1][x] = F[k][x]
                <5>1. k + 1 \in 1 .. n
                    BY <3>1
                <5>2. /\ Len(F[k + 1]) = Len(F[(k + 1) - 1]) + Len(seqs[k + 1])
                      /\ Len(seqs[k + 1]) \in Nat
                      /\ \A x \in 1 .. Len(F[(k + 1) - 1]) : F[k + 1][x] = F[(k + 1) - 1][x]
                    BY <4>1, <5>1, Zenon
                <5>3. (k + 1) - 1 = k
                    BY <3>1
                <5> QED BY <5>2, <5>3
            <4>3. Len(F[k]) \in Nat /\ Len(F[k + 1]) \in Nat
                BY <1>2, <3>1
            <4>4. Len(F[k]) <= Len(F[k + 1])
                <5>1. \A a, b, c \in Nat : a = b + c => b <= a
                    OBVIOUS
                <5> QED BY <4>2, <4>3, <5>1, Zenon
            <4> QED BY <4>2, <4>4
        <3>3. ASSUME NEW i \in 0 .. k
              PROVE  Begins(i, k + 1)
            <4>1. Begins(i, k) /\ i \in 0 .. n
                BY <2>3
            <4>2. Len(F[i]) \in Nat /\ Len(F[k]) \in Nat /\ Len(F[k + 1]) \in Nat
                BY <1>2, <3>1, <4>1
            <4>3. Len(F[i]) <= Len(F[k]) /\ Len(F[k]) <= Len(F[k + 1])
                BY <3>2, <4>1
            <4>4. \A x \in 1 .. Len(F[i]) : F[k + 1][x] = F[i][x]
                <5> SUFFICES ASSUME NEW x \in 1 .. Len(F[i]) PROVE F[k + 1][x] = F[i][x]
                    OBVIOUS
                <5>1. x \in 1 .. Len(F[k])
                    BY <4>2, <4>3
                <5> QED BY <3>2, <4>1, <5>1
            <4> QED BY <4>2, <4>3, <4>4
        <3>4. \A i \in 0 .. k + 1 : i = k + 1 \/ i \in 0 .. k
            OBVIOUS
        <3> HIDE DEF Begins
        <3> QED BY <2>1, <3>1, <3>3, <3>4
    <2>4. \A k \in 0 .. n - 1 : k \in T => k + 1 \in T
        BY <2>3
    <2>5. \A k \in 0 .. n : k \in T
        <3> HIDE DEF T
        <3> QED BY <2>2, <2>4, CountingUp
    <2> QED BY <2>5
<1>5. off \in [0 .. n -> Nat] /\ \A i \in 0 .. n : off[i] = Len(F[i])
    BY <1>2
<1> HIDE DEF off
<1>6. Laid(off, n, seqs, F[n])
    <2>1. off[0] = 0 /\ Len(F[n]) = off[n]
        BY <1>2, <1>5
    <2>2. \A i \in 1 .. n : off[i] = off[i - 1] + Len(seqs[i]) /\ off[i] <= off[n]
        <3> SUFFICES ASSUME NEW i \in 1 .. n
                     PROVE  off[i] = off[i - 1] + Len(seqs[i]) /\ off[i] <= off[n]
            OBVIOUS
        <3>1. i \in 0 .. n /\ i - 1 \in 0 .. n /\ n \in 0 .. n
            OBVIOUS
        <3>2. off[i] = Len(F[i]) /\ off[i - 1] = Len(F[i - 1]) /\ off[n] = Len(F[n])
            BY <1>5, <3>1
        <3>3. Len(F[i]) = Len(F[i - 1]) + Len(seqs[i])
            BY <1>3
        <3>4. Len(F[i]) <= Len(F[n])
            BY <1>4, <3>1
        <3> QED BY <3>2, <3>3, <3>4
    <2>3. ASSUME NEW i \in 1 .. n, NEW j \in 1 .. Len(seqs[i])
          PROVE  F[n][off[i - 1] + j] = seqs[i][j]
        <3>1. /\ off[i - 1] = Len(F[i - 1]) /\ Len(F[i - 1]) \in Nat /\ Len(F[i]) \in Nat
              /\ Len(F[i]) = Len(F[i - 1]) + Len(seqs[i]) /\ Len(seqs[i]) \in Nat
              /\ F[i][Len(F[i - 1]) + j] = seqs[i][j]
            BY <1>2, <1>3, <1>5
        <3>2. Len(F[i - 1]) + j \in 1 .. Len(F[i])
            BY <3>1
        <3>3. F[n][Len(F[i - 1]) + j] = F[i][Len(F[i - 1]) + j]
            <4>1. n \in 0 .. n /\ i \in 0 .. n
                OBVIOUS
            <4> QED BY <1>4, <3>2, <4>1
        <3> QED BY <3>1, <3>3
    <2> QED BY <1>5, <2>1, <2>2, <2>3 DEF Laid
<1> QED BY <1>1, <1>2, <1>6

-----------------------------------------------------------------------------
\* serialise

IsList(s) == Len(s) \in Nat /\ s = [i \in 1 .. Len(s) |-> s[i]]

\* A list is a list of its own elements.
LEMMA ListOf ==
    ASSUME NEW S, NEW s, IsList(s), \A i \in 1 .. Len(s) : s[i] \in S
    PROVE  s \in Seq(S) /\ DOMAIN s = 1 .. Len(s) /\ Len(s) \in Nat
<1> DEFINE n == Len(s)
<1>1. n \in Nat /\ s = [i \in 1 .. n |-> s[i]] /\ \A i \in 1 .. n : s[i] \in S
    BY DEF IsList
<1> HIDE DEF n
<1>2. s \in Seq(S) /\ DOMAIN s = 1 .. n
    BY <1>1, ListIs
<1> QED BY <1>1, <1>2 DEF n

\* A function on 1 .. n is a list of length n.
LEMMA FunctionIsList ==
    ASSUME NEW n \in Nat, NEW s, s = [i \in 1 .. n |-> s[i]]
    PROVE  IsList(s) /\ Len(s) = n
<1>1. Len(s) = n
    BY ListIs
<1> QED BY <1>1 DEF IsList

\* The words of one element: its header and its body.
ElementWords(e) == <<e.head>> \o [j \in DOMAIN e.body |-> Data(e.body[j])]

\* Where they lie.
LEMMA ElementWordsAre ==
    ASSUME NEW S, NEW e, e.head \in S, IsList(e.body),
           \A j \in 1 .. Len(e.body) : Data(e.body[j]) \in S
    PROVE  /\ ElementWords(e) \in Seq(S) /\ Len(ElementWords(e)) = 1 + Len(e.body)
           /\ Len(e.body) \in Nat
           /\ ElementWords(e)[1] = e.head
           /\ \A j \in 1 .. Len(e.body) : ElementWords(e)[1 + j] = Data(e.body[j])
<1> DEFINE n == Len(e.body)
           t == [j \in 1 .. n |-> Data(e.body[j])]
<1>1. n \in Nat /\ DOMAIN e.body = 1 .. n
    <2>1. IsList(e.body) /\ \A j \in 1 .. n : e.body[j] \in {e.body[i] : i \in 1 .. n}
        OBVIOUS
    <2> QED BY <2>1, ListOf
<1>2. ElementWords(e) = <<e.head>> \o t
    BY <1>1 DEF ElementWords
<1>3. t = [j \in 1 .. n |-> t[j]] /\ \A j \in 1 .. n : t[j] = Data(e.body[j]) /\ t[j] \in S
    OBVIOUS
<1> HIDE DEF t
<1>4. t \in Seq(S) /\ Len(t) = n
    BY <1>1, <1>3, ListIs
<1>5. <<e.head>> \in Seq(S) /\ Len(<<e.head>>) = 1 /\ <<e.head>>[1] = e.head
    OBVIOUS
<1> HIDE DEF n
<1>6. /\ <<e.head>> \o t \in Seq(S) /\ Len(<<e.head>> \o t) = 1 + n
      /\ (<<e.head>> \o t)[1] = e.head
      /\ \A j \in 1 .. n : (<<e.head>> \o t)[1 + j] = t[j]
    BY <1>1, <1>4, <1>5
<1> QED BY <1>1, <1>2, <1>3, <1>6 DEF n

\* words begins with the packet header and the elements es, of which the i-th comes
\* after off[i - 1] words of others.
Written(off, es, words) ==
    /\ off \in [0 .. Len(es) -> Nat] /\ off[0] = 0
    /\ words[1] = PacketHeader
    /\ \A i \in 1 .. Len(es) :
          /\ off[i] = off[i - 1] + 1 + Len(es[i].body) /\ off[i] <= off[Len(es)]
          /\ words[2 + off[i - 1]] = es[i].head
          /\ \A j \in 1 .. Len(es[i].body) :
                words[2 + off[i - 1] + j] = Data(es[i].body[j])

\* serialise writes a list of elements so, and nothing after them.
LEMMA SerialiseWrites ==
    ASSUME NEW S, NEW es, IsList(es), PacketHeader \in S,
           \A i \in 1 .. Len(es) :
               /\ es[i].head \in S /\ IsList(es[i].body)
               /\ \A j \in 1 .. Len(es[i].body) : Data(es[i].body[j]) \in S
    PROVE  /\ serialise(es) \in Seq(S)
           /\ \E off : /\ Written(off, es, serialise(es))
                       /\ Len(serialise(es)) = 1 + off[Len(es)]
<1> DEFINE n == Len(es)
           seqs == [i \in 1 .. n |-> ElementWords(es[i])]
           flat == FlattenSeq(seqs)
<1>1. n \in Nat /\ DOMAIN es = 1 .. n
    <2>1. \A i \in 1 .. n : es[i] \in {es[j] : j \in 1 .. n}
        OBVIOUS
    <2> QED BY <2>1, ListOf
<1>2. ASSUME NEW i \in 1 .. n
      PROVE  /\ ElementWords(es[i]) \in Seq(S)
             /\ Len(ElementWords(es[i])) = 1 + Len(es[i].body)
             /\ Len(es[i].body) \in Nat
             /\ ElementWords(es[i])[1] = es[i].head
             /\ \A j \in 1 .. Len(es[i].body) :
                    ElementWords(es[i])[1 + j] = Data(es[i].body[j])
    <2>1. /\ es[i].head \in S /\ IsList(es[i].body)
          /\ \A j \in 1 .. Len(es[i].body) : Data(es[i].body[j]) \in S
        OBVIOUS
    <2> QED BY <2>1, ElementWordsAre
<1>3. serialise(es) = <<PacketHeader>> \o flat
    BY <1>1 DEF serialise, ElementWords
<1>4. seqs \in [1 .. n -> Seq(S)] /\ \A i \in 1 .. n : seqs[i] = ElementWords(es[i])
    BY <1>2
<1> HIDE DEF seqs
<1>5. flat \in Seq(S) /\ \E off : Laid(off, n, seqs, flat)
    <2> HIDE DEF n
    <2> QED BY <1>1, <1>4, FlattenLays
<1>6. PICK off : Laid(off, n, seqs, flat)
    BY <1>5
<1> HIDE DEF flat
<1> DEFINE words == <<PacketHeader>> \o flat
<1>7. /\ words \in Seq(S) /\ Len(words) = 1 + Len(flat) /\ Len(flat) \in Nat
      /\ words[1] = PacketHeader
      /\ \A x \in 1 .. Len(flat) : words[1 + x] = flat[x]
    BY <1>5
<1> HIDE DEF words
<1>8. Len(words) = 1 + off[n]
    BY <1>6, <1>7 DEF Laid
<1>9. ASSUME NEW i \in 1 .. n
      PROVE  /\ off[i] = off[i - 1] + 1 + Len(es[i].body) /\ off[i] <= off[n]
             /\ words[2 + off[i - 1]] = es[i].head
             /\ \A j \in 1 .. Len(es[i].body) :
                   words[2 + off[i - 1] + j] = Data(es[i].body[j])
    <2>1. /\ off[i] = off[i - 1] + Len(seqs[i]) /\ off[i] <= off[n]
          /\ \A j \in 1 .. Len(seqs[i]) : flat[off[i - 1] + j] = seqs[i][j]
          /\ Len(flat) = off[n]
        BY <1>6 DEF Laid
    <2>2. Len(seqs[i]) = 1 + Len(es[i].body) /\ Len(es[i].body) \in Nat
        BY <1>2, <1>4
    <2>3. off[i] \in Nat /\ off[i - 1] \in Nat /\ off[n] \in Nat
        <3>1. off \in [0 .. n -> Nat] /\ i \in 0 .. n /\ i - 1 \in 0 .. n /\ n \in 0 .. n
            BY <1>1, <1>6 DEF Laid
        <3> QED BY <3>1
    <2>4. ASSUME NEW j \in 1 .. 1 + Len(es[i].body)
          PROVE  words[1 + (off[i - 1] + j)] = seqs[i][j]
        <3>1. off[i - 1] + j \in 1 .. Len(flat) /\ j \in 1 .. Len(seqs[i])
            <4>1. \A a, b, l, z \in Nat : \A x \in 1 .. 1 + l :
                      b = a + (1 + l) /\ b <= z => a + x \in 1 .. z
                OBVIOUS
            <4>2. off[i] = off[i - 1] + (1 + Len(es[i].body)) /\ off[i] <= off[n]
                BY <2>1, <2>2
            <4> QED BY <2>1, <2>2, <2>3, <4>1, <4>2, Zenon
        <3> QED BY <1>7, <2>1, <3>1
    <2>5. words[2 + off[i - 1]] = es[i].head
        <3>1. 1 \in 1 .. 1 + Len(es[i].body) /\ 1 + (off[i - 1] + 1) = 2 + off[i - 1]
            BY <2>2, <2>3
        <3> QED BY <1>2, <1>4, <2>4, <3>1
    <2>6. ASSUME NEW j \in 1 .. Len(es[i].body)
          PROVE  words[2 + off[i - 1] + j] = Data(es[i].body[j])
        <3>1. /\ 1 + j \in 1 .. 1 + Len(es[i].body)
              /\ 1 + (off[i - 1] + (1 + j)) = 2 + off[i - 1] + j
            <4>1. \A a, l \in Nat : \A x \in 1 .. l :
                      1 + x \in 1 .. 1 + l /\ 1 + (a + (1 + x)) = 2 + a + x
                OBVIOUS
            <4> QED BY <2>2, <2>3, <4>1, Zenon
        <3>2. words[1 + (off[i - 1] + (1 + j))] = seqs[i][1 + j]
            BY <2>4, <3>1
        <3> QED BY <1>2, <1>4, <3>1, <3>2
    <2>7. off[i] = off[i - 1] + 1 + Len(es[i].body)
        <3>1. \A a, l \in Nat : a + (1 + l) = a + 1 + l
            OBVIOUS
        <3>2. off[i] = off[i - 1] + (1 + Len(es[i].body))
            BY <2>1, <2>2
        <3> QED BY <2>2, <2>3, <3>1, <3>2, Zenon
    <2> QED BY <2>1, <2>5, <2>6, <2>7
<1>10. Written(off, es, words)
    <2>1. off \in [0 .. n -> Nat] /\ off[0] = 0
        BY <1>6 DEF Laid
    <2> QED BY <1>7, <1>9, <2>1 DEF Written
<1> QED BY <1>3, <1>7, <1>8, <1>10 DEF words

-----------------------------------------------------------------------------
\* deserialise

\* What it gives from the word i on, if P is what it gives from later words on.
ParseFrom(words, P, i) ==
    LET bad  == [ok |-> FALSE, elements |-> <<>>]
        last == i + BodySize(words[i])
        body == SubSeq([k \in DOMAIN words |-> words[k].value], i + 1, last)
        rest == P[last + 1]
    IN  IF i > Len(words) THEN [ok |-> TRUE, elements |-> <<>>]
        ELSE IF words[i].type \notin Types THEN bad
        ELSE IF last > Len(words) \/ ~rest.ok THEN bad
        ELSE [ok |-> TRUE, elements |-> <<Element(words[i], body)>> \o rest.elements]

SizesKnown(words) ==
    \A i \in 1 .. Len(words) : words[i].type \in Types => BodySize(words[i]) \in Nat

\* It depends only on later words.
LEMMA ParseLooksAhead ==
    ASSUME NEW words, Len(words) \in Nat, SizesKnown(words),
           NEW i \in 2 .. Len(words) + 1, NEW P, NEW Q,
           \A x \in i + 1 .. Len(words) + 1 : P[x] = Q[x]
    PROVE  ParseFrom(words, P, i) = ParseFrom(words, Q, i)
<1> DEFINE last == i + BodySize(words[i])
<1>1. CASE i > Len(words) \/ words[i].type \notin Types
    BY <1>1 DEF ParseFrom
<1>2. CASE ~(i > Len(words)) /\ words[i].type \in Types
    <2>1. BodySize(words[i]) \in Nat
        BY <1>2 DEF SizesKnown
    <2>2. last > Len(words) \/ P[last + 1] = Q[last + 1]
        <3>1. \A z \in Nat, b \in Nat : i + b > z \/ i + b + 1 \in i + 1 .. z + 1
            OBVIOUS
        <3>2. last > Len(words) \/ last + 1 \in i + 1 .. Len(words) + 1
            BY <2>1, <3>1
        <3> QED BY <3>2
    <2> QED BY <1>2, <2>2 DEF ParseFrom
<1> QED BY <1>1, <1>2

\* P is what it gives from each word on.
ParseTable(words, P) == \A i \in 2 .. Len(words) + 1 : P[i] = ParseFrom(words, P, i)

\* There is such a table, made from its end.
LEMMA ParseTableExists ==
    ASSUME NEW words, Len(words) \in Nat \ {0}, SizesKnown(words)
    PROVE  \E P : /\ P = [i \in 2 .. Len(words) + 1 |-> P[i]]
                  /\ ParseTable(words, P)
<1> DEFINE N == Len(words) + 1
           Good(m, P) == \A i \in N - m .. N : P[i] = ParseFrom(words, P, i)
           T == {m \in 0 .. N - 2 : \E P : Good(m, P)}
<1>1. N \in Nat /\ N >= 2 /\ N - 2 \in Nat /\ Len(words) = N - 1
    OBVIOUS
<1>2. ASSUME NEW m \in 0 .. N - 2, NEW P, NEW Q,
             \A i \in N - m .. N : P[i] = ParseFrom(words, Q, i),
             \A i \in N - m .. N : P[i] = Q[i] \/ i = N - m
      PROVE  Good(m, P)
    <2> SUFFICES ASSUME NEW i \in N - m .. N
                 PROVE  ParseFrom(words, P, i) = ParseFrom(words, Q, i)
        BY <1>2
    <2>1. i \in 2 .. Len(words) + 1 /\ Len(words) \in Nat
        BY <1>1
    <2>2. \A x \in i + 1 .. Len(words) + 1 : P[x] = Q[x]
        <3>1. \A x \in i + 1 .. Len(words) + 1 : x \in N - m .. N /\ x # N - m
            BY <1>1
        <3> QED BY <1>2, <3>1
    <2> QED BY <2>1, <2>2, ParseLooksAhead
<1>3. 0 \in T
    <2> DEFINE P == [i \in N .. N |-> ParseFrom(words, <<>>, i)]
    <2>1. \A i \in N - 0 .. N : P[i] = ParseFrom(words, <<>>, i) /\ i = N - 0
        BY <1>1
    <2> HIDE DEF P, Good
    <2>2. Good(0, P)
        BY <1>1, <1>2, <2>1
    <2> QED BY <1>1, <2>2
<1>4. ASSUME NEW k \in 0 .. (N - 2) - 1, k \in T
      PROVE  k + 1 \in T
    <2>1. PICK P : Good(k, P)
        BY <1>4
    <2> DEFINE Q == [i \in N - (k + 1) .. N |-> ParseFrom(words, P, i)]
    <2>2. \A i \in N - (k + 1) .. N :
              Q[i] = ParseFrom(words, P, i) /\ (i = N - (k + 1) \/ i \in N - k .. N)
        BY <1>1
    <2> HIDE DEF Q
    <2>3. \A i \in N - (k + 1) .. N : Q[i] = P[i] \/ i = N - (k + 1)
        BY <2>1, <2>2
    <2>4. k + 1 \in 0 .. N - 2
        BY <1>1
    <2> HIDE DEF Good, N
    <2>5. Good(k + 1, Q)
        BY <1>2, <2>2, <2>3, <2>4
    <2> QED BY <2>4, <2>5
<1>5. N - 2 \in T
    <2> HIDE DEF T, N
    <2>1. \A k \in 0 .. (N - 2) - 1 : k \in T => k + 1 \in T
        BY <1>4
    <2>2. \A k \in 0 .. N - 2 : k \in T
        BY <1>1, <1>3, <2>1, CountingUp
    <2> QED BY <1>1, <2>2
<1>6. PICK P : Good(N - 2, P)
    BY <1>5
<1> DEFINE Q == [i \in 2 .. Len(words) + 1 |-> P[i]]
<1>7. \A i \in 2 .. Len(words) + 1 : Q[i] = P[i] /\ P[i] = ParseFrom(words, P, i)
    <2>1. N - (N - 2) = 2
        BY <1>1
    <2> QED BY <1>6, <2>1
<1>8. Q = [i \in 2 .. Len(words) + 1 |-> Q[i]]
    OBVIOUS
<1> HIDE DEF Q
<1>9. ParseTable(words, Q)
    <2> SUFFICES ASSUME NEW i \in 2 .. Len(words) + 1
                 PROVE  Q[i] = ParseFrom(words, Q, i)
        BY DEF ParseTable
    <2>1. Len(words) \in Nat /\ \A x \in i + 1 .. Len(words) + 1 : Q[x] = P[x]
        BY <1>7
    <2>2. ParseFrom(words, Q, i) = ParseFrom(words, P, i)
        BY <2>1, ParseLooksAhead
    <2> QED BY <1>7, <2>2
<1> QED BY <1>8, <1>9

\* deserialise makes one.
LEMMA DeserialiseIs ==
    ASSUME NEW words, Len(words) \in Nat \ {0}, SizesKnown(words)
    PROVE  \E P : ParseTable(words, P) /\ deserialise(words) = P[2]
<1> DEFINE Table(P) == [i \in 2 .. Len(words) + 1 |-> ParseFrom(words, P, i)]
           P == CHOOSE g : g = Table(g)
<1>1. deserialise(words) = P[2]
    BY DEF deserialise, ParseFrom
<1>2. \E g : g = Table(g)
    <2>1. PICK g : g = [i \in 2 .. Len(words) + 1 |-> g[i]] /\ ParseTable(words, g)
        BY ParseTableExists
    <2>2. g = Table(g)
        BY <2>1 DEF ParseTable
    <2> QED BY <2>2
<1>3. P = Table(P)
    <2> HIDE DEF Table
    <2> QED BY <1>2
<1>4. ParseTable(words, P)
    <2> HIDE DEF P
    <2>1. \A i \in 2 .. Len(words) + 1 : P[i] = Table(P)[i]
        BY <1>3
    <2>2. \A i \in 2 .. Len(words) + 1 : Table(P)[i] = ParseFrom(words, P, i)
        OBVIOUS
    <2> QED BY <2>1, <2>2 DEF ParseTable
<1> QED BY <1>1, <1>4

\* An element of a known type with all of its body.
Whole(e) ==
    /\ e = Element(e.head, e.body) /\ e.head.type \in Types
    /\ IsList(e.body) /\ Len(e.body) = BodySize(e.head)

\* The first l values from i on, when they are b's.
LEMMA BodyIs ==
    ASSUME NEW words, IsList(words), NEW b, IsList(b), NEW i \in Nat, i + Len(b) <= Len(words),
           \A j \in 1 .. Len(b) : words[i + j].value = b[j]
    PROVE  SubSeq([k \in DOMAIN words |-> words[k].value], i + 1, i + Len(b)) = b
<1> DEFINE l == Len(b)
           n == Len(words)
           values == [k \in DOMAIN words |-> words[k].value]
           t == SubSeq(values, i + 1, i + l)
           V == {b[j] : j \in 1 .. l}
<1>1. l \in Nat /\ n \in Nat /\ DOMAIN words = 1 .. n /\ b = [j \in 1 .. l |-> b[j]]
    <2>1. \A x \in 1 .. n : words[x] \in {words[k] : k \in 1 .. n}
        OBVIOUS
    <2>2. n \in Nat /\ DOMAIN words = 1 .. n
        BY <2>1, ListOf
    <2> QED BY <2>2 DEF IsList
<1>2. \A j \in 1 .. l : values[i + j] = b[j] /\ b[j] \in V
    <2>1. \A j \in 1 .. l : i + j \in 1 .. n
        BY <1>1
    <2> QED BY <1>1, <2>1
<1> HIDE DEF values, V, l
<1>3. \A x \in i + 1 .. i + l : values[x] \in V
    <2> SUFFICES ASSUME NEW x \in i + 1 .. i + l PROVE values[x] \in V
        OBVIOUS
    <2>1. x - i \in 1 .. l /\ i + (x - i) = x
        BY <1>1
    <2> QED BY <1>2, <2>1
<1>4. t \in Seq(V) /\ Len(t) = l /\ \A j \in 1 .. l : t[j] = values[i + j]
    <2>1. i + 1 \in Int /\ i + l \in Int
        BY <1>1
    <2>2. /\ t \in Seq(V)
          /\ Len(t) = IF i + 1 <= i + l THEN (i + l) - (i + 1) + 1 ELSE 0
          /\ \A j \in 1 .. (i + l) - (i + 1) + 1 : t[j] = values[(i + 1) + j - 1]
        BY <1>3, <2>1, SubSeqProperties
    <2> HIDE DEF t
    <2>3. (IF i + 1 <= i + l THEN (i + l) - (i + 1) + 1 ELSE 0) = l
        BY <1>1
    <2>4. /\ (i + l) - (i + 1) + 1 = l
          /\ \A j \in 1 .. l : (i + 1) + j - 1 = i + j
        BY <1>1
    <2> QED BY <2>2, <2>3, <2>4
<1> HIDE DEF t
<1>5. t = [j \in 1 .. l |-> t[j]]
    BY <1>4
<1>6. t = b
    BY <1>1, <1>2, <1>4, <1>5
<1> QED BY <1>6 DEF t, values, l

\* A whole element is read as it was written, and reading goes on behind it.
LEMMA ParseElement ==
    ASSUME NEW words, IsList(words), NEW P, ParseTable(words, P),
           NEW i \in Nat, i >= 2, NEW e, Whole(e), i + Len(e.body) <= Len(words),
           words[i] = e.head, \A j \in 1 .. Len(e.body) : words[i + j] = Data(e.body[j])
    PROVE  LET rest == P[i + Len(e.body) + 1] IN
           P[i] = IF rest.ok THEN [ok |-> TRUE, elements |-> <<e>> \o rest.elements]
                  ELSE [ok |-> FALSE, elements |-> <<>>]
<1>1. Len(words) \in Nat /\ Len(e.body) \in Nat
    BY DEF IsList, Whole
<1>2. i \in 2 .. Len(words) + 1 /\ ~(i > Len(words))
    <2>1. \A l, n \in Nat : i + l <= n => i \in 2 .. n + 1 /\ ~(i > n)
        OBVIOUS
    <2> QED BY <1>1, <2>1
<1>3. P[i] = ParseFrom(words, P, i)
    BY <1>2 DEF ParseTable
<1>4. BodySize(words[i]) = Len(e.body) /\ words[i].type \in Types
    BY DEF Whole
<1>5. SubSeq([k \in DOMAIN words |-> words[k].value], i + 1, i + Len(e.body)) = e.body
    <2>1. \A j \in 1 .. Len(e.body) : words[i + j].value = e.body[j]
        <3>1. \A v : Data(v).value = v
            BY DEF Data
        <3> QED BY <3>1, Zenon
    <2> QED BY <2>1, BodyIs DEF Whole
<1>6. Element(words[i], e.body) = e
    BY DEF Whole
<1>7. ~(i + Len(e.body) > Len(words))
    <2>1. \A l, n \in Nat : i + l <= n => ~(i + l > n)
        OBVIOUS
    <2> QED BY <1>1, <2>1
<1> QED BY <1>2, <1>3, <1>4, <1>5, <1>6, <1>7 DEF ParseFrom

\* The same for the x-th of the elements written.
LEMMA ParseWritten ==
    ASSUME NEW words, IsList(words), NEW P, ParseTable(words, P), NEW off, NEW es, IsList(es),
           Written(off, es, words), 1 + off[Len(es)] <= Len(words),
           NEW x \in 1 .. Len(es), Whole(es[x])
    PROVE  LET rest == P[2 + off[x]] IN
           P[2 + off[x - 1]] =
               IF rest.ok THEN [ok |-> TRUE, elements |-> <<es[x]>> \o rest.elements]
               ELSE [ok |-> FALSE, elements |-> <<>>]
<1> DEFINE e == es[x]
           i == 2 + off[x - 1]
<1>1. /\ off[x] = off[x - 1] + 1 + Len(e.body) /\ off[x] <= off[Len(es)]
      /\ words[i] = e.head
      /\ \A j \in 1 .. Len(e.body) : words[i + j] = Data(e.body[j])
    BY DEF Written
<1>2. off[x - 1] \in Nat /\ off[x] \in Nat /\ off[Len(es)] \in Nat /\ Len(words) \in Nat
    <2>1. /\ Len(es) \in Nat /\ x - 1 \in 0 .. Len(es) /\ x \in 0 .. Len(es)
          /\ Len(es) \in 0 .. Len(es)
        BY DEF IsList
    <2> QED BY <2>1 DEF Written, IsList
<1>3. Len(e.body) \in Nat
    BY DEF Whole, IsList
<1>4. /\ i \in Nat /\ i >= 2 /\ i + Len(e.body) <= Len(words)
      /\ i + Len(e.body) + 1 = 2 + off[x]
    <2> DEFINE a == off[x - 1]
               b == off[x]
               l == Len(e.body)
               z == off[Len(es)]
               w == Len(words)
    <2>1. /\ a \in Nat /\ b \in Nat /\ l \in Nat /\ z \in Nat /\ w \in Nat
          /\ b = a + 1 + l /\ b <= z /\ 1 + z <= w
        BY <1>1, <1>2, <1>3
    <2> HIDE DEF a, b, l, z, w
    <2>2. 2 + a \in Nat /\ 2 + a >= 2 /\ (2 + a) + l <= w /\ (2 + a) + l + 1 = 2 + b
        BY <2>1
    <2> QED BY <2>2 DEF a, b, l, z, w
<1> HIDE DEF e, i
<1>5. LET rest == P[i + Len(e.body) + 1] IN
           P[i] = IF rest.ok THEN [ok |-> TRUE, elements |-> <<e>> \o rest.elements]
                  ELSE [ok |-> FALSE, elements |-> <<>>]
    <2>1. Whole(e)
        BY DEF e
    <2> QED BY <1>1, <1>4, <2>1, ParseElement
<1> QED BY <1>4, <1>5 DEF e, i

\* Where reading fails behind whole elements, it fails.
LEMMA ParseFails ==
    ASSUME NEW words, IsList(words), NEW P, ParseTable(words, P), NEW off, NEW es, IsList(es),
           Written(off, es, words), 1 + off[Len(es)] <= Len(words),
           NEW m \in 0 .. Len(es), \A x \in 1 .. m : Whole(es[x]), ~P[2 + off[m]].ok
    PROVE  ~P[2].ok
<1> DEFINE T == {k \in 0 .. m : ~P[2 + off[m - k]].ok}
<1>1. Len(es) \in Nat /\ m \in Nat /\ m - 0 = m /\ m - m = 0
    BY DEF IsList
<1>2. 0 \in T
    BY <1>1
<1>3. ASSUME NEW k \in 0 .. m - 1, k \in T
      PROVE  k + 1 \in T
    <2>1. /\ m - k \in 1 .. Len(es) /\ m - k \in 1 .. m /\ (m - k) - 1 = m - (k + 1)
          /\ k + 1 \in 0 .. m
        BY <1>1
    <2>2. ~P[2 + off[m - k]].ok
        BY <1>3
    <2> DEFINE x == m - k
    <2>3. x \in 1 .. Len(es) /\ Whole(es[x]) /\ ~P[2 + off[x]].ok
        BY <2>1, <2>2
    <2> HIDE DEF x
    <2>4. ~P[2 + off[x - 1]].ok
        <3>1. LET rest == P[2 + off[x]] IN
              P[2 + off[x - 1]] =
                  IF rest.ok THEN [ok |-> TRUE, elements |-> <<es[x]>> \o rest.elements]
                  ELSE [ok |-> FALSE, elements |-> <<>>]
            BY <2>3, ParseWritten
        <3> QED BY <2>3, <3>1
    <2> QED BY <2>1, <2>4 DEF x
<1>4. m \in T
    <2> HIDE DEF T
    <2>1. \A k \in 0 .. m - 1 : k \in T => k + 1 \in T
        BY <1>3
    <2>2. \A k \in 0 .. m : k \in T
        BY <1>1, <1>2, <2>1, CountingUp
    <2> QED BY <1>1, <2>2
<1>5. ~P[2 + off[0]].ok
    BY <1>1, <1>4
<1>6. off[0] = 0 /\ 2 + 0 = 2
    BY DEF Written
<1> QED BY <1>5, <1>6

\* A sequence with one element put before it.
LEMMA ConsIs ==
    ASSUME NEW S, NEW e \in S, NEW s \in Seq(S)
    PROVE  <<e>> \o s = [i \in 1 .. Len(s) + 1 |-> IF i = 1 THEN e ELSE s[i - 1]]
<1> DEFINE t == <<e>> \o s
<1>1. /\ t \in Seq(S) /\ Len(t) = 1 + Len(s) /\ Len(s) \in Nat /\ t[1] = e
      /\ \A j \in 1 .. Len(s) : t[1 + j] = s[j]
    <2>1. <<e>> \in Seq(S) /\ Len(<<e>>) = 1 /\ <<e>>[1] = e
        OBVIOUS
    <2> QED BY <2>1
<1> HIDE DEF t
<1>2. t = [i \in 1 .. Len(s) + 1 |-> t[i]]
    BY <1>1
<1>3. \A i \in 1 .. Len(s) + 1 : t[i] = IF i = 1 THEN e ELSE s[i - 1]
    <2> SUFFICES ASSUME NEW i \in 1 .. Len(s) + 1, i # 1
                 PROVE  t[i] = s[i - 1]
        BY <1>1
    <2>1. i - 1 \in 1 .. Len(s) /\ 1 + (i - 1) = i
        BY <1>1
    <2> QED BY <1>1, <2>1
<1>4. t = [i \in 1 .. Len(s) + 1 |-> IF i = 1 THEN e ELSE s[i - 1]]
    BY <1>2, <1>3
<1> QED BY <1>4 DEF t

\* Where all of the words are whole elements, they are what is read.
LEMMA ParsesAll ==
    ASSUME NEW words, IsList(words), NEW P, ParseTable(words, P), NEW off, NEW es, IsList(es),
           Written(off, es, words), Len(words) = 1 + off[Len(es)],
           \A x \in 1 .. Len(es) : Whole(es[x])
    PROVE  P[2] = [ok |-> TRUE, elements |-> es]
<1> DEFINE n == Len(es)
           Rest(k) == [i \in 1 .. k |-> es[(n - k) + i]]
           T == {k \in 0 .. n : P[2 + off[n - k]] = [ok |-> TRUE, elements |-> Rest(k)]}
           S == {es[i] : i \in 1 .. n}
<1>1. n \in Nat /\ n - 0 = n /\ n - n = 0
    BY DEF IsList
<1>2. off[n] \in Nat /\ off[0] = 0
    <2>1. n \in 0 .. n
        BY <1>1
    <2> QED BY <2>1 DEF Written
<1>3. 0 \in T
    <2>1. /\ 2 + off[n] \in 2 .. Len(words) + 1 /\ 2 + off[n] > Len(words)
          /\ Len(words) \in Nat
        BY <1>2
    <2>2. P[2 + off[n]] = [ok |-> TRUE, elements |-> <<>>]
        BY <2>1 DEF ParseTable, ParseFrom
    <2>3. Rest(0) = <<>>
        OBVIOUS
    <2>4. 0 \in 0 .. n /\ n - 0 = n
        BY <1>1
    <2> HIDE DEF Rest, n
    <2>5. P[2 + off[n - 0]] = [ok |-> TRUE, elements |-> Rest(0)]
        BY <2>2, <2>3, <2>4
    <2> QED BY <2>4, <2>5
<1>4. ASSUME NEW k \in 0 .. n - 1, k \in T
      PROVE  k + 1 \in T
    <2>1. n - k \in 1 .. n /\ (n - k) - 1 = n - (k + 1) /\ k + 1 \in 0 .. n /\ k \in Nat
        BY <1>1
    <2> DEFINE x == n - k
    <2>2. P[2 + off[x]] = [ok |-> TRUE, elements |-> Rest(k)]
        BY <1>4
    <2>3. x \in 1 .. n /\ Whole(es[x]) /\ es[x] \in S
        BY <2>1
    <2>4. \A i \in 1 .. k : x + i \in 1 .. n
        BY <1>1, <2>1
    <2>5. Rest(k) = [i \in 1 .. k |-> es[x + i]]
        OBVIOUS
    <2> HIDE DEF x, Rest
    <2>6. Rest(k) \in Seq(S) /\ Len(Rest(k)) = k /\ \A i \in 1 .. k : Rest(k)[i] = es[x + i]
        <3>1. \A i \in 1 .. k : Rest(k)[i] = es[x + i] /\ Rest(k)[i] \in S
            BY <2>4, <2>5
        <3>2. Rest(k) = [i \in 1 .. k |-> Rest(k)[i]]
            BY <2>5
        <3> HIDE DEF S
        <3> QED BY <2>1, <3>1, <3>2, ListIs
    <2>7. P[2 + off[x - 1]] = [ok |-> TRUE, elements |-> <<es[x]>> \o Rest(k)]
        <3>1. 1 + off[Len(es)] <= Len(words)
            BY <1>2
        <3>2. LET rest == P[2 + off[x]] IN
              P[2 + off[x - 1]] =
                  IF rest.ok THEN [ok |-> TRUE, elements |-> <<es[x]>> \o rest.elements]
                  ELSE [ok |-> FALSE, elements |-> <<>>]
            BY <2>3, <3>1, ParseWritten
        <3> QED BY <2>2, <3>2
    <2>8. <<es[x]>> \o Rest(k) = [i \in 1 .. k + 1 |-> IF i = 1 THEN es[x] ELSE Rest(k)[i - 1]]
        <3> HIDE DEF S
        <3> QED BY <2>3, <2>6, ConsIs
    <2>9. Rest(k + 1) = [i \in 1 .. k + 1 |-> es[(n - (k + 1)) + i]]
        BY DEF Rest
    <2>10. ASSUME NEW i \in 1 .. k + 1
           PROVE  es[(n - (k + 1)) + i] = IF i = 1 THEN es[x] ELSE Rest(k)[i - 1]
        <3>1. (n - (k + 1)) + i = (n - k) + (i - 1) /\ (n - k) + 0 = n - k
            BY <1>1
        <3>2. i = 1 \/ i - 1 \in 1 .. k
            BY <2>1
        <3> QED BY <2>6, <3>1, <3>2 DEF x
    <2>11. <<es[x]>> \o Rest(k) = Rest(k + 1)
        BY <2>8, <2>9, <2>10
    <2> QED BY <2>1, <2>7, <2>11 DEF x
<1>5. n \in T
    <2> HIDE DEF T, n
    <2>1. \A k \in 0 .. n - 1 : k \in T => k + 1 \in T
        BY <1>4
    <2>2. \A k \in 0 .. n : k \in T
        BY <1>1, <1>3, <2>1, CountingUp
    <2> QED BY <1>1, <2>2
<1>6. P[2 + off[0]] = [ok |-> TRUE, elements |-> Rest(n)]
    BY <1>1, <1>5
<1>7. Rest(n) = es
    <2>1. es = [i \in 1 .. n |-> es[i]]
        BY DEF IsList
    <2>2. \A i \in 1 .. n : (n - n) + i = i
        BY <1>1
    <2> QED BY <2>1, <2>2
<1>8. 2 + off[0] = 2
    BY <1>2
<1> QED BY <1>6, <1>7, <1>8

\* The size of the body of an element of a known type.
LEMMA BodySizeIs ==
    ASSUME NEW head, head.type \in Types, head.words \in Nat
    PROVE  BodySize(head) \in Nat
<1>1. minimumResponseBodySize(head.type) \in Nat
    BY DEF minimumResponseBodySize, Types
<1>2. minimumRequestBodySize(head.type) \in Nat
    BY DEF minimumRequestBodySize, Types
<1>3. \A a \in Nat, p \in BOOLEAN : a + (IF p THEN head.words ELSE 0) \in Nat
    OBVIOUS
<1> QED BY <1>1, <1>2, <1>3 DEF BodySize

\* So the words of which those of a known type are headers can be read.
LEMMA SizesOf ==
    ASSUME NEW S, NEW words \in Seq(S), \A w \in S : w.type \in Types => w.words \in Nat
    PROVE  SizesKnown(words) /\ IsList(words)
<1>1. \A i \in 1 .. Len(words) : words[i] \in S
    OBVIOUS
<1>2. IsList(words)
    BY DEF IsList
<1> QED BY <1>1, <1>2, BodySizeIs DEF SizesKnown

\* What serialise writes deserialise reads: a list of whole elements of known types
\* comes back as it was, whatever their number, types, ids and bodies (SerDes.py).
THEOREM RoundTrip ==
    ASSUME NEW es, IsList(es),
           \A i \in 1 .. Len(es) : Whole(es[i]) /\ es[i].head.words \in Nat
    PROVE  deserialise(serialise(es)) = [ok |-> TRUE, elements |-> es]
<1> DEFINE n == Len(es)
           words == serialise(es)
           S == {PacketHeader} \cup {es[i].head : i \in 1 .. n}
                    \cup UNION {{Data(es[i].body[j]) : j \in 1 .. Len(es[i].body)} : i \in 1 .. n}
<1>1. PacketHeader \in S /\ \A i \in 1 .. n :
          /\ es[i].head \in S /\ IsList(es[i].body)
          /\ \A j \in 1 .. Len(es[i].body) : Data(es[i].body[j]) \in S
    BY DEF Whole
<1>2. \A w \in S : w.type \in Types => w.words \in Nat
    <2>1. "packet" \notin Types /\ "data" \notin Types
        BY DEF Types
    <2>2. PacketHeader.type = "packet"
        BY DEF PacketHeader
    <2>3. \A v : Data(v).type = "data"
        BY DEF Data
    <2> QED BY <2>1, <2>2, <2>3
<1> HIDE DEF S
<1>3. words \in Seq(S) /\ \E off : Written(off, es, words) /\ Len(words) = 1 + off[n]
    BY <1>1, SerialiseWrites
<1> HIDE DEF words
<1>4. PICK off : Written(off, es, words) /\ Len(words) = 1 + off[n]
    BY <1>3
<1>5. SizesKnown(words) /\ IsList(words)
    BY <1>2, <1>3, SizesOf
<1>6. Len(words) \in Nat \ {0}
    <2>1. off[n] \in Nat
        <3>1. n \in 0 .. n
            BY DEF IsList
        <3> QED BY <1>4, <3>1 DEF Written
    <2> QED BY <1>4, <2>1
<1>7. PICK P : ParseTable(words, P) /\ deserialise(words) = P[2]
    BY <1>5, <1>6, DeserialiseIs
<1>8. P[2] = [ok |-> TRUE, elements |-> es]
    BY <1>4, <1>5, <1>7, ParsesAll
<1> QED BY <1>7, <1>8 DEF words

\* Behind whole elements a word of no known type: nothing is read of it all.
LEMMA ParseStops ==
    ASSUME NEW words, IsList(words), SizesKnown(words), NEW off, NEW es, IsList(es),
           Written(off, es, words), 1 + off[Len(es)] <= Len(words),
           NEW m \in 0 .. Len(es), \A x \in 1 .. m : Whole(es[x]),
           2 + off[m] <= Len(words), words[2 + off[m]].type \notin Types
    PROVE  ~deserialise(words).ok
<1>1. Len(words) \in Nat /\ off[m] \in Nat
    BY DEF IsList, Written
<1>2. Len(words) \in Nat \ {0} /\ 2 + off[m] \in 2 .. Len(words) + 1 /\ ~(2 + off[m] > Len(words))
    BY <1>1
<1>3. PICK P : ParseTable(words, P) /\ deserialise(words) = P[2]
    BY <1>2, DeserialiseIs
<1>4. P[2 + off[m]] = [ok |-> FALSE, elements |-> <<>>]
    <2>1. P[2 + off[m]] = ParseFrom(words, P, 2 + off[m])
        BY <1>2, <1>3 DEF ParseTable
    <2> QED BY <1>2, <2>1 DEF ParseFrom
<1>5. ~P[2 + off[m]].ok
    BY <1>4
<1>6. ~P[2].ok
    BY <1>3, <1>5, ParseFails
<1> QED BY <1>3, <1>6

\* So what can be read holds no element of an unknown type, and no packet header
\* after the elements it begins with.
LEMMA OkMeans ==
    ASSUME NEW words, IsList(words), SizesKnown(words), NEW off, NEW es, IsList(es),
           Written(off, es, words), 1 + off[Len(es)] <= Len(words),
           \A x \in 1 .. Len(es) :
               IsList(es[x].body) /\ (es[x].head.type \in Types => Whole(es[x])),
           deserialise(words).ok
    PROVE  /\ \A x \in 1 .. Len(es) : es[x].head.type \in Types
           /\ 2 + off[Len(es)] <= Len(words) => words[2 + off[Len(es)]].type \in Types
<1> DEFINE n == Len(es)
           T == {x \in 1 .. n : es[x].head.type \notin Types}
<1>1. n \in Nat /\ n \in 0 .. n /\ T \subseteq Nat
    BY DEF IsList
<1>2. T = {}
    <2> SUFFICES ASSUME T # {} PROVE FALSE
        OBVIOUS
    <2>1. PICK x \in T : \A y \in T : x <= y
        <3> HIDE DEF T
        <3> QED BY <1>1, LeastOf
    <2>2. x \in 1 .. n /\ es[x].head.type \notin Types /\ x - 1 \in 0 .. n
        OBVIOUS
    <2>3. \A y \in 1 .. x - 1 : Whole(es[y])
        <3>1. \A y \in 1 .. x - 1 : y \in 1 .. n /\ ~(x <= y)
            BY <2>2
        <3> QED BY <2>1, <3>1
    <2>4. words[2 + off[x - 1]] = es[x].head
        BY <2>2 DEF Written
    <2>5. 2 + off[x - 1] <= Len(words)
        <3>1. off[x] = off[x - 1] + 1 + Len(es[x].body) /\ off[x] <= off[n]
            BY <2>2 DEF Written
        <3>2. /\ x \in 0 .. n
              /\ off \in [0 .. n -> Nat]
            BY <1>1, <2>2 DEF Written
        <3>3. off[x] \in Nat /\ off[x - 1] \in Nat /\ off[n] \in Nat
            BY <1>1, <2>2, <3>2
        <3> DEFINE a == off[x - 1]
                   b == off[x]
                   l == Len(es[x].body)
                   z == off[n]
                   w == Len(words)
        <3>4. /\ a \in Nat /\ b \in Nat /\ l \in Nat /\ z \in Nat /\ w \in Nat
              /\ b = a + 1 + l /\ b <= z /\ 1 + z <= w
            BY <2>2, <3>1, <3>3 DEF IsList
        <3> HIDE DEF a, b, l, z, w
        <3>5. 2 + a <= w
            BY <3>4
        <3> QED BY <3>5 DEF a, w
    <2>6. ~deserialise(words).ok
        BY <2>2, <2>3, <2>4, <2>5, ParseStops
    <2> QED BY <2>6
<1>3. 2 + off[n] <= Len(words) => words[2 + off[n]].type \in Types
    <2> SUFFICES ASSUME 2 + off[n] <= Len(words), words[2 + off[n]].type \notin Types
                 PROVE  FALSE
        OBVIOUS
    <2>1. \A x \in 1 .. n : Whole(es[x])
        BY <1>2
    <2>2. ~deserialise(words).ok
        BY <1>1, <2>1, ParseStops
    <2> QED BY <2>2
<1> QED BY <1>2, <1>3

\* Words that begin with what serialise wrote.
LEMMA WrittenBefore ==
    ASSUME NEW es, IsList(es), \A x \in 1 .. Len(es) : IsList(es[x].body), NEW off, NEW s,
           Written(off, es, s), Len(s) = 1 + off[Len(es)], NEW words,
           \A x \in 1 .. Len(s) : words[x] = s[x]
    PROVE  Written(off, es, words)
<1> DEFINE n == Len(es)
<1>1. n \in Nat /\ n \in 0 .. n /\ off \in [0 .. n -> Nat] /\ off[0] = 0
    BY DEF IsList, Written
<1>2. words[1] = PacketHeader
    <2>1. 1 \in 1 .. Len(s)
        BY <1>1
    <2> QED BY <2>1 DEF Written
<1>3. ASSUME NEW i \in 1 .. n
      PROVE  /\ off[i] = off[i - 1] + 1 + Len(es[i].body) /\ off[i] <= off[n]
             /\ words[2 + off[i - 1]] = es[i].head
             /\ \A j \in 1 .. Len(es[i].body) :
                   words[2 + off[i - 1] + j] = Data(es[i].body[j])
    <2>1. /\ off[i] = off[i - 1] + 1 + Len(es[i].body) /\ off[i] <= off[n]
          /\ s[2 + off[i - 1]] = es[i].head
          /\ \A j \in 1 .. Len(es[i].body) : s[2 + off[i - 1] + j] = Data(es[i].body[j])
        BY DEF Written
    <2> DEFINE a == off[i - 1]
               b == off[i]
               l == Len(es[i].body)
               z == off[n]
    <2>2. /\ a \in Nat /\ b \in Nat /\ l \in Nat /\ z \in Nat
          /\ b = a + 1 + l /\ b <= z /\ Len(s) = 1 + z
        <3>1. i \in 0 .. n /\ i - 1 \in 0 .. n
            BY <1>1
        <3>2. a \in Nat /\ b \in Nat /\ z \in Nat
            BY <1>1, <3>1
        <3>3. l \in Nat
            BY DEF IsList
        <3> QED BY <2>1, <3>2, <3>3
    <2> HIDE DEF a, b, l, z
    <2>3. 2 + a \in 1 .. Len(s) /\ \A j \in 1 .. l : 2 + a + j \in 1 .. Len(s)
        BY <2>2
    <2>4. words[2 + off[i - 1]] = es[i].head
        BY <2>1, <2>3 DEF a
    <2>5. \A j \in 1 .. Len(es[i].body) : words[2 + off[i - 1] + j] = Data(es[i].body[j])
        BY <2>1, <2>3 DEF a, l
    <2> QED BY <2>1, <2>4, <2>5
<1> QED BY <1>1, <1>2, <1>3 DEF Written

-----------------------------------------------------------------------------
\* The packets of a transaction

\* The words of requests.
RequestWords == RequestHeaders \cup {PacketHeader} \cup {Data(v) : v \in Nat}

\* A request is a list of elements, whole where the type is known.
LEMMA RequestIs ==
    ASSUME NEW name \in DOMAIN Requests, NEW r, r = Requests[name]
    PROVE  /\ IsList(r) /\ DOMAIN r = 1 .. Len(r) /\ Len(r) \in Nat
           /\ \A x \in 1 .. Len(r) :
                 /\ r[x].head \in RequestHeaders
                 /\ IsList(r[x].body) /\ (r[x].head.type \in Types => Whole(r[x]))
                 /\ \A j \in 1 .. Len(r[x].body) : r[x].body[j] \in Nat
<1> DEFINE R == [head : RequestHeaders, body : Seq(Nat)]
<1>1. /\ r \in Seq(R)
      /\ \A x \in DOMAIN r : r[x].head.type \in Types => validBodySize(r[x])
    BY RequestAssumption
<1>2. \A e \in R : e.head \in RequestHeaders /\ e.body \in Seq(Nat) /\ e = Element(e.head, e.body)
    BY DEF Element
<1>3. \A b \in Seq(Nat) : IsList(b) /\ \A j \in 1 .. Len(b) : b[j] \in Nat
    BY DEF IsList
<1> HIDE DEF R
<1>4. IsList(r) /\ DOMAIN r = 1 .. Len(r) /\ Len(r) \in Nat /\ \A x \in 1 .. Len(r) : r[x] \in R
    BY <1>1 DEF IsList
<1> QED BY <1>1, <1>2, <1>3, <1>4 DEF Whole, validBodySize

\* Its words.
LEMMA RequestWritten ==
    ASSUME NEW name \in DOMAIN Requests, NEW r, r = Requests[name]
    PROVE  /\ serialise(r) \in Seq(RequestWords)
           /\ Len(serialise(r)) \in Nat \ {0} /\ serialise(r)[1] = PacketHeader
           /\ \E off : /\ Written(off, r, serialise(r))
                       /\ Len(serialise(r)) = 1 + off[Len(r)]
<1> DEFINE s == serialise(r)
<1>1. /\ IsList(r) /\ PacketHeader \in RequestWords
      /\ \A x \in 1 .. Len(r) :
            /\ r[x].head \in RequestWords /\ IsList(r[x].body)
            /\ \A j \in 1 .. Len(r[x].body) : Data(r[x].body[j]) \in RequestWords
    BY RequestIs DEF RequestWords
<1>2. s \in Seq(RequestWords) /\ \E off : Written(off, r, s) /\ Len(s) = 1 + off[Len(r)]
    BY <1>1, SerialiseWrites
<1> HIDE DEF s
<1>3. PICK off : Written(off, r, s) /\ Len(s) = 1 + off[Len(r)]
    BY <1>2
<1>4. off[Len(r)] \in Nat
    <2>1. Len(r) \in 0 .. Len(r)
        BY <1>1 DEF IsList
    <2> QED BY <1>3, <2>1 DEF Written
<1>5. Len(s) \in Nat \ {0} /\ s[1] = PacketHeader
    BY <1>3, <1>4 DEF Written
<1> QED BY <1>2, <1>5 DEF s

\* What is a header among them has a number of words.
LEMMA RequestWordsRead == \A w \in RequestWords : w.type \in Types => w.words \in Nat
<1>1. "packet" \notin Types /\ "data" \notin Types
    BY DEF Types
<1>2. PacketHeader.type = "packet" /\ \A v : Data(v).type = "data"
    BY DEF PacketHeader, Data
<1>3. \A w \in RequestHeaders : w.words \in Nat
    BY DEF RequestHeaders, WordRange
<1> QED BY <1>1, <1>2, <1>3 DEF RequestWords

\* One packet gives the elements of its request, if it gives any; several that recv
\* returned together never do (deserialise, and _handleRequests of the TCP server).
LEMMA PacketsParse ==
    ASSUME NEW k \in Nat \ {0}, NEW names \in [1 .. k -> DOMAIN Requests],
           NEW words, words = FlattenSeq([i \in 1 .. k |-> serialise(Requests[names[i]])]),
           deserialise(words).ok,
           NEW r, r = Requests[names[1]]
    PROVE  /\ k = 1
           /\ \A x \in 1 .. Len(r) : Whole(r[x])
           /\ deserialise(words).elements = r
<1> DEFINE seqs == [i \in 1 .. k |-> serialise(Requests[names[i]])]
           s == serialise(r)
<1>1. ASSUME NEW i \in 1 .. k
      PROVE  /\ seqs[i] \in Seq(RequestWords) /\ Len(seqs[i]) \in Nat \ {0}
             /\ seqs[i][1] = PacketHeader
    <2>1. names[i] \in DOMAIN Requests
        OBVIOUS
    <2>2. seqs[i] = serialise(Requests[names[i]])
        OBVIOUS
    <2> HIDE DEF seqs
    <2> QED BY <2>1, <2>2, RequestWritten
<1>2. 1 \in 1 .. k /\ seqs[1] = s /\ names[1] \in DOMAIN Requests
    OBVIOUS
<1>3. seqs \in [1 .. k -> Seq(RequestWords)] /\ words = FlattenSeq(seqs)
    BY <1>1
<1>4. PICK off : Written(off, r, s) /\ Len(s) = 1 + off[Len(r)]
    <2> HIDE DEF s
    <2> QED BY <1>2, RequestWritten DEF s
<1> HIDE DEF seqs, s
<1>5. words \in Seq(RequestWords) /\ \E at : Laid(at, k, seqs, words)
    BY <1>3, FlattenLays
<1>6. PICK at : Laid(at, k, seqs, words)
    BY <1>5
<1>7. SizesKnown(words) /\ IsList(words) /\ Len(words) \in Nat
    <2>1. SizesKnown(words) /\ IsList(words)
        BY <1>5, RequestWordsRead, SizesOf
    <2> QED BY <2>1 DEF IsList
<1>8. /\ at[1] = Len(s) /\ Len(s) \in Nat \ {0} /\ Len(s) <= Len(words)
      /\ \A x \in 1 .. Len(s) : words[x] = s[x]
      /\ Len(words) = at[k] /\ at \in [0 .. k -> Nat]
    <2>1. /\ at \in [0 .. k -> Nat] /\ at[0] = 0 /\ Len(words) = at[k]
          /\ at[1] = at[1 - 1] + Len(seqs[1]) /\ at[1] <= at[k]
          /\ \A j \in 1 .. Len(seqs[1]) : words[at[1 - 1] + j] = seqs[1][j]
        BY <1>2, <1>6 DEF Laid
    <2>2. 1 - 1 = 0 /\ \A j \in 1 .. Len(s) : 0 + j = j
        OBVIOUS
    <2>3. Len(s) \in Nat \ {0}
        BY <1>1, <1>2
    <2> QED BY <1>2, <2>1, <2>2, <2>3
<1>9. /\ IsList(r) /\ Len(r) \in Nat
      /\ \A x \in 1 .. Len(r) :
            /\ r[x].head \in RequestHeaders
            /\ IsList(r[x].body) /\ (r[x].head.type \in Types => Whole(r[x]))
    BY <1>2, RequestIs
<1>10. Written(off, r, words)
    BY <1>4, <1>8, <1>9, WrittenBefore
<1>11. off[Len(r)] \in Nat
    <2>1. Len(r) \in 0 .. Len(r)
        BY <1>9
    <2> QED BY <1>4, <2>1 DEF Written
<1>12. /\ \A x \in 1 .. Len(r) : r[x].head.type \in Types
       /\ 2 + off[Len(r)] <= Len(words) => words[2 + off[Len(r)]].type \in Types
    <2>1. 1 + off[Len(r)] <= Len(words)
        BY <1>4, <1>8
    <2> QED BY <1>7, <1>9, <1>10, <2>1, OkMeans
<1>13. \A x \in 1 .. Len(r) : Whole(r[x]) /\ r[x].head.words \in Nat
    <2>1. \A h \in RequestHeaders : h.type \in Types => h.words \in Nat
        BY RequestWordsRead DEF RequestWords
    <2> QED BY <1>9, <1>12, <2>1
<1>14. k = 1
    <2> SUFFICES ASSUME k # 1 PROVE FALSE
        OBVIOUS
    <2>1. /\ 2 \in 1 .. k /\ 2 - 1 = 1 /\ k \in 0 .. k /\ 2 \in 0 .. k
        OBVIOUS
    <2>2. /\ at[2] = at[1] + Len(seqs[2]) /\ at[2] <= at[k]
          /\ \A j \in 1 .. Len(seqs[2]) : words[at[1] + j] = seqs[2][j]
        BY <1>6, <2>1 DEF Laid
    <2>3. Len(seqs[2]) \in Nat \ {0} /\ seqs[2][1] = PacketHeader
        BY <1>1, <2>1
    <2>4. words[Len(s) + 1] = PacketHeader /\ Len(s) + 1 <= Len(words)
        <3>1. 1 \in 1 .. Len(seqs[2]) /\ at[2] \in Nat /\ at[k] \in Nat
            BY <1>8, <2>1, <2>3
        <3> QED BY <1>8, <2>2, <2>3, <3>1
    <2>5. Len(s) + 1 = 2 + off[Len(r)]
        BY <1>4, <1>11
    <2>6. PacketHeader.type \notin Types
        BY DEF PacketHeader, Types
    <2> QED BY <1>12, <2>4, <2>5, <2>6
<1>15. words = s
    <2>1. Len(words) = Len(s)
        BY <1>8, <1>14
    <2>2. words = [x \in 1 .. Len(words) |-> words[x]]
        BY <1>7 DEF IsList
    <2>3. s = [x \in 1 .. Len(s) |-> s[x]]
        <3>1. s \in Seq(RequestWords)
            BY <1>1, <1>2
        <3> QED BY <3>1
    <2> QED BY <1>8, <2>1, <2>2, <2>3
<1>16. deserialise(words) = [ok |-> TRUE, elements |-> r]
    BY <1>9, <1>13, <1>15, RoundTrip DEF s
<1> QED BY <1>13, <1>14, <1>16

\* Parsed is what deserialise gives.
LEMMA ParsedIs ==
    ASSUME NEW k \in 1 .. MaxPackets, NEW ns, Names(ns) \in [1 .. k -> DOMAIN Requests]
    PROVE  Parsed(ns) =
               deserialise(FlattenSeq([i \in 1 .. k |-> serialise(Requests[Names(ns)[i]])]))
<1> DEFINE Parse1(names) ==
               deserialise(FlattenSeq([i \in DOMAIN names |-> serialise(Requests[names[i]])]))
           All == UNION {[1 .. l -> DOMAIN Requests] : l \in 1 .. MaxPackets}
<1>1. Parses = {[names |-> names, parse |-> Parse1(names)] : names \in All}
    BY DEF Parses
<1>2. Names(ns) \in All /\ DOMAIN Names(ns) = 1 .. k
    OBVIOUS
<1>3. Parse1(Names(ns)) =
          deserialise(FlattenSeq([i \in 1 .. k |-> serialise(Requests[Names(ns)[i]])]))
    BY <1>2
<1> HIDE DEF Parse1, All
<1>4. \E p \in Parses : p.names = Names(ns)
    <2> DEFINE p == [names |-> Names(ns), parse |-> Parse1(Names(ns))]
    <2>1. p \in Parses
        BY <1>1, <1>2
    <2>2. p.names = Names(ns)
        OBVIOUS
    <2> HIDE DEF p
    <2> QED BY <2>1, <2>2
<1>5. \A p \in Parses : p.names = Names(ns) => p.parse = Parse1(Names(ns))
    BY <1>1
<1>6. Parsed(ns) = Parse1(Names(ns))
    BY <1>4, <1>5 DEF Parsed
<1> QED BY <1>3, <1>6

-----------------------------------------------------------------------------
\* The pipeline

Numbers == 1 .. Len(sent)

From(n) == sent[n].from

\* The packets at each place.
Coming   == IF transport = "udp" THEN {arrived[i] : i \in DOMAIN arrived}
            ELSE UNION {{arrived[c][i] : i \in DOMAIN arrived[c]} : c \in Clients}
InHand   == IF main = "put" THEN {hand[1]} ELSE {}
Queued   == {queue[i][1] : i \in DOMAIN queue}
InWork   == IF handler \in {"parse", "act", "respond"} THEN {current[1]} ELSE {}
Answered == {replies[i].n : i \in DOMAIN replies}
Taken    == Answered \cup InWork \cup Queued \cup InHand

Ascending(s) == \A i, j \in DOMAIN s : i < j => s[i] < s[j]

\* Of one client, those of S were sent before those of T.
Ahead(S, T) == \A m \in S, n \in T : From(m) = From(n) => m < n

SentOK == /\ transport \in {"udp", "tcp"}
          /\ sent \in Seq([from : Clients, request : DOMAIN Requests \cup {Empty}])

\* Packets of a connection are those of its client, in the order sent.
ChannelsOK ==
    /\ transport = "udp" => (arrived \in Seq(Numbers) /\ Ascending(arrived))
    /\ transport = "tcp" =>
          /\ arrived \in [Clients -> Seq(Numbers)]
          /\ \A c \in Clients : /\ Ascending(arrived[c])
                                /\ \A i \in DOMAIN arrived[c] : From(arrived[c][i]) = c

\* Who the main thread is connected with; there is a new connection only when the
\* client of the old one has closed it.
ConnectionOK ==
    /\ connecting \in Seq(Clients) /\ connected \in Clients \cup {NoClient}
    /\ main = "accept" => transport = "tcp"
    /\ (transport = "tcp" /\ main \in {"recv", "put"}) => connected \in Clients
    /\ transport = "tcp" =>
          \A n \in Taken : (From(n) = connected /\ main # "accept") \/ From(n) \in closed

PipelineOK ==
    /\ Taken \subseteq Numbers
    /\ hand \in Seq(Numbers) /\ queue \in Seq(Seq(Numbers))
    /\ replies \in Seq([n : Numbers, to : Clients \cup {NoClient}])
    /\ Ahead(Answered, InWork)
    /\ Ahead(Answered \cup InWork, Queued)
    /\ Ahead(Answered \cup InWork \cup Queued, InHand)
    /\ Ahead(Taken, Coming)

\* Within the queue and the replies, too.
OrderOK ==
    /\ \A i, j \in DOMAIN queue :
          (i < j /\ From(queue[i][1]) = From(queue[j][1])) => queue[i][1] < queue[j][1]
    /\ \A i, j \in DOMAIN replies :
          (i < j /\ From(replies[i].n) = From(replies[j].n)) => replies[i].n < replies[j].n

RepliesOK ==
    \A i \in DOMAIN replies :
        \/ replies[i].to = From(replies[i].n)
        \/ transport = "tcp" /\ From(replies[i].n) \in closed

ServerInv == SentOK /\ ChannelsOK /\ ConnectionOK /\ PipelineOK /\ OrderOK /\ RepliesOK

-----------------------------------------------------------------------------
\* The server starts with nothing sent.
LEMMA ServerInit == Init => ServerInv
<1> SUFFICES ASSUME Init
             PROVE  ServerInv
    OBVIOUS
<1> USE DEF Init
<1>1. SentOK
    BY DEF SentOK
<1>2. ChannelsOK
    BY DEF ChannelsOK, Ascending
<1>3. Taken = {}
    BY DEF Taken, InHand, Queued, InWork, Answered
<1>4. ConnectionOK
    BY <1>3 DEF ConnectionOK
<1>5. PipelineOK
    BY <1>3 DEF PipelineOK, Ahead, Taken
<1>6. OrderOK /\ RepliesOK
    BY DEF OrderOK, RepliesOK
<1> QED BY <1>1, <1>2, <1>4, <1>5, <1>6 DEF ServerInv

\* What a packet may do in a step that sends none: stay or go one place on, or leave.
\* Here: nothing moves.
LEMMA NothingMoves ==
    ASSUME ServerInv, UNCHANGED <<transport, sent, arrived, queue, replies, hand>>,
           InHand' = InHand, InWork' \subseteq InWork
    PROVE  SentOK' /\ ChannelsOK' /\ PipelineOK' /\ OrderOK' /\ Taken' \subseteq Taken
<1> USE DEF ServerInv
<1>1. /\ \A n : From(n)' = From(n)
      /\ Numbers' = Numbers /\ Queued' = Queued /\ Answered' = Answered /\ Coming' = Coming
    BY DEF From, Numbers, Queued, Answered, Coming
<1>2. Taken' \subseteq Taken
    BY <1>1 DEF Taken
<1>3. SentOK' /\ ChannelsOK'
    BY <1>1 DEF SentOK, ChannelsOK, Ascending
<1>4. OrderOK'
    BY <1>1 DEF OrderOK
<1>5. PipelineOK'
    BY <1>1, <1>2 DEF PipelineOK, Ahead
<1> QED BY <1>2, <1>3, <1>4, <1>5

\* Connections come and go, threads stop, and the handler works on its packet.
LEMMA QuietSteps ==
    ASSUME ServerInv,
           Connect \/ Close \/ Accept \/ Joined \/ Interrupt \/ closeSockets \/ Parse \/ Act
    PROVE  ServerInv'
<1> USE DEF ServerInv
<1>1. UNCHANGED <<transport, sent, arrived, queue, replies, hand>>
    BY DEF Connect, Close, Accept, Joined, Interrupt, closeSockets, Parse, Act, netVars,
       mainVars, handlerVars
<1>2. InHand' = InHand
    BY DEF InHand, Connect, Close, Accept, Joined, Interrupt, Stop, closeSockets, Parse, Act,
       mainVars
<1>3. InWork' \subseteq InWork
    BY DEF InWork, Connect, Close, Accept, Joined, Interrupt, closeSockets, Parse, Act,
       handlerVars, AfterError
<1>4. SentOK' /\ ChannelsOK' /\ PipelineOK' /\ OrderOK' /\ Taken' \subseteq Taken
    BY <1>1, <1>2, <1>3, NothingMoves
<1>5. \A n : From(n)' = From(n)
    BY <1>1 DEF From
<1>6. closed \subseteq closed'
    BY DEF Connect, Close, Accept, Joined, Interrupt, closeSockets, Parse, Act, netVars
<1>7. RepliesOK'
    BY <1>1, <1>5, <1>6 DEF RepliesOK
<1>8. ConnectionOK'
    <2>1. CASE Connect
        <3>1. PICK c \in Clients : connecting' = Append(connecting, c)
            BY <2>1 DEF Connect
        <3>2. connecting' \in Seq(Clients)
            BY <3>1 DEF ConnectionOK
        <3>3. UNCHANGED <<closed, main, connected>>
            BY <2>1 DEF Connect, mainVars
        <3> QED BY <1>1, <1>4, <1>5, <3>2, <3>3 DEF ConnectionOK
    <2>2. CASE Close \/ Joined \/ Interrupt \/ closeSockets \/ Parse \/ Act
        <3>1. /\ UNCHANGED <<connecting, connected>>
              /\ main' = main \/ main' \notin {"accept", "recv", "put"}
            BY <2>2 DEF Close, Joined, Interrupt, Stop, closeSockets, Parse, Act, netVars,
               mainVars
        <3> QED BY <1>1, <1>4, <1>5, <1>6, <3>1 DEF ConnectionOK
    <2>3. CASE Accept
        <3>1. /\ main = "accept" /\ main' = "recv" /\ connecting # <<>>
              /\ connected' = Head(connecting) /\ connecting' = Tail(connecting)
              /\ closed' = closed
            BY <2>3 DEF Accept
        <3>2. connected' \in Clients /\ connecting' \in Seq(Clients)
            BY <3>1 DEF ConnectionOK
        <3> QED BY <1>1, <1>4, <1>5, <3>1, <3>2 DEF ConnectionOK
    <2> QED BY <2>1, <2>2, <2>3
<1> QED BY <1>4, <1>7, <1>8

\* A packet joins a channel at its end.
LEMMA AppendAscending ==
    ASSUME NEW N \in SUBSET Nat, NEW s \in Seq(N), Ascending(s), NEW k \in Nat,
           \A n \in N : n < k
    PROVE  /\ Append(s, k) \in Seq(N \cup {k}) /\ Ascending(Append(s, k))
           /\ \A i \in DOMAIN Append(s, k) :
                 Append(s, k)[i] = k \/ (i \in DOMAIN s /\ Append(s, k)[i] = s[i])
<1> DEFINE t == Append(s, k)
<1>1. s \in Seq(N \cup {k}) /\ k \in N \cup {k}
    OBVIOUS
<1>2. /\ t \in Seq(N \cup {k}) /\ Len(t) = Len(s) + 1 /\ DOMAIN t = 1 .. Len(s) + 1
      /\ DOMAIN s = 1 .. Len(s) /\ Len(s) \in Nat
      /\ \A i \in 1 .. Len(s) : t[i] = s[i] /\ s[i] \in N
      /\ t[Len(s) + 1] = k
    BY <1>1
<1> HIDE DEF t
<1>3. Ascending(t)
    <2> SUFFICES ASSUME NEW i \in DOMAIN t, NEW j \in DOMAIN t, i < j
                 PROVE  t[i] < t[j]
        BY DEF Ascending
    <2>1. i \in 1 .. Len(s) /\ t[i] = s[i] /\ s[i] \in N
        BY <1>2
    <2>2. CASE j = Len(s) + 1
        BY <1>2, <2>1, <2>2
    <2>3. CASE j \in 1 .. Len(s)
        BY <1>2, <2>1, <2>3 DEF Ascending
    <2> QED BY <1>2, <2>2, <2>3
<1>4. \A i \in DOMAIN t : t[i] = k \/ (i \in DOMAIN s /\ t[i] = s[i])
    BY <1>2
<1> QED BY <1>2, <1>3, <1>4 DEF t

\* A packet that is sent has a higher number than any before it.
LEMMA SendNumber ==
    ASSUME SentOK, NEW c \in Clients, NEW name \in DOMAIN Requests \cup {Empty},
           sent' = Append(sent, [from |-> c, request |-> name]), UNCHANGED transport,
           NEW k, k = Len(sent) + 1
    PROVE  /\ SentOK' /\ Len(sent') = k /\ k \in Nat
           /\ \A n \in Numbers : From(n)' = From(n)
           /\ From(k)' = c
           /\ Numbers' = Numbers \cup {k} /\ Numbers \in SUBSET Nat
           /\ \A n \in Numbers : n < k
<1>1. Len(sent) \in Nat /\ [from |-> c, request |-> name] \in
          [from : Clients, request : DOMAIN Requests \cup {Empty}]
    BY DEF SentOK
<1>2. /\ Len(sent') = Len(sent) + 1
      /\ \A n \in 1 .. Len(sent) : sent'[n] = sent[n]
      /\ sent'[Len(sent) + 1] = [from |-> c, request |-> name]
    BY <1>1 DEF SentOK
<1>3. SentOK'
    BY <1>1 DEF SentOK
<1>4. /\ Numbers' = Numbers \cup {k} /\ Numbers \in SUBSET Nat
      /\ \A n \in Numbers : n < k
    BY <1>1, <1>2 DEF Numbers
<1>5. (\A n \in Numbers : From(n)' = From(n)) /\ From(k)' = c
    BY <1>2 DEF From, Numbers
<1>6. Len(sent') = k /\ k \in Nat
    BY <1>1, <1>2
<1> QED BY <1>3, <1>4, <1>5, <1>6

\* A client sends a packet.
LEMMA SendStep ==
    ASSUME ServerInv, Send
    PROVE  ServerInv'
<1> USE DEF ServerInv
<1>1. PICK c \in Clients, name \in DOMAIN Requests \cup {Empty} :
          /\ sent' = Append(sent, [from |-> c, request |-> name])
          /\ \/ transport = "udp" /\ arrived' = Append(arrived, Len(sent'))
             \/ /\ transport = "tcp"
                /\ arrived' = [arrived EXCEPT ![c] = Append(@, Len(sent'))]
    BY DEF Send
<1>2. UNCHANGED <<transport, queue, replies, hand, main, handler, current, connecting, closed,
                  connected>>
    BY DEF Send, mainVars, handlerVars
<1>3. PICK k : k = Len(sent) + 1
    OBVIOUS
<1>4. /\ SentOK' /\ Len(sent') = k /\ k \in Nat
      /\ \A n \in Numbers : From(n)' = From(n)
      /\ From(k)' = c
      /\ Numbers' = Numbers \cup {k} /\ Numbers \in SUBSET Nat
      /\ \A n \in Numbers : n < k
    BY <1>1, <1>2, <1>3, SendNumber
<1>5. /\ InHand' = InHand /\ InWork' = InWork /\ Queued' = Queued /\ Answered' = Answered
      /\ Taken' = Taken
    BY <1>2 DEF InHand, InWork, Queued, Answered, Taken
<1>6. ChannelsOK' /\ Coming' \subseteq Coming \cup {k}
    <2>1. CASE transport = "udp"
        <3>1. /\ arrived' \in Seq(Numbers') /\ Ascending(arrived)'
              /\ \A i \in DOMAIN arrived' :
                    arrived'[i] = k \/ (i \in DOMAIN arrived /\ arrived'[i] = arrived[i])
            <4>1. arrived' = Append(arrived, k)
                BY <1>1, <1>4, <2>1
            <4>2. arrived \in Seq(Numbers) /\ Ascending(arrived)
                BY <2>1 DEF ChannelsOK
            <4>3. /\ Append(arrived, k) \in Seq(Numbers \cup {k})
                  /\ Ascending(Append(arrived, k))
                  /\ \A i \in DOMAIN Append(arrived, k) :
                        \/ Append(arrived, k)[i] = k
                        \/ i \in DOMAIN arrived /\ Append(arrived, k)[i] = arrived[i]
                BY <1>4, <4>2, AppendAscending
            <4>4. Ascending(arrived)'
                BY <4>1, <4>3 DEF Ascending
            <4> QED BY <1>4, <4>1, <4>3, <4>4
        <3> QED BY <1>2, <2>1, <3>1 DEF ChannelsOK, Coming
    <2>2. CASE transport = "tcp"
        <3>1. arrived \in [Clients -> Seq(Numbers)]
            BY <2>2 DEF ChannelsOK
        <3>2. /\ arrived' = [arrived EXCEPT ![c] = Append(arrived[c], k)]
              /\ DOMAIN arrived = Clients
            BY <1>1, <1>4, <2>2, <3>1
        <3>3. ASSUME NEW d \in Clients
              PROVE  /\ arrived'[d] \in Seq(Numbers') /\ Ascending(arrived'[d])
                     /\ \A i \in DOMAIN arrived'[d] :
                           \/ d = c /\ arrived'[d][i] = k
                           \/ i \in DOMAIN arrived[d] /\ arrived'[d][i] = arrived[d][i]
            <4>1. arrived[d] \in Seq(Numbers) /\ Ascending(arrived[d])
                BY <2>2, <3>1 DEF ChannelsOK
            <4>2. CASE d = c
                <5>1. arrived'[d] = Append(arrived[d], k)
                    BY <3>2, <4>2
                <5>2. /\ Append(arrived[d], k) \in Seq(Numbers \cup {k})
                      /\ Ascending(Append(arrived[d], k))
                      /\ \A i \in DOMAIN Append(arrived[d], k) :
                            \/ Append(arrived[d], k)[i] = k
                            \/ /\ i \in DOMAIN arrived[d]
                               /\ Append(arrived[d], k)[i] = arrived[d][i]
                    BY <1>4, <4>1, AppendAscending
                <5> QED BY <1>4, <4>2, <5>1, <5>2
            <4>3. CASE d # c
                <5>1. arrived'[d] = arrived[d]
                    BY <3>2, <4>3
                <5>2. arrived[d] \in Seq(Numbers')
                    BY <1>4, <4>1
                <5> QED BY <4>1, <5>1, <5>2
            <4> QED BY <4>2, <4>3
        <3>4. arrived' \in [Clients -> Seq(Numbers')]
            BY <3>2, <3>3
        <3>5. ASSUME NEW d \in Clients, NEW i \in DOMAIN arrived'[d]
              PROVE  From(arrived[d][i])' = d
            <4>1. CASE d = c /\ arrived'[d][i] = k
                BY <1>4, <4>1
            <4>2. CASE i \in DOMAIN arrived[d] /\ arrived'[d][i] = arrived[d][i]
                <5>1. From(arrived[d][i]) = d
                    BY <2>2, <4>2 DEF ChannelsOK
                <5>2. arrived[d] \in Seq(Numbers)
                    BY <3>1
                <5>3. arrived[d][i] \in Numbers
                    BY <4>2, <5>2
                <5> QED BY <1>4, <4>2, <5>1, <5>3
            <4> QED BY <3>3, <4>1, <4>2
        <3>6. ChannelsOK'
            <4>1. \A d \in Clients : Ascending(arrived[d])'
                BY <3>3 DEF Ascending
            <4>2. \A d \in Clients : \A i \in DOMAIN arrived'[d] : From(arrived[d][i])' = d
                BY <3>5
            <4> QED BY <1>2, <2>2, <3>4, <4>1, <4>2 DEF ChannelsOK
        <3>7. Coming' \subseteq Coming \cup {k}
            BY <1>2, <2>2, <3>3 DEF Coming
        <3> QED BY <3>6, <3>7
    <2> QED BY <2>1, <2>2 DEF SentOK
<1>7. Taken \subseteq Numbers /\ Answered \subseteq Taken /\ InWork \subseteq Taken
      /\ Queued \subseteq Taken /\ InHand \subseteq Taken
    BY DEF PipelineOK, Taken
<1>8. PipelineOK'
    <2>1. /\ hand' \in Seq(Numbers') /\ queue' \in Seq(Seq(Numbers'))
          /\ replies' \in Seq([n : Numbers', to : Clients \cup {NoClient}])
        <3>1. /\ \A q \in Seq(Numbers) : q \in Seq(Numbers')
              /\ Numbers \subseteq Numbers'
            BY <1>4
        <3>2. hand' \in Seq(Numbers')
            BY <1>2, <3>1 DEF PipelineOK
        <3>3. queue \in Seq(Seq(Numbers'))
            BY <3>1 DEF PipelineOK
        <3>4. replies \in Seq([n : Numbers', to : Clients \cup {NoClient}])
            <4> DEFINE R == [n : Numbers, to : Clients \cup {NoClient}]
                       S == [n : Numbers', to : Clients \cup {NoClient}]
            <4>1. R \subseteq S
                BY <3>1
            <4>2. replies \in Seq(R)
                BY DEF PipelineOK
            <4> HIDE DEF R, S
            <4>3. replies \in Seq(S)
                BY <4>1, <4>2
            <4> QED BY <4>3 DEF S
        <3> QED BY <1>2, <3>2, <3>3, <3>4
    <2>2. Coming \subseteq Numbers
        BY DEF Coming, ChannelsOK, SentOK
    <2>3. Ahead(Taken, Coming)'
        BY <1>4, <1>5, <1>6, <1>7, <2>2 DEF PipelineOK, Ahead
    <2>4. /\ Taken' \subseteq Numbers'
          /\ Ahead(Answered, InWork)'
          /\ Ahead(Answered \cup InWork, Queued)'
          /\ Ahead(Answered \cup InWork \cup Queued, InHand)'
        BY <1>4, <1>5, <1>7 DEF PipelineOK, Ahead
    <2> QED BY <2>1, <2>3, <2>4 DEF PipelineOK
<1>9. ConnectionOK'
    BY <1>2, <1>4, <1>5, <1>7 DEF ConnectionOK
<1>10. (\A i \in DOMAIN queue : queue[i][1] \in Numbers)
       /\ (\A i \in DOMAIN replies : replies[i].n \in Numbers)
    BY <1>7 DEF Queued, Answered
<1>11. OrderOK'
    <2>1. \A i \in DOMAIN queue : From(queue[i][1])' = From(queue[i][1])
        BY <1>2, <1>4, <1>10
    <2>2. \A i \in DOMAIN replies : From(replies[i].n)' = From(replies[i].n)
        BY <1>2, <1>4, <1>10
    <2> QED BY <1>2, <2>1, <2>2 DEF OrderOK
<1>12. RepliesOK'
    <2>1. \A i \in DOMAIN replies : From(replies[i].n)' = From(replies[i].n)
        BY <1>2, <1>4, <1>10
    <2> QED BY <1>2, <2>1 DEF RepliesOK
<1> QED BY <1>4, <1>6, <1>8, <1>9, <1>11, <1>12

\* What Append, Tail and SubSeq give.
LEMMA AppendOf ==
    ASSUME NEW S, NEW s \in Seq(S), NEW e \in S
    PROVE  /\ Append(s, e) \in Seq(S) /\ DOMAIN s = 1 .. Len(s) /\ Len(s) \in Nat
           /\ DOMAIN Append(s, e) = 1 .. Len(s) + 1
           /\ \A i \in 1 .. Len(s) : Append(s, e)[i] = s[i]
           /\ Append(s, e)[Len(s) + 1] = e
OBVIOUS

\* The same for what is left without the head.
LEMMA TailOf ==
    ASSUME NEW S, NEW s \in Seq(S), s # <<>>
    PROVE  /\ Tail(s) \in Seq(S) /\ DOMAIN s = 1 .. Len(s) /\ Len(s) \in Nat \ {0}
           /\ DOMAIN Tail(s) = 1 .. Len(s) - 1
           /\ \A i \in 1 .. Len(s) - 1 : Tail(s)[i] = s[i + 1]
           /\ Head(s) = s[1] /\ s[1] \in S
OBVIOUS

\* The first k of a sequence, and the others.
LEMMA SplitOf ==
    ASSUME NEW S, NEW s \in Seq(S), NEW k \in DOMAIN s
    PROVE  /\ SubSeq(s, 1, k) \in Seq(S) /\ SubSeq(s, 1, k)[1] = s[1]
           /\ SubSeq(s, k + 1, Len(s)) \in Seq(S)
           /\ DOMAIN s = 1 .. Len(s) /\ Len(s) \in Nat \ {0} /\ k \in 1 .. Len(s)
           /\ DOMAIN SubSeq(s, k + 1, Len(s)) = 1 .. Len(s) - k
           /\ \A i \in 1 .. Len(s) - k : SubSeq(s, k + 1, Len(s))[i] = s[i + k]
<1>1. DOMAIN s = 1 .. Len(s) /\ Len(s) \in Nat \ {0} /\ k \in 1 .. Len(s)
    OBVIOUS
<1>2. SubSeq(s, 1, k) \in Seq(S) /\ SubSeq(s, 1, k)[1] = s[1]
    BY <1>1
<1>3. /\ SubSeq(s, k + 1, Len(s)) \in Seq(S)
      /\ DOMAIN SubSeq(s, k + 1, Len(s)) = 1 .. Len(s) - k
      /\ \A i \in 1 .. Len(s) - k : SubSeq(s, k + 1, Len(s))[i] = s[i + k]
    BY <1>1
<1> QED BY <1>1, <1>2, <1>3

\* When nothing is sent, every packet keeps its sender.
LEMMA SentStays ==
    ASSUME UNCHANGED sent
    PROVE  Numbers' = Numbers /\ \A n : From(n)' = From(n)
BY DEF Numbers, From

\* Over UDP the packet that came first goes into the hand of the main thread.
LEMMA RecvUdpStep ==
    ASSUME ServerInv, RecvUdp
    PROVE  ServerInv'
<1> USE DEF ServerInv
<1>1. /\ transport = "udp" /\ main = "recv" /\ arrived # <<>> /\ arrived' = Tail(arrived)
      /\ UNCHANGED <<transport, sent, queue, replies, handler, current, connecting, closed,
                     connected>>
    BY DEF RecvUdp, handlerVars
<1>2. \/ main' = "join" /\ hand' = hand
      \/ main' = "put" /\ hand' = <<Head(arrived)>>
    BY DEF RecvUdp, Stop
<1>3. Numbers' = Numbers /\ \A n : From(n)' = From(n)
    BY <1>1, SentStays
<1>4. arrived \in Seq(Numbers) /\ Ascending(arrived)
    BY <1>1 DEF ChannelsOK
<1>5. /\ Tail(arrived) \in Seq(Numbers) /\ DOMAIN arrived = 1 .. Len(arrived)
      /\ Len(arrived) \in Nat \ {0} /\ DOMAIN Tail(arrived) = 1 .. Len(arrived) - 1
      /\ \A i \in 1 .. Len(arrived) - 1 : Tail(arrived)[i] = arrived[i + 1]
      /\ Head(arrived) = arrived[1] /\ arrived[1] \in Numbers
    BY <1>1, <1>4, TailOf
<1>6. ChannelsOK'
    <2>1. Ascending(arrived)'
        BY <1>1, <1>4, <1>5 DEF Ascending
    <2> QED BY <1>1, <1>3, <1>5, <2>1 DEF ChannelsOK
<1>7. /\ Answered' = Answered /\ InWork' = InWork /\ Queued' = Queued
      /\ InHand = {} /\ InHand' \subseteq {arrived[1]}
    BY <1>1, <1>2, <1>5 DEF Answered, InWork, Queued, InHand
<1>8. /\ Coming = {arrived[i] : i \in 1 .. Len(arrived)}
      /\ Coming' = {arrived[i + 1] : i \in 1 .. Len(arrived) - 1}
    BY <1>1, <1>5 DEF Coming
<1>9. /\ Coming' \subseteq Coming /\ arrived[1] \in Coming
      /\ \A n \in Coming' : arrived[1] < n
    <2>1. \A i \in 1 .. Len(arrived) - 1 : i + 1 \in 1 .. Len(arrived) /\ 1 < i + 1
        BY <1>5
    <2>2. \A i \in 1 .. Len(arrived) - 1 : arrived[1] < arrived[i + 1]
        BY <1>4, <1>5, <2>1 DEF Ascending
    <2> QED BY <1>5, <1>8, <2>1, <2>2
<1>10. Taken' \subseteq Taken \cup {arrived[1]} /\ Taken = Answered \cup InWork \cup Queued
    BY <1>7 DEF Taken
<1>11. PipelineOK'
    <2>1. hand' \in Seq(Numbers)
        <3>1. hand \in Seq(Numbers) /\ <<arrived[1]>> \in Seq(Numbers)
            BY <1>5 DEF PipelineOK
        <3> QED BY <1>2, <1>5, <3>1
    <2>2. /\ Taken' \subseteq Numbers /\ queue' \in Seq(Seq(Numbers))
          /\ replies' \in Seq([n : Numbers, to : Clients \cup {NoClient}])
        BY <1>1, <1>5, <1>10 DEF PipelineOK
    <2>3. Ahead(Answered, InWork)' /\ Ahead(Answered \cup InWork, Queued)'
        BY <1>3, <1>7 DEF PipelineOK, Ahead
    <2>4. Ahead(Answered \cup InWork \cup Queued, InHand)'
        BY <1>3, <1>7, <1>9, <1>10 DEF PipelineOK, Ahead
    <2>5. Ahead(Taken, Coming)'
        BY <1>3, <1>9, <1>10 DEF PipelineOK, Ahead
    <2> QED BY <1>3, <2>1, <2>2, <2>3, <2>4, <2>5 DEF PipelineOK
<1>12. ConnectionOK'
    BY <1>1, <1>2 DEF ConnectionOK, SentOK
<1>13. SentOK' /\ OrderOK' /\ RepliesOK'
    BY <1>1, <1>3 DEF SentOK, OrderOK, RepliesOK
<1> QED BY <1>6, <1>11, <1>12, <1>13

\* put: from the hand to the end of the queue.
LEMMA PutStep ==
    ASSUME ServerInv, Put
    PROVE  ServerInv'
<1> USE DEF ServerInv
<1>1. /\ main = "put" /\ main' = "recv" /\ queue' = Append(queue, hand) /\ hand' = <<>>
      /\ UNCHANGED <<transport, sent, arrived, replies, handler, current, connecting, closed,
                     connected>>
    BY DEF Put, netVars, handlerVars
<1>2. Numbers' = Numbers /\ \A n : From(n)' = From(n)
    BY <1>1, SentStays
<1>3. queue \in Seq(Seq(Numbers)) /\ hand \in Seq(Numbers)
    BY DEF PipelineOK
<1>4. /\ queue' \in Seq(Seq(Numbers)) /\ DOMAIN queue = 1 .. Len(queue)
      /\ Len(queue) \in Nat /\ DOMAIN queue' = 1 .. Len(queue) + 1
      /\ \A i \in 1 .. Len(queue) : queue'[i] = queue[i]
      /\ queue'[Len(queue) + 1] = hand
    BY <1>1, <1>3, AppendOf
<1>5. /\ Answered' = Answered /\ InWork' = InWork /\ Coming' = Coming
      /\ InHand = {hand[1]} /\ InHand' = {}
    BY <1>1 DEF Answered, InWork, Coming, InHand
<1>6. Queued' \subseteq Queued \cup {hand[1]}
    <2>1. \A i \in DOMAIN queue' :
              queue'[i][1] = hand[1] \/ (i \in DOMAIN queue /\ queue'[i][1] = queue[i][1])
        BY <1>4
    <2> QED BY <2>1 DEF Queued
<1>7. Taken' \subseteq Taken
    BY <1>5, <1>6 DEF Taken
<1>8. PipelineOK'
    <2>1. hand' \in Seq(Numbers)
        BY <1>1
    <2>2. /\ Taken' \subseteq Numbers
          /\ replies' \in Seq([n : Numbers, to : Clients \cup {NoClient}])
        BY <1>1, <1>7 DEF PipelineOK
    <2>3. Ahead(Answered, InWork)' /\ Ahead(Answered \cup InWork, Queued)'
          /\ Ahead(Answered \cup InWork \cup Queued, InHand)'
        BY <1>2, <1>5, <1>6 DEF PipelineOK, Ahead
    <2>4. Ahead(Taken, Coming)'
        BY <1>2, <1>5, <1>7 DEF PipelineOK, Ahead
    <2> QED BY <1>2, <1>4, <2>1, <2>2, <2>3, <2>4 DEF PipelineOK
<1>9. ConnectionOK'
    BY <1>1, <1>2, <1>7 DEF ConnectionOK
<1>10. OrderOK'
    <2>1. ASSUME NEW i \in DOMAIN queue', NEW j \in DOMAIN queue', i < j,
                 From(queue'[i][1]) = From(queue'[j][1])
          PROVE  queue'[i][1] < queue'[j][1]
        <3>1. i \in DOMAIN queue /\ queue'[i] = queue[i]
            BY <1>4, <2>1
        <3>2. CASE j = Len(queue) + 1
            <4>1. queue[i][1] \in Queued /\ queue'[j] = hand
                BY <1>4, <3>1, <3>2 DEF Queued
            <4> QED BY <1>5, <2>1, <3>1, <4>1 DEF PipelineOK, Ahead
        <3>3. CASE j \in DOMAIN queue
            BY <1>4, <2>1, <3>1, <3>3 DEF OrderOK
        <3> QED BY <1>4, <3>2, <3>3
    <2> QED BY <1>1, <1>2, <2>1 DEF OrderOK
<1>11. SentOK' /\ RepliesOK' /\ ChannelsOK'
    BY <1>1, <1>2 DEF SentOK, RepliesOK, ChannelsOK, Ascending
<1> QED BY <1>8, <1>9, <1>10, <1>11

\* The handler takes the head of the queue, or ends.
LEMMA RunStep ==
    ASSUME ServerInv, Run
    PROVE  ServerInv'
<1> USE DEF ServerInv
<1>1. /\ handler = "run"
      /\ UNCHANGED <<transport, sent, arrived, hand, replies, main, connecting, closed,
                     connected>>
    BY DEF Run, netVars, mainVars
<1>2. CASE handler' = "ended" /\ UNCHANGED <<queue, current>>
    <2>1. InWork' \subseteq InWork /\ InHand' = InHand
        BY <1>1, <1>2 DEF InWork, InHand
    <2>2. SentOK' /\ ChannelsOK' /\ PipelineOK' /\ OrderOK' /\ Taken' \subseteq Taken
        BY <1>1, <1>2, <2>1, NothingMoves
    <2>3. \A n : From(n)' = From(n)
        BY <1>1, SentStays
    <2>4. ConnectionOK' /\ RepliesOK'
        BY <1>1, <2>2, <2>3 DEF ConnectionOK, RepliesOK
    <2> QED BY <2>2, <2>4
<1>3. CASE /\ handler' = "parse" /\ queue # <<>>
           /\ current' = Head(queue) /\ queue' = Tail(queue)
    <2>1. Numbers' = Numbers /\ \A n : From(n)' = From(n)
        BY <1>1, SentStays
    <2>2. queue \in Seq(Seq(Numbers))
        BY DEF PipelineOK
    <2>3. /\ queue' \in Seq(Seq(Numbers)) /\ DOMAIN queue = 1 .. Len(queue)
          /\ Len(queue) \in Nat \ {0} /\ DOMAIN queue' = 1 .. Len(queue) - 1
          /\ \A i \in 1 .. Len(queue) - 1 : queue'[i] = queue[i + 1]
          /\ current' = queue[1]
        BY <1>3, <2>2, TailOf
    <2>4. /\ Answered' = Answered /\ InHand' = InHand /\ Coming' = Coming
          /\ InWork = {} /\ InWork' = {queue[1][1]}
        BY <1>1, <1>3, <2>3 DEF Answered, InHand, Coming, InWork
    <2>5. \A i \in DOMAIN queue' :
              i + 1 \in DOMAIN queue /\ 1 \in DOMAIN queue /\ 1 < i + 1 /\ queue'[i] = queue[i + 1]
        BY <2>3
    <2>6. Queued' \subseteq Queued /\ queue[1][1] \in Queued
        <3>1. \A i \in DOMAIN queue : queue[i][1] \in Queued
            BY DEF Queued
        <3>2. \A i \in DOMAIN queue' : queue'[i][1] \in Queued
            BY <2>5, <3>1
        <3>3. Queued' = {queue'[i][1] : i \in DOMAIN queue'} /\ 1 \in DOMAIN queue
            BY <2>3 DEF Queued
        <3> QED BY <3>1, <3>2, <3>3
    <2>7. Taken' \subseteq Taken
        BY <2>4, <2>6 DEF Taken
    <2>8. Ahead({queue[1][1]}, Queued')
        <3>1. \A i \in DOMAIN queue' :
                  From(queue[1][1]) = From(queue'[i][1]) => queue[1][1] < queue'[i][1]
            BY <2>5 DEF OrderOK
        <3> QED BY <3>1 DEF Ahead, Queued
    <2>9. PipelineOK'
        <3>1. /\ Taken' \subseteq Numbers /\ hand' \in Seq(Numbers)
              /\ replies' \in Seq([n : Numbers, to : Clients \cup {NoClient}])
            BY <1>1, <2>7 DEF PipelineOK
        <3>2. Ahead(Answered, InWork)'
            BY <2>1, <2>4, <2>6 DEF PipelineOK, Ahead
        <3>3. Ahead(Answered \cup InWork, Queued)'
            BY <2>1, <2>4, <2>6, <2>8 DEF PipelineOK, Ahead
        <3>4. Ahead(Answered \cup InWork \cup Queued, InHand)'
            BY <2>1, <2>4, <2>6 DEF PipelineOK, Ahead
        <3>5. Ahead(Taken, Coming)'
            BY <2>1, <2>4, <2>7 DEF PipelineOK, Ahead
        <3> QED BY <2>1, <2>3, <3>1, <3>2, <3>3, <3>4, <3>5 DEF PipelineOK
    <2>10. OrderOK'
        <3>1. \A i, j \in DOMAIN queue' : i < j => i + 1 < j + 1
            BY <2>3
        <3>2. \A i, j \in DOMAIN queue' :
                  (i < j /\ From(queue'[i][1]) = From(queue'[j][1]))
                      => queue'[i][1] < queue'[j][1]
            BY <2>5, <3>1 DEF OrderOK
        <3> QED BY <1>1, <2>1, <3>2 DEF OrderOK
    <2>11. ConnectionOK' /\ RepliesOK' /\ SentOK' /\ ChannelsOK'
        BY <1>1, <2>1, <2>7 DEF ConnectionOK, RepliesOK, SentOK, ChannelsOK, Ascending
    <2> QED BY <2>9, <2>10, <2>11
<1> QED BY <1>2, <1>3 DEF Run

\* The handler answers the asker; over TCP, whoever is connected: the asker, or one
\* that came after the asker closed.
LEMMA RespondStep ==
    ASSUME ServerInv, Respond
    PROVE  ServerInv'
<1> USE DEF ServerInv
<1>1. /\ handler = "respond"
      /\ UNCHANGED <<transport, sent, arrived, hand, queue, main, connecting, closed, connected>>
    BY DEF Respond, netVars, mainVars
<1>2. Numbers' = Numbers /\ \A n : From(n)' = From(n)
    BY <1>1, SentStays
<1>3. CASE handler' = "dead" /\ UNCHANGED replies
    <2>1. InWork' \subseteq InWork /\ InHand' = InHand
        BY <1>1, <1>3 DEF InWork, InHand
    <2>2. SentOK' /\ ChannelsOK' /\ PipelineOK' /\ OrderOK' /\ Taken' \subseteq Taken
        BY <1>1, <1>3, <2>1, NothingMoves
    <2>3. ConnectionOK' /\ RepliesOK'
        BY <1>1, <1>2, <1>3, <2>2 DEF ConnectionOK, RepliesOK
    <2> QED BY <2>2, <2>3
<1>4. CASE /\ handler' = "run"
           /\ replies' = Append(replies, [n |-> current[1], to |-> Addressee])
    <2> DEFINE R == [n : Numbers, to : Clients \cup {NoClient}]
               new == [n |-> current[1], to |-> Addressee]
    <2>1. InWork = {current[1]} /\ InWork' = {}
        BY <1>1, <1>4 DEF InWork
    <2>2. current[1] \in Numbers /\ current[1] \in Taken
        BY <2>1 DEF PipelineOK, Taken
    <2>3. From(current[1]) \in Clients /\ Asker(current) = From(current[1])
        <3>1. \A n \in 1 .. Len(sent) : sent[n].from \in Clients
            <4> DEFINE P == [from : Clients, request : DOMAIN Requests \cup {Empty}]
            <4>1. sent \in Seq(P) /\ \A p \in P : p.from \in Clients
                BY DEF SentOK
            <4> HIDE DEF P
            <4> QED BY <4>1
        <3> QED BY <2>2, <3>1 DEF Numbers, From, Asker
    <2>4. \/ Addressee = From(current[1])
          \/ transport = "tcp" /\ From(current[1]) \in closed
        BY <2>2, <2>3 DEF Addressee, ConnectionOK, SentOK
    <2>5. Addressee \in Clients \cup {NoClient}
        BY <2>3 DEF Addressee, ConnectionOK
    <2>6. new \in R /\ replies \in Seq(R)
        BY <2>2, <2>5 DEF PipelineOK
    <2>7. new.n = current[1] /\ new.to = Addressee
        OBVIOUS
    <2> HIDE DEF R, new
    <2>8. /\ replies' \in Seq(R) /\ DOMAIN replies = 1 .. Len(replies) /\ Len(replies) \in Nat
          /\ DOMAIN replies' = 1 .. Len(replies) + 1
          /\ \A i \in 1 .. Len(replies) : replies'[i] = replies[i]
          /\ replies'[Len(replies) + 1] = new
        BY <1>4, <2>6, AppendOf DEF new
    <2>9. \A i \in DOMAIN replies' :
              replies'[i] = new \/ (i \in DOMAIN replies /\ replies'[i] = replies[i])
        BY <2>8
    <2>10. Answered' \subseteq Answered \cup InWork
        BY <2>1, <2>7, <2>9 DEF Answered
    <2>11. Queued' = Queued /\ InHand' = InHand /\ Coming' = Coming
        BY <1>1 DEF Queued, InHand, Coming
    <2>12. Taken' \subseteq Taken
        BY <2>1, <2>10, <2>11 DEF Taken
    <2>13. PipelineOK'
        <3>1. replies' \in Seq([n : Numbers', to : Clients \cup {NoClient}])
            BY <1>2, <2>8 DEF R
        <3>2. /\ Taken' \subseteq Numbers' /\ hand' \in Seq(Numbers')
              /\ queue' \in Seq(Seq(Numbers'))
            BY <1>1, <1>2, <2>12 DEF PipelineOK
        <3>3. /\ Ahead(Answered, InWork)' /\ Ahead(Answered \cup InWork, Queued)'
              /\ Ahead(Answered \cup InWork \cup Queued, InHand)' /\ Ahead(Taken, Coming)'
            BY <1>2, <2>1, <2>10, <2>11, <2>12 DEF PipelineOK, Ahead
        <3> QED BY <3>1, <3>2, <3>3 DEF PipelineOK
    <2>14. OrderOK'
        <3>1. ASSUME NEW i \in DOMAIN replies', NEW j \in DOMAIN replies', i < j,
                     From(replies'[i].n) = From(replies'[j].n)
              PROVE  replies'[i].n < replies'[j].n
            <4>1. i \in DOMAIN replies /\ replies'[i] = replies[i]
                BY <2>8, <3>1
            <4>2. CASE j = Len(replies) + 1
                <5>1. replies[i].n \in Answered /\ replies'[j].n = current[1]
                    BY <2>7, <2>8, <4>1, <4>2 DEF Answered
                <5> QED BY <2>1, <3>1, <4>1, <5>1 DEF PipelineOK, Ahead
            <4>3. CASE j \in DOMAIN replies
                BY <2>8, <3>1, <4>1, <4>3 DEF OrderOK
            <4> QED BY <2>8, <4>2, <4>3
        <3> QED BY <1>1, <1>2, <3>1 DEF OrderOK
    <2>15. RepliesOK'
        BY <1>1, <1>2, <2>4, <2>7, <2>9 DEF RepliesOK
    <2>16. ConnectionOK' /\ SentOK' /\ ChannelsOK'
        BY <1>1, <1>2, <2>12 DEF ConnectionOK, SentOK, ChannelsOK, Ascending
    <2> QED BY <2>13, <2>14, <2>15, <2>16
<1> QED BY <1>3, <1>4 DEF Respond

\* Over TCP the packets that have come in go into the hand of the main thread, or
\* it goes back to accept when the client has closed the connection.
LEMMA RecvTcpStep ==
    ASSUME ServerInv, RecvTcp
    PROVE  ServerInv'
<1> USE DEF ServerInv
<1> DEFINE in == arrived[connected]
<1>1. /\ transport = "tcp" /\ main = "recv"
      /\ UNCHANGED <<transport, sent, queue, replies, handler, current, connecting, closed,
                     connected>>
    BY DEF RecvTcp, handlerVars
<1>2. Numbers' = Numbers /\ \A n : From(n)' = From(n)
    BY <1>1, SentStays
<1>3. connected \in Clients /\ arrived \in [Clients -> Seq(Numbers)] /\ in \in Seq(Numbers)
    BY <1>1 DEF ConnectionOK, ChannelsOK
<1>4. CASE in = <<>> /\ connected \in closed /\ main' = "accept" /\ UNCHANGED <<hand, arrived>>
    <2>1. InWork' \subseteq InWork /\ InHand' = InHand
        BY <1>1, <1>4 DEF InWork, InHand
    <2>2. SentOK' /\ ChannelsOK' /\ PipelineOK' /\ OrderOK' /\ Taken' \subseteq Taken
        BY <1>1, <1>4, <2>1, NothingMoves
    <2>3. \A n \in Taken : From(n) \in closed
        BY <1>1, <1>4 DEF ConnectionOK
    <2>4. ConnectionOK' /\ RepliesOK'
        BY <1>1, <1>2, <1>4, <2>2, <2>3 DEF ConnectionOK, RepliesOK
    <2> QED BY <2>2, <2>4
<1>5. CASE /\ main' = "put"
           /\ \E k \in DOMAIN in :
                 /\ hand' = SubSeq(in, 1, k)
                 /\ arrived' = [arrived EXCEPT ![connected] = SubSeq(in, k + 1, Len(in))]
    <2>1. PICK k \in DOMAIN in :
              /\ hand' = SubSeq(in, 1, k)
              /\ arrived' = [arrived EXCEPT ![connected] = SubSeq(in, k + 1, Len(in))]
        BY <1>5
    <2> DEFINE rest == SubSeq(in, k + 1, Len(in))
    <2>2. /\ Ascending(in)
          /\ \A i \in DOMAIN in : From(in[i]) = connected
        BY <1>1, <1>3 DEF ChannelsOK
    <2>3. /\ arrived' \in [Clients -> Seq(Numbers)] /\ arrived'[connected] = rest
          /\ \A d \in Clients : d # connected => arrived'[d] = arrived[d]
          /\ hand' \in Seq(Numbers) /\ hand'[1] = in[1]
          /\ DOMAIN in = 1 .. Len(in) /\ Len(in) \in Nat \ {0} /\ k \in 1 .. Len(in)
          /\ DOMAIN rest = 1 .. Len(in) - k
          /\ \A i \in 1 .. Len(in) - k : rest[i] = in[i + k]
        <3> HIDE DEF in
        <3>1. /\ hand' \in Seq(Numbers) /\ hand'[1] = in[1] /\ rest \in Seq(Numbers)
              /\ DOMAIN in = 1 .. Len(in) /\ Len(in) \in Nat \ {0} /\ k \in 1 .. Len(in)
              /\ DOMAIN rest = 1 .. Len(in) - k
              /\ \A i \in 1 .. Len(in) - k : rest[i] = in[i + k]
            BY <1>3, <2>1, SplitOf
        <3> HIDE DEF rest
        <3> QED BY <1>3, <2>1, <3>1 DEF rest
    <2> HIDE DEF in, rest
    <2>4. /\ \A i \in DOMAIN rest :
                /\ i + k \in DOMAIN in /\ rest[i] = in[i + k]
                /\ 1 \in DOMAIN in /\ 1 < i + k
          /\ \A i, j \in DOMAIN rest : i < j => i + k < j + k
          /\ 1 \in DOMAIN in
        BY <2>3
    <2>5. /\ Ascending(rest) /\ \A i \in DOMAIN rest : in[1] < rest[i]
          /\ \A i \in DOMAIN rest : From(rest[i]) = connected
        BY <2>2, <2>4 DEF Ascending
    <2>6. ASSUME NEW d \in Clients
          PROVE  /\ Ascending(arrived[d])'
                 /\ \A i \in DOMAIN arrived'[d] : From(arrived[d][i])' = d
        <3>1. Ascending(arrived[d]) /\ \A i \in DOMAIN arrived[d] : From(arrived[d][i]) = d
            BY <1>1 DEF ChannelsOK
        <3>2. CASE d = connected
            BY <1>2, <2>3, <2>5, <3>2 DEF Ascending
        <3>3. CASE d # connected
            BY <1>2, <2>3, <3>1, <3>3 DEF Ascending
        <3> QED BY <3>2, <3>3
    <2>7. ChannelsOK'
        BY <1>1, <1>2, <2>3, <2>6 DEF ChannelsOK
    <2>8. in[1] \in Coming /\ in[1] \in Numbers /\ From(in[1]) = connected
        <3>1. in[1] \in Numbers /\ From(in[1]) = connected
            <4>1. in \in Seq(Numbers)
                BY <1>3 DEF in
            <4> QED BY <2>2, <2>4, <4>1
        <3>2. in[1] \in {arrived[connected][i] : i \in DOMAIN arrived[connected]}
            BY <2>4 DEF in
        <3> QED BY <1>1, <1>3, <3>1, <3>2 DEF Coming
    <2>9. Coming' \subseteq Coming
        <3>1. ASSUME NEW d \in Clients, NEW i \in DOMAIN arrived'[d]
              PROVE  \E j \in DOMAIN arrived[d] : arrived'[d][i] = arrived[d][j]
            <4>1. CASE d = connected
                BY <2>3, <2>4, <3>1, <4>1 DEF in
            <4>2. CASE d # connected
                BY <2>3, <3>1, <4>2
            <4> QED BY <4>1, <4>2
        <3> QED BY <1>1, <3>1 DEF Coming
    <2>10. \A n \in Coming' : From(n) = connected => in[1] < n
        <3> SUFFICES ASSUME NEW d \in Clients, NEW i \in DOMAIN arrived'[d],
                            From(arrived'[d][i]) = connected
                     PROVE  in[1] < arrived'[d][i]
            BY <1>1 DEF Coming
        <3>1. From(arrived'[d][i]) = d
            BY <1>2, <2>6
        <3> QED BY <2>3, <2>5, <3>1
    <2>11. /\ Answered' = Answered /\ InWork' = InWork /\ Queued' = Queued
           /\ InHand = {} /\ InHand' = {in[1]}
           /\ Taken' = Taken \cup {in[1]} /\ Taken = Answered \cup InWork \cup Queued
        BY <1>1, <1>5, <2>3 DEF Answered, InWork, Queued, InHand, Taken
    <2>12. PipelineOK'
        <3>1. /\ Taken' \subseteq Numbers' /\ hand' \in Seq(Numbers')
              /\ queue' \in Seq(Seq(Numbers'))
              /\ replies' \in Seq([n : Numbers', to : Clients \cup {NoClient}])
            BY <1>1, <1>2, <2>3, <2>8, <2>11 DEF PipelineOK
        <3>2. Ahead(Answered, InWork)' /\ Ahead(Answered \cup InWork, Queued)'
            BY <1>2, <2>11 DEF PipelineOK, Ahead
        <3>3. Ahead(Answered \cup InWork \cup Queued, InHand)'
            BY <1>2, <2>8, <2>11 DEF PipelineOK, Ahead
        <3>4. Ahead(Taken, Coming)'
            BY <1>2, <2>8, <2>9, <2>10, <2>11 DEF PipelineOK, Ahead
        <3> QED BY <3>1, <3>2, <3>3, <3>4 DEF PipelineOK
    <2>13. ConnectionOK'
        BY <1>1, <1>2, <1>3, <1>5, <2>8, <2>11 DEF ConnectionOK
    <2>14. SentOK' /\ OrderOK' /\ RepliesOK'
        BY <1>1, <1>2 DEF SentOK, OrderOK, RepliesOK
    <2> QED BY <2>7, <2>12, <2>13, <2>14
<1>6. \/ in = <<>> /\ connected \in closed /\ main' = "accept" /\ UNCHANGED <<hand, arrived>>
      \/ /\ main' = "put"
         /\ \E k \in DOMAIN in :
               /\ hand' = SubSeq(in, 1, k)
               /\ arrived' = [arrived EXCEPT ![connected] = SubSeq(in, k + 1, Len(in))]
    BY <1>3 DEF RecvTcp
<1> QED BY <1>4, <1>5, <1>6

\* Every step keeps the invariant.
LEMMA ServerStep == ServerInv /\ [Next]_vars => ServerInv'
<1> SUFFICES ASSUME ServerInv, [Next]_vars
             PROVE  ServerInv'
    OBVIOUS
<1>1. CASE UNCHANGED vars
    <2>1. /\ UNCHANGED <<transport, sent, arrived, queue, replies, hand>>
          /\ UNCHANGED <<main, handler, current, connecting, closed, connected>>
        BY <1>1 DEF vars, netVars, mainVars, handlerVars
    <2>2. InHand' = InHand /\ InWork' = InWork
        BY <2>1 DEF InHand, InWork
    <2>3. SentOK' /\ ChannelsOK' /\ PipelineOK' /\ OrderOK' /\ Taken' \subseteq Taken
        BY <2>1, <2>2, NothingMoves
    <2>4. \A n : From(n)' = From(n)
        BY <2>1, SentStays
    <2>5. ConnectionOK' /\ RepliesOK'
        BY <2>1, <2>3, <2>4 DEF ServerInv, ConnectionOK, RepliesOK
    <2> QED BY <2>3, <2>5 DEF ServerInv
<1>2. CASE Send
    BY <1>2, SendStep
<1>3. CASE RecvUdp
    BY <1>3, RecvUdpStep
<1>4. CASE RecvTcp
    BY <1>4, RecvTcpStep
<1>5. CASE Put
    BY <1>5, PutStep
<1>6. CASE Run
    BY <1>6, RunStep
<1>7. CASE Respond
    BY <1>7, RespondStep
<1>8. CASE Connect \/ Close \/ Accept \/ Joined \/ Interrupt \/ closeSockets \/ Parse \/ Act
    BY <1>8, QuietSteps
<1> QED BY <1>1, <1>2, <1>3, <1>4, <1>5, <1>6, <1>7, <1>8 DEF Next, MainThread, Handler

\* A packet in the server is at one place of the pipeline, its client's packets keep
\* their order from place to place, and a packet taken from a connection is of the
\* client that is connected or of one that has closed (recv, put and _handleRequests
\* of the two servers).
THEOREM ServerPipeline == FairSpec => []ServerInv
<1> QED BY ServerInit, ServerStep, PTL DEF FairSpec

\* Whoever asked is answered, once and in the order asked; somebody else only over TCP,
\* in the place of a client that closed its connection.
THEOREM RepliesGoBack == FairSpec => []RepliesReachAsker
<1>1. ServerInv => RepliesReachAsker
    <2> SUFFICES ASSUME ServerInv, NEW i \in DOMAIN replies
                 PROVE  /\ \/ replies[i].to = From(replies[i].n)
                           \/ transport = "tcp" /\ From(replies[i].n) \in closed
                        /\ \A j \in 1 .. i - 1 :
                              From(replies[i].n) = From(replies[j].n)
                                  => replies[j].n < replies[i].n
        BY DEF RepliesReachAsker, Asker, From
    <2>1. \/ replies[i].to = From(replies[i].n)
          \/ transport = "tcp" /\ From(replies[i].n) \in closed
        BY DEF ServerInv, RepliesOK
    <2>2. DOMAIN replies = 1 .. Len(replies) /\ Len(replies) \in Nat
        BY DEF ServerInv, PipelineOK
    <2>3. \A j \in 1 .. i - 1 : j \in DOMAIN replies /\ j < i
        BY <2>2
    <2> QED BY <2>1, <2>3 DEF ServerInv, OrderOK
<1> QED BY <1>1, ServerPipeline, PTL

-----------------------------------------------------------------------------
\* The answers

\* A transaction the server took in: packets that were sent, each a request.
Transaction(ns, packets) ==
    /\ ns \in Seq(1 .. Len(packets)) /\ ns # <<>> /\ Ascending(ns)
    /\ \A i \in 1 .. Len(ns) : packets[ns[i]].request \in DOMAIN Requests

TransactionsOK ==
    /\ Len(sent) <= MaxPackets
    /\ main = "put" => Transaction(hand, sent)
    /\ \A i \in DOMAIN queue : Transaction(queue[i], sent)
    /\ handler \in {"parse", "act", "respond"} => Transaction(current, sent)
    /\ transport = "tcp" =>
          \A c \in Clients : \A i \in DOMAIN arrived[c] :
              sent[arrived[c][i]].request \in DOMAIN Requests

\* The response p answers the element e.
Answers(p, e) ==
    /\ Whole(p) /\ p.head.words \in Nat
    /\ p.head.type = e.head.type /\ p.head.id = e.head.id /\ p.head.info = "response"

\* The first elements of the request r are answered by rs, the others are left to do.
Performed(r, rs, left) ==
    /\ \A x \in 1 .. Len(r) : Whole(r[x])
    /\ IsList(rs) /\ Len(rs) <= Len(r)
    /\ \A i \in 1 .. Len(rs) : Answers(rs[i], r[i])
    /\ left = [i \in 1 .. Len(r) - Len(rs) |-> r[Len(rs) + i]]

AnswersOK ==
    /\ handler \notin {"act", "respond"} => responses = <<>>
    /\ handler \in {"act", "respond"} =>
          /\ Len(current) = 1
          /\ Performed(Requests[sent[current[1]].request], responses, todo)
    /\ handler = "respond" => todo = <<>>

ReplyInv == ServerInv /\ TransactionsOK /\ AnswersOK

-----------------------------------------------------------------------------
\* A sequence is its elements.
LEMMA SeqIs ==
    ASSUME NEW S, NEW s \in Seq(S)
    PROVE  s = [i \in DOMAIN s |-> s[i]] /\ IsList(s) /\ DOMAIN s = 1 .. Len(s)
BY DEF IsList

\* A sequence over a set is one over a larger set.
LEMMA SeqSubset ==
    ASSUME NEW S, NEW T, S \subseteq T, NEW s \in Seq(S)
    PROVE  s \in Seq(T)
<1>1. IsList(s) /\ \A i \in 1 .. Len(s) : s[i] \in T
    BY SeqIs
<1> QED BY <1>1, ListOf

\* What the handlers answer passes doTransactionChecks: each of the seven gives the
\* number of words that its header then says.
LEMMA ResponseAnswers ==
    ASSUME NEW regs, NEW e, e.head \in RequestHeaders, e.head.type \in Types
    PROVE  Answers(Response(regs, e), e)
<1> DEFINE h == e.head
           w == h.words
           head == updateInfoCode(h, "response")
           last == IF h.type = "addr info" THEN updateWords(head, 2) ELSE head
           body == ResponseBody(regs, e)
<1>1. /\ h = [type |-> h.type, id |-> h.id, words |-> w, info |-> h.info, value |-> h.value]
      /\ w \in Nat
    BY DEF RequestHeaders, WordRange
<1>2. head = [type |-> h.type, id |-> h.id, words |-> w, info |-> "response", value |-> h.value]
    BY <1>1 DEF updateInfoCode
<1>3. last = [type |-> h.type, id |-> h.id, info |-> "response", value |-> h.value,
              words |-> IF h.type = "addr info" THEN 2 ELSE w]
    <2>1. 2 % WordRange = 2
        BY DEF WordRange
    <2> HIDE DEF head
    <2> QED BY <1>2, <2>1 DEF updateWords
<1>4. Response(regs, e) = [head |-> last, body |-> body]
    BY DEF Response, Element
<1> HIDE DEF last, head, body
<1>5. BodySize(last) = IF h.type \in {"read", "fifo read"} THEN w
                       ELSE IF h.type \in {"rmw bits", "rmw sum"} THEN 1
                       ELSE IF h.type = "addr info" THEN 2 ELSE 0
    <2>1. last.info = "response" /\ last.type = h.type
          /\ (h.type \in {"read", "fifo read"} => last.words = w)
        BY <1>3
    <2>2. minimumResponseBodySize(h.type) =
              IF h.type \in {"rmw bits", "rmw sum"} THEN 1
              ELSE IF h.type = "addr info" THEN 2 ELSE 0
        BY DEF minimumResponseBodySize
    <2>3. BodySize(last) = minimumResponseBodySize(h.type)
                             + (IF h.type \in {"read", "fifo read"} THEN last.words ELSE 0)
        BY <2>1 DEF BodySize
    <2> HIDE DEF h, w
    <2>4. CASE h.type \in {"read", "fifo read"}
        <3>1. minimumResponseBodySize(h.type) = 0
            BY <2>2, <2>4
        <3>2. BodySize(last) = 0 + w
            BY <2>1, <2>3, <2>4, <3>1
        <3>3. 0 + w = w
            BY <1>1
        <3> QED BY <2>4, <3>2, <3>3
    <2>5. CASE h.type \notin {"read", "fifo read"}
        <3>1. BodySize(last) = minimumResponseBodySize(h.type) + 0
            BY <2>3, <2>5
        <3>2. 0 + 0 = 0 /\ 1 + 0 = 1 /\ 2 + 0 = 2
            OBVIOUS
        <3> QED BY <2>2, <2>5, <3>1, <3>2
    <2> QED BY <2>4, <2>5
<1>6. IsList(body) /\ Len(body) = BodySize(last)
    <2>1. CASE h.type = "read"
        <3>1. body = [k \in 1 .. w |-> regs[e.body[1] + k - 1]]
            BY <2>1 DEF body, ResponseBody
        <3>2. body = [k \in 1 .. w |-> body[k]]
            BY <3>1
        <3>3. IsList(body) /\ Len(body) = w
            BY <1>1, <3>2, FunctionIsList
        <3> QED BY <1>5, <2>1, <3>3
    <2>2. CASE h.type = "fifo read"
        <3>1. body = [k \in 1 .. w |-> regs[e.body[1]]]
            BY <2>2 DEF body, ResponseBody
        <3>2. body = [k \in 1 .. w |-> body[k]]
            BY <3>1
        <3>3. IsList(body) /\ Len(body) = w
            BY <1>1, <3>2, FunctionIsList
        <3> QED BY <1>5, <2>2, <3>3
    <2>3. CASE h.type \in {"rmw bits", "rmw sum"}
        <3>1. body = <<regs[e.body[1]]>>
            BY <2>3 DEF body, ResponseBody
        <3>2. IsList(body) /\ Len(body) = 1
            BY <3>1 DEF IsList
        <3> QED BY <1>5, <2>3, <3>2
    <2>4. CASE h.type = "addr info"
        <3>1. body = <<0, 0>>
            BY <2>4 DEF body, ResponseBody
        <3>2. IsList(body) /\ Len(body) = 2
            BY <3>1 DEF IsList
        <3> QED BY <1>5, <2>4, <3>2
    <2>5. CASE h.type \in {"write", "fifo write"}
        <3>1. body = <<>>
            BY <2>5 DEF body, ResponseBody
        <3>2. IsList(body) /\ Len(body) = 0
            BY <3>1 DEF IsList
        <3> QED BY <1>5, <2>5, <3>2
    <2> QED BY <2>1, <2>2, <2>3, <2>4, <2>5 DEF Types
<1>7. Whole([head |-> last, body |-> body])
    <2>1. last.type \in Types
        BY <1>3
    <2> QED BY <1>6, <2>1 DEF Whole, Element
<1>8. /\ last.words \in Nat /\ last.type = e.head.type /\ last.id = e.head.id
      /\ last.info = "response"
    BY <1>1, <1>3
<1> QED BY <1>4, <1>7, <1>8 DEF Answers

\* Before the first element.
LEMMA NothingPerformed ==
    ASSUME NEW r, IsList(r), \A x \in 1 .. Len(r) : Whole(r[x])
    PROVE  Performed(r, <<>>, r)
<1>1. Len(r) \in Nat /\ r = [i \in 1 .. Len(r) |-> r[i]]
    BY DEF IsList
<1>2. IsList(<<>>) /\ Len(<<>>) = 0
    BY DEF IsList
<1>3. Len(r) - 0 = Len(r) /\ \A i \in 1 .. Len(r) : 0 + i = i
    BY <1>1
<1>4. r = [i \in 1 .. Len(r) - Len(<<>>) |-> r[Len(<<>>) + i]]
    BY <1>1, <1>2, <1>3
<1>5. Len(<<>>) <= Len(r) /\ \A i \in 1 .. Len(<<>>) : FALSE
    BY <1>1, <1>2
<1> QED BY <1>2, <1>4, <1>5 DEF Performed

\* One more: one turn of the loop in _actAndRespond.
LEMMA OneMorePerformed ==
    ASSUME NEW r, IsList(r), \A x \in 1 .. Len(r) : r[x].head \in RequestHeaders,
           NEW rs, NEW left, Performed(r, rs, left), left # <<>>, NEW regs
    PROVE  Performed(r, Append(rs, Response(regs, Head(left))), Tail(left))
<1> DEFINE n == Len(r)
           k == Len(rs)
           p == Response(regs, Head(left))
           R == {r[x] : x \in 1 .. n}
           S == {rs[i] : i \in 1 .. k} \cup {p}
           more == Append(rs, p)
<1>1. /\ n \in Nat /\ k \in Nat /\ k <= n /\ left = [i \in 1 .. n - k |-> r[k + i]]
      /\ \A i \in 1 .. k : Answers(rs[i], r[i])
      /\ \A x \in 1 .. n : Whole(r[x])
      /\ IsList(rs)
    BY DEF IsList, Performed
<1>2. \A i \in 1 .. n - k : left[i] = r[k + i] /\ k + i \in 1 .. n /\ left[i] \in R
    BY <1>1
<1>3. left = [i \in 1 .. n - k |-> left[i]] /\ n - k \in Nat
    BY <1>1
<1> HIDE DEF R
<1>4. left \in Seq(R) /\ Len(left) = n - k
    BY <1>2, <1>3, ListIs
<1>5. /\ Tail(left) \in Seq(R) /\ n - k \in Nat \ {0}
      /\ DOMAIN Tail(left) = 1 .. (n - k) - 1
      /\ \A i \in 1 .. (n - k) - 1 : Tail(left)[i] = left[i + 1]
      /\ Head(left) = left[1]
    BY <1>4, TailOf
<1>6. Head(left) = r[k + 1] /\ k + 1 \in 1 .. n
    <2>1. 1 \in 1 .. n - k
        BY <1>1, <1>5
    <2> QED BY <1>2, <1>5, <2>1
<1>7. Answers(p, r[k + 1])
    <2>1. r[k + 1].head \in RequestHeaders /\ r[k + 1].head.type \in Types
        BY <1>1, <1>6 DEF Whole
    <2> QED BY <1>6, <2>1, ResponseAnswers
<1> HIDE DEF p
<1>8. rs \in Seq(S) /\ p \in S
    <2>1. \A i \in 1 .. k : rs[i] \in S
        OBVIOUS
    <2>2. p \in S
        OBVIOUS
    <2> HIDE DEF S
    <2> QED BY <1>1, <2>1, <2>2, ListOf
<1> HIDE DEF S
<1>9. /\ more \in Seq(S) /\ DOMAIN more = 1 .. k + 1
      /\ \A i \in 1 .. k : more[i] = rs[i]
      /\ more[k + 1] = p
    BY <1>8, AppendOf
<1>10. IsList(more) /\ Len(more) = k + 1
    <2>1. k + 1 \in Nat
        BY <1>1
    <2> HIDE DEF more, n, k
    <2>2. more = [i \in 1 .. k + 1 |-> more[i]]
        BY <1>9, SeqIs
    <2> QED BY <2>1, <2>2, FunctionIsList
<1> HIDE DEF more, n, k
<1>11. \A i \in 1 .. k + 1 : Answers(more[i], r[i])
    <2>1. \A i \in 1 .. k + 1 : i \in 1 .. k \/ i = k + 1
        BY <1>1
    <2> QED BY <1>1, <1>7, <1>9, <2>1
<1>12. Tail(left) = [i \in 1 .. n - (k + 1) |-> r[(k + 1) + i]]
    <2>1. Tail(left) = [i \in 1 .. (n - k) - 1 |-> Tail(left)[i]]
        BY <1>5, SeqIs
    <2>2. \A i \in 1 .. (n - k) - 1 : Tail(left)[i] = r[(k + 1) + i]
        <3>1. \A i \in 1 .. (n - k) - 1 : i + 1 \in 1 .. n - k /\ k + (i + 1) = (k + 1) + i
            BY <1>1
        <3> QED BY <1>2, <1>5, <3>1
    <2>3. (n - k) - 1 = n - (k + 1)
        BY <1>1
    <2> QED BY <2>1, <2>2, <2>3
<1>13. k + 1 <= n
    BY <1>1, <1>6
<1> QED BY <1>1, <1>10, <1>11, <1>12, <1>13 DEF Performed, more, n, k, p

\* When nothing is left, every element has its answer.
LEMMA AllPerformed ==
    ASSUME NEW r, IsList(r), NEW rs, Performed(r, rs, <<>>)
    PROVE  Len(rs) = Len(r)
<1>1. /\ Len(r) \in Nat /\ Len(rs) \in Nat /\ Len(rs) <= Len(r)
      /\ <<>> = [i \in 1 .. Len(r) - Len(rs) |-> r[Len(rs) + i]]
    BY DEF IsList, Performed
<1>2. DOMAIN <<>> = 1 .. Len(r) - Len(rs)
    BY <1>1
<1>3. DOMAIN <<>> = {}
    OBVIOUS
<1>4. Len(rs) # Len(r) => 1 \in 1 .. Len(r) - Len(rs)
    BY <1>1
<1> QED BY <1>2, <1>3, <1>4

-----------------------------------------------------------------------------
\* A transaction has no more packets than were sent.
LEMMA TransactionLength ==
    ASSUME NEW packets, Len(packets) \in Nat, NEW ns, Transaction(ns, packets)
    PROVE  Len(ns) \in 1 .. Len(packets) /\ DOMAIN ns = 1 .. Len(ns)
<1> DEFINE n == Len(ns)
           N == 1 .. Len(packets)
           T == {k \in 0 .. n : k = 0 \/ k <= ns[k]}
<1>1. ns \in Seq(N) /\ ns # <<>> /\ Ascending(ns)
    BY DEF Transaction
<1>2. n \in Nat \ {0} /\ DOMAIN ns = 1 .. n /\ \A k \in 1 .. n : ns[k] \in N
    BY <1>1
<1>3. ASSUME NEW k \in 0 .. n - 1, k \in T
      PROVE  k + 1 \in T
    <2>1. k + 1 \in 0 .. n /\ k + 1 \in 1 .. n /\ k \in Nat
        BY <1>2
    <2>2. ns[k + 1] \in N
        BY <1>2, <2>1
    <2>3. CASE k = 0
        BY <2>1, <2>2, <2>3
    <2>4. CASE k # 0
        <3>1. k \in DOMAIN ns /\ k + 1 \in DOMAIN ns /\ k < k + 1
            BY <1>2, <2>1, <2>4
        <3>2. ns[k] < ns[k + 1] /\ k <= ns[k] /\ ns[k] \in N
            BY <1>1, <1>2, <1>3, <2>4, <3>1 DEF Ascending
        <3>3. \A a, b \in N : a < b /\ k <= a => k + 1 <= b
            BY <2>1
        <3> QED BY <2>1, <2>2, <3>2, <3>3
    <2> QED BY <2>3, <2>4
<1>4. n \in T
    <2>1. 0 \in T /\ n \in Nat /\ \A k \in 0 .. n - 1 : k \in T => k + 1 \in T
        BY <1>2, <1>3
    <2> HIDE DEF T
    <2>2. \A k \in 0 .. n : k \in T
        BY <2>1, CountingUp
    <2> QED BY <1>2, <2>2
<1>5. n <= ns[n] /\ ns[n] \in N
    BY <1>2, <1>4
<1> QED BY <1>2, <1>5

\* It stays one when more is sent.
LEMMA TransactionStays ==
    ASSUME NEW P, NEW packets \in Seq(P), NEW p \in P, NEW ns, Transaction(ns, packets)
    PROVE  Transaction(ns, Append(packets, p))
<1> DEFINE more == Append(packets, p)
<1>1. /\ Len(more) = Len(packets) + 1 /\ Len(packets) \in Nat
      /\ \A i \in 1 .. Len(packets) : more[i] = packets[i]
    OBVIOUS
<1> HIDE DEF more
<1>2. ns \in Seq(1 .. Len(packets))
    BY DEF Transaction
<1>3. 1 .. Len(packets) \subseteq 1 .. Len(more)
    BY <1>1
<1>4. ns \in Seq(1 .. Len(more))
    BY <1>2, <1>3, SeqSubset
<1>5. \A i \in 1 .. Len(ns) : ns[i] \in 1 .. Len(packets)
    BY <1>2
<1> QED BY <1>1, <1>4, <1>5 DEF Transaction, more

\* What a step does that moves no packet.
LEMMA TransactionsRest ==
    ASSUME TransactionsOK, UNCHANGED <<transport, sent, arrived, queue, hand>>,
           main' = "put" => main = "put",
           handler' \in {"parse", "act", "respond"} =>
               handler \in {"parse", "act", "respond"} /\ current' = current
    PROVE  TransactionsOK'
BY DEF TransactionsOK

\* What a step does that is not of the handler and sends nothing.
LEMMA AnswersRest ==
    ASSUME AnswersOK, UNCHANGED <<sent, handler, current, todo, responses>>
    PROVE  AnswersOK'
BY DEF AnswersOK

\* The request a packet carries is one that may be sent, or the empty datagram.
LEMMA SentIs ==
    ASSUME ServerInv, NEW n \in Numbers
    PROVE  sent[n].request \in DOMAIN Requests \cup {Empty}
<1> DEFINE P == [from : Clients, request : DOMAIN Requests \cup {Empty}]
<1>1. sent \in Seq(P)
    BY DEF ServerInv, SentOK
<1>2. \A p \in P : p.request \in DOMAIN Requests \cup {Empty}
    OBVIOUS
<1> HIDE DEF P
<1> QED BY <1>1, <1>2 DEF Numbers

\* A client sends a packet: over TCP no empty one.
LEMMA SendReplies ==
    ASSUME ReplyInv, Send
    PROVE  TransactionsOK' /\ AnswersOK'
<1> USE DEF ReplyInv
<1> DEFINE P == [from : Clients, request : DOMAIN Requests \cup {Empty}]
<1>1. PICK c \in Clients, name \in DOMAIN Requests \cup {Empty} :
          /\ sent' = Append(sent, [from |-> c, request |-> name])
          /\ \/ transport = "udp"
             \/ /\ transport = "tcp" /\ name # Empty
                /\ arrived' = [arrived EXCEPT ![c] = Append(@, Len(sent'))]
    BY DEF Send
<1>2. /\ UNCHANGED <<transport, queue, hand, main, handler, current, todo, responses>>
      /\ Len(sent) < MaxPackets
    BY DEF Send, mainVars, handlerVars
<1> DEFINE p == [from |-> c, request |-> name]
<1>3. p \in P /\ sent \in Seq(P) /\ p.request = name
    BY DEF ServerInv, SentOK
<1>4. sent' = Append(sent, p)
    BY <1>1
<1> HIDE DEF p, P
<1>5. /\ Len(sent) \in Nat /\ Len(sent') = Len(sent) + 1 /\ Len(sent') <= MaxPackets
      /\ \A n \in Numbers : sent'[n] = sent[n]
      /\ sent'[Len(sent')] = p
    BY <1>2, <1>3, <1>4, DummyAssumption DEF Numbers
<1>6. \A ns : Transaction(ns, sent) => Transaction(ns, sent')
    BY <1>3, <1>4, TransactionStays
<1>7. ASSUME transport = "tcp", NEW d \in Clients, NEW i \in DOMAIN arrived'[d]
      PROVE  sent'[arrived'[d][i]].request \in DOMAIN Requests
    <2>1. arrived \in [Clients -> Seq(Numbers)]
        BY <1>7 DEF ServerInv, ChannelsOK
    <2>2. /\ arrived' = [arrived EXCEPT ![c] = Append(arrived[c], Len(sent'))]
          /\ name \in DOMAIN Requests
        BY <1>1, <1>7
    <2>3. CASE i \in DOMAIN arrived[d] /\ arrived'[d][i] = arrived[d][i]
        <3>1. arrived[d] \in Seq(Numbers)
            BY <2>1
        <3>2. arrived[d][i] \in Numbers
            BY <2>3, <3>1
        <3> QED BY <1>5, <1>7, <2>3, <3>2 DEF TransactionsOK
    <2>4. CASE arrived'[d][i] = Len(sent')
        BY <1>3, <1>5, <2>2, <2>4
    <2>5. \/ i \in DOMAIN arrived[d] /\ arrived'[d][i] = arrived[d][i]
          \/ arrived'[d][i] = Len(sent')
        <3>1. CASE d = c
            <4>1. arrived[c] \in Seq(Nat) /\ Len(sent') \in Nat
                <5>1. Numbers \subseteq Nat /\ arrived[c] \in Seq(Numbers)
                    BY <2>1 DEF Numbers
                <5>2. Len(sent') \in Nat
                    BY <1>5
                <5> QED BY <5>1, <5>2, SeqSubset
            <4>2. arrived'[d] = Append(arrived[d], Len(sent'))
                BY <2>1, <2>2, <3>1
            <4>3. /\ DOMAIN arrived[c] = 1 .. Len(arrived[c])
                  /\ Len(arrived[c]) \in Nat
                  /\ DOMAIN Append(arrived[c], Len(sent')) = 1 .. Len(arrived[c]) + 1
                  /\ \A j \in 1 .. Len(arrived[c]) :
                        Append(arrived[c], Len(sent'))[j] = arrived[c][j]
                  /\ Append(arrived[c], Len(sent'))[Len(arrived[c]) + 1] = Len(sent')
                BY <4>1, AppendOf
            <4>4. i \in 1 .. Len(arrived[c]) \/ i = Len(arrived[c]) + 1
                BY <1>7, <3>1, <4>2, <4>3
            <4> QED BY <3>1, <4>2, <4>3, <4>4
        <3>2. CASE d # c
            BY <1>7, <2>1, <2>2, <3>2
        <3> QED BY <3>1, <3>2
    <2> QED BY <2>3, <2>4, <2>5
<1>8. TransactionsOK'
    <2>1. /\ main' = "put" => Transaction(hand', sent')
          /\ \A i \in DOMAIN queue' : Transaction(queue'[i], sent')
          /\ handler' \in {"parse", "act", "respond"} => Transaction(current', sent')
        BY <1>2, <1>6 DEF TransactionsOK
    <2> QED BY <1>2, <1>5, <1>7, <2>1 DEF TransactionsOK
<1>9. AnswersOK'
    <2>1. CASE handler \in {"act", "respond"}
        <3>1. Transaction(current, sent)
            BY <2>1 DEF TransactionsOK
        <3>2. current[1] \in Numbers
            <4>1. current \in Seq(Numbers) /\ current # <<>>
                BY <3>1 DEF Transaction, Numbers
            <4> QED BY <4>1
        <3> QED BY <1>2, <1>5, <2>1, <3>2 DEF AnswersOK
    <2>2. CASE handler \notin {"act", "respond"}
        BY <1>2, <2>2 DEF AnswersOK
    <2> QED BY <2>1, <2>2
<1> QED BY <1>8, <1>9

\* A packet taken alone is a transaction.
LEMMA OneIsTransaction ==
    ASSUME NEW packets, NEW n \in 1 .. Len(packets), packets[n].request \in DOMAIN Requests
    PROVE  Transaction(<<n>>, packets)
<1> DEFINE ns == <<n>>
<1>1. /\ ns \in Seq(1 .. Len(packets)) /\ ns # <<>> /\ Len(ns) = 1 /\ DOMAIN ns = 1 .. 1
      /\ ns[1] = n
    OBVIOUS
<1> HIDE DEF ns
<1>2. \A i, j \in DOMAIN ns : ~(i < j)
    BY <1>1
<1>3. \A i \in 1 .. Len(ns) : ns[i] = n
    BY <1>1
<1> QED BY <1>1, <1>2, <1>3 DEF Transaction, Ascending, ns

\* Over UDP a datagram is taken; an empty one stops the server.
LEMMA RecvUdpReplies ==
    ASSUME ReplyInv, RecvUdp
    PROVE  TransactionsOK' /\ AnswersOK'
<1> USE DEF ReplyInv
<1>1. /\ transport = "udp" /\ arrived # <<>>
      /\ UNCHANGED <<transport, sent, queue, handler, current, todo, responses>>
    BY DEF RecvUdp, handlerVars
<1>2. arrived \in Seq(Numbers)
    BY <1>1 DEF ServerInv, ChannelsOK
<1>3. Head(arrived) \in Numbers
    BY <1>1, <1>2
<1>4. main' = "put" => Transaction(hand', sent')
    <2> SUFFICES ASSUME main' = "put"
                 PROVE  Transaction(hand', sent')
        OBVIOUS
    <2>1. sent[Head(arrived)].request # Empty /\ hand' = <<Head(arrived)>>
        BY DEF RecvUdp, Stop
    <2>2. sent[Head(arrived)].request \in DOMAIN Requests
        BY <1>3, <2>1, SentIs
    <2>3. Transaction(<<Head(arrived)>>, sent)
        BY <1>3, <2>2, OneIsTransaction DEF Numbers
    <2> QED BY <1>1, <2>1, <2>3
<1>5. TransactionsOK'
    <2>1. transport' # "tcp"
        BY <1>1
    <2> QED BY <1>1, <1>4, <2>1 DEF TransactionsOK
<1> QED BY <1>1, <1>5, AnswersRest

\* The first k of what has come in on a connection are a transaction.
LEMMA FirstOfTransaction ==
    ASSUME NEW packets, Len(packets) \in Nat, NEW in \in Seq(1 .. Len(packets)), Ascending(in),
           \A i \in DOMAIN in : packets[in[i]].request \in DOMAIN Requests, NEW k \in DOMAIN in
    PROVE  Transaction(SubSeq(in, 1, k), packets)
<1> DEFINE N == 1 .. Len(packets)
           ns == SubSeq(in, 1, k)
<1>1. DOMAIN in = 1 .. Len(in) /\ Len(in) \in Nat /\ k \in 1 .. Len(in)
    OBVIOUS
<1>2. ns \in Seq(N) /\ Len(ns) = k /\ \A i \in 1 .. k : ns[i] = in[i]
    <2>1. \A i \in 1 .. k : in[i] \in N
        BY <1>1
    <2>2. 1 \in Int /\ k \in Int /\ k - 1 + 1 = k /\ 1 <= k /\ \A i \in 1 .. k : 1 + i - 1 = i
        BY <1>1
    <2> HIDE DEF N
    <2>3. /\ ns \in Seq(N) /\ Len(ns) = IF 1 <= k THEN k - 1 + 1 ELSE 0
          /\ \A i \in 1 .. k - 1 + 1 : ns[i] = in[1 + i - 1]
        BY <2>1, <2>2, SubSeqProperties
    <2> QED BY <2>2, <2>3
<1> HIDE DEF ns
<1>3. ns # <<>> /\ DOMAIN ns = 1 .. k /\ \A i \in 1 .. k : i \in DOMAIN in
    BY <1>1, <1>2
<1>4. Ascending(ns)
    BY <1>2, <1>3 DEF Ascending
<1> QED BY <1>2, <1>3, <1>4 DEF Transaction, ns

\* Over TCP the packets that have come in are taken, or none when the client has gone.
LEMMA RecvTcpReplies ==
    ASSUME ReplyInv, RecvTcp
    PROVE  TransactionsOK' /\ AnswersOK'
<1> USE DEF ReplyInv
<1> DEFINE in == arrived[connected]
<1>1. /\ transport = "tcp" /\ main = "recv"
      /\ UNCHANGED <<transport, sent, queue, handler, current, todo, responses, connected>>
    BY DEF RecvTcp, handlerVars
<1>2. /\ connected \in Clients /\ arrived \in [Clients -> Seq(Numbers)] /\ in \in Seq(Numbers)
      /\ Ascending(in)
    BY <1>1 DEF ServerInv, ConnectionOK, ChannelsOK
<1>3. \A c \in Clients : \A i \in DOMAIN arrived[c] :
          sent[arrived[c][i]].request \in DOMAIN Requests
    BY <1>1 DEF TransactionsOK
<1>4. CASE main' = "accept" /\ UNCHANGED <<hand, arrived>>
    <2>1. TransactionsOK'
        BY <1>1, <1>4 DEF TransactionsOK
    <2> QED BY <1>1, <2>1, AnswersRest
<1>5. CASE /\ main' = "put"
           /\ \E k \in DOMAIN in :
                 /\ hand' = SubSeq(in, 1, k)
                 /\ arrived' = [arrived EXCEPT ![connected] = SubSeq(in, k + 1, Len(in))]
    <2>1. PICK k \in DOMAIN in :
              /\ hand' = SubSeq(in, 1, k)
              /\ arrived' = [arrived EXCEPT ![connected] = SubSeq(in, k + 1, Len(in))]
        BY <1>5
    <2>2. \A i \in DOMAIN in : sent[in[i]].request \in DOMAIN Requests
        BY <1>2, <1>3
    <2>3. Len(sent) \in Nat
        BY DEF ServerInv, SentOK
    <2> HIDE DEF in
    <2>4. Transaction(SubSeq(in, 1, k), sent)
        BY <1>2, <2>2, <2>3, FirstOfTransaction DEF Numbers
    <2>5. ASSUME NEW c \in Clients, NEW i \in DOMAIN arrived'[c]
          PROVE  sent[arrived'[c][i]].request \in DOMAIN Requests
        <3>1. CASE c = connected
            <4>1. arrived'[c] = SubSeq(in, k + 1, Len(in))
                BY <1>2, <2>1, <3>1
            <4>2. /\ DOMAIN in = 1 .. Len(in) /\ Len(in) \in Nat \ {0} /\ k \in 1 .. Len(in)
                  /\ DOMAIN SubSeq(in, k + 1, Len(in)) = 1 .. Len(in) - k
                  /\ \A j \in 1 .. Len(in) - k : SubSeq(in, k + 1, Len(in))[j] = in[j + k]
                BY <1>2, <2>1, SplitOf
            <4>3. i \in 1 .. Len(in) - k /\ arrived'[c][i] = in[i + k]
                BY <2>5, <4>1, <4>2
            <4>4. i + k \in DOMAIN in
                BY <4>2, <4>3
            <4> QED BY <2>2, <4>3, <4>4
        <3>2. CASE c # connected
            BY <1>2, <1>3, <2>1, <2>5, <3>2
        <3> QED BY <3>1, <3>2
    <2>6. TransactionsOK'
        BY <1>1, <2>1, <2>4, <2>5 DEF TransactionsOK
    <2> QED BY <1>1, <2>6, AnswersRest
<1> QED BY <1>2, <1>4, <1>5 DEF RecvTcp

\* What was taken is put into the queue.
LEMMA PutReplies ==
    ASSUME ReplyInv, Put
    PROVE  TransactionsOK' /\ AnswersOK'
<1> USE DEF ReplyInv
<1>1. /\ main = "put" /\ main' = "recv" /\ queue' = Append(queue, hand)
      /\ UNCHANGED <<transport, sent, arrived, handler, current, todo, responses>>
    BY DEF Put, netVars, handlerVars
<1>2. Transaction(hand, sent)
    BY <1>1 DEF TransactionsOK
<1>3. hand \in Seq(Numbers) /\ queue \in Seq(Seq(Numbers))
    BY DEF ServerInv, PipelineOK
<1>4. \A i \in DOMAIN queue' : queue'[i] = hand \/ (i \in DOMAIN queue /\ queue'[i] = queue[i])
    BY <1>1, <1>3, AppendOf
<1>5. TransactionsOK'
    BY <1>1, <1>2, <1>4 DEF TransactionsOK
<1> QED BY <1>1, <1>5, AnswersRest

\* The handler takes a transaction out, or ends.
LEMMA RunReplies ==
    ASSUME ReplyInv, Run
    PROVE  TransactionsOK' /\ AnswersOK'
<1> USE DEF ReplyInv
<1>1. /\ handler = "run" /\ handler' \in {"parse", "ended"}
      /\ UNCHANGED <<transport, sent, arrived, main, hand, todo, responses>>
    BY DEF Run, netVars, mainVars
<1>2. AnswersOK'
    BY <1>1 DEF AnswersOK
<1>3. CASE handler' = "ended" /\ UNCHANGED <<queue, current>>
    BY <1>1, <1>2, <1>3 DEF TransactionsOK
<1>4. CASE queue # <<>> /\ current' = Head(queue) /\ queue' = Tail(queue)
    <2>1. queue \in Seq(Seq(Numbers))
        BY DEF ServerInv, PipelineOK
    <2>2. /\ DOMAIN queue = 1 .. Len(queue) /\ Len(queue) \in Nat \ {0}
          /\ DOMAIN Tail(queue) = 1 .. Len(queue) - 1
          /\ \A i \in 1 .. Len(queue) - 1 : Tail(queue)[i] = queue[i + 1]
          /\ Head(queue) = queue[1]
        BY <1>4, <2>1, TailOf
    <2>3. \A i \in 1 .. Len(queue) - 1 : i + 1 \in DOMAIN queue
        BY <2>2
    <2>4. 1 \in DOMAIN queue
        BY <2>2
    <2>5. \A i \in DOMAIN queue : Transaction(queue[i], sent)
        BY DEF TransactionsOK
    <2>6. \A i \in DOMAIN queue' : Transaction(queue'[i], sent)
        BY <1>4, <2>2, <2>3, <2>5
    <2>7. Transaction(current', sent)
        BY <1>4, <2>2, <2>4, <2>5
    <2> QED BY <1>1, <1>2, <2>6, <2>7 DEF TransactionsOK
<1> QED BY <1>2, <1>3, <1>4 DEF Run

\* What the handler begins to perform is the request of the one packet it has: a
\* transaction of several packets, or with an unknown type, never gets there.
LEMMA ParseReplies ==
    ASSUME ReplyInv, Parse
    PROVE  TransactionsOK' /\ AnswersOK'
<1> USE DEF ReplyInv
<1>1. /\ handler = "parse"
      /\ UNCHANGED <<transport, sent, arrived, main, hand, queue, responses>>
    BY DEF Parse, netVars, mainVars
<1>2. responses = <<>>
    BY <1>1 DEF AnswersOK
<1>3. Transaction(current, sent) /\ Len(sent) \in Nat /\ Len(sent) <= MaxPackets
    BY <1>1 DEF TransactionsOK, ServerInv, SentOK
<1>4. CASE ~Parsed(current).ok
    <2>1. handler' = "run"
        BY <1>4 DEF Parse, AfterError
    <2>2. TransactionsOK'
        BY <1>1, <2>1, TransactionsRest
    <2>3. AnswersOK'
        BY <1>1, <1>2, <2>1 DEF AnswersOK
    <2> QED BY <2>2, <2>3
<1>5. CASE Parsed(current).ok
    <2>1. handler' = "act" /\ todo' = Parsed(current).elements /\ current' = current
        BY <1>5 DEF Parse
    <2>2. TransactionsOK'
        BY <1>1, <2>1, TransactionsRest
    <2> DEFINE k == Len(current)
               names == Names(current)
               r == Requests[names[1]]
    <2>3. k \in 1 .. Len(sent) /\ DOMAIN current = 1 .. k
        BY <1>3, TransactionLength
    <2>4. k \in 1 .. MaxPackets /\ k \in Nat \ {0} /\ 1 \in 1 .. k
        BY <1>3, <2>3, DummyAssumption
    <2>5. names \in [1 .. k -> DOMAIN Requests] /\ names[1] = sent[current[1]].request
        <3>1. \A i \in 1 .. k : sent[current[i]].request \in DOMAIN Requests
            BY <1>3 DEF Transaction
        <3> HIDE DEF k
        <3> QED BY <2>3, <2>4, <3>1 DEF Names
    <2> HIDE DEF k, names, r
    <2> DEFINE words == FlattenSeq([i \in 1 .. k |-> serialise(Requests[names[i]])])
    <2>6. Parsed(current) = deserialise(words)
        BY <2>4, <2>5, ParsedIs DEF names
    <2> HIDE DEF words
    <2>7. /\ k = 1 /\ deserialise(words).elements = r
          /\ \A x \in 1 .. Len(r) : Whole(r[x])
        <3>1. deserialise(words).ok
            BY <1>5, <2>6
        <3> QED BY <2>4, <2>5, <3>1, PacketsParse DEF words, r
    <2>8. names[1] \in DOMAIN Requests
        BY <2>4, <2>5
    <2>9. IsList(r)
        BY <2>8, RequestIs DEF r
    <2>10. Performed(r, <<>>, r)
        BY <2>7, <2>9, NothingPerformed
    <2>11. r = Requests[sent[current[1]].request]
        BY <2>5 DEF r
    <2>12. todo' = r
        BY <2>1, <2>6, <2>7
    <2>13. AnswersOK'
        BY <1>1, <1>2, <2>1, <2>7, <2>10, <2>11, <2>12 DEF AnswersOK, k
    <2> QED BY <2>2, <2>13
<1> QED BY <1>4, <1>5

\* One element after the other is performed and answered.
LEMMA ActReplies ==
    ASSUME ReplyInv, Act
    PROVE  TransactionsOK' /\ AnswersOK'
<1> USE DEF ReplyInv
<1>1. /\ handler = "act" /\ handler' \in {"act", "respond"}
      /\ UNCHANGED <<transport, sent, arrived, main, hand, queue, current>>
    BY DEF Act, netVars, mainVars
<1>2. TransactionsOK'
    BY <1>1, TransactionsRest
<1> DEFINE r == Requests[sent[current[1]].request]
<1>3. Len(current) = 1 /\ Performed(r, responses, todo)
    BY <1>1 DEF AnswersOK
<1>4. CASE todo = <<>> /\ UNCHANGED <<todo, responses>>
    BY <1>1, <1>2, <1>3, <1>4 DEF AnswersOK
<1>5. CASE /\ todo # <<>> /\ handler' = "act" /\ todo' = Tail(todo)
           /\ responses' = Append(responses, Response(registers', Head(todo)))
    <2>1. Transaction(current, sent)
        BY <1>1 DEF TransactionsOK
    <2>2. sent[current[1]].request \in DOMAIN Requests
        <3>1. 1 \in 1 .. Len(current)
            BY <1>3
        <3> QED BY <2>1, <3>1 DEF Transaction
    <2>3. IsList(r) /\ \A x \in 1 .. Len(r) : r[x].head \in RequestHeaders
        BY <2>2, RequestIs
    <2> HIDE DEF r
    <2>4. Performed(r, Append(responses, Response(registers', Head(todo))), Tail(todo))
        BY <1>3, <1>5, <2>3, OneMorePerformed
    <2>5. Performed(r, responses', todo') /\ r = Requests[sent'[current'[1]].request]
        BY <1>1, <1>5, <2>4 DEF r
    <2>6. AnswersOK'
        BY <1>1, <1>3, <1>5, <2>5 DEF AnswersOK
    <2> QED BY <1>2, <2>6
<1>6. \/ todo = <<>> /\ UNCHANGED <<todo, responses>>
      \/ /\ todo # <<>> /\ handler' = "act" /\ todo' = Tail(todo)
         /\ responses' = Append(responses, Response(registers', Head(todo)))
    BY <1>1 DEF Act
<1> QED BY <1>4, <1>5, <1>6

\* Every step keeps the invariant.
LEMMA ReplyStep == ReplyInv /\ [Next]_vars => ReplyInv'
<1> SUFFICES ASSUME ReplyInv, [Next]_vars
             PROVE  TransactionsOK' /\ AnswersOK'
    BY ServerStep DEF ReplyInv
<1> USE DEF ReplyInv
<1>1. CASE UNCHANGED vars
    <2>1. UNCHANGED <<transport, sent, arrived, queue, hand, main, handler, current, todo,
                      responses>>
        BY <1>1 DEF vars, netVars, mainVars, handlerVars
    <2> QED BY <2>1, TransactionsRest, AnswersRest
<1>2. CASE Send
    BY <1>2, SendReplies
<1>3. CASE RecvUdp
    BY <1>3, RecvUdpReplies
<1>4. CASE RecvTcp
    BY <1>4, RecvTcpReplies
<1>5. CASE Put
    BY <1>5, PutReplies
<1>6. CASE Run
    BY <1>6, RunReplies
<1>7. CASE Parse
    BY <1>7, ParseReplies
<1>8. CASE Act
    BY <1>8, ActReplies
<1>9. CASE Respond
    <2>1. /\ UNCHANGED <<transport, sent, arrived, queue, hand, main>>
          /\ handler' \in {"run", "dead"} /\ responses' = <<>>
        BY <1>9 DEF Respond, netVars, mainVars
    <2>2. TransactionsOK'
        BY <2>1, TransactionsRest
    <2> QED BY <2>1, <2>2 DEF AnswersOK
<1>10. CASE Connect \/ Close \/ Accept \/ Joined \/ Interrupt \/ closeSockets
    <2>1. /\ UNCHANGED <<transport, sent, arrived, queue, hand, handler, current, todo, responses>>
          /\ main' = "put" => main = "put"
        BY <1>10 DEF Connect, Close, Accept, Joined, Interrupt, Stop, closeSockets, netVars,
           mainVars, handlerVars
    <2> QED BY <2>1, TransactionsRest, AnswersRest
<1> QED BY <1>1, <1>2, <1>3, <1>4, <1>5, <1>6, <1>7, <1>8, <1>9, <1>10
        DEF Next, MainThread, Handler

\* Every reply holds one whole response for each element of the request, in their order,
\* with its type and id, and passes doTransactionChecks; a transaction that is answered
\* is one packet without an element of an unknown type (_actAndRespond, SerDes.py).
THEOREM RepliesAreChecked == FairSpec => []RepliesPassChecks
<1>1. Init => ReplyInv
    <2> SUFFICES ASSUME Init PROVE ReplyInv
        OBVIOUS
    <2>1. TransactionsOK
        BY DummyAssumption DEF Init, TransactionsOK
    <2>2. AnswersOK
        BY DEF Init, AnswersOK
    <2> QED BY <2>1, <2>2, ServerInit DEF ReplyInv
<1>2. ReplyInv => RepliesPassChecks
    <2> SUFFICES ASSUME ReplyInv, handler = "respond"
                 PROVE  LET reply == deserialise(serialise(responses)) IN
                        /\ Len(current) = 1 /\ reply.ok
                        /\ ChecksPass(Requests[Names(current)[1]], reply.elements)
        BY DEF RepliesPassChecks
    <2> DEFINE r == Requests[sent[current[1]].request]
    <2>1. Len(current) = 1 /\ Performed(r, responses, <<>>) /\ Transaction(current, sent)
        BY DEF ReplyInv, AnswersOK, TransactionsOK
    <2>2. 1 \in 1 .. Len(current) /\ 1 \in DOMAIN current
        <3>1. current \in Seq(1 .. Len(sent))
            BY <2>1 DEF Transaction
        <3> QED BY <2>1, <3>1
    <2>3. sent[current[1]].request \in DOMAIN Requests
        BY <2>1, <2>2 DEF Transaction
    <2>4. Requests[Names(current)[1]] = r
        BY <2>2 DEF Names
    <2>5. IsList(r) /\ DOMAIN r = 1 .. Len(r)
        BY <2>3, RequestIs
    <2> HIDE DEF r
    <2>6. Len(responses) = Len(r)
        BY <2>1, <2>5, AllPerformed
    <2>7. IsList(responses) /\ \A i \in 1 .. Len(responses) : Answers(responses[i], r[i])
        BY <2>1 DEF Performed
    <2>8. deserialise(serialise(responses)) = [ok |-> TRUE, elements |-> responses]
        BY <2>7, RoundTrip DEF Answers
    <2>9. ChecksPass(r, responses)
        BY <2>5, <2>6, <2>7 DEF ChecksPass, Answers, Whole, validBodySize
    <2> QED BY <2>1, <2>4, <2>8, <2>9
<1> QED BY <1>1, <1>2, ReplyStep, PTL DEF FairSpec
=============================================================================
