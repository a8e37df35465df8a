------------------------ MODULE TcpRxReports_proofs ------------------------
(***************************************************************************)
(* What the receive buffer tells others, for every stream, window and      *)
(* segment size: its counters count what is stored, its SACK blocks name   *)
(* only bytes it holds, the newest first, it holds no more than its limit  *)
(* and one overrun, and the end of the stream is reported last.            *)
(***************************************************************************)
EXTENDS TcpRxBuffer_proofs, SequenceTheorems

(***************************************************************************)
(* Lengths add up.  MapThenSumSet is a recursive function on the subsets   *)
(* of its argument: the lemma first shows that the function exists, then   *)
(* that it counts bytes, each time by way of a smallest counterexample.    *)
(***************************************************************************)
\* The bytes of packets that do not overlap are as many as their lengths say.
LEMMA LengthsAddUp ==
  ASSUME NEW S \in SUBSET Packet, IsFiniteSet(S),
         \A p, q \in S : p # q => End(p) <= q.seq \/ End(q) <= p.seq
  PROVE  /\ MapThenSumSet(LAMBDA p : p.len, S) = Cardinality(Stored(S))
         /\ IsFiniteSet(Stored(S))
<1> DEFINE pick(s) == CHOOSE x \in s : TRUE
           body(g, s) == IF s = {} THEN 0 ELSE pick(s).len + g[s \ {pick(s)}]
           iter == CHOOSE g : g = [s \in SUBSET S |-> body(g, s)]
           Upto(n) == {s \in SUBSET S : Cardinality(s) <= n}
           Defined(n) == \E g : g = [s \in Upto(n) |-> body(g, s)]
<1>1. \A s \in SUBSET S : /\ IsFiniteSet(s) /\ Cardinality(s) \in Nat
                          /\ Cardinality(s) = 0 <=> s = {}
  BY FS_Subset, FS_CardinalityType, FS_EmptySet
<1>2. ASSUME NEW s \in SUBSET S, s # {}
      PROVE  /\ pick(s) \in s /\ s \ {pick(s)} \in SUBSET S
             /\ Cardinality(s \ {pick(s)}) = Cardinality(s) - 1
  <2>1. pick(s) \in s
    BY <1>2
  <2>2. QED
    BY <1>1, <2>1, FS_RemoveElement
<1>3. Defined(0)
  <2> DEFINE g == [s \in Upto(0) |-> 0]
  <2>1. \A s \in Upto(0) : s = {}
    BY <1>1
  <2>2. g = [s \in Upto(0) |-> body(g, s)]
    BY <2>1
  <2>3. QED BY <2>2
<1>4. ASSUME NEW n \in Nat \ {0}, Defined(n - 1)
      PROVE  Defined(n)
  <2>1. PICK g : g = [s \in Upto(n - 1) |-> body(g, s)]
    BY <1>4
  <2> DEFINE h == [s \in Upto(n) |-> body(g, s)]
  <2>2. ASSUME NEW s \in Upto(n)
        PROVE  body(g, s) = body(h, s)
    <3>1. CASE s = {}
      BY <3>1
    <3>2. CASE s # {}
      <4> DEFINE t == s \ {pick(s)}
      <4>1. t \in Upto(n - 1) /\ t \in Upto(n)
        BY <1>1, <1>2, <3>2
      <4>2. h[t] = g[t]
        <5>1. h[t] = body(g, t)
          BY <4>1
        <5>2. g[t] = body(g, t)
          <6> HIDE DEF body, t
          <6>1. QED BY <2>1, <4>1
        <5>3. QED BY <5>1, <5>2
      <4>3. QED BY <4>2
    <3>3. QED BY <3>1, <3>2
  <2>3. h = [s \in Upto(n) |-> body(h, s)]
    <3> HIDE DEF body, Upto
    <3>1. QED BY <2>2
  <2>4. QED BY <2>3
<1> HIDE DEF Defined
<1>5. \A n \in Nat : Defined(n)
  <2> DEFINE Bad == {n \in Nat : ~Defined(n)}
  <2>1. SUFFICES ASSUME Bad # {} PROVE FALSE
    OBVIOUS
  <2>2. Min(Bad) \in Bad /\ \A x \in Bad : Min(Bad) <= x
    BY <2>1, MinOfNaturals
  <2> DEFINE m == Min(Bad)
  <2>3. m \in Nat \ {0} /\ ~Defined(m) /\ m - 1 \notin Bad
    BY <1>3, <2>2
  <2>4. Defined(m - 1)
    BY <2>3
  <2>5. QED BY <2>3, <2>4, <1>4
<1>6. iter = [s \in SUBSET S |-> body(iter, s)]
  <2> DEFINE n == Cardinality(S)
  <2>1. Upto(n) = SUBSET S /\ n \in Nat
    BY <1>1, FS_Subset, FS_CardinalityType
  <2> HIDE DEF body, Upto
  <2>2. Defined(n)
    BY <1>5, <2>1
  <2>3. \E g : g = [s \in SUBSET S |-> body(g, s)]
    BY <2>1, <2>2 DEF Defined
  <2>4. QED BY <2>3
<1> HIDE DEF iter
<1>7. \A s \in SUBSET S : iter[s] = IF s = {} THEN 0 ELSE pick(s).len + iter[s \ {pick(s)}]
  BY <1>6
<1>8. ASSUME NEW s \in SUBSET S, s # {},
             iter[s \ {pick(s)}] = Cardinality(Stored(s \ {pick(s)})),
             IsFiniteSet(Stored(s \ {pick(s)}))
      PROVE  iter[s] = Cardinality(Stored(s)) /\ IsFiniteSet(Stored(s))
  <2> DEFINE p == pick(s)
             t == s \ {p}
             I == p.seq .. (End(p) - 1)
  <2>1. p \in s /\ t \in SUBSET S /\ p \notin t
    BY <1>2, <1>8
  <2> HIDE DEF pick
  <2>2. p.seq \in Int /\ p.len \in Nat /\ p.len > 0 /\ End(p) = p.seq + p.len
    BY <2>1 DEF Packet, End
  <2>3. IsFiniteSet(I) /\ Cardinality(I) = p.len
    <3>1. /\ p.seq \in Int /\ End(p) - 1 \in Int
          /\ ~(p.seq > End(p) - 1) /\ End(p) - 1 - p.seq + 1 = p.len
      BY <2>2
    <3>2. QED BY <3>1, FS_Interval, Zenon
  <2>4. Stored(s) = Stored(t) \cup I
    BY <2>1 DEF Stored
  <2>5. Stored(t) \cap I = {}
    <3> SUFFICES ASSUME NEW b \in Stored(t), b \in I PROVE FALSE
      OBVIOUS
    <3>1. PICK q \in t : b \in Int /\ q.seq <= b /\ b < End(q)
      BY <2>1, StoredBytes
    <3>2. End(p) <= q.seq \/ End(q) <= p.seq
      BY <2>1, <3>1
    <3>3. q.seq \in Int /\ End(q) \in Int
      BY <2>1, <3>1 DEF Packet, End
    <3>4. QED BY <2>2, <3>1, <3>2, <3>3
  <2>6. /\ IsFiniteSet(Stored(s))
        /\ Cardinality(Stored(s)) = Cardinality(Stored(t)) + p.len - 0
    <3> HIDE DEF I
    <3>1. /\ IsFiniteSet(Stored(t) \cup I)
          /\ Cardinality(Stored(t) \cup I) =
               Cardinality(Stored(t)) + Cardinality(I) - Cardinality(Stored(t) \cap I)
      BY <2>3, <1>8, FS_Union
    <3>2. QED BY <3>1, <2>3, <2>4, <2>5, FS_EmptySet
  <2>7. iter[s] = p.len + iter[t]
    BY <1>7, <1>8
  <2>8. Cardinality(Stored(t)) \in Nat
    BY <1>8, FS_CardinalityType
  <2>9. QED
    BY <1>8, <2>2, <2>6, <2>7, <2>8
<1> DEFINE Counts(s) == iter[s] = Cardinality(Stored(s)) /\ IsFiniteSet(Stored(s))
           Bad == {Cardinality(s) : s \in {r \in SUBSET S : ~Counts(r)}}
<1>9. \A s \in SUBSET S : Counts(s)
  <2>1. SUFFICES ASSUME Bad # {} PROVE FALSE
    OBVIOUS
  <2>2. Min(Bad) \in Bad /\ \A x \in Bad : Min(Bad) <= x
    <3>1. Bad \in SUBSET Nat
      BY <1>1
    <3> HIDE DEF Bad
    <3>2. QED BY <2>1, <3>1, MinOfNaturals
  <2>3. PICK s \in SUBSET S : ~Counts(s) /\ \A x \in Bad : Cardinality(s) <= x
    BY <2>2
  <2>4. s # {}
    <3>1. Counts({})
      BY <1>7, FS_EmptySet DEF Stored
    <3>2. QED BY <2>3, <3>1
  <2>5. Counts(s \ {pick(s)})
    <3> DEFINE t == s \ {pick(s)}
    <3>1. t \in SUBSET S /\ ~(Cardinality(s) <= Cardinality(t))
      BY <1>1, <1>2, <2>3, <2>4
    <3> HIDE DEF t, Counts
    <3>2. ~Counts(t) => Cardinality(t) \in Bad
      BY <3>1
    <3>3. Counts(t)
      BY <2>3, <3>1, <3>2
    <3>4. QED BY <3>3 DEF t
  <2>6. QED
    BY <1>8, <2>3, <2>4, <2>5
<1>10. MapThenSumSet(LAMBDA p : p.len, S) = iter[S]
  BY DEF MapThenSumSet, MapThenFoldSet, iter
<1>11. QED
  BY <1>9, <1>10

\* Packets that do not overlap have different keys, so there are finitely many.
LEMMA FinitelyStored ==
  ASSUME RxInv
  PROVE  IsFiniteSet(data)
<1> DEFINE key == [p \in data |-> p.seq]
<1>1. \A p \in data : p.seq \in 0..StreamLen /\ End(p) > p.seq
  BY RxAssumption DEF RxInv, InvTypes, Packet, End
<1>2. \A p, q \in data : p.seq = q.seq => p = q
  <2> SUFFICES ASSUME NEW p \in data, NEW q \in data, p.seq = q.seq, p # q
               PROVE  FALSE
    OBVIOUS
  <2>1. End(p) <= q.seq \/ End(q) <= p.seq
    BY DEF RxInv, PayloadInPlace
  <2>2. p.seq \in Int /\ End(p) \in Int /\ End(q) \in Int
    BY RxAssumption DEF RxInv, InvTypes, Packet, End
  <2>3. QED BY <1>1, <2>1, <2>2
<1>3. key \in Injection(data, 0..StreamLen)
  BY <1>1, <1>2 DEF Injection, IsInjective
<1>4. IsFiniteSet(0..StreamLen)
  BY FS_Interval, RxAssumption
<1>5. QED
  BY <1>3, <1>4, FS_Injection

(***************************************************************************)
(* The steps, sorted by what they do to the buffer: a segment is added, a  *)
(* FIN comes that brings no new byte, or bytes are read.                   *)
(***************************************************************************)
Adds(h, t, fin) ==
  /\ ~Finished /\ h \in 0..StreamLen /\ t \in 0..StreamLen /\ fin \in BOOLEAN
  /\ Sendable(h, t)
  /\ Add(h, t, fin)
  /\ gotFin' = fin /\ (gotFin => fin) /\ (fin /\ ~gotFin => t = StreamLen)

BareFin ==
  /\ ~Finished /\ gotFin' = TRUE
  /\ ~gotFin => StreamLen <= MaxRxSequence + Oversend
  /\ nextRxSeq' = IF nextRxSeq = StreamLen THEN StreamLen + 1 ELSE nextRxSeq
  /\ UNCHANGED <<data, size, availBytes, sackList, delivered>>

LEMMA StepsSorted ==
  ASSUME RxInv, [Next]_vars
  PROVE  \/ \E h, t \in 0..StreamLen, fin \in BOOLEAN : Adds(h, t, fin)
         \/ BareFin
         \/ \E n \in 1..StreamLen : Extract(n)
         \/ UNCHANGED vars
<1>0. StreamLen \in 0..StreamLen /\ gotFin \in BOOLEAN
  BY RxAssumption DEF RxInv, InvTypes
<1>1. ASSUME NEW h \in 0..StreamLen, NEW t \in 0..StreamLen, DataSegment(h, t)
      PROVE  Adds(h, t, gotFin)
  BY <1>0, <1>1 DEF DataSegment, Adds
<1>2. ASSUME NEW h \in 0..StreamLen, FinSegment(h)
      PROVE  Adds(h, StreamLen, TRUE) \/ BareFin
  BY <1>0, <1>2 DEF FinSegment, Sendable, Adds, BareFin
<1>3. QED
  BY <1>0, <1>1, <1>2 DEF Next

(***************************************************************************)
(* The counters                                                            *)
(***************************************************************************)
\* What Add takes for replaced is what was stored of the segment already.
LEMMA AddCounts ==
  ASSUME RxInv, size = Cardinality(Stored(data)),
         NEW h, NEW t, NEW fin, Adds(h, t, fin)
  PROVE  size' = Cardinality(Stored(data'))
<1> DEFINE head == HeadSeq(h)
           tail == TailSeq(t)
           gone == Embedded(h, t)
           I == head .. (tail - 1)
<1>1. /\ head < tail
      /\ size' = size - MapThenSumSet(LAMBDA p : p.len, gone) + (tail - head)
  BY DEF Adds, Add, SizeAfter
<1>2. /\ head \in Nat /\ tail \in Int
      /\ Stored(data') = Stored(data) \cup I
  BY AddKeepsInv DEF Adds
<1>3. /\ \A p \in data \ gone : End(p) <= head \/ tail <= p.seq
      /\ \A p \in gone : head <= p.seq /\ End(p) <= tail
  BY <1>1, CutSegment DEF Adds
<1>4. gone \subseteq data /\ data \in SUBSET Packet
  BY DEF Embedded, RxInv, InvTypes
<1>5. IsFiniteSet(data) /\ IsFiniteSet(gone)
  BY <1>4, FinitelyStored, FS_Subset
<1>6. \A p, q \in data : p # q => End(p) <= q.seq \/ End(q) <= p.seq
  BY DEF RxInv, PayloadInPlace
<1> HIDE DEF gone, head, tail
<1>7. /\ MapThenSumSet(LAMBDA p : p.len, gone) = Cardinality(Stored(gone))
      /\ IsFiniteSet(Stored(gone)) /\ IsFiniteSet(Stored(data))
  <2>1. gone \in SUBSET Packet /\ \A p, q \in gone : p # q => End(p) <= q.seq \/ End(q) <= p.seq
    BY <1>4, <1>6
  <2>2. IsFiniteSet(Stored(data))
    BY <1>4, <1>5, <1>6, LengthsAddUp
  <2>3. QED
    BY <1>5, <2>1, <2>2, LengthsAddUp
<1>8. Stored(gone) = Stored(data) \cap I
  <2>1. ASSUME NEW b \in Stored(gone)
        PROVE  b \in Stored(data) \cap I
    <3>1. PICK p \in gone : b \in Int /\ p.seq <= b /\ b < End(p)
      BY <1>4, StoredBytes
    <3>2. p.seq \in Int /\ End(p) \in Int
      BY <1>4, <3>1 DEF Packet, End
    <3>3. QED BY <1>2, <1>3, <1>4, <3>1, <3>2, StoredBytes
  <2>2. ASSUME NEW b \in Stored(data), b \in I
        PROVE  b \in Stored(gone)
    <3>1. PICK p \in data : b \in Int /\ p.seq <= b /\ b < End(p)
      BY <1>4, StoredBytes
    <3>2. p.seq \in Int /\ End(p) \in Int
      BY <1>4, <3>1 DEF Packet, End
    <3>3. p \in gone
      BY <1>2, <1>3, <2>2, <3>1, <3>2
    <3>4. gone \in SUBSET Packet
      BY <1>4
    <3>5. QED BY <3>1, <3>3, <3>4, StoredBytes
  <2>3. QED BY <2>1, <2>2
<1>9. IsFiniteSet(I) /\ Cardinality(I) = tail - head
  <2>1. /\ head \in Int /\ tail - 1 \in Int /\ ~(head > tail - 1)
        /\ tail - 1 - head + 1 = tail - head
    BY <1>1, <1>2
  <2>2. QED BY <2>1, FS_Interval, Zenon
<1> HIDE DEF I
<1>10. Cardinality(Stored(data) \cup I)
         = Cardinality(Stored(data)) + Cardinality(I) - Cardinality(Stored(data) \cap I)
  BY <1>7, <1>9, FS_Union
<1>11. /\ Cardinality(Stored(data)) \in Nat /\ Cardinality(Stored(gone)) \in Nat
       /\ Cardinality(I) \in Nat
  BY <1>7, <1>9, FS_CardinalityType
<1>12. QED
  BY <1>1, <1>2, <1>7, <1>8, <1>9, <1>10, <1>11

LEMMA ExtractCounts ==
  ASSUME RxInv, size = Cardinality(Stored(data)), NEW n \in 1..StreamLen, Extract(n)
  PROVE  size' = Cardinality(Stored(data'))
<1> DEFINE I == delivered .. (delivered' - 1)
           taken == MinOf(n, availBytes)
<1>1. size' = size - taken /\ delivered' = delivered + taken
  BY DEF Extract
<1>2. /\ delivered' - delivered \in 1..StreamLen
      /\ I \subseteq Stored(data)
      /\ Stored(data') = Stored(data) \ I
  BY ExtractKeepsInv
<1>3. delivered \in Nat /\ taken \in Int
  BY RxAssumption DEF RxInv, InvTypes, InvRanges, InSeqEnd, Finished, MinOf
<1>4. IsFiniteSet(Stored(data))
  BY FinitelyStored, LengthsAddUp DEF RxInv, InvTypes, PayloadInPlace
<1> HIDE DEF taken
<1>5. Cardinality(I) = taken
  <2>1. /\ delivered \in Int /\ delivered' - 1 \in Int /\ ~(delivered > delivered' - 1)
        /\ delivered' - 1 - delivered + 1 = taken
    BY <1>1, <1>2, <1>3
  <2>2. QED BY <2>1, FS_Interval, Zenon
<1> HIDE DEF I
<1>6. Cardinality(Stored(data) \ I) = Cardinality(Stored(data)) - Cardinality(Stored(data) \cap I)
  BY <1>4, FS_Difference
<1>7. Stored(data) \cap I = I
  BY <1>2
<1>8. QED
  BY <1>1, <1>2, <1>5, <1>6, <1>7

\* size is the number of bytes stored.
SizeCounts == size = Cardinality(Stored(data))

LEMMA SizeStaysCounted ==
  ASSUME RxInv, SizeCounts, [Next]_vars
  PROVE  SizeCounts'
<1>1. ASSUME NEW h, NEW t, NEW fin, Adds(h, t, fin)
      PROVE  size' = Cardinality(Stored(data'))
  BY <1>1, AddCounts DEF SizeCounts
<1>2. ASSUME BareFin \/ UNCHANGED vars
      PROVE  size' = Cardinality(Stored(data'))
  BY <1>2 DEF BareFin, vars, SizeCounts
<1>3. ASSUME NEW n \in 1..StreamLen, Extract(n)
      PROVE  size' = Cardinality(Stored(data'))
  BY <1>3, ExtractCounts DEF SizeCounts
<1>4. size' = Cardinality(Stored(data'))
  BY <1>1, <1>2, <1>3, StepsSorted
<1>5. QED
  BY <1>4 DEF SizeCounts, Stored, End

LEMMA SizeAlwaysCounts == Spec => []SizeCounts
<1>1. Init => SizeCounts
  BY FS_EmptySet DEF Init, SizeCounts, Stored
<1>2. RxInv /\ SizeCounts /\ [Next]_vars => SizeCounts'
  BY SizeStaysCounted
<1>3. QED
  BY <1>1, <1>2, RxInvariant, PTL DEF Spec

\* Size() is the number of bytes stored and Available() what Extract can hand
\* over, whatever was inserted, replaced and read in part.
THEOREM CountersStayExact == Spec => []CountersExact
<1>1. RxInv /\ SizeCounts => CountersExact
  BY DEF RxInv, InvRanges, SizeCounts, CountersExact
<1>2. QED
  BY RxInvariant, SizeAlwaysCounts, <1>1, PTL

\* The application is told of the end of the stream when it has read all of it:
\* an empty buffer has nothing left between what was read and the FIN.
THEOREM EndOfStreamIsComplete == Spec => []EndOfStreamComplete
<1>1. RxInv /\ SizeCounts => EndOfStreamComplete
  <2> SUFFICES ASSUME RxInv, SizeCounts, Finished, size = 0
               PROVE  delivered = StreamLen
    BY DEF EndOfStreamComplete
  <2>1. IsFiniteSet(Stored(data))
    BY FinitelyStored, LengthsAddUp DEF RxInv, InvTypes, PayloadInPlace
  <2>2. Stored(data) = {}
    BY <2>1, FS_EmptySet DEF SizeCounts
  <2>3. InSeqEnd = StreamLen /\ delivered \in 0..StreamLen
    BY DEF InSeqEnd, RxInv, InvTypes
  <2>4. delivered .. (StreamLen - 1) = {}
    BY <2>2, <2>3 DEF RxInv, NextRxIsFirstMissing
  <2>5. ~(delivered < StreamLen)
    <3>1. delivered < StreamLen => delivered \in delivered .. (StreamLen - 1)
      BY <2>3, RxAssumption
    <3>2. QED BY <2>4, <3>1
  <2>6. QED BY <2>3, <2>5, RxAssumption
<1>2. QED
  BY RxInvariant, SizeAlwaysCounts, <1>1, PTL

(***************************************************************************)
(* The limit.  BufferBounded speaks of a number; what is inductive is where *)
(* the bytes lie: within one overrun of the window, and so does the end of *)
(* the stream once the FIN has come.                                       *)
(***************************************************************************)
WithinEdge ==
  /\ \A b \in Stored(data) : b < delivered + MaxBuffer + Oversend
  /\ gotFin => StreamLen <= delivered + MaxBuffer + Oversend

LEMMA StaysWithinEdge ==
  ASSUME RxInv, WithinEdge, [Next]_vars
  PROVE  WithinEdge'
<1> USE RxAssumption
<1>1. delivered \in Nat
  BY DEF RxInv, InvTypes
<1>2. ~gotFin => MaxRxSequence = delivered + MaxBuffer
  BY EdgeFromDelivered
<1>3. Stored(data)' = Stored(data')
  BY DEF Stored, End
<1>4. ASSUME NEW h, NEW t, NEW fin, Adds(h, t, fin)
      PROVE  WithinEdge'
  <2>1. /\ Stored(data') = Stored(data) \cup (HeadSeq(h) .. (TailSeq(t) - 1))
        /\ HeadSeq(h) \in Nat /\ TailSeq(t) \in Int
        /\ delivered' = delivered
    BY <1>4, AddKeepsInv DEF Adds
  <2>2. TailSeq(t) <= t /\ TailSeq(t) <= StreamLen /\ t \in Nat
    <3>1. HeadSeq(h) < TailSeq(t)
      BY <1>4 DEF Adds, Add
    <3>2. QED BY <1>4, <3>1, CutSegment DEF Adds
  <2>3. ~gotFin => t <= delivered + MaxBuffer + Oversend
    BY <1>2, <1>4 DEF Adds, Sendable
  <2>4. TailSeq(t) <= delivered + MaxBuffer + Oversend
    BY <1>1, <2>1, <2>2, <2>3 DEF WithinEdge
  <2>5. \A b \in Stored(data') : b < delivered + MaxBuffer + Oversend
    BY <1>1, <2>1, <2>4 DEF WithinEdge
  <2>6. gotFin' => StreamLen <= delivered + MaxBuffer + Oversend
    BY <1>4, <2>3 DEF WithinEdge, Adds
  <2>7. QED BY <1>3, <2>1, <2>5, <2>6 DEF WithinEdge
<1>5. ASSUME BareFin
      PROVE  WithinEdge'
  <2>1. StreamLen <= delivered + MaxBuffer + Oversend
    BY <1>2, <1>5 DEF BareFin, WithinEdge
  <2>2. data' = data /\ delivered' = delivered
    BY <1>5 DEF BareFin
  <2>3. QED BY <1>3, <2>1, <2>2 DEF WithinEdge
<1>6. ASSUME NEW n \in 1..StreamLen, Extract(n)
      PROVE  WithinEdge'
  <2>1. /\ delivered' - delivered \in 1..StreamLen
        /\ Stored(data') \subseteq Stored(data)
    BY <1>6, ExtractKeepsInv
  <2>2. gotFin' = gotFin /\ delivered' \in Nat
    BY <1>6, ExtractKeepsInv DEF Extract, RxInv, InvTypes
  <2> DEFINE edge == delivered + MaxBuffer + Oversend
             next == delivered' + MaxBuffer + Oversend
  <2>3. edge \in Nat /\ next \in Nat /\ edge <= next
    <3>1. \A d, e \in Nat : e - d \in 1..StreamLen =>
                              d + MaxBuffer + Oversend <= e + MaxBuffer + Oversend
      OBVIOUS
    <3>2. edge <= next
      BY <1>1, <2>1, <2>2, <3>1, Zenon
    <3>3. \A d \in Nat : d + MaxBuffer + Oversend \in Nat
      OBVIOUS
    <3>4. QED BY <1>1, <2>2, <3>2, <3>3, Zenon
  <2> HIDE DEF next
  <2>4. \A b \in Stored(data') : b < next
    <3>1. \A b \in Stored(data) : b \in Int /\ b < edge
      BY StoredBytes DEF RxInv, InvTypes, WithinEdge
    <3> HIDE DEF edge
    <3>2. QED BY <2>1, <2>3, <3>1
  <2>5. gotFin' => StreamLen <= next
    BY <2>2, <2>3 DEF WithinEdge
  <2>6. QED BY <1>3, <2>4, <2>5 DEF WithinEdge, next
<1>7. ASSUME UNCHANGED vars
      PROVE  WithinEdge'
  BY <1>7 DEF vars, WithinEdge, Stored, End
<1>8. QED
  BY <1>4, <1>5, <1>6, <1>7, StepsSorted

LEMMA AlwaysWithinEdge == Spec => []WithinEdge
<1>1. Init => WithinEdge
  BY RxAssumption DEF Init, WithinEdge, Stored
<1>2. RxInv /\ WithinEdge /\ [Next]_vars => WithinEdge'
  BY StaysWithinEdge
<1>3. QED
  BY <1>1, <1>2, RxInvariant, PTL DEF Spec

\* The buffer holds MaxBuffer bytes and at most one overrun: overruns do not add up.
THEOREM BufferStaysBounded == Spec => []BufferBounded
<1> USE RxAssumption
<1>1. RxInv /\ SizeCounts /\ WithinEdge => BufferBounded
  <2> SUFFICES ASSUME RxInv, SizeCounts, WithinEdge
               PROVE  BufferBounded
    OBVIOUS
  <2>1. delivered \in Nat
    BY DEF RxInv, InvTypes
  <2> DEFINE I == delivered .. (delivered + MaxBuffer + Oversend - 1)
  <2>2. Stored(data) \subseteq I
    <3>1. \A b \in Stored(data) : b \in Int /\ b >= delivered
      BY StoredBytes DEF RxInv, InvTypes, NextRxIsFirstMissing
    <3>2. QED BY <2>1, <3>1 DEF WithinEdge
  <2>3. IsFiniteSet(I) /\ Cardinality(I) = MaxBuffer + Oversend
    <3>1. /\ delivered \in Int /\ delivered + MaxBuffer + Oversend - 1 \in Int
          /\ ~(delivered > delivered + MaxBuffer + Oversend - 1)
          /\ delivered + MaxBuffer + Oversend - 1 - delivered + 1 = MaxBuffer + Oversend
      BY <2>1
    <3>2. QED BY <3>1, FS_Interval
  <2> HIDE DEF I
  <2>4. QED BY <2>2, <2>3, FS_Subset DEF SizeCounts, BufferBounded
<1>2. QED
  BY <1>1, RxInvariant, SizeAlwaysCounts, AlwaysWithinEdge, PTL

\* Against a peer that keeps to the window, the window AdvertisedWindowSize computes
\* is never negative, as it asserts, in whatever order data comes and is read.
THEOREM WindowStaysNotNegative ==
  ASSUME Oversend = 0
  PROVE  Spec => []WindowNotNegative
<1> USE RxAssumption
<1>1. RxInv /\ WithinEdge => WindowNotNegative
  <2> SUFFICES ASSUME RxInv, WithinEdge, ~gotFin
               PROVE  MaxRxSequence >= nextRxSeq
    BY DEF WindowNotNegative
  <2>1. delivered \in Nat /\ nextRxSeq \in Nat
    BY DEF RxInv, InvTypes
  <2>2. MaxRxSequence = delivered + MaxBuffer /\ InSeqEnd = nextRxSeq
    BY EdgeFromDelivered DEF InSeqEnd, Finished
  <2>3. CASE nextRxSeq <= delivered
    BY <2>1, <2>2, <2>3
  <2>4. CASE delivered < nextRxSeq
    <3>1. nextRxSeq - 1 \in Stored(data)
      BY <2>1, <2>2, <2>4 DEF RxInv, NextRxIsFirstMissing
    <3>2. nextRxSeq - 1 < delivered + MaxBuffer + Oversend
      BY <3>1 DEF WithinEdge
    <3>3. QED BY <2>1, <2>2, <3>2
  <2>5. QED BY <2>1, <2>3, <2>4
<1>2. QED
  BY <1>1, RxInvariant, AlwaysWithinEdge, PTL

(***************************************************************************)
(* The SACK list.  A block is honest if it lies above the acknowledgment   *)
(* and names only stored bytes; every list is a sequence of honest blocks. *)
(***************************************************************************)
Span(b) == b.first .. (b.second - 1)

Honest(B, n) == {b \in SackBlock : n < b.first /\ b.first < b.second /\ Span(b) \subseteq B}

\* Two honest blocks that touch make one that spans both.
LEMMA JoinedIsHonest ==
  ASSUME NEW B, NEW n, NEW a \in Honest(B, n), NEW b \in Honest(B, n), Touch(a, b)
  PROVE  Joined(a, b) \in Honest(B, n) /\ Span(a) \subseteq Span(Joined(a, b))
<1> USE RxAssumption
<1>1. \A c \in {a, b} : /\ c \in SackBlock /\ c.first \in 0..StreamLen /\ c.second \in 0..StreamLen
                        /\ c.first < c.second /\ n < c.first /\ Span(c) \subseteq B
  BY DEF Honest, SackBlock
<1>2. CASE a.first = b.second
  <2>1. Joined(a, b) = [first |-> b.first, second |-> a.second]
    BY <1>2 DEF Joined
  <2>2. Span(Joined(a, b)) = Span(b) \cup Span(a)
    BY <1>1, <1>2, <2>1 DEF Span
  <2>3. Joined(a, b) \in SackBlock /\ b.first < a.second
    BY <1>1, <1>2, <2>1 DEF SackBlock
  <2>4. QED BY <1>1, <2>1, <2>2, <2>3 DEF Honest
<1>3. CASE a.first # b.second
  <2>1. Joined(a, b) = [first |-> a.first, second |-> b.second] /\ a.second = b.first
    BY <1>3 DEF Joined, Touch
  <2>2. Span(Joined(a, b)) = Span(a) \cup Span(b)
    BY <1>1, <2>1 DEF Span
  <2>3. Joined(a, b) \in SackBlock /\ a.first < b.second
    BY <1>1, <2>1 DEF SackBlock
  <2>4. QED BY <1>1, <2>1, <2>2, <2>3 DEF Honest
<1>4. QED BY <1>2, <1>3

\* A merge keeps the list honest and its first block spans what it spanned.
LEMMA MergeIsHonest ==
  ASSUME NEW B, NEW n, NEW list \in Seq(Honest(B, n)), list # <<>>
  PROVE  /\ MergeFront(list) \in Seq(Honest(B, n)) /\ MergeFront(list) # <<>>
         /\ Span(list[1]) \subseteq Span(MergeFront(list)[1])
<1> DEFINE H == Honest(B, n)
           touching == Touching(list)
           i == Min(touching)
           rest == RemoveAt(list, i)
<1>1. Len(list) \in Nat /\ Len(list) > 0 /\ \A k \in 1..Len(list) : list[k] \in H
  BY EmptySeq, LenProperties, ElementOfSeq
<1>0. MergeFront(list) = IF touching = {} THEN list
                         ELSE <<Joined(list[1], list[i])>> \o Tail(rest)
  BY DEF MergeFront
<1>2. CASE touching = {}
  <2> HIDE DEF touching
  <2>1. MergeFront(list) = list
    BY <1>0, <1>2
  <2>2. QED BY <2>1
<1>3. CASE touching # {}
  <2>1. touching \in SUBSET Nat
    BY <1>1 DEF Touching
  <2>2. i \in touching
    <3> HIDE DEF touching
    <3>1. QED BY <1>3, <2>1, MinOfNaturals
  <2> HIDE DEF i
  <2>3. i \in 2..Len(list) /\ Touch(list[1], list[i])
    BY <2>2 DEF Touching
  <2>4. list[1] \in H /\ list[i] \in H
    BY <1>1, <2>3
  <2>5. Joined(list[1], list[i]) \in H /\ Span(list[1]) \subseteq Span(Joined(list[1], list[i]))
    BY <2>3, <2>4, JoinedIsHonest
  <2> DEFINE low == SubSeq(list, 1, i - 1)
             up == SubSeq(list, i + 1, Len(list))
  <2>6. low \in Seq(H) /\ Len(low) = i - 1 /\ up \in Seq(H)
    <3> HIDE DEF H
    <3>1. /\ 1 \in Int /\ i - 1 \in Int /\ 1 <= i - 1 /\ (i - 1) - 1 + 1 = i - 1
          /\ \A k \in 1..(i - 1) : list[k] \in H
      BY <1>1, <2>3
    <3>2. low \in Seq(H) /\ Len(low) = (i - 1) - 1 + 1
      BY <3>1, SubSeqProperties
    <3>3. /\ i + 1 \in Int /\ Len(list) \in Int
          /\ \A k \in (i + 1)..Len(list) : list[k] \in H
      BY <1>1, <2>3
    <3>4. up \in Seq(H)
      BY <3>3, SubSeqProperties
    <3>5. QED BY <3>1, <3>2, <3>4
  <2> HIDE DEF low, up, H
  <2>7. rest \in Seq(H) /\ Len(rest) = Len(low) + Len(up) /\ Len(up) \in Nat
    BY <2>6, ConcatProperties, LenProperties DEF RemoveAt, low, up
  <2>8. rest # <<>>
    BY <2>3, <2>6, <2>7, EmptySeq
  <2> HIDE DEF rest
  <2>9. Tail(rest) \in Seq(H)
    BY <2>7, <2>8, HeadTailProperties
  <2> DEFINE front == <<Joined(list[1], list[i])>>
  <2>10. front \in Seq(H) /\ Len(front) = 1
    BY <2>5 DEF H
  <2>11. front[1] = Joined(list[1], list[i])
    OBVIOUS
  <2> HIDE DEF front
  <2>12. /\ front \o Tail(rest) \in Seq(H)
         /\ Len(front \o Tail(rest)) = 1 + Len(Tail(rest))
         /\ (front \o Tail(rest))[1] = front[1]
    <3>1. Len(Tail(rest)) \in Nat
      BY <2>9, LenProperties
    <3> DEFINE T == Tail(rest)
    <3>2. T \in Seq(H) /\ Len(T) \in Nat
      BY <2>9, <3>1
    <3> HIDE DEF T
    <3>3. /\ front \o T \in Seq(H)
          /\ Len(front \o T) = Len(front) + Len(T)
          /\ \A j \in 1..(Len(front) + Len(T)) :
               (front \o T)[j] = IF j <= Len(front) THEN front[j] ELSE T[j - Len(front)]
      BY <2>10, <3>2, ConcatProperties
    <3>4. QED BY <2>10, <3>2, <3>3 DEF T
  <2>13. MergeFront(list) = front \o Tail(rest)
    BY <1>0, <1>3 DEF front
  <2>14. Len(MergeFront(list)) # 0
    BY <2>9, <2>12, <2>13, LenProperties
  <2>15. QED
    BY <2>5, <2>11, <2>12, <2>13, <2>14, EmptySeq DEF H
<1>4. QED BY <1>2, <1>3

\* So does the whole update, and its first block spans the new segment.
LEMMA UpdateIsHonest ==
  ASSUME NEW B, NEW n, NEW list \in Seq(Honest(B, n)), NEW head, NEW tail,
         [first |-> head, second |-> tail] \in Honest(B, n)
  PROVE  /\ UpdateSackList(list, head, tail) \in Seq(Honest(B, n))
         /\ UpdateSackList(list, head, tail) # <<>>
         /\ head .. (tail - 1) \subseteq Span(UpdateSackList(list, head, tail)[1])
<1> DEFINE H == Honest(B, n)
           new == [first |-> head, second |-> tail]
           m0 == <<new>> \o list
           m1 == MergeFront(m0)
           m2 == MergeFront(m1)
           m3 == MergeFront(m2)
           m4 == MergeFront(m3)
<1>1. m0 \in Seq(H) /\ m0 # <<>> /\ m0[1] = new
  <2>1. <<new>> \in Seq(H) /\ Len(<<new>>) = 1 /\ <<new>>[1] = new
    <3> HIDE DEF H, new
    <3>1. new \in H
      BY DEF H, new
    <3>2. QED BY <3>1
  <2> HIDE DEF H, new
  <2>2. list \in Seq(H) /\ Len(list) \in Nat
    BY LenProperties DEF H
  <2>3. m0 \in Seq(H) /\ Len(m0) = 1 + Len(list) /\ m0[1] = new
    BY <2>1, <2>2, ConcatProperties
  <2>4. QED BY <2>2, <2>3, EmptySeq
<1>2. Span(new) = head .. (tail - 1)
  BY DEF Span
<1> HIDE DEF m0, new
<1>3. m1 \in Seq(H) /\ m1 # <<>> /\ Span(new) \subseteq Span(m1[1])
  BY <1>1, MergeIsHonest
<1> HIDE DEF m1
<1>4. m2 \in Seq(H) /\ m2 # <<>> /\ Span(new) \subseteq Span(m2[1])
  BY <1>3, MergeIsHonest
<1> HIDE DEF m2
<1>5. m3 \in Seq(H) /\ m3 # <<>> /\ Span(new) \subseteq Span(m3[1])
  BY <1>4, MergeIsHonest
<1> HIDE DEF m3
<1>6. m4 \in Seq(H) /\ m4 # <<>> /\ Span(new) \subseteq Span(m4[1])
  BY <1>5, MergeIsHonest
<1> HIDE DEF m4
<1> DEFINE k == MinOf(MaxSackBlocks, Len(m4))
<1>7. UpdateSackList(list, head, tail) = SubSeq(m4, 1, k)
  BY DEF UpdateSackList, m4, m3, m2, m1, m0, new
<1> HIDE DEF H
<1>8. /\ k \in Nat /\ 1 <= k /\ k <= Len(m4)
      /\ \A j \in 1..k : m4[j] \in H
  <2>1. Len(m4) \in Nat /\ Len(m4) # 0 /\ \A j \in 1..Len(m4) : m4[j] \in H
    BY <1>6, EmptySeq, LenProperties, ElementOfSeq
  <2>2. k \in Nat /\ 1 <= k /\ k <= Len(m4)
    BY <2>1, RxAssumption DEF MinOf
  <2>3. QED BY <2>1, <2>2
<1> HIDE DEF k
<1>9. /\ SubSeq(m4, 1, k) \in Seq(H)
      /\ Len(SubSeq(m4, 1, k)) = IF 1 <= k THEN k - 1 + 1 ELSE 0
      /\ \A j \in 1..(k - 1 + 1) : SubSeq(m4, 1, k)[j] = m4[1 + j - 1]
  BY <1>8, SubSeqProperties
<1>10. /\ SubSeq(m4, 1, k)[1] = m4[1]
       /\ Len(SubSeq(m4, 1, k)) # 0
  BY <1>8, <1>9
<1>11. QED
  BY <1>2, <1>6, <1>7, <1>9, <1>10, EmptySeq DEF H

\* ClearSackList keeps only blocks of the list, and of these those above seq.
LEMMA ClearKeepsAbove ==
  ASSUME NEW S, NEW list \in Seq(S), NEW seq
  PROVE  ClearSackList(list, seq) \in Seq({b \in S : b.second > seq})
<1> DEFINE T == {b \in S : b.second > seq}
           n == Len(list)
           body(g, k) == IF k = 0 THEN <<>>
                         ELSE IF list[k].second > seq THEN Append(g[k - 1], list[k])
                         ELSE g[k - 1]
           kept == CHOOSE g : g = [k \in 0..n |-> body(g, k)]
           Defined(m) == \E g : g = [k \in 0..m |-> body(g, k)]
<1>1. n \in Nat /\ \A k \in 1..n : list[k] \in S
  BY LenProperties, ElementOfSeq
<1> HIDE DEF n
<1>2. Defined(0)
  <2> DEFINE g == [k \in 0..0 |-> <<>>]
  <2>1. g = [k \in 0..0 |-> body(g, k)]
    OBVIOUS
  <2>2. QED BY <2>1
<1>3. ASSUME NEW m \in Nat \ {0}, Defined(m - 1)
      PROVE  Defined(m)
  <2>1. PICK g : g = [k \in 0..(m - 1) |-> body(g, k)]
    BY <1>3
  <2> DEFINE h == [k \in 0..m |-> body(g, k)]
  <2>2. ASSUME NEW k \in 0..m
        PROVE  body(g, k) = body(h, k)
    <3>1. CASE k = 0
      BY <3>1
    <3>2. CASE k # 0
      <4>1. k - 1 \in 0..(m - 1) /\ k - 1 \in 0..m
        BY <3>2
      <4>2. h[k - 1] = g[k - 1]
        <5>1. h[k - 1] = body(g, k - 1)
          BY <4>1
        <5>2. g[k - 1] = body(g, k - 1)
          <6> HIDE DEF body
          <6>1. QED BY <2>1, <4>1
        <5>3. QED BY <5>1, <5>2
      <4>3. QED BY <3>2, <4>2
    <3>3. QED BY <3>1, <3>2
  <2>3. h = [k \in 0..m |-> body(h, k)]
    <3> HIDE DEF body
    <3>1. QED BY <2>2
  <2>4. QED BY <2>3
<1> HIDE DEF Defined
<1>4. Defined(n)
  <2> DEFINE Bad == {m \in Nat : ~Defined(m)}
  <2>1. SUFFICES ASSUME Bad # {} PROVE FALSE
    BY <1>1
  <2>2. Min(Bad) \in Bad /\ \A x \in Bad : Min(Bad) <= x
    BY <2>1, MinOfNaturals
  <2> DEFINE m == Min(Bad)
  <2>3. m \in Nat \ {0} /\ ~Defined(m) /\ m - 1 \notin Bad
    BY <1>2, <2>2
  <2>4. Defined(m - 1)
    BY <2>3
  <2>5. QED BY <2>3, <2>4, <1>3
<1>5. kept = [k \in 0..n |-> body(kept, k)]
  <2> HIDE DEF body
  <2>1. \E g : g = [k \in 0..n |-> body(g, k)]
    BY <1>4 DEF Defined
  <2>2. QED BY <2>1
<1>6. ClearSackList(list, seq) = kept[n]
  BY DEF ClearSackList, n
<1> HIDE DEF kept
<1>7. \A k \in 0..n : kept[k] = body(kept, k)
  <2> HIDE DEF body
  <2>1. QED BY <1>5
<1>8. kept[0] \in Seq(T)
  <2>1. 0 \in 0..n /\ body(kept, 0) = <<>>
    BY <1>1
  <2>2. kept[0] = <<>>
    BY <1>7, <2>1
  <2>3. QED BY <2>2, EmptySeq
<1>9. ASSUME NEW k \in 1..n, kept[k - 1] \in Seq(T)
      PROVE  kept[k] \in Seq(T)
  <2>1. kept[k] = IF list[k].second > seq THEN Append(kept[k - 1], list[k]) ELSE kept[k - 1]
    BY <1>1, <1>7
  <2>2. CASE list[k].second > seq
    <3>1. list[k] \in T
      BY <1>1, <2>2
    <3> HIDE DEF T
    <3>2. QED BY <1>9, <2>1, <2>2, <3>1, AppendProperties
  <2>3. CASE ~(list[k].second > seq)
    BY <1>9, <2>1, <2>3
  <2>4. QED BY <2>2, <2>3
<1>10. \A k \in 0..n : kept[k] \in Seq(T)
  <2> HIDE DEF T
  <2> DEFINE Bad == {k \in 0..n : kept[k] \notin Seq(T)}
  <2>1. SUFFICES ASSUME Bad # {} PROVE FALSE
    OBVIOUS
  <2>2. Min(Bad) \in Bad /\ \A x \in Bad : Min(Bad) <= x
    <3>1. Bad \in SUBSET Nat
      BY <1>1
    <3> HIDE DEF Bad
    <3>2. QED BY <2>1, <3>1, MinOfNaturals
  <2> DEFINE m == Min(Bad)
  <2>3. m \in 1..n /\ kept[m] \notin Seq(T) /\ m - 1 \notin Bad /\ m - 1 \in 0..n
    BY <1>1, <1>8, <2>2
  <2>4. kept[m - 1] \in Seq(T)
    BY <2>3
  <2> HIDE DEF m
  <2>5. QED BY <2>3, <2>4, <1>9
<1>11. QED
  BY <1>1, <1>6, <1>10

SackInv == sackList \in Seq(Honest(Stored(data), nextRxSeq))

\* A segment added keeps every block honest.  If it leaves a gap, the first block
\* spans it.
LEMMA AddKeepsSack ==
  ASSUME RxInv, SackInv, NEW h, NEW t, NEW fin, Adds(h, t, fin)
  PROVE  /\ sackList' \in Seq(Honest(Stored(data'), nextRxSeq'))
         /\ nextRxSeq' = nextRxSeq => Stored(data') \ Stored(data) \subseteq Span(sackList'[1])
<1> DEFINE head == HeadSeq(h)
           tail == TailSeq(t)
           B == Stored(data')
           next1 == Hole(data', nextRxSeq)
           list1 == IF head > nextRxSeq THEN UpdateSackList(sackList, head, tail) ELSE sackList
<1> USE RxAssumption
<1>1. /\ head < tail
      /\ sackList' = IF next1 > nextRxSeq THEN ClearSackList(list1, next1) ELSE list1
      /\ nextRxSeq' = IF fin /\ next1 = StreamLen THEN StreamLen + 1 ELSE next1
  BY DEF Adds, Add, Advance
<1>2. /\ head \in Nat /\ nextRxSeq <= head /\ tail \in Int /\ tail <= StreamLen
  BY <1>1, CutSegment DEF Adds
<1>3. RxInv' /\ B = Stored(data) \cup (head .. (tail - 1))
  BY AddKeepsInv DEF Adds
<1>4. nextRxSeq \in 0..StreamLen
  BY DEF Adds, Finished, RxInv, InvTypes, InvRanges
<1>5. StreamLen \notin B
  <2>1. data' \in SUBSET Packet /\ \A p \in data' : p.seq + p.len <= StreamLen
    BY <1>3 DEF RxInv, InvTypes, InvRanges, End
  <2>2. \A p \in data' : End(p) <= StreamLen /\ End(p) \in Int
    BY <2>1 DEF End, Packet
  <2>3. QED BY <2>1, <2>2, StoredBytes
<1>6. next1 \in nextRxSeq..StreamLen /\ next1 \notin B
  BY <1>4, <1>5, HoleIsFirst
<1> HIDE DEF head, tail, next1
<1>7. sackList \in Seq(Honest(B, nextRxSeq))
  <2>1. Honest(Stored(data), nextRxSeq) \subseteq Honest(B, nextRxSeq)
    BY <1>3 DEF Honest
  <2>2. QED BY <2>1, SeqMonotonic DEF SackInv
<1>8. head > nextRxSeq => [first |-> head, second |-> tail] \in Honest(B, nextRxSeq)
  BY <1>1, <1>2, <1>3 DEF Honest, SackBlock, Span
<1> HIDE DEF B
<1>9. /\ list1 \in Seq(Honest(B, nextRxSeq))
      /\ head > nextRxSeq => head .. (tail - 1) \subseteq Span(list1[1])
  BY <1>7, <1>8, UpdateIsHonest
<1> HIDE DEF list1
<1>10. CASE next1 > nextRxSeq
  <2> DEFINE T == {b \in Honest(B, nextRxSeq) : b.second > next1}
  <2>1. sackList' \in Seq(T)
    BY <1>1, <1>9, <1>10, ClearKeepsAbove
  <2>2. T \subseteq Honest(B, nextRxSeq')
    <3> SUFFICES ASSUME NEW b \in T PROVE b \in Honest(B, nextRxSeq')
      OBVIOUS
    <3>1. /\ b \in SackBlock /\ b.first \in 0..StreamLen /\ b.second \in 0..StreamLen
          /\ b.first < b.second /\ Span(b) \subseteq B /\ b.second > next1
      BY DEF Honest, SackBlock
    <3>2. ~(b.first <= next1)
      BY <1>6, <3>1 DEF Span
    <3>3. nextRxSeq' = next1
      BY <1>1, <1>6, <3>1
    <3>4. nextRxSeq' < b.first
      BY <1>4, <1>6, <3>1, <3>2, <3>3
    <3>5. QED BY <3>1, <3>4 DEF Honest
  <2> HIDE DEF T
  <2>3. sackList' \in Seq(Honest(B, nextRxSeq'))
    BY <2>1, <2>2, SeqMonotonic
  <2>4. nextRxSeq' # nextRxSeq
    BY <1>1, <1>4, <1>6, <1>10
  <2>5. QED BY <2>3, <2>4 DEF B
<1>11. CASE ~(next1 > nextRxSeq)
  <2>1. next1 = nextRxSeq /\ nextRxSeq # StreamLen
    BY <1>1, <1>2, <1>4, <1>6, <1>11
  <2>2. sackList' = list1 /\ nextRxSeq' = nextRxSeq
    BY <1>1, <1>11, <2>1
  <2>3. head > nextRxSeq
    <3>1. head \in B
      BY <1>1, <1>2, <1>3
    <3>2. QED BY <1>2, <1>4, <1>6, <2>1, <3>1
  <2>4. QED BY <1>3, <1>9, <2>2, <2>3 DEF B
<1>12. QED BY <1>10, <1>11

LEMMA SackStaysHonest ==
  ASSUME RxInv, SackInv, [Next]_vars
  PROVE  SackInv'
<1> USE RxAssumption
<1>1. ASSUME NEW h, NEW t, NEW fin, Adds(h, t, fin)
      PROVE  sackList' \in Seq(Honest(Stored(data'), nextRxSeq'))
  BY <1>1, AddKeepsSack
<1>2. ASSUME BareFin
      PROVE  sackList' \in Seq(Honest(Stored(data'), nextRxSeq'))
  <2>1. data' = data /\ sackList' = sackList
    BY <1>2 DEF BareFin
  <2>2. Honest(Stored(data), nextRxSeq) \subseteq Honest(Stored(data), nextRxSeq')
    <3> SUFFICES ASSUME NEW b \in Honest(Stored(data), nextRxSeq), nextRxSeq' # nextRxSeq
                 PROVE  FALSE
      OBVIOUS
    <3>1. nextRxSeq = StreamLen
      BY <1>2 DEF BareFin
    <3>2. b.first \in 0..StreamLen /\ nextRxSeq < b.first
      BY DEF Honest, SackBlock
    <3>3. QED BY <3>1, <3>2
  <2>3. QED BY <2>1, <2>2, SeqMonotonic DEF SackInv
<1>3. ASSUME NEW n \in 1..StreamLen, Extract(n)
      PROVE  sackList' \in Seq(Honest(Stored(data'), nextRxSeq'))
  <2>1. sackList' = sackList /\ nextRxSeq' = nextRxSeq /\ gotFin' = gotFin
    BY <1>3 DEF Extract
  <2>2. /\ delivered' - delivered \in 1..StreamLen
        /\ Stored(data') = Stored(data) \ (delivered .. (delivered' - 1))
        /\ RxInv'
    BY <1>3, ExtractKeepsInv
  <2>3. delivered' <= nextRxSeq /\ delivered' \in Nat /\ nextRxSeq \in Nat
    <3>1. delivered' <= InSeqEnd' /\ delivered' \in Nat
      BY <2>2 DEF RxInv, InvTypes, InvRanges
    <3>2. InSeqEnd' = InSeqEnd
      BY <2>1 DEF InSeqEnd, Finished
    <3>3. InSeqEnd <= nextRxSeq /\ nextRxSeq \in Nat
      BY DEF InSeqEnd, Finished, RxInv, InvTypes
    <3>4. InSeqEnd \in Nat
      BY DEF InSeqEnd, Finished, RxInv, InvTypes
    <3>5. QED BY <3>1, <3>2, <3>3, <3>4
  <2>4. Honest(Stored(data), nextRxSeq) \subseteq Honest(Stored(data'), nextRxSeq)
    <3> SUFFICES ASSUME NEW b \in Honest(Stored(data), nextRxSeq)
                 PROVE  Span(b) \subseteq Stored(data')
      BY DEF Honest
    <3>1. b.first \in Nat /\ nextRxSeq < b.first /\ Span(b) \subseteq Stored(data)
      BY DEF Honest, SackBlock
    <3>2. QED BY <2>2, <2>3, <3>1 DEF Span
  <2>5. QED BY <2>1, <2>4, SeqMonotonic DEF SackInv
<1>4. ASSUME UNCHANGED vars
      PROVE  sackList' \in Seq(Honest(Stored(data'), nextRxSeq'))
  BY <1>4 DEF vars, SackInv
<1>5. sackList' \in Seq(Honest(Stored(data'), nextRxSeq'))
  BY <1>1, <1>2, <1>3, <1>4, StepsSorted
<1>6. Stored(data)' = Stored(data') /\ Honest(Stored(data), nextRxSeq)' = Honest(Stored(data'), nextRxSeq')
  BY DEF Stored, End, Honest, Span
<1>7. QED BY <1>5, <1>6 DEF SackInv

LEMMA SackAlwaysHonest == Spec => []SackInv
<1>1. Init => SackInv
  BY EmptySeq DEF Init, SackInv
<1>2. RxInv /\ SackInv /\ [Next]_vars => SackInv'
  BY SackStaysHonest
<1>3. QED
  BY <1>1, <1>2, RxInvariant, PTL DEF Spec

LEMMA SackInvMeans ==
  ASSUME SackInv
  PROVE  sackList \in Seq(SackBlock) /\ SackHonest
<1> DEFINE H == Honest(Stored(data), nextRxSeq)
<1>1. sackList \in Seq(H) /\ H \subseteq SackBlock
  BY DEF SackInv, Honest
<1>2. \A b \in H : /\ nextRxSeq < b.first /\ b.first < b.second
                   /\ b.first .. (b.second - 1) \subseteq Stored(data)
  BY DEF Honest, Span
<1> HIDE DEF H
<1>3. sackList \in Seq(SackBlock)
  BY <1>1, SeqMonotonic
<1>4. \A i \in DOMAIN sackList : sackList[i] \in H
  BY <1>1, ElementOfSeq, LenProperties
<1>5. QED
  BY <1>2, <1>3, <1>4 DEF SackHonest

\* A SACK block never names a byte the buffer does not hold, nor one that is
\* acknowledged: the sender may forget what it has been told of.
THEOREM SackIsHonest == Spec => []SackHonest
<1>1. SackInv => SackHonest
  BY SackInvMeans
<1>2. QED
  BY SackAlwaysHonest, <1>1, PTL

\* The first block holds the segment just stored out of order (RFC 2018).
THEOREM NewestBlockFirst == Spec => SackNewestFirst
<1> DEFINE Newest == LET new == Stored(data') \ Stored(data)
                     IN (new # {} /\ nextRxSeq' = nextRxSeq)
                          => new \subseteq sackList'[1].first .. (sackList'[1].second - 1)
<1>1. RxInv /\ SackInv /\ [Next]_vars => Newest
  <2> SUFFICES ASSUME RxInv, SackInv, [Next]_vars, nextRxSeq' = nextRxSeq,
                      Stored(data') \ Stored(data) # {}
               PROVE  Stored(data') \ Stored(data) \subseteq Span(sackList'[1])
    BY DEF Span
  <2>1. ASSUME NEW h, NEW t, NEW fin, Adds(h, t, fin)
        PROVE  Stored(data') \ Stored(data) \subseteq Span(sackList'[1])
    BY <2>1, AddKeepsSack
  <2>2. ~BareFin /\ ~UNCHANGED vars
    BY DEF BareFin, vars
  <2>3. ASSUME NEW n \in 1..StreamLen, Extract(n)
        PROVE  FALSE
    BY <2>3, ExtractKeepsInv
  <2>4. QED BY <2>1, <2>2, <2>3, StepsSorted
<1>2. RxInv /\ SackInv /\ [Next]_vars => [Newest]_vars
  BY <1>1
<1>3. QED
  BY <1>2, RxInvariant, SackAlwaysHonest, PTL DEF Spec, SackNewestFirst

\* The types of the buffer's members, for every stream.
THEOREM RxTypeCorrect == Spec => []RxTypeOK
<1>1. RxInv /\ SizeCounts /\ SackInv => RxTypeOK
  <2> SUFFICES ASSUME RxInv, SizeCounts, SackInv PROVE RxTypeOK
    OBVIOUS
  <2>1. IsFiniteSet(Stored(data))
    BY FinitelyStored, LengthsAddUp DEF RxInv, InvTypes, PayloadInPlace
  <2>2. size \in Nat
    BY <2>1, FS_CardinalityType DEF SizeCounts
  <2>3. availBytes \in Nat
    BY RxAssumption DEF RxInv, InvTypes, InvRanges, InSeqEnd, Finished
  <2>4. QED BY <2>2, <2>3, SackInvMeans DEF RxInv, InvTypes, RxTypeOK
<1>2. QED
  BY RxInvariant, SizeAlwaysCounts, SackAlwaysHonest, <1>1, PTL
=============================================================================
