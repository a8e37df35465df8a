------------------------ MODULE TcpRxBuffer_proofs ------------------------
(***************************************************************************)
(* For every stream, window and segment size: the receive buffer keeps     *)
(* each byte once and under its own sequence number, RCV.NXT is the first  *)
(* missing byte, the offered window does not shrink, and the buffer        *)
(* implements TcpByteStream.                                               *)
(***************************************************************************)
EXTENDS TcpRxBuffer, FiniteSetTheorems, TLAPS

(***************************************************************************)
(* Minima and holes                                                        *)
(***************************************************************************)

\* A non-empty set of naturals has a least element, which Min returns.
LEMMA MinOfNaturals ==
  ASSUME NEW S \in SUBSET Nat, S # {}
  PROVE  Min(S) \in S /\ \A x \in S : Min(S) <= x
<1> DEFINE R == {ss \in Nat \X Nat : ss[1] < ss[2]}
<1>1. IsWellFoundedOn(R, Nat)
  BY NatLessThanWellFounded, Zenon DEF OpToRel
<1>2. \E m \in S : \A y \in S : ~(<<y, m>> \in R)
  <2> HIDE DEF R
  <2>1. QED
    BY <1>1, WFMin
<1>3. PICK m \in S : \A y \in S : ~(<<y, m>> \in R)
  BY <1>2
<1>4. \A y \in S : m <= y
  <2>1. TAKE y \in S
  <2>2. ~(y < m)
    BY <1>3
  <2>3. QED
    BY <2>2
<1>5. QED
  BY <1>4 DEF Min

LEMMA StoredBytes ==
  ASSUME NEW D \in SUBSET Packet, NEW b
  PROVE  b \in Stored(D) <=> \E p \in D : b \in Int /\ p.seq <= b /\ b < End(p)
BY DEF Stored, Packet, End

\* Hole finds the first byte from s on that is not stored.
LEMMA HoleIsFirst ==
  ASSUME NEW D, StreamLen \notin Stored(D), NEW s \in 0..StreamLen
  PROVE  /\ Hole(D, s) \in s..StreamLen
         /\ Hole(D, s) \notin Stored(D)
         /\ \A b \in s..(Hole(D, s) - 1) : b \in Stored(D)
<1> DEFINE H == {b \in s..StreamLen : b \notin Stored(D)}
<1>1. H \in SUBSET Nat /\ H # {}
  BY RxAssumption
<1>2. Min(H) \in H /\ \A x \in H : Min(H) <= x
  BY <1>1, MinOfNaturals
<1>3. Hole(D, s) = Min(H)
  BY DEF Hole
<1> HIDE DEF H
<1>4. Hole(D, s) \in H /\ \A x \in H : Hole(D, s) <= x
  BY <1>2, <1>3
<1>5. QED
  BY <1>4, RxAssumption DEF H

(***************************************************************************)
(* The inductive invariant.  NextRxIsFirstMissing is not inductive alone:  *)
(* Extract removes bytes by counting from the first stored one, so the     *)
(* invariant adds that packets lie inside the stream, do not overlap, and  *)
(* that availBytes counts the in-sequence bytes.                           *)
(***************************************************************************)
InvTypes == /\ data \in SUBSET Packet
            /\ nextRxSeq \in 0..(StreamLen + 1)
            /\ gotFin \in BOOLEAN
            /\ delivered \in 0..StreamLen

InvRanges == /\ \A p \in data : End(p) <= StreamLen
             /\ nextRxSeq > StreamLen => gotFin
             /\ delivered <= InSeqEnd
             /\ availBytes = InSeqEnd - delivered

RxInv == InvTypes /\ InvRanges /\ PayloadInPlace /\ NextRxIsFirstMissing

LEMMA RxInvInit == Init => RxInv
<1> SUFFICES ASSUME Init PROVE RxInv
  OBVIOUS
<1>1. data = {} /\ nextRxSeq = 0 /\ gotFin = FALSE /\ availBytes = 0 /\ delivered = 0
  BY DEF Init
<1>2. Stored(data) = {}
  BY <1>1 DEF Stored
<1>3. ~Finished /\ InSeqEnd = 0
  BY <1>1 DEF Finished, InSeqEnd
<1>4. InvTypes
  <2>1. data \in SUBSET Packet
    BY <1>1
  <2>2. gotFin \in BOOLEAN
    BY <1>1
  <2>3. nextRxSeq \in 0..(StreamLen + 1) /\ delivered \in 0..StreamLen
    BY <1>1, RxAssumption
  <2>4. QED
    BY <2>1, <2>2, <2>3 DEF InvTypes
<1>5. InvRanges
  BY <1>1, <1>3, RxAssumption DEF InvRanges
<1>6. PayloadInPlace
  BY <1>1 DEF PayloadInPlace
<1>7. NextRxIsFirstMissing
  BY <1>1, <1>2, <1>3 DEF NextRxIsFirstMissing
<1>8. QED
  BY <1>4, <1>5, <1>6, <1>7 DEF RxInv

\* Where a segment is cut: its head is the first byte not held, its tail does
\* not reach into a packet that survives.
LEMMA CutSegment ==
  ASSUME RxInv, ~Finished,
         NEW h \in 0..StreamLen, NEW t \in 0..StreamLen,
         HeadSeq(h) < TailSeq(t)
  PROVE  /\ HeadSeq(h) \in Nat /\ TailSeq(t) \in Int
         /\ h <= HeadSeq(h) /\ nextRxSeq <= HeadSeq(h)
         /\ TailSeq(t) <= t /\ TailSeq(t) <= StreamLen
         /\ HeadSeq(h) \notin Stored(data)
         /\ \A p \in data \ Embedded(h, t) :
              End(p) <= HeadSeq(h) \/ TailSeq(t) <= p.seq
         /\ \A p \in Embedded(h, t) :
              HeadSeq(h) <= p.seq /\ End(p) <= TailSeq(t)
<1> DEFINE head == HeadSeq(h)
           tail == TailSeq(t)
           w == WindowTail(t)
           Ws == {t} \cup {p.seq + MaxBuffer : p \in data}
           Ts == {w} \cup {p.seq : p \in {q \in data : q.seq < w /\ w <= End(q)}}
<1> USE RxAssumption
<1>a. \A p \in data : /\ p.seq \in Nat /\ p.len \in Nat /\ p.len > 0
                      /\ End(p) = p.seq + p.len /\ End(p) <= StreamLen
  BY DEF RxInv, InvTypes, InvRanges, Packet, End
<1>b. \A p, q \in data : p # q => End(p) <= q.seq \/ End(q) <= p.seq
  BY DEF RxInv, PayloadInPlace
<1>c. nextRxSeq \in 0..StreamLen
  BY DEF RxInv, InvTypes, InvRanges, Finished
<1>d. StreamLen \notin Stored(data)
  BY <1>a, StoredBytes DEF RxInv, InvTypes
<1>1. /\ head \in MaxOf(h, nextRxSeq)..StreamLen
      /\ head \notin Stored(data)
  <2>1. MaxOf(h, nextRxSeq) \in 0..StreamLen
    BY <1>c DEF MaxOf
  <2>2. QED
    BY <2>1, <1>d, HoleIsFirst DEF HeadSeq
<1>2. w \in Nat /\ w <= t
  <2>1. Ws \in SUBSET Nat /\ t \in Ws
    BY <1>a
  <2>2. Min(Ws) \in Ws /\ Min(Ws) <= t
    <3> HIDE DEF Ws
    <3>1. QED BY <2>1, MinOfNaturals
  <2>3. QED
    BY <2>1, <2>2 DEF WindowTail
<1>3. tail \in Ts /\ \A x \in Ts : tail <= x
  <2>1. Ts \in SUBSET Nat /\ w \in Ts
    BY <1>a, <1>2
  <2>2. Min(Ts) \in Ts /\ \A x \in Ts : Min(Ts) <= x
    <3> HIDE DEF Ts
    <3>1. QED BY <2>1, MinOfNaturals
  <2>3. QED
    BY <2>2 DEF TailSeq
<1>4. tail <= w
  BY <1>3
<1>5. h <= head /\ nextRxSeq <= head
  BY <1>1, <1>c DEF MaxOf
<1>6. tail \in Nat
  BY <1>3, <1>2, <1>a
<1>7. ASSUME NEW p \in data, p \notin Embedded(h, t)
      PROVE  End(p) <= head \/ tail <= p.seq
  <2>1. ~(p.seq <= head /\ head < End(p))
    BY <1>1, <1>a, <1>5, StoredBytes DEF RxInv, InvTypes
  <2>2. CASE p.seq <= head
    BY <2>1, <2>2, <1>a, <1>1, <1>c DEF MaxOf
  <2>3. CASE head < p.seq
    <3>1. w <= End(p)
      BY <2>3, <1>7, <1>a, <1>2 DEF Embedded
    <3>2. CASE p.seq < w
      BY <3>1, <3>2, <1>3
    <3>3. CASE w <= p.seq
      BY <3>3, <1>4, <1>6, <1>2, <1>a
    <3>4. QED BY <3>2, <3>3, <1>a, <1>2
  <2>4. QED BY <2>2, <2>3, <1>a, <1>1, <1>c DEF MaxOf
<1>8. ASSUME NEW p \in Embedded(h, t)
      PROVE  head <= p.seq /\ End(p) <= tail
  <2>1. p \in data /\ head < p.seq /\ End(p) < w
    BY DEF Embedded
  <2>2. CASE tail = w
    BY <2>1, <2>2, <1>a, <1>2, <1>1, <1>c DEF MaxOf
  <2>3. CASE tail # w
    <3>1. PICK q \in data : q.seq < w /\ w <= End(q) /\ tail = q.seq
      BY <2>3, <1>3
    <3>2. q # p
      BY <3>1, <2>1, <1>a, <1>2
    <3>3. End(p) <= q.seq \/ End(q) <= p.seq
      BY <3>2, <2>1, <1>b
    <3>4. QED
      BY <3>1, <3>3, <2>1, <1>a, <1>2, <1>1, <1>c DEF MaxOf
  <2>4. QED BY <2>2, <2>3
<1>9. QED
  BY <1>1, <1>2, <1>4, <1>5, <1>6, <1>7, <1>8, <1>c DEF MaxOf

(***************************************************************************)
(* TcpRxBuffer::Add keeps the invariant and stores exactly the bytes of    *)
(* the trimmed segment.                                                    *)
(***************************************************************************)
LEMMA AddKeepsInv ==
  ASSUME RxInv, ~Finished,
         NEW h \in 0..StreamLen, NEW t \in 0..StreamLen, NEW fin \in BOOLEAN,
         Add(h, t, fin), gotFin' = fin, gotFin => fin
  PROVE  /\ RxInv'
         /\ delivered' = delivered
         /\ HeadSeq(h) \in Nat /\ TailSeq(t) \in Int
         /\ delivered <= HeadSeq(h) /\ TailSeq(t) <= StreamLen
         /\ Stored(data') = Stored(data) \cup (HeadSeq(h) .. (TailSeq(t) - 1))
<1> DEFINE head == HeadSeq(h)
           tail == TailSeq(t)
           gone == Embedded(h, t)
           kept == [seq |-> head, len |-> tail - head, src |-> head]
           next1 == Hole(data', nextRxSeq)
<1> USE RxAssumption
<1>1. /\ head < tail
      /\ data' = (data \ gone) \cup {Fragment([seq |-> h, len |-> t - h, src |-> h], head - h, tail - head)}
      /\ availBytes' = availBytes + (next1 - nextRxSeq)
      /\ nextRxSeq' = IF fin /\ next1 = StreamLen THEN StreamLen + 1 ELSE next1
      /\ delivered' = delivered
  BY DEF Add, Advance
<1>2. /\ head \in Nat /\ tail \in Int
      /\ h <= head /\ nextRxSeq <= head
      /\ tail <= t /\ tail <= StreamLen
      /\ head \notin Stored(data)
      /\ \A p \in data \ gone : End(p) <= head \/ tail <= p.seq
      /\ \A p \in gone : head <= p.seq /\ End(p) <= tail
  BY <1>1, CutSegment
<1> HIDE DEF head, tail, gone
<1>3. data' = (data \ gone) \cup {kept}
  BY <1>1, <1>2 DEF Fragment
<1>4. nextRxSeq \in 0..StreamLen /\ InSeqEnd = nextRxSeq /\ delivered \in 0..StreamLen
  BY DEF RxInv, InvTypes, InvRanges, Finished, InSeqEnd
<1>5. kept \in Packet /\ End(kept) = tail
  BY <1>1, <1>2 DEF Packet, End
<1>6. data \in SUBSET Packet /\ data' \in SUBSET Packet /\ gone \subseteq data
  BY <1>3, <1>5 DEF RxInv, InvTypes, gone, Embedded
<1>7. \A p \in data : /\ p.seq \in Nat /\ p.len \in Nat /\ p.len > 0
                      /\ End(p) = p.seq + p.len /\ End(p) <= StreamLen
                      /\ p.src = p.seq
  BY <1>6 DEF RxInv, InvRanges, PayloadInPlace, Packet, End
<1>8. Stored(data') = Stored(data) \cup (head .. (tail - 1))
  <2>1. ASSUME NEW b \in Stored(data')
        PROVE  b \in Stored(data) \cup (head .. (tail - 1))
    <3>1. PICK p \in data' : b \in Int /\ p.seq <= b /\ b < End(p)
      BY <1>6, StoredBytes
    <3>2. QED
      BY <3>1, <1>3, <1>5, <1>6, <1>2, StoredBytes
  <2>2. ASSUME NEW b \in Stored(data)
        PROVE  b \in Stored(data')
    <3>1. PICK p \in data : b \in Int /\ p.seq <= b /\ b < End(p)
      BY <1>6, StoredBytes
    <3>2. CASE p \in gone
      <4>1. kept \in data' /\ kept.seq <= b /\ b < End(kept)
        BY <3>1, <3>2, <1>2, <1>3, <1>5, <1>7
      <4>2. QED BY <4>1, <3>1, <1>6, StoredBytes
    <3>3. CASE p \notin gone
      BY <3>1, <3>3, <1>3, <1>6, StoredBytes
    <3>4. QED BY <3>2, <3>3
  <2>3. ASSUME NEW b \in head .. (tail - 1)
        PROVE  b \in Stored(data')
    <3>1. kept \in data' /\ kept.seq <= b /\ b < End(kept) /\ b \in Int
      BY <1>2, <1>3, <1>5
    <3>2. QED BY <3>1, <1>6, StoredBytes
  <2>4. QED BY <2>1, <2>2, <2>3
<1>9. StreamLen \notin Stored(data) /\ StreamLen \notin Stored(data')
  BY <1>6, <1>7, <1>8, <1>2, StoredBytes
<1>10. /\ next1 \in nextRxSeq..StreamLen
       /\ next1 \notin Stored(data')
       /\ \A b \in nextRxSeq..(next1 - 1) : b \in Stored(data')
  BY <1>4, <1>9, HoleIsFirst
<1> HIDE DEF next1
<1>11. nextRxSeq' \in 0..(StreamLen + 1) /\ InSeqEnd' = next1
  BY <1>1, <1>4, <1>10 DEF InSeqEnd, Finished
<1>12. InvTypes'
  BY <1>1, <1>4, <1>6, <1>11 DEF InvTypes
<1>13. InvRanges'
  <2>1. \A p \in data' : End(p) <= StreamLen
    BY <1>2, <1>3, <1>5, <1>7
  <2>2. nextRxSeq' > StreamLen => gotFin'
    BY <1>1, <1>4, <1>10
  <2>3. delivered' <= InSeqEnd' /\ availBytes' = InSeqEnd' - delivered'
    BY <1>1, <1>4, <1>10, <1>11 DEF RxInv, InvRanges
  <2>4. (\A p \in data : End(p) <= StreamLen)'
    BY <2>1 DEF End
  <2>5. QED BY <2>2, <2>3, <2>4 DEF InvRanges
<1>14. PayloadInPlace'
  <2>1. \A p \in data' : p.src = p.seq
    BY <1>3, <1>7
  <2>2. \A p, q \in data' : p # q => End(p) <= q.seq \/ End(q) <= p.seq
    <3> SUFFICES ASSUME NEW p \in data', NEW q \in data', p # q
                 PROVE  End(p) <= q.seq \/ End(q) <= p.seq
      OBVIOUS
    <3>1. CASE p = kept
      BY <3>1, <1>2, <1>3, <1>5
    <3>2. CASE q = kept
      BY <3>2, <1>2, <1>3, <1>5
    <3>3. CASE p # kept /\ q # kept
      BY <3>3, <1>3 DEF RxInv, PayloadInPlace
    <3>4. QED BY <3>1, <3>2, <3>3
  <2>3. QED BY <2>1, <2>2 DEF PayloadInPlace, End
<1>15. NextRxIsFirstMissing'
  <2>1. \A b \in delivered .. (next1 - 1) : b \in Stored(data')
    BY <1>4, <1>8, <1>10 DEF RxInv, NextRxIsFirstMissing
  <2>2. \A b \in Stored(data') : b >= delivered
    BY <1>2, <1>4, <1>8 DEF RxInv, NextRxIsFirstMissing, InvRanges
  <2>3. Stored(data)' = Stored(data')
    BY DEF Stored, End
  <2>4. QED BY <2>1, <2>2, <2>3, <1>1, <1>10, <1>11 DEF NextRxIsFirstMissing
<1>16. delivered <= head
  BY <1>2, <1>4 DEF RxInv, InvRanges
<1>17. QED
  BY <1>1, <1>2, <1>8, <1>12, <1>13, <1>14, <1>15, <1>16 DEF RxInv, head, tail

(***************************************************************************)
(* TcpRxBuffer::Extract keeps the invariant and takes out exactly the next *)
(* bytes of the stream.                                                    *)
(***************************************************************************)
LEMMA ExtractKeepsInv ==
  ASSUME RxInv, NEW maxSize \in 1..StreamLen, Extract(maxSize)
  PROVE  /\ RxInv'
         /\ delivered' - delivered \in 1..StreamLen
         /\ delivered .. (delivered' - 1) \subseteq Stored(data)
         /\ Stored(data') = Stored(data) \ (delivered .. (delivered' - 1))
<1> DEFINE n == MinOf(maxSize, availBytes)
           first == FirstSeq(data)
           cut == first + n
           rest(p) == Fragment(p, cut - p.seq, End(p) - cut)
<1> USE RxAssumption
<1>1. /\ n > 0
      /\ data' = {p \in data : p.seq >= cut} \cup
                 {rest(p) : p \in {q \in data : q.seq < cut /\ cut < End(q)}}
      /\ availBytes' = availBytes - n
      /\ delivered' = delivered + n
      /\ nextRxSeq' = nextRxSeq /\ gotFin' = gotFin
  BY DEF Extract
<1>2. /\ data \in SUBSET Packet
      /\ delivered \in 0..StreamLen /\ nextRxSeq \in 0..(StreamLen + 1)
      /\ InSeqEnd \in 0..StreamLen
      /\ availBytes = InSeqEnd - delivered
  BY DEF RxInv, InvTypes, InvRanges, InSeqEnd, Finished
<1>3. n \in Nat /\ n <= availBytes /\ n <= StreamLen
  BY <1>1, <1>2 DEF MinOf
<1>4. \A p \in data : /\ p.seq \in Nat /\ p.len \in Nat /\ p.len > 0
                      /\ End(p) = p.seq + p.len /\ End(p) <= StreamLen
                      /\ p.src = p.seq
  BY <1>2 DEF RxInv, InvRanges, PayloadInPlace, Packet, End
<1>5. first = delivered
  <2>1. PICK p \in data : p.seq <= delivered /\ delivered < End(p)
    <3>1. delivered \in Stored(data)
      BY <1>1, <1>2, <1>3 DEF RxInv, NextRxIsFirstMissing
    <3>2. QED BY <3>1, <1>2, StoredBytes
  <2>2. \A q \in data : q.seq >= delivered
    <3> SUFFICES ASSUME NEW q \in data PROVE q.seq >= delivered
      OBVIOUS
    <3>1. q.seq \in Stored(data)
      BY <1>2, <1>4, StoredBytes
    <3>2. QED BY <3>1 DEF RxInv, NextRxIsFirstMissing
  <2> DEFINE S == {q.seq : q \in data}
  <2>3. S \in SUBSET Nat /\ delivered \in S /\ \A x \in S : x >= delivered
    BY <2>1, <2>2, <1>2, <1>4
  <2> HIDE DEF S
  <2>4. Min(S) \in S /\ \A x \in S : Min(S) <= x
    BY <2>3, MinOfNaturals
  <2>5. Min(S) \in Nat /\ Min(S) >= delivered /\ Min(S) <= delivered
    BY <2>3, <2>4
  <2>6. Min(S) = delivered
    BY <2>5, <1>2
  <2>7. QED BY <2>6 DEF FirstSeq, S
<1> HIDE DEF n, first
<1>6. cut = delivered + n /\ cut \in Nat /\ cut <= InSeqEnd
  BY <1>2, <1>3, <1>5
<1> HIDE DEF cut
<1>7. \A p \in data : p.seq < cut /\ cut < End(p) =>
        /\ rest(p) \in Packet /\ rest(p).seq = cut /\ rest(p).src = cut
        /\ End(rest(p)) = End(p)
  BY <1>2, <1>4, <1>6 DEF Fragment, Packet, End
<1> HIDE DEF rest
<1>8. data' \in SUBSET Packet
  BY <1>1, <1>2, <1>7
<1>9. \A q \in data' : /\ q.seq \in Nat /\ q.len \in Nat /\ q.len > 0
                       /\ End(q) = q.seq + q.len
  BY <1>8 DEF Packet, End
\* Every packet left is the end, from cut on, of a packet that was stored.
<1>10. \A q \in data' : \E p \in data :
         /\ End(q) = End(p) /\ p.seq <= q.seq /\ q.seq >= cut /\ q.src = q.seq
         /\ cut < End(p)
         /\ (p.seq >= cut /\ q = p) \/ (p.seq < cut /\ q = rest(p) /\ q.seq = cut)
  BY <1>1, <1>4, <1>6, <1>7
<1>11. delivered .. (delivered' - 1) \subseteq Stored(data)
  BY <1>1, <1>2, <1>3 DEF RxInv, NextRxIsFirstMissing
<1>12. Stored(data') = Stored(data) \ (delivered .. (delivered' - 1))
  <2>1. ASSUME NEW b \in Stored(data')
        PROVE  b \in Stored(data) /\ b >= cut /\ b \in Int
    <3>1. PICK q \in data' : b \in Int /\ q.seq <= b /\ b < End(q)
      BY <1>8, StoredBytes
    <3>2. PICK p \in data : End(q) = End(p) /\ p.seq <= q.seq /\ q.seq >= cut
      BY <1>10
    <3>3. p.seq <= b /\ b < End(p)
      BY <3>1, <3>2, <1>4, <1>9
    <3>4. QED BY <3>1, <3>2, <3>3, <1>2, <1>6, <1>9, StoredBytes
  <2>2. ASSUME NEW b \in Stored(data), b >= cut
        PROVE  b \in Stored(data')
    <3>1. PICK p \in data : b \in Int /\ p.seq <= b /\ b < End(p)
      BY <1>2, StoredBytes
    <3>2. CASE p.seq >= cut
      BY <3>1, <3>2, <1>1, <1>8, StoredBytes
    <3>3. CASE p.seq < cut
      <4>1. cut < End(p)
        BY <3>1, <2>2, <1>4, <1>6
      <4>2. rest(p) \in data' /\ rest(p).seq <= b /\ b < End(rest(p))
        BY <3>1, <3>3, <4>1, <2>2, <1>1, <1>7
      <4>3. QED BY <4>2, <3>1, <1>8, StoredBytes
    <3>4. QED BY <3>2, <3>3, <1>4, <1>6
  <2>3. \A b \in Stored(data) : b \in Int /\ b >= delivered
    BY <1>2, StoredBytes DEF RxInv, NextRxIsFirstMissing
  <2>4. QED
    BY <2>1, <2>2, <2>3, <1>1, <1>2, <1>3, <1>6
<1>13. InSeqEnd' = InSeqEnd
  BY <1>1 DEF InSeqEnd, Finished
<1>14. InvTypes'
  BY <1>1, <1>2, <1>3, <1>8 DEF RxInv, InvTypes
<1>15. InvRanges'
  <2>1. \A q \in data' : End(q) <= StreamLen
    BY <1>10, <1>4
  <2>2. (\A q \in data : End(q) <= StreamLen)'
    BY <2>1 DEF End
  <2>3. QED
    BY <2>2, <1>1, <1>2, <1>3, <1>13 DEF RxInv, InvTypes, InvRanges
<1>16. PayloadInPlace'
  <2>1. \A q \in data' : q.src = q.seq
    BY <1>10
  <2>2. ASSUME NEW q \in data', NEW r \in data', q # r
        PROVE  End(q) <= r.seq \/ End(r) <= q.seq
    <3>1. PICK p \in data : /\ End(q) = End(p) /\ p.seq <= q.seq
                            /\ (p.seq >= cut /\ q = p) \/ (p.seq < cut /\ q = rest(p) /\ q.seq = cut)
      BY <1>10
    <3>2. PICK s \in data : /\ End(r) = End(s) /\ s.seq <= r.seq
                            /\ (s.seq >= cut /\ r = s) \/ (s.seq < cut /\ r = rest(s) /\ r.seq = cut)
      BY <1>10
    <3>3. p # s
      BY <3>1, <3>2, <2>2, <1>4, <1>6
    <3>4. End(p) <= s.seq \/ End(s) <= p.seq
      BY <3>3 DEF RxInv, PayloadInPlace
    <3>5. QED BY <3>1, <3>2, <3>4, <1>4, <1>9
  <2>3. QED BY <2>1, <2>2 DEF PayloadInPlace, End
<1>17. NextRxIsFirstMissing'
  <2>1. Stored(data)' = Stored(data')
    BY DEF Stored, End
  <2>2. \A b \in Stored(data') : b >= delivered'
    BY <1>1, <1>2, <1>3, <1>12, StoredBytes DEF RxInv, NextRxIsFirstMissing
  <2>3. QED
    BY <2>1, <2>2, <1>1, <1>2, <1>3, <1>12, <1>13 DEF RxInv, NextRxIsFirstMissing
<1>18. delivered' - delivered \in 1..StreamLen
  BY <1>1, <1>2, <1>3
<1>19. RxInv'
  BY <1>14, <1>15, <1>16, <1>17 DEF RxInv
<1>20. QED
  BY <1>11, <1>12, <1>18, <1>19

(***************************************************************************)
(* A FIN that brings no new byte (PeerClose) keeps the invariant.          *)
(***************************************************************************)
LEMMA BareFinKeepsInv ==
  ASSUME RxInv, ~Finished, gotFin' = TRUE,
         nextRxSeq' = IF nextRxSeq = StreamLen THEN StreamLen + 1 ELSE nextRxSeq,
         UNCHANGED <<data, availBytes, delivered>>
  PROVE  RxInv'
<1>1. nextRxSeq \in 0..StreamLen /\ InSeqEnd = nextRxSeq /\ InSeqEnd' = nextRxSeq
  BY RxAssumption DEF RxInv, InvTypes, InvRanges, Finished, InSeqEnd
<1>2. InvTypes'
  BY <1>1, RxAssumption DEF RxInv, InvTypes
<1>3. InvRanges'
  BY <1>1, RxAssumption DEF RxInv, InvTypes, InvRanges, End
<1>4. PayloadInPlace' /\ NextRxIsFirstMissing'
  BY <1>1 DEF RxInv, PayloadInPlace, NextRxIsFirstMissing, Stored, End
<1>5. QED
  BY <1>2, <1>3, <1>4 DEF RxInv

\* What a step does to the bytes held and read: the invariant survives, and
\* either bytes not yet read are added or the next ones are taken out.
LEMMA StepKeepsInv ==
  ASSUME RxInv, [Next]_vars
  PROVE  /\ RxInv'
         /\ \/ /\ delivered' = delivered
               /\ \E S \in SUBSET (delivered .. (StreamLen - 1)) :
                     Stored(data') = Stored(data) \cup S
            \/ /\ delivered' - delivered \in 1..StreamLen
               /\ delivered .. (delivered' - 1) \subseteq Stored(data)
               /\ Stored(data') = Stored(data) \ (delivered .. (delivered' - 1))
<1> USE RxAssumption
<1>0. delivered \in 0..StreamLen
  BY DEF RxInv, InvTypes
<1>1. ASSUME NEW h \in 0..StreamLen, NEW t \in 0..StreamLen, DataSegment(h, t)
      PROVE  /\ RxInv'
             /\ delivered' = delivered
             /\ \E S \in SUBSET (delivered .. (StreamLen - 1)) :
                  Stored(data') = Stored(data) \cup S
  <2>1. ~Finished /\ Add(h, t, gotFin) /\ gotFin' = gotFin /\ gotFin \in BOOLEAN
    BY <1>1 DEF DataSegment, RxInv, InvTypes
  <2>2. /\ RxInv' /\ delivered' = delivered
        /\ HeadSeq(h) \in Nat /\ TailSeq(t) \in Int
        /\ delivered <= HeadSeq(h) /\ TailSeq(t) <= StreamLen
        /\ Stored(data') = Stored(data) \cup (HeadSeq(h) .. (TailSeq(t) - 1))
    BY <2>1, AddKeepsInv
  <2>3. HeadSeq(h) .. (TailSeq(t) - 1) \in SUBSET (delivered .. (StreamLen - 1))
    BY <2>2, <1>0
  <2>4. QED BY <2>2, <2>3
<1>2. ASSUME NEW h \in 0..StreamLen, FinSegment(h)
      PROVE  /\ RxInv'
             /\ delivered' = delivered
             /\ \E S \in SUBSET (delivered .. (StreamLen - 1)) :
                  Stored(data') = Stored(data) \cup S
  <2>1. CASE Add(h, StreamLen, TRUE)
    <3>1. /\ ~Finished /\ gotFin' = TRUE
          /\ StreamLen \in 0..StreamLen /\ TRUE \in BOOLEAN /\ (gotFin => TRUE)
      BY <1>2 DEF FinSegment
    <3>2. /\ RxInv' /\ delivered' = delivered
          /\ HeadSeq(h) \in Nat /\ TailSeq(StreamLen) \in Int
          /\ delivered <= HeadSeq(h) /\ TailSeq(StreamLen) <= StreamLen
          /\ Stored(data') = Stored(data) \cup (HeadSeq(h) .. (TailSeq(StreamLen) - 1))
      BY <2>1, <3>1, AddKeepsInv
    <3>3. HeadSeq(h) .. (TailSeq(StreamLen) - 1) \in SUBSET (delivered .. (StreamLen - 1))
      BY <3>2, <1>0
    <3>4. QED BY <3>2, <3>3
  <2>2. CASE ~Add(h, StreamLen, TRUE)
    <3>1. /\ ~Finished /\ gotFin' = TRUE
          /\ nextRxSeq' = IF nextRxSeq = StreamLen THEN StreamLen + 1 ELSE nextRxSeq
          /\ UNCHANGED <<data, availBytes, delivered>>
      BY <1>2, <2>2 DEF FinSegment
    <3>2. RxInv' /\ delivered' = delivered /\ data' = data
      BY <3>1, BareFinKeepsInv
    <3>3. Stored(data') = Stored(data) \cup {}
      BY <3>2
    <3>4. QED BY <3>2, <3>3
  <2>3. QED BY <2>1, <2>2
<1>3. ASSUME NEW n \in 1..StreamLen, Extract(n)
      PROVE  /\ RxInv'
             /\ delivered' - delivered \in 1..StreamLen
             /\ delivered .. (delivered' - 1) \subseteq Stored(data)
             /\ Stored(data') = Stored(data) \ (delivered .. (delivered' - 1))
  BY <1>3, ExtractKeepsInv
<1>4. CASE UNCHANGED vars
  <2>1. RxInv'
    BY <1>4 DEF vars, RxInv, InvTypes, InvRanges, PayloadInPlace,
       NextRxIsFirstMissing, InSeqEnd, Finished, Stored, End
  <2>2. Stored(data') = Stored(data) \cup {} /\ delivered' = delivered
    BY <1>4 DEF vars
  <2>3. QED BY <2>1, <2>2
<1>5. QED
  BY <1>1, <1>2, <1>3, <1>4 DEF Next

THEOREM RxInvariant == Spec => []RxInv
<1>1. RxInv /\ [Next]_vars => RxInv'
  BY StepKeepsInv
<1>2. QED
  BY RxInvInit, <1>1, PTL DEF Spec

(***************************************************************************)
(* Theorems                                                                *)
(***************************************************************************)

\* However segments are cut, repeated and reordered, no byte is ever stored
\* twice or under another sequence number.
THEOREM PayloadStaysInPlace == Spec => []PayloadInPlace
<1>1. RxInv => PayloadInPlace
  BY DEF RxInv
<1>2. QED
  BY RxInvariant, <1>1, PTL

\* The acknowledgement number the receiver sends is the first missing byte.
THEOREM AckIsFirstMissing == Spec => []NextRxIsFirstMissing
<1>1. RxInv => NextRxIsFirstMissing
  BY DEF RxInv
<1>2. QED
  BY RxInvariant, <1>1, PTL

LEMMA ContentIsStored ==
  ASSUME RxInv
  PROVE  Content(data) = Stored(data)
<1>1. \A p \in data : p.src .. (p.src + p.len - 1) = p.seq .. (End(p) - 1)
  BY DEF RxInv, InvTypes, PayloadInPlace, Packet, End
<1>2. {p.src .. (p.src + p.len - 1) : p \in data} = {p.seq .. (End(p) - 1) : p \in data}
  BY <1>1, Zenon
<1>3. QED
  BY <1>2 DEF Content, Stored

\* The receive buffer implements the byte stream: what it accepts is handed
\* over once, in order and without loss.
THEOREM ImplementsByteStream == Spec => ImplementsStream
<1>1. Init => Stream!StreamInit
  BY DEF Init, Stream!StreamInit, Content
<1>2. RxInv /\ RxInv' /\ [Next]_vars => [Stream!StreamNext]_(Stream!streamVars)
  <2> SUFFICES ASSUME RxInv, RxInv', [Next]_vars
               PROVE  Stream!StreamNext
    BY DEF Stream!StreamNext
  <2>1. Content(data) = Stored(data)
    BY ContentIsStored
  <2>2. Content(data') = Stored(data')
    <3>1. \A p \in data' : p.src .. (p.src + p.len - 1) = p.seq .. (End(p) - 1)
      BY DEF RxInv, InvTypes, PayloadInPlace, Packet, End
    <3>2. {p.src .. (p.src + p.len - 1) : p \in data'} = {p.seq .. (End(p) - 1) : p \in data'}
      BY <3>1, Zenon
    <3>3. QED BY <3>2 DEF Content, Stored
  <2>3. CASE /\ delivered' = delivered
             /\ \E S \in SUBSET (delivered .. (StreamLen - 1)) :
                   Stored(data') = Stored(data) \cup S
    BY <2>1, <2>2, <2>3 DEF Stream!StreamNext, Stream!Accept
  <2>4. CASE /\ delivered' - delivered \in 1..StreamLen
             /\ delivered .. (delivered' - 1) \subseteq Stored(data)
             /\ Stored(data') = Stored(data) \ (delivered .. (delivered' - 1))
    <3> DEFINE n == delivered' - delivered
    <3>0. delivered \in Int /\ delivered' \in Int
      BY DEF RxInv, InvTypes
    <3>1. n \in 1..StreamLen
      BY <2>4
    <3>a. \A a, b \in Int : a = b + (a - b) /\ a - 1 = b + (a - b) - 1
      OBVIOUS
    <3>2. delivered' = delivered + n /\ delivered' - 1 = delivered + n - 1
      BY <3>0, <3>a
    <3> HIDE DEF n
    <3>3. Stream!Deliver(n)
      BY <3>1, <3>2, <2>1, <2>2, <2>4 DEF Stream!Deliver
    <3>4. QED BY <3>1, <3>3 DEF Stream!StreamNext
  <2>5. QED
    BY <2>3, <2>4, StepKeepsInv
<1>3. QED
  BY <1>1, <1>2, RxInvariant, PTL DEF Spec, ImplementsStream, Stream!StreamSpec
\* As long as no FIN has come, the window reaches MaxBuffer past what the
\* application has read, whichever way MaxRxSequence computes it.
LEMMA EdgeFromDelivered ==
  ASSUME RxInv, ~gotFin
  PROVE  /\ MaxRxSequence = delivered + MaxBuffer
         /\ delivered \in Nat
<1> USE RxAssumption
<1>1. /\ data \in SUBSET Packet /\ delivered \in Nat /\ nextRxSeq \in Nat
      /\ InSeqEnd = nextRxSeq /\ delivered <= nextRxSeq
  BY DEF RxInv, InvTypes, InvRanges, InSeqEnd, Finished
<1>2. \A p \in data : p.seq \in Nat /\ delivered <= p.seq
  <2>1. ASSUME NEW p \in data
        PROVE  p.seq \in Nat /\ delivered <= p.seq
    <3>1. p.seq \in Nat /\ p.seq < End(p)
      BY <1>1 DEF Packet, End
    <3>2. p.seq \in Stored(data)
      BY <3>1, <1>1, StoredBytes
    <3>3. QED
      BY <3>1, <3>2 DEF RxInv, NextRxIsFirstMissing
  <2>2. QED BY <2>1
<1>3. CASE \E p \in data : p.seq < nextRxSeq
  <2>1. delivered < nextRxSeq
    BY <1>1, <1>2, <1>3
  <2>2. delivered \in Stored(data)
    BY <1>1, <2>1 DEF RxInv, NextRxIsFirstMissing
  <2>3. PICK p \in data : p.seq <= delivered
    BY <1>1, <2>2, StoredBytes
  <2>4. p.seq = delivered
    BY <1>1, <1>2, <2>3
  <2> DEFINE S == {q.seq : q \in data}
  <2>5. S \in SUBSET Nat /\ delivered \in S /\ \A x \in S : delivered <= x
    BY <1>2, <2>4
  <2>6. Min(S) \in S /\ \A x \in S : Min(S) <= x
    BY <2>5, MinOfNaturals
  <2> HIDE DEF S
  <2>7. Min(S) = delivered
    <3>1. Min(S) \in Nat /\ Min(S) <= delivered /\ delivered <= Min(S)
      BY <2>5, <2>6, Zenon
    <3>2. QED BY <3>1, <1>1
  <2>8. FirstSeq(data) = delivered
    BY <2>7 DEF FirstSeq, S
  <2>9. QED
    BY <1>1, <1>3, <2>8 DEF MaxRxSequence
<1>4. CASE ~(\E p \in data : p.seq < nextRxSeq)
  <2>1. delivered = nextRxSeq
    <3>1. SUFFICES ASSUME delivered < nextRxSeq PROVE FALSE
      BY <1>1
    <3>2. delivered \in Stored(data)
      BY <1>1, <3>1 DEF RxInv, NextRxIsFirstMissing
    <3>3. PICK p \in data : p.seq <= delivered
      BY <1>1, <3>2, StoredBytes
    <3>4. QED BY <1>1, <1>2, <1>4, <3>1, <3>3
  <2>2. QED
    BY <1>1, <1>4, <2>1 DEF MaxRxSequence
<1>5. QED BY <1>3, <1>4

\* The right edge of the offered window never moves back: the sender may have
\* filled it already.
THEOREM OfferedEdgeStays == Spec => WindowNeverShrinks
<1> DEFINE Edge == ~gotFin => MaxRxSequence = delivered + MaxBuffer /\ delivered \in Nat
<1>1. RxInv => Edge
  BY EdgeFromDelivered
<1>2. RxInv /\ Edge /\ Edge' /\ [Next]_vars
        => [~gotFin' => MaxRxSequence' >= MaxRxSequence]_vars
  <2> SUFFICES ASSUME RxInv, Edge, Edge', [Next]_vars, ~gotFin'
               PROVE  MaxRxSequence' >= MaxRxSequence
    OBVIOUS
  <2>1. ~gotFin
    BY DEF Next, DataSegment, FinSegment, Extract, vars
  <2>2. delivered' >= delivered
    BY <2>1, StepKeepsInv
  <2>3. QED
    BY <2>1, <2>2, RxAssumption
<1>3. QED
  BY RxInvariant, <1>1, <1>2, PTL DEF Spec, WindowNeverShrinks
=============================================================================
