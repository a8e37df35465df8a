---------------------------- MODULE TcpRxBuffer ----------------------------
(***************************************************************************)
(* The receive buffer of an ns-3 TCP socket (tcp-rx-buffer.cc) together    *)
(* with the checks TcpSocketBase makes before it calls it: out-of-order    *)
(* segments are stored, trimmed against what is already there, reported in *)
(* a bounded list of SACK blocks, and read in order.                       *)
(*                                                                         *)
(* Sequence number k is the k-th byte of the peer's stream (the SYN is     *)
(* over, nothing wraps).  A stored packet keeps, beside its key and size,  *)
(* the stream position `src' of its first payload byte, so that a wrong    *)
(* fragment shows.                                                         *)
(***************************************************************************)
EXTENDS Integers, FiniteSetsExt, SequencesExt

CONSTANTS StreamLen,   \* bytes the peer sends before its FIN
          MaxBuffer,   \* m_maxBuffer, the receive window
          MaxSegment,  \* the largest segment the peer cuts its stream into
          Oversend,    \* bytes past the offered window a segment may reach
                       \* (0: the sender keeps to the window)
          MaxSackBlocks \* the blocks the list keeps: 4 in the code, fewer in
                       \* a small instance, so that the limit is met

ASSUME RxAssumption == /\ StreamLen \in Nat
                       /\ MaxBuffer \in Nat \ {0}
                       /\ MaxSegment \in Nat \ {0}
                       /\ Oversend \in Nat
                       /\ MaxSackBlocks \in 1..4

VARIABLES data,        \* m_data: the stored packets
          nextRxSeq,   \* m_nextRxSeq
          gotFin,      \* m_gotFin; then m_finSeq = StreamLen
          size,        \* m_size
          availBytes,  \* m_availBytes
          sackList,    \* m_sackList
          delivered    \* bytes handed to the application so far

vars == <<data, nextRxSeq, gotFin, size, availBytes, sackList, delivered>>

Packet == [seq : 0..StreamLen, len : 1..StreamLen, src : 0..StreamLen]

SackBlock == [first : 0..StreamLen, second : 0..StreamLen]

(***************************************************************************)
(* Packets                                                                 *)
(***************************************************************************)
End(p) == p.seq + p.len

\* Mutant: the payload is not advanced with the key
MutantFragment(p, start, length) ==
  [seq |-> p.seq + start, len |-> length, src |-> p.src]

\* Packet::CreateFragment, stored under the key it starts at
Fragment(p, start, length) ==
  [seq |-> p.seq + start, len |-> length, src |-> p.src + start]

Stored(D) == UNION {p.seq .. (End(p) - 1) : p \in D}

\* The positions whose payload is in the buffer
Content(D) == UNION {p.src .. (p.src + p.len - 1) : p \in D}

FirstSeq(D) == Min({p.seq : p \in D})

\* The first byte from s on that no packet of D holds; StreamLen never is
Hole(D, s) == Min({b \in s..StreamLen : b \notin Stored(D)})

MaxOf(a, b) == IF a >= b THEN a ELSE b
MinOf(a, b) == IF a <= b THEN a ELSE b

(***************************************************************************)
(* Accessors                                                               *)
(***************************************************************************)
\* Mutant: the window is the free space, counted from RCV.NXT
MutantMaxRxFree == IF gotFin THEN StreamLen ELSE nextRxSeq + MaxBuffer - size

MaxRxSequence ==
  IF gotFin THEN StreamLen
  ELSE IF \E p \in data : p.seq < nextRxSeq THEN FirstSeq(data) + MaxBuffer
  ELSE nextRxSeq + MaxBuffer

\* Mutant: a FIN counts as the end although bytes before it are missing
MutantFinished == gotFin

Finished == gotFin /\ StreamLen < nextRxSeq

\* TcpSocketBase::OutOfRange in the states that still receive data
OutOfRange(h, t) == t < nextRxSeq \/ MaxRxSequence <= h

(***************************************************************************)
(* The SACK list: most recent block first, blocks that touch merged        *)
(***************************************************************************)
Touch(a, b) == a.first = b.second \/ a.second = b.first

Joined(a, b) == IF a.first = b.second
                THEN [first |-> b.first, second |-> a.second]
                ELSE [first |-> a.first, second |-> b.second]

Touching(list) == {i \in 2..Len(list) : Touch(list[1], list[i])}

\* One merge: the front block with the first block that touches it
MergeFront(list) ==
  LET i == Min(Touching(list))
  IN IF Touching(list) = {} THEN list
     ELSE <<Joined(list[1], list[i])>> \o Tail(RemoveAt(list, i))

\* Mutant: the newest block is the one dropped when the list is full
MutantDropNewest(list, head, tail) ==
  LET merged == MergeFront(MergeFront(MergeFront(MergeFront(
                  <<[first |-> head, second |-> tail]>> \o list))))
  IN SubSeq(merged, Len(merged) - MinOf(MaxSackBlocks, Len(merged)) + 1, Len(merged))

\* At most MaxSackBlocks + 1 blocks, so at most four merges; then the oldest
\* is dropped.
UpdateSackList(list, head, tail) ==
  LET pushed == <<[first |-> head, second |-> tail]>> \o list
      merged == MergeFront(MergeFront(MergeFront(MergeFront(pushed))))
  IN SubSeq(merged, 1, MinOf(MaxSackBlocks, Len(merged)))

\* Mutant: the block that ends at RCV.NXT stays
MutantClearSackList(list, seq) == SelectSeq(list, LAMBDA b : b.second >= seq)

\* The blocks that end at seq or before it go, in one pass over the list.
ClearSackList(list, seq) ==
  LET kept[k \in 0..Len(list)] ==
        IF k = 0 THEN <<>>
        ELSE IF list[k].second > seq THEN Append(kept[k - 1], list[k]) ELSE kept[k - 1]
  IN kept[Len(list)]

(***************************************************************************)
(* TcpRxBuffer::Add of the segment [h, t), whose loop over the stored      *)
(* packets amounts to: the head moves up to the first byte not yet held,   *)
(* the tail down to the packet that holds its last byte, and a packet      *)
(* strictly inside is replaced.                                            *)
(***************************************************************************)
WindowTail(t) == Min({t} \cup {p.seq + MaxBuffer : p \in data})

HeadSeq(h) == Hole(data, MaxOf(h, nextRxSeq))

\* Mutant: a packet that ends with the segment is not seen
MutantTailSeq(t) ==
  LET w == WindowTail(t)
  IN Min({w} \cup {p.seq : p \in {q \in data : q.seq < w /\ w < End(q)}})

TailSeq(t) ==
  LET w == WindowTail(t)
  IN Min({w} \cup {p.seq : p \in {q \in data : q.seq < w /\ w <= End(q)}})

Embedded(h, t) == {p \in data : HeadSeq(h) < p.seq /\ End(p) < WindowTail(t)}

\* Mutant: only the packet at RCV.NXT is counted, not those it connects to
MutantAdvance(D) ==
  LET next == {End(p) : p \in {q \in D : q.seq = nextRxSeq}}
  IN IF next = {} THEN nextRxSeq ELSE Min(next)

\* RCV.NXT over the packets that are now in sequence
Advance(D) == Hole(D, nextRxSeq)

\* Mutant: the replaced packets are still counted
MutantSizeAfter(gone, added) == size + added

SizeAfter(gone, added) == size - MapThenSumSet(LAMBDA p : p.len, gone) + added

\* fin: the FIN is known by the time the segment is added
Add(h, t, fin) ==
  LET head == HeadSeq(h)
      tail == TailSeq(t)
      gone == Embedded(h, t)
      kept == Fragment([seq |-> h, len |-> t - h, src |-> h], head - h, tail - head)
      data1 == (data \ gone) \cup {kept}
      next1 == Advance(data1)
      list1 == IF head > nextRxSeq THEN UpdateSackList(sackList, head, tail)
               ELSE sackList
  IN /\ h < t /\ head < tail
     /\ data' = data1
     /\ size' = SizeAfter(gone, tail - head)
     /\ availBytes' = availBytes + (next1 - nextRxSeq)
     /\ sackList' = IF next1 > nextRxSeq THEN ClearSackList(list1, next1) ELSE list1
     /\ nextRxSeq' = IF fin /\ next1 = StreamLen THEN StreamLen + 1 ELSE next1
     /\ UNCHANGED delivered

(***************************************************************************)
(* The environment: any part of the stream, new or old, in any order and   *)
(* cut in any way, that reaches at most Oversend past the window           *)
(***************************************************************************)
Sendable(h, t) == h <= t /\ t - h <= MaxSegment /\ t <= MaxRxSequence + Oversend

\* IsValidTcpSegment, then ReceivedData; nothing changes if Add returns false
DataSegment(h, t) ==
  /\ ~Finished
  /\ Sendable(h, t)
  /\ ~OutOfRange(h, t)
  /\ Add(h, t, gotFin)
  /\ UNCHANGED gotFin

\* PeerClose: the segment [h, StreamLen) carries the FIN
FinSegment(h) ==
  /\ ~Finished
  /\ Sendable(h, StreamLen)
  /\ h < StreamLen => ~OutOfRange(h, StreamLen)
  /\ h >= nextRxSeq /\ h <= MaxRxSequence
  /\ gotFin' = TRUE
  /\ \/ Add(h, StreamLen, TRUE)
     \/ /\ h = StreamLen \/ HeadSeq(h) >= TailSeq(StreamLen)
        /\ nextRxSeq' = IF nextRxSeq = StreamLen THEN StreamLen + 1 ELSE nextRxSeq
        /\ UNCHANGED <<data, size, availBytes, sackList, delivered>>

\* Mutant: the rest of a packet read in part is dropped
MutantExtractRest(maxSize) ==
  LET n == MinOf(maxSize, availBytes)
      cut == FirstSeq(data) + n
  IN /\ n > 0
     /\ data' = {p \in data : p.seq >= cut}
     /\ size' = size - n
     /\ availBytes' = availBytes - n
     /\ delivered' = delivered + n
     /\ UNCHANGED <<nextRxSeq, gotFin, sackList>>

\* Mutant: more is taken than is in sequence
MutantExtractAll(maxSize) ==
  LET n == MinOf(maxSize, size)
      cut == FirstSeq(data) + n
  IN /\ n > 0
     /\ data' = {p \in data : p.seq >= cut}
     /\ size' = size - n
     /\ availBytes' = availBytes - n
     /\ delivered' = delivered + n
     /\ UNCHANGED <<nextRxSeq, gotFin, sackList>>

\* Mutant: the bytes read are still counted in the buffer
MutantExtractLeak(maxSize) ==
  LET n == MinOf(maxSize, availBytes)
      cut == FirstSeq(data) + n
  IN /\ n > 0
     /\ data' = {p \in data : p.seq >= cut} \cup
                {Fragment(p, cut - p.seq, End(p) - cut) :
                   p \in {q \in data : q.seq < cut /\ cut < End(q)}}
     /\ availBytes' = availBytes - n
     /\ delivered' = delivered + n
     /\ UNCHANGED <<nextRxSeq, gotFin, size, sackList>>

\* TcpSocketBase::Recv, TcpRxBuffer::Extract
Extract(maxSize) ==
  LET n == MinOf(maxSize, availBytes)
      cut == FirstSeq(data) + n
  IN /\ n > 0
     /\ data' = {p \in data : p.seq >= cut} \cup
                {Fragment(p, cut - p.seq, End(p) - cut) :
                   p \in {q \in data : q.seq < cut /\ cut < End(q)}}
     /\ size' = size - n
     /\ availBytes' = availBytes - n
     /\ delivered' = delivered + n
     /\ UNCHANGED <<nextRxSeq, gotFin, sackList>>

Init == /\ data = {} /\ nextRxSeq = 0 /\ gotFin = FALSE
        /\ size = 0 /\ availBytes = 0 /\ sackList = <<>> /\ delivered = 0

Next == \/ \E h, t \in 0..StreamLen : DataSegment(h, t)
        \/ \E h \in 0..StreamLen : FinSegment(h)
        \/ \E n \in 1..StreamLen : Extract(n)

Spec == Init /\ [][Next]_vars
-----------------------------------------------------------------------------
(***************************************************************************)
(* Properties                                                              *)
(***************************************************************************)

RxTypeOK == /\ data \in SUBSET Packet
            /\ nextRxSeq \in 0..(StreamLen + 1)
            /\ gotFin \in BOOLEAN
            /\ size \in Nat /\ availBytes \in Nat
            /\ sackList \in Seq(SackBlock)
            /\ delivered \in 0..StreamLen

\* The end of the in-sequence bytes: nextRxSeq also counts the FIN.
InSeqEnd == IF Finished THEN StreamLen ELSE nextRxSeq

\* Re-segmented, overlapping and repeated data never leave a byte stored
\* twice, nor stored under another sequence number than its own (the loop
\* and the fragment arithmetic of TcpRxBuffer::Add and Extract).
PayloadInPlace ==
  /\ \A p \in data : p.src = p.seq
  /\ \A p, q \in data : p # q => End(p) <= q.seq \/ End(q) <= p.seq

\* m_nextRxSeq is "the first missing byte in data": every byte before it was
\* read or is stored, and the byte itself is neither.
NextRxIsFirstMissing ==
  /\ delivered .. (InSeqEnd - 1) \subseteq Stored(data)
  /\ InSeqEnd \notin Stored(data)
  /\ \A b \in Stored(data) : b >= delivered

\* The counters Size() and Available() stay equal to what is stored and to
\* what Extract can hand over, over every insertion, replacement and partial
\* read.
CountersExact ==
  /\ size = Cardinality(Stored(data))
  /\ availBytes = InSeqEnd - delivered

\* A SACK block never names a byte the buffer does not hold, nor one that is
\* already acknowledged: the sender may drop what it has been SACKed.
SackHonest ==
  \A i \in DOMAIN sackList :
    LET b == sackList[i]
    IN /\ nextRxSeq < b.first /\ b.first < b.second
       /\ b.first .. (b.second - 1) \subseteq Stored(data)

\* RFC 2018 (a) as quoted in UpdateSackList: the first block holds the bytes
\* of the out-of-order segment that was just stored.
SackNewestFirst ==
  [][LET new == Stored(data') \ Stored(data)
     IN (new # {} /\ nextRxSeq' = nextRxSeq)
          => new \subseteq sackList'[1].first .. (sackList'[1].second - 1)]_vars

\* Recv reports the end of the stream (Size() = 0 in CLOSE_WAIT) only to an
\* application that has read all of it.
EndOfStreamComplete == (Finished /\ size = 0) => delivered = StreamLen

\* The right edge of the offered window never moves back, whatever the
\* application reads and the network reorders.
WindowNeverShrinks == [][~gotFin' => MaxRxSequence' >= MaxRxSequence]_vars

\* The buffer holds m_maxBuffer bytes and what a peer that overruns the window
\* adds at most once: Add trims against the first stored packet only, so an
\* overrun into an empty buffer is kept, but overruns never add up.
BufferBounded == size <= MaxBuffer + Oversend

\* The window that AdvertisedWindowSize computes is not negative, as it asserts.
\* A peer that overruns the window breaks this.
WindowNotNegative == gotFin \/ MaxRxSequence >= nextRxSeq

\* Bytes are handed over once, in order, and none accepted is lost.
Stream == INSTANCE TcpByteStream WITH held <- Content(data)

ImplementsStream == Stream!StreamSpec
=============================================================================
