----------------------- MODULE TcpPrrRecovery_proofs -----------------------
(***************************************************************************)
(* Proportional rate reduction never divides by nothing, and the sender's  *)
(* scoreboard is as sound under the window it sets as under any other.     *)
(***************************************************************************)
EXTENDS TcpPrrRecovery, TcpSender_proofs

(***************************************************************************)
(* The algorithm                                                           *)
(***************************************************************************)
Objects == [bound : Bounds, delivered : Int, out : Int, flight : Int, ssThresh : Nat,
            cWnd : Int]

\* The object of a recovery that has begun
Begun(p) == p \in Objects /\ p.flight > 0

\* Division and remainder by what is positive
LEMMA QuotientIsInt ==
  ASSUME NEW a \in Int, NEW b \in Int, b > 0
  PROVE  a \div b \in Int /\ a % b \in Int
OBVIOUS

\* What may be sent is a number, for something was in flight.
LEMMA SendCountIsInt ==
  ASSUME NEW p, Begun(p), NEW pipe \in Int, NEW n \in Int, NEW retransAcked \in BOOLEAN
  PROVE  SendCount(p, pipe, n, retransAcked) \in Int
<1> DEFINE ahead == p.delivered - p.out
           limit == CASE p.bound = "CRB" -> ahead
                      [] p.bound = "SSRB" /\ retransAcked ->
                           UnsignedMax(ahead, n) + SegmentSize
                      [] OTHER -> n
           product == p.delivered * p.ssThresh
           share == Ceiling(product % WordSize, p.flight)
<1>1. /\ p.delivered \in Int /\ p.out \in Int /\ p.flight \in Int /\ p.flight > 0
      /\ p.ssThresh \in Int /\ SegmentSize \in Int /\ WordSize \in Int /\ WordSize > 0
  BY PrrAssumption, TxAssumption DEF Begun, Objects
<1>2. limit \in Int
  <2>1. ahead \in Int
    BY <1>1
  <2> HIDE DEF ahead
  <2>2. UnsignedMax(ahead, n) + SegmentSize \in Int
    BY <1>1, <2>1 DEF UnsignedMax, Larger
  <2> DEFINE more == UnsignedMax(ahead, n) + SegmentSize
  <2>3. more \in Int
    BY <2>2
  <2> HIDE DEF more
  <2>4. limit \in {ahead, more, n}
    <3>1. CASE p.bound = "CRB"
      BY <3>1 DEF more
    <3>2. CASE p.bound = "SSRB" /\ retransAcked
      BY <3>2 DEF more
    <3>3. CASE p.bound # "CRB" /\ ~(p.bound = "SSRB" /\ retransAcked)
      BY <3>3
    <3>4. QED BY <3>1, <3>2, <3>3
  <2> HIDE DEF limit
  <2>5. QED BY <2>1, <2>3, <2>4
<1>3. share \in Int
  <2>1. product \in Int
    BY <1>1
  <2> HIDE DEF product
  <2>2. product % WordSize \in Int
    BY <1>1, <2>1, QuotientIsInt
  <2> DEFINE a == product % WordSize
  <2>3. a + p.flight - 1 \in Int
    BY <1>1, <2>2
  <2> HIDE DEF a
  <2>4. (a + p.flight - 1) \div p.flight \in Int
    BY <1>1, <2>3, QuotientIsInt
  <2>5. QED BY <2>4 DEF a, Ceiling
<1>4. SendCount(p, pipe, n, retransAcked) = IF pipe > p.ssThresh THEN share - p.out
                                            ELSE Smaller(limit, p.ssThresh - pipe)
  BY Zenon DEF SendCount
<1> HIDE DEF limit, share
<1>5. QED BY <1>1, <1>2, <1>3, <1>4 DEF Smaller

\* A field of the object gets a new value.
LEMMA ObjectFields ==
  ASSUME NEW p \in Objects, NEW v \in Int
  PROVE  /\ [p EXCEPT !.delivered = v] \in Objects
         /\ [p EXCEPT !.delivered = v].flight = p.flight
         /\ [p EXCEPT !.cWnd = v] \in Objects /\ [p EXCEPT !.cWnd = v].flight = p.flight
         /\ [p EXCEPT !.out = v] \in Objects /\ [p EXCEPT !.out = v].flight = p.flight
BY DEF Objects

LEMMA StartFields ==
  ASSUME NEW p \in Objects, NEW v \in Int, NEW h \in Nat
  PROVE  /\ [p EXCEPT !.flight = v, !.ssThresh = h] \in Objects
         /\ [p EXCEPT !.flight = v, !.ssThresh = h].flight = v
BY DEF Objects

\* A recovery goes on.
LEMMA DoRecoveryKeeps ==
  ASSUME NEW p, Begun(p), NEW pipe \in Int, NEW n \in Int, NEW retransAcked \in BOOLEAN
  PROVE  Begun(DoRecovery(p, pipe, n, retransAcked))
<1> DEFINE v == p.delivered + n
           q == [p EXCEPT !.delivered = v]
           c == SendCount(q, pipe, n, retransAcked)
           least == IF q.out > 0 THEN 0 ELSE SegmentSize
           w == pipe + Larger(c, least)
           r == [q EXCEPT !.cWnd = w]
<1>1. v \in Int /\ p \in Objects /\ p.flight > 0 /\ SegmentSize \in Int /\ 0 \in Nat
  BY TxAssumption DEF Begun, Objects
<1>2. DoRecovery(p, pipe, n, retransAcked) = r
  BY DEF DoRecovery
<1> HIDE DEF v
<1>3. q \in Objects /\ q.flight = p.flight
  BY <1>1, ObjectFields, Zenon
<1> HIDE DEF q
<1>4. Begun(q)
  BY <1>1, <1>3 DEF Begun
<1>5. c \in Int
  BY <1>4, SendCountIsInt, Zenon
<1>6. least \in Int
  BY <1>1
<1> HIDE DEF c, least
<1>7. w \in Int
  BY <1>5, <1>6 DEF Larger
<1> HIDE DEF w
<1>8. r \in Objects /\ r.flight = q.flight
  BY <1>1, <1>3, <1>7, ObjectFields, Zenon
<1> HIDE DEF r
<1>9. Begun(r)
  BY <1>4, <1>8 DEF Begun
<1>10. QED BY <1>2, <1>9, Zenon

\* An object that is not in use
LEMMA IdleIs ==
  ASSUME NEW bound \in Bounds
  PROVE  Idle(bound) \in Objects /\ Idle(bound).bound = bound
<1> DEFINE zero == 0
<1>1. Idle(bound) = [bound |-> bound, delivered |-> zero, out |-> zero, flight |-> zero,
                     ssThresh |-> zero, cWnd |-> zero]
  BY DEF Idle
<1>2. zero \in Nat /\ zero \in Int
  OBVIOUS
<1> HIDE DEF zero
<1>3. QED BY <1>1, <1>2 DEF Objects

\* A recovery begins while something is outstanding.
LEMMA BeginKeeps ==
  ASSUME prr \in Objects, NEW h \in SsThreshs, NEW unAcked \in Int, unAcked > 0,
         NEW pipe \in Int, NEW n \in Int
  PROVE  Begun(Begin(h, unAcked, pipe, n))
<1> DEFINE i == Idle(prr.bound)
           p == [i EXCEPT !.flight = unAcked, !.ssThresh = h]
<1>1. h \in Nat /\ prr.bound \in Bounds /\ FALSE \in BOOLEAN
  BY PrrAssumption DEF Objects
<1>2. i \in Objects
  BY <1>1, IdleIs
<1>3. Begin(h, unAcked, pipe, n) = DoRecovery(p, pipe, n, FALSE)
  BY DEF Begin
<1> HIDE DEF i
<1>4. p \in Objects /\ p.flight = unAcked
  BY <1>1, <1>2, StartFields, Zenon
<1> HIDE DEF p
<1>5. Begun(p)
  BY <1>4 DEF Begun
<1>6. QED BY <1>1, <1>3, <1>5, DoRecoveryKeeps, Zenon

\* What is sent is told to the object.
LEMMA BytesSentKeep ==
  ASSUME NEW p \in Objects, NEW n \in Int
  PROVE  UpdateBytesSent(p, n) \in Objects /\ UpdateBytesSent(p, n).flight = p.flight
<1> DEFINE v == p.out + n
<1>1. v \in Int /\ 0 \in Nat
  BY DEF Objects
<1>2. UpdateBytesSent(p, n) = [p EXCEPT !.out = v]
  BY DEF UpdateBytesSent
<1> HIDE DEF v
<1>3. [p EXCEPT !.out = v] \in Objects /\ [p EXCEPT !.out = v].flight = p.flight
  BY <1>1, ObjectFields, Zenon
<1>4. QED BY <1>2, <1>3, Zenon

(***************************************************************************)
(* The invariant                                                           *)
(***************************************************************************)
PrrKept == SenderKept /\ prr \in Objects /\ DivisorPositive

\* What is delivered is counted out of what was sent.
LEMMA DeliveredIsInt ==
  ASSUME NEW ack, NEW blocks, Laid(tx), Laid(Update(tx, blocks)), Alike(tx, Update(tx, blocks))
  PROVE  Delivered(ack, blocks) \in Int
<1> DEFINE b == Update(tx, blocks)
           told == IF sock.sackEnabled THEN b.sacked ELSE {}
           removed == {i \in b.starts \ told : EndOf(b, i) <= ack}
           items == NewlySacked(tx, blocks) \cup removed
<1>1. Delivered(ack, blocks) = Cardinality(BytesOf(b, items))
  BY DEF Delivered
<1>2. NewlySacked(tx, blocks) \subseteq tx.starts
  BY DEF NewlySacked, Inside
<1>3. items \in SUBSET b.starts
  BY <1>2 DEF Alike
<1> HIDE DEF items, b
<1>4. BytesOf(b, items) \subseteq SentBytes(b)
  BY <1>3, ItemsAreWhole DEF Whole, b
<1>5. Cardinality(BytesOf(b, items)) \in Nat
  BY <1>4, FinitelySent DEF b
<1>6. QED BY <1>1, <1>5

\* The bytes in flight of a buffer with its counters
LEMMA InFlightIsInt ==
  ASSUME NEW b \in Buffers
  PROVE  BytesInFlight(b) \in Int
BY DEF BytesInFlight, SentSize, Buffers

\* The object when DupAck is over and the sender is in recovery
LEMMA AfterDupKeeps ==
  ASSUME NEW s, NEW d, NEW was, Kept(s, got', was), Kept(d, got', was), PrrKept,
         s.sock = sock, s.tx.una < s.tx.end,
         d = DupAck(s), d.sock.congState = "RECOVERY", NEW n \in Int,
         NEW retransAcked \in BOOLEAN, NEW p \in AfterDup(s, d, n, retransAcked)
  PROVE  Begun(p)
<1>1. /\ s \in Handlers /\ d \in Handlers /\ s.tx \in Buffers /\ prr \in Objects
      /\ s.tx.una \in Nat /\ s.tx.end \in Nat /\ s.sock.highTx = s.tx.end /\ d.out \in Int
  BY HandlerParts DEF Kept, Placed, PrrKept, Buffers
<1>2. CASE s.sock.congState = "RECOVERY"
  <2>1. p = DoRecovery(prr, BytesInFlight(s.tx), n, retransAcked)
    BY <1>2 DEF AfterDup
  <2>2. Begun(prr)
    BY <1>2 DEF PrrKept, DivisorPositive, InRecovery, Begun
  <2>3. BytesInFlight(s.tx) \in Int
    BY <1>1, InFlightIsInt
  <2>4. QED BY <2>1, <2>2, <2>3, DoRecoveryKeeps, Zenon
<1>3. CASE s.sock.congState # "RECOVERY"
  <2> DEFINE un == s.sock.highTx - s.tx.una
             pipe == BytesInFlight(HeadLost(s))
  <2>1. PICK h \in SsThreshs : p = UpdateBytesSent(Begin(h, un, pipe, n), d.out)
    BY <1>3 DEF AfterDup
  <2>2. un \in Int /\ un > 0
    BY <1>1
  <2>3. s.sock.congState # "LOSS"
    BY <1>3 DEF DupAck
  <2>4. pipe \in Int
    <3>1. Marked(HeadLost(s), s.sock, got', was)
      BY <2>3, HeadLostKeeps, Zenon
    <3> DEFINE c == HeadLost(s)
    <3>2. c \in Buffers
      BY <3>1 DEF Marked, Sound, Laid
    <3> HIDE DEF c
    <3>3. BytesInFlight(c) \in Int
      BY <3>2, InFlightIsInt
    <3>4. QED BY <3>3 DEF c
  <2> HIDE DEF un, pipe
  <2> DEFINE q == Begin(h, un, pipe, n)
  <2>5. Begun(q)
    BY <1>1, <2>2, <2>4, BeginKeeps, Zenon
  <2> HIDE DEF q
  <2>6. UpdateBytesSent(q, d.out) \in Objects /\ UpdateBytesSent(q, d.out).flight = q.flight
    BY <1>1, <2>5, BytesSentKeep DEF Begun
  <2>7. QED BY <2>1, <2>5, <2>6 DEF Begun, q
<1>4. QED BY <1>2, <1>3

\* What is sent after an ACK is sent by the object's window.
LEMMA SendAfterKeeps ==
  ASSUME NEW r, PrrKept, Kept(r, got', tx), r.sock.sackEnabled = sock.sackEnabled,
         NEW p, r.sock.congState = "RECOVERY" => Begun(p), NEW before \in Int,
         SendAfter(r, p, before)
  PROVE  PrrKept'
<1> DEFINE stays == r.sock.congState = "RECOVERY"
           W == IF stays THEN {p.cWnd} ELSE CongWindows
<1>1. PICK e \in SendPendingData(r, W) :
        /\ EndsIn({e})
        /\ prr' = IF stays THEN UpdateBytesSent(p, e.out - before) ELSE Idle(prr.bound)
  BY DEF SendAfter
<1>2. W \in SUBSET Int
  BY SenderAssumption DEF Begun, Objects
<1> HIDE DEF W
<1>3. Kept(e, got', tx) /\ SameStage(r, e)
  BY <1>1, <1>2, SendPendingKeeps, Zenon
<1>4. SenderKept'
  <2>1. \A t \in {e} : Kept(t, got', tx) /\ t.sock.sackEnabled = sock.sackEnabled
    BY <1>3 DEF SameStage
  <2>2. QED BY <1>1, <2>1, EndsKeeps, Zenon
<1>5. sock' = e.sock /\ e.out \in Int
  BY <1>1, <1>3, HandlerParts DEF EndsIn, Kept
<1>6. CASE stays
  <2>1. Begun(p) /\ e.out - before \in Int
    BY <1>5, <1>6
  <2>2. prr' = UpdateBytesSent(p, e.out - before)
    BY <1>1, <1>6, Zenon
  <2>3. prr' \in Objects /\ prr'.flight > 0
    BY <2>1, <2>2, BytesSentKeep DEF Begun
  <2>4. QED BY <1>4, <2>3 DEF PrrKept, DivisorPositive
<1>7. CASE ~stays
  <2>1. prr' = Idle(prr.bound) /\ prr.bound \in Bounds
    BY <1>1, <1>7 DEF PrrKept, Objects
  <2>2. prr' \in Objects
    BY <2>1, IdleIs
  <2>3. sock'.congState # "RECOVERY"
    BY <1>3, <1>5, <1>7 DEF SameStage
  <2>4. QED BY <1>4, <2>2, <2>3 DEF PrrKept, DivisorPositive, InRecovery
<1>8. QED BY <1>6, <1>7

\* What an ACK does: it finds the object of a recovery begun, or begins one.
LEMMA AnswerStep ==
  ASSUME PrrKept, Kept(Sender, got', tx), NEW arrivedAt,
         NEW blocks \in SackLists(got', arrivedAt), Answer(NextRxSeq(got'), blocks)
  PROVE  PrrKept'
<1> DEFINE ack == NextRxSeq(got')
           s == Scored(Sender, ack, blocks)
           dup == IsDupack(Sender, ack, blocks)
           d == IF dup THEN DupAck(s) ELSE s
           r == ProcessAck(s, tx.una, dup)
           n == Delivered(ack, blocks)
           again == RetransAcked(ack, blocks)
           repairs == d.sock.congState = "RECOVERY"
           partial == /\ repairs /\ tx.una + SegmentSize <= s.tx.una
                      /\ s.tx.una < d.sock.recover
           pipe == BytesInFlight(IF sock.congState = "RECOVERY" THEN s.tx ELSE HeadLost(s))
<1>1. /\ Sender.tx = tx /\ Sender.sock = sock /\ Laid(tx) /\ Sender.tx.end = tx.end
      /\ prr \in Objects
  BY SenderParts DEF PrrKept
<1>2. /\ Kept(s, got', tx) /\ s.sock = sock /\ dup \in BOOLEAN /\ s.tx.end = tx.end
      /\ dup => s.tx.una < s.tx.end /\ (s.tx.una # tx.una => s.sock.sackEnabled)
      /\ Marked(Update(tx, blocks), sock, got', tx) /\ Alike(tx, Update(tx, blocks))
  BY <1>1, ScoredKeeps
<1>3. n \in Int
  BY <1>1, <1>2, DeliveredIsInt DEF Marked, Sound
<1>4. again \in BOOLEAN
  BY DEF RetransAcked
<1>5. PICK p \in IF dup /\ repairs THEN AfterDup(s, d, n, again) ELSE {prr} :
        SendAfter(r, IF partial THEN DoRecovery(p, pipe, n, again) ELSE p, d.out)
  BY Zenon DEF Answer, AnswerFrom
<1> HIDE DEF ack, s, dup, n, again
<1>6. Kept(d, got', tx) /\ Follows(s, d)
  <2>1. CASE dup
    BY <1>2, <2>1, DupAckKeeps, Zenon
  <2>2. CASE ~dup
    BY <1>2, <2>2 DEF Follows
  <2>3. QED BY <2>1, <2>2
<1>7. /\ Kept(r, got', tx) /\ Follows(s, r)
      /\ r.sock.congState = "RECOVERY" => repairs
  <2> DEFINE head == tx.una
  <2>1. /\ dup => s.tx.una < s.tx.end
        /\ dup /\ s.tx.una # head => s.sock.sackEnabled
    BY <1>2
  <2> HIDE DEF head
  <2>2. LET e == ProcessAck(s, head, dup)
        IN /\ Kept(e, got', tx) /\ Follows(s, e)
           /\ e.sock.congState = "RECOVERY"
                => (IF dup THEN DupAck(s) ELSE s).sock.congState = "RECOVERY"
    BY <1>2, <2>1, ProcessAckKeeps
  <2>3. QED BY <2>2 DEF head
<1>8. ASSUME repairs PROVE pipe \in Int /\ Begun(p)
  <2>1. CASE sock.congState = "RECOVERY"
    <3>1. s.tx \in Buffers /\ pipe = BytesInFlight(s.tx)
      BY <1>2, <2>1 DEF Kept, Marked, Sound, Laid
    <3>2. pipe \in Int
      BY <3>1, InFlightIsInt
    <3>3. CASE dup
      <4>1. d = DupAck(s) /\ p \in AfterDup(s, d, n, again)
        BY <1>5, <1>8, <3>3
      <4> HIDE DEF d, pipe
      <4>2. Begun(p)
        BY <1>2, <1>3, <1>4, <1>6, <1>8, <3>3, <4>1, AfterDupKeeps
      <4>3. QED BY <3>2, <4>2
    <3>4. CASE ~dup
      BY <1>1, <1>5, <2>1, <3>2, <3>4 DEF PrrKept, DivisorPositive, InRecovery, Begun
    <3>5. QED BY <3>3, <3>4
  <2>2. CASE sock.congState # "RECOVERY"
    <3>1. dup /\ d = DupAck(s) /\ p \in AfterDup(s, d, n, again)
      BY <1>2, <1>5, <1>8, <2>2
    <3>2. s.sock.congState # "LOSS"
      BY <1>8, <3>1 DEF DupAck
    <3> DEFINE c == HeadLost(s)
    <3>3. c \in Buffers
      <4>1. Marked(HeadLost(s), s.sock, got', tx)
        BY <1>2, <3>2, HeadLostKeeps, Zenon
      <4>2. QED BY <4>1 DEF Marked, Sound, Laid
    <3>4. pipe = BytesInFlight(c)
      BY <2>2
    <3> HIDE DEF c, d, pipe
    <3>5. pipe \in Int
      BY <3>3, <3>4, InFlightIsInt
    <3>6. Begun(p)
      BY <1>2, <1>3, <1>4, <1>6, <1>8, <3>1, AfterDupKeeps
    <3>7. QED BY <3>5, <3>6
  <2>3. QED BY <2>1, <2>2
<1> DEFINE q == IF partial THEN DoRecovery(p, pipe, n, again) ELSE p
<1>9. repairs => Begun(q)
  <2> HIDE DEF pipe, repairs
  <2>1. CASE partial
    BY <1>3, <1>4, <1>8, <2>1, DoRecoveryKeeps
  <2>2. CASE ~partial
    BY <1>8, <2>2
  <2>3. QED BY <2>1, <2>2
<1>10. SendAfter(r, q, d.out) /\ d.out \in Int
  BY <1>5, <1>6, HandlerParts DEF Kept
<1>11. r.sock.sackEnabled = sock.sackEnabled
  BY <1>2, <1>7 DEF Follows
<1> HIDE DEF q, d, r
<1>12. QED BY <1>7, <1>9, <1>10, <1>11, SendAfterKeeps

\* The scoreboard is quiet when recovery has not begun.
LEMMA PrrInitKept == PrrInit => PrrKept
<1> SUFFICES ASSUME PrrInit PROVE PrrKept
  OBVIOUS
<1>1. Init /\ \E bound \in Bounds : prr = Idle(bound)
  BY DEF PrrInit
<1>2. prr \in Objects
  BY <1>1, IdleIs
<1>3. sock.congState = "OPEN"
  BY <1>1 DEF Init, InitialSocket
<1>4. QED BY <1>1, <1>2, <1>3, InitKept DEF PrrKept, DivisorPositive, InRecovery

LEMMA PrrSendStep ==
  ASSUME PrrKept, NEW n \in Writes, PrrSend(n)
  PROVE  PrrKept'
<1> DEFINE W == IF sock.congState = "RECOVERY" THEN {prr.cWnd} ELSE CongWindows
           s == [Sender EXCEPT !.tx = Add(tx, n)]
<1>1. /\ tx.tail + n <= Total + 1 /\ got' = got
      /\ \E e \in SendPendingData(s, W) : EndsIn({e}) /\ prr' = UpdateBytesSent(prr, e.out)
  BY DEF PrrSend, Sender
<1>2. PICK e \in SendPendingData(s, W) : EndsIn({e}) /\ prr' = UpdateBytesSent(prr, e.out)
  BY <1>1
<1>3. W \in SUBSET Int
  BY SenderAssumption DEF PrrKept, Objects
<1> HIDE DEF W
<1>4. Kept(s, got, tx) /\ s.sock = sock
  BY <1>1, WriteKeeps DEF PrrKept
<1> HIDE DEF s
<1>5. Kept(e, got', tx) /\ SameStage(s, e)
  BY <1>1, <1>2, <1>3, <1>4, SendPendingKeeps
<1>6. SenderKept'
  <2>1. \A t \in {e} : Kept(t, got', tx) /\ t.sock.sackEnabled = sock.sackEnabled
    BY <1>4, <1>5 DEF SameStage
  <2>2. QED BY <1>2, <2>1, EndsKeeps, Zenon
<1>7. sock' = e.sock /\ e.out \in Int /\ prr \in Objects
  BY <1>2, <1>5, HandlerParts DEF EndsIn, Kept, PrrKept
<1>8. prr' \in Objects /\ prr'.flight = prr.flight
  BY <1>2, <1>7, BytesSentKeep
<1>9. sock'.congState = sock.congState
  BY <1>4, <1>5, <1>7 DEF SameStage
<1>10. QED BY <1>6, <1>8, <1>9 DEF PrrKept, DivisorPositive, InRecovery

LEMMA PrrArriveStep ==
  ASSUME PrrKept, NEW p \in flight, PrrArrive(p)
  PROVE  PrrKept'
<1>1. PICK blocks \in SackLists(got', p[1]) : Answer(NextRxSeq(got'), blocks)
  BY DEF PrrArrive
<1>2. Kept(Sender, got', tx)
  <2>1. got' = got \cup p[1]..(p[2] - 1) /\ p \in Sender.flight
    BY SenderParts DEF PrrArrive, PrrKept
  <2>2. Kept(Sender, got, tx)
    BY DEF PrrKept, SenderKept
  <2>3. Kept(Sender, got \cup p[1]..(p[2] - 1), tx)
    BY <2>1, <2>2, HeardKeeps
  <2>4. QED BY <2>1, <2>3, Zenon
<1>3. QED BY <1>1, <1>2, AnswerStep

LEMMA PrrArriveUnheardStep ==
  ASSUME PrrKept, NEW p \in flight, PrrArriveUnheard(p)
  PROVE  PrrKept'
<1>1. ArriveUnheard(p) /\ prr' = prr /\ sock' = sock
  BY DEF PrrArriveUnheard, ArriveUnheard
<1>2. SenderKept'
  BY <1>1, ArriveUnheardStep DEF PrrKept
<1>3. QED BY <1>1, <1>2 DEF PrrKept, DivisorPositive, InRecovery


\* A timeout ends the recovery, or the connection.
LEMMA PrrTimeoutStep ==
  ASSUME PrrKept, PrrTimeout
  PROVE  PrrKept'
<1>1. CASE ReTxTimeout /\ prr' = Idle(prr.bound)
  <2>1. SenderKept' /\ sock'.congState = "LOSS"
    BY <1>1, TimeoutStep DEF PrrKept
  <2>2. prr' \in Objects
    BY <1>1, IdleIs DEF PrrKept, Objects
  <2>3. QED BY <2>1, <2>2 DEF PrrKept, DivisorPositive, InRecovery
<1>2. CASE LastTimeout /\ prr' = prr
  <2>1. SenderKept'
    BY <1>2, LastTimeoutStep DEF PrrKept
  <2>2. sock'.congState = sock.congState
    BY <1>2, SenderParts DEF LastTimeout, Socks, PrrKept
  <2>3. QED BY <1>2, <2>1, <2>2 DEF PrrKept, DivisorPositive, InRecovery
<1>3. QED BY <1>1, <1>2 DEF PrrTimeout

LEMMA PrrNextKeeps == PrrKept /\ [PrrNext]_prrVars => PrrKept'
<1> SUFFICES ASSUME PrrKept, [PrrNext]_prrVars PROVE PrrKept'
  OBVIOUS
<1>1. CASE \E n \in Writes : PrrSend(n)
  BY <1>1, PrrSendStep
<1>2. CASE \E p \in flight : PrrArrive(p) \/ PrrArriveUnheard(p)
  BY <1>2, PrrArriveStep, PrrArriveUnheardStep
<1>3. CASE PrrTimeout
  BY <1>3, PrrTimeoutStep
<1>4. CASE UNCHANGED prrVars
  <2>1. UNCHANGED vars /\ prr' = prr /\ sock' = sock
    BY <1>4 DEF prrVars, vars
  <2>2. SenderKept'
    BY <2>1 DEF vars, PrrKept, SenderKept, Sender
  <2>3. QED BY <2>1, <2>2 DEF PrrKept, DivisorPositive, InRecovery
<1>5. QED BY <1>1, <1>2, <1>3, <1>4 DEF PrrNext

LEMMA PrrStaysKept == PrrSpec => []PrrKept
<1>1. QED BY PrrInitKept, PrrNextKeeps, PTL DEF PrrSpec

(***************************************************************************)
(* The theorems                                                            *)
(***************************************************************************)
\* Proportional rate reduction never divides by nothing: whenever the sender is in
\* recovery, something was outstanding when it began.
THEOREM PrrNeverDividesByZero == PrrSpec => []DivisorPositive
<1>1. PrrKept => DivisorPositive
  BY DEF PrrKept
<1>2. QED BY <1>1, PrrStaysKept, PTL

\* Under the window that the algorithm computes, which is any integer, negative
\* ones included, the scoreboard is as sound as under any other: its counters agree
\* with the items, no more is left out than was sent, the head is not SACKed and
\* nothing is held SACKed that the receiver lacks, and what is held lost is justified.
THEOREM ScoreboardSoundUnderPrr ==
  PrrSpec => [](/\ SenderTypeOK /\ CountersAgree /\ LeftOutWithinSent
                /\ HeadNotSacked /\ SackedIsHeld /\ LostIsJustified)
<1>1. PrrKept => /\ SenderTypeOK /\ CountersAgree /\ LeftOutWithinSent
                 /\ HeadNotSacked /\ SackedIsHeld /\ LostIsJustified
  <2> SUFFICES ASSUME PrrKept
               PROVE  /\ SenderTypeOK /\ CountersAgree /\ LeftOutWithinSent
                      /\ HeadNotSacked /\ SackedIsHeld /\ LostIsJustified
    OBVIOUS
  <2>1. SenderKept
    BY DEF PrrKept
  <2>2. SenderTypeOK /\ LeftOutWithinSent /\ LostIsJustified
    BY <2>1, SenderTypes, LeftOutIsSent, LostItems
  <2>3. CountersAgree /\ HeadNotSacked /\ SackedIsHeld
    BY <2>1, SenderParts DEF Sound, Counts, CountersAgree, Apart, HeadNotSacked,
                             Marked, SackedIsHeld
  <2>4. QED BY <2>2, <2>3
<1>2. QED BY <1>1, PrrStaysKept, PTL
=============================================================================
