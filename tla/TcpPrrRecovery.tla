--------------------------- MODULE TcpPrrRecovery ---------------------------
(***************************************************************************)
(* Proportional Rate Reduction (tcp-prr-recovery.cc), which sets the       *)
(* congestion window of the sender of TcpSender while it is in CA_RECOVERY; *)
(* elsewhere the window stays a free choice.  CA_CWR does not occur.        *)
(***************************************************************************)
EXTENDS TcpSender

CONSTANTS SsThreshs,    \* what GetSsThresh may return
          Bounds,       \* what m_reductionBoundMode may be: CRB, SSRB
          WordSize      \* 2^32: the product of two counters wraps there

ASSUME PrrAssumption == /\ SsThreshs \subseteq Nat
                        /\ Bounds \subseteq {"CRB", "SSRB"}
                        /\ WordSize \in Nat \ {0}

VARIABLE prr   \* the TcpPrrRecovery object, the threshold and the window

prrVars == <<tx, sock, flight, got, prr>>

\* Outside recovery nothing else of it is read.
Idle(bound) == [bound |-> bound, delivered |-> 0, out |-> 0, flight |-> 0,
                ssThresh |-> 0, cWnd |-> 0]

(***************************************************************************)
(* The algorithm                                                           *)
(***************************************************************************)
Ceiling(a, b) == (a + b - 1) \div b

\* m_prrDelivered - m_prrOut is unsigned in the comparison: if negative, it is the
\* greater one.  Read as an int afterwards it is negative again.
UnsignedMax(difference, n) == IF difference < 0 THEN difference ELSE Larger(difference, n)

\* What the sender may send in answer to an ACK that delivers n bytes
SendCount(p, pipe, n, retransAcked) ==
  LET ahead == p.delivered - p.out
      limit == CASE p.bound = "CRB" -> ahead
                 [] p.bound = "SSRB" /\ retransAcked -> UnsignedMax(ahead, n) + SegmentSize
                 [] OTHER -> n
  IN IF pipe > p.ssThresh
     THEN Ceiling((p.delivered * p.ssThresh) % WordSize, p.flight) - p.out
     ELSE Smaller(limit, p.ssThresh - pipe)

DoRecovery(p, pipe, n, retransAcked) ==
  LET q == [p EXCEPT !.delivered = @ + n]
      least == IF q.out > 0 THEN 0 ELSE SegmentSize
  IN [q EXCEPT !.cWnd = pipe + Larger(SendCount(q, pipe, n, retransAcked), least)]

\* Mutant: the proportion is taken of what is in flight.
MutantBegin(ssThresh, unAcked, pipe, n) ==
  DoRecovery([Idle(prr.bound) EXCEPT !.flight = pipe, !.ssThresh = ssThresh], pipe, n, FALSE)

\* TcpPrrRecovery::EnterRecovery
Begin(ssThresh, unAcked, pipe, n) ==
  DoRecovery([Idle(prr.bound) EXCEPT !.flight = unAcked, !.ssThresh = ssThresh], pipe, n, FALSE)

(***************************************************************************)
(* The socket that calls it                                                *)
(***************************************************************************)
\* SkbDelivered: the items an ACK SACKs or removes, each once; what the sender only
\* guesses to be SACKed is delivered when it is removed.
Delivered(ack, blocks) ==
  LET b == Update(tx, blocks)
      told == IF sock.sackEnabled THEN b.sacked ELSE {}
      removed == {i \in b.starts \ told : EndOf(b, i) <= ack}
  IN Cardinality(BytesOf(b, NewlySacked(tx, blocks) \cup removed))

\* m_isRetransDataAcked
RetransAcked(ack, blocks) ==
  /\ tx.una < ack /\ ack < sock.recover /\ sock.congState = "RECOVERY"
  /\ \E i \in 0..(((ack - tx.una) \div SegmentSize) - 1) :
       IsRetransmittedDataAcked(Update(tx, blocks), ack - i * SegmentSize)

\* Mutant: what is sent is not told to the algorithm.
MutantUpdateBytesSent(p, sent) == p

UpdateBytesSent(p, sent) == [p EXCEPT !.out = @ + sent]

\* The object after DupAck: recovery goes on or begins.
AfterDup(s, d, n, retransAcked) ==
  IF s.sock.congState = "RECOVERY"
  THEN {DoRecovery(prr, BytesInFlight(s.tx), n, retransAcked)}
  ELSE {UpdateBytesSent(Begin(h, s.sock.highTx - s.tx.una, BytesInFlight(HeadLost(s)), n),
                        d.out) : h \in SsThreshs}

\* SendPendingData of the socket r.  The object p has been told of the first
\* alreadySent bytes sent, and is told of the others.
SendAfter(r, p, alreadySent) ==
  LET stays == r.sock.congState = "RECOVERY"
  IN \E e \in SendPendingData(r, IF stays THEN {p.cWnd} ELSE CongWindows) :
       /\ EndsIn({e})
       /\ prr' = IF stays THEN UpdateBytesSent(p, e.out - alreadySent) ELSE Idle(prr.bound)

\* ReceivedAck when the scoreboard has taken the ACK (s), DupAck has been called if
\* it is a duplicate (d), and ProcessAck is over (r).  The bytes in flight are those
\* counted last, before anything is sent in answer; a duplicate that is a partial
\* ACK too calls DoRecovery twice.
AnswerFrom(s, d, r, isDupack, n, retransAcked) ==
  LET repairs == d.sock.congState = "RECOVERY"
      partial == /\ repairs /\ tx.una + SegmentSize <= s.tx.una
                 /\ s.tx.una < d.sock.recover
      pipe == BytesInFlight(IF sock.congState = "RECOVERY" THEN s.tx ELSE HeadLost(s))
  IN \E p \in IF isDupack /\ repairs THEN AfterDup(s, d, n, retransAcked) ELSE {prr} :
       SendAfter(r, IF partial THEN DoRecovery(p, pipe, n, retransAcked) ELSE p, d.out)

Answer(ack, blocks) ==
  LET s == Scored(Sender, ack, blocks)
      isDupack == IsDupack(Sender, ack, blocks)
  IN AnswerFrom(s, IF isDupack THEN DupAck(s) ELSE s, ProcessAck(s, tx.una, isDupack),
                isDupack, Delivered(ack, blocks), RetransAcked(ack, blocks))

(***************************************************************************)
(* Actions                                                                 *)
(***************************************************************************)
PrrInit == Init /\ prr \in {Idle(bound) : bound \in Bounds}

PrrSend(n) ==
  LET windows == IF sock.congState = "RECOVERY" THEN {prr.cWnd} ELSE CongWindows
  IN /\ Running /\ tx.tail + n <= Total + 1
     /\ \E e \in SendPendingData([Sender EXCEPT !.tx = Add(@, n)], windows) :
          EndsIn({e}) /\ prr' = UpdateBytesSent(prr, e.out)
     /\ UNCHANGED got

PrrArrive(g) ==
  /\ Running
  /\ got' = got \cup g[1]..(g[2] - 1)
  /\ \E blocks \in SackLists(got', g[1]) : Answer(NextRxSeq(got'), blocks)

PrrArriveUnheard(g) == ArriveUnheard(g) /\ UNCHANGED prr

\* The last timeout closes the connection and leaves the object alone.
PrrTimeout == \/ ReTxTimeout /\ prr' = Idle(prr.bound)
              \/ LastTimeout /\ UNCHANGED prr

PrrNext == \/ \E n \in Writes : PrrSend(n)
           \/ \E g \in flight : PrrArrive(g) \/ PrrArriveUnheard(g)
           \/ PrrTimeout

PrrSpec == PrrInit /\ [][PrrNext]_prrVars

(***************************************************************************)
(* Properties                                                              *)
(***************************************************************************)
InRecovery == sock.congState = "RECOVERY"

\* The proportion is never taken of nothing: DoRecovery divides by the bytes that
\* were outstanding when recovery began.
DivisorPositive == InRecovery => prr.flight > 0

\* Recovery never opens the window a segment beyond what was outstanding when it
\* began or, if that is more, the threshold, whatever is counted as delivered and
\* however short the segments are; nor does what it sends again without asking for
\* a window bring more than that in flight.
WindowBounded ==
  LET most == Larger(prr.flight, prr.ssThresh) + SegmentSize - 1
  IN InRecovery => prr.cWnd <= most /\ BytesInFlight(tx) <= most
=============================================================================
