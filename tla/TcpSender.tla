----------------------------- MODULE TcpSender -----------------------------
(***************************************************************************)
(* The sending half of an established TcpSocketBase over the scoreboard of *)
(* TcpTxBuffer: fast retransmit, recovery with and without SACK, the       *)
(* retransmission timer and the retry limit.  The window is a free choice  *)
(* (TcpFusion models how it moves), and so is what the network does: every *)
(* segment sent may arrive at any later time, repeatedly, or never, and    *)
(* the ACK it causes arrives at once or not at all.                        *)
(***************************************************************************)
EXTENDS TcpTxBuffer

CONSTANTS Total,          \* bytes the application writes
          Writes,         \* the sizes it writes them in
          SackModes,      \* what m_sackEnabled may be after the handshake
          NoDelay,        \* m_noDelay: Nagle's rule is off
          ReceiverWindow, \* m_rWnd after the handshake; here it stays, for the
                          \* peer's application reads at once
          CongWindows,    \* what m_cWnd may be when a handler sends
          DataRetries     \* m_dataRetries

ASSUME SenderAssumption == /\ Total \in Nat
                           /\ Writes \subseteq Nat \ {0}
                           /\ SackModes \subseteq BOOLEAN
                           /\ NoDelay \in BOOLEAN
                           /\ ReceiverWindow \in Nat
                           /\ CongWindows \subseteq Nat
                           /\ DataRetries \in Nat

VARIABLES tx,      \* m_txBuffer
          sock,    \* the other members of the socket
          flight,  \* segments sent: pairs of first byte and the one past them
          got      \* bytes the receiver holds or has passed on

vars == <<tx, sock, flight, got>>

\* Handlers act on s = [tx, sock, flight, out]: a value for each variable they
\* change, and the bytes they have sent in CA_RECOVERY (TcpPrrRecovery counts them).
InitialSocket(sackEnabled) ==
  [sackEnabled |-> sackEnabled, congState |-> "OPEN", dupAckCount |-> 0,
   recover |-> 0, recoverActive |-> FALSE, isFirstPartialAck |-> TRUE,
   highTx |-> 1, nextTx |-> 1, rWnd |-> ReceiverWindow,
   retx |-> FALSE,             \* m_retxEvent is scheduled
   dataRetrCount |-> DataRetries,
   dropped |-> FALSE,          \* the retries were used up
   nullItem |-> FALSE]         \* CopyFromSequence returned no item

Init == /\ tx = EmptyBuffer
        /\ sock \in {InitialSocket(mode) : mode \in SackModes}
        /\ flight = {} /\ got = {}

(***************************************************************************)
(* Sending                                                                 *)
(***************************************************************************)
Transmitted(s, seq, b) ==
  LET past == EndOf(b, seq)
  IN [tx |-> b, flight |-> s.flight \cup {<<seq, past>>},
      sock |-> [s.sock EXCEPT !.nextTx = seq, !.retx = TRUE, !.highTx = Larger(@, past)],
      out |-> IF s.sock.congState = "RECOVERY" THEN s.out + (past - seq) ELSE s.out]

\* Mutant: only new data starts the timer.
MutantSendDataPacket(s, seq, n) ==
  LET sent == Transmitted(s, seq, CopyFromSequence(s.tx, n, seq))
  IN IF n = 0 THEN [s EXCEPT !.sock.nullItem = TRUE]
     ELSE [sent EXCEPT !.sock.retx = s.sock.retx \/ seq = s.sock.highTx]

\* A segment of at most n bytes from seq on; highTx may be past it already.
SendDataPacket(s, seq, n) ==
  IF n = 0 THEN [s EXCEPT !.sock.nullItem = TRUE]
  ELSE Transmitted(s, seq, CopyFromSequence(s.tx, n, seq))

\* SendDataPacket leaves SND.NXT where the segment begins.
MoveOn(s, seq) ==
  IF s.sock.nullItem THEN s ELSE [s EXCEPT !.sock.nextTx = EndOf(s.tx, seq)]

\* The loop in SendPendingData goes round once more, next being offered.
MaySend(s, window, next) ==
  LET available == SizeFromSequence(s.tx, next.seq)
      silly == window < SegmentSize /\ available > window
      nagle == ~NoDelay /\ s.sock.highTx > s.tx.una /\ available < SegmentSize
  IN next.ok /\ ~silly /\ ~nagle

\* Nothing changes when the loop ends.
Round(s, cWnd) ==
  LET b == s.tx
      window == Larger(Smaller(s.sock.rWnd, cWnd) - BytesInFlight(b), 0)
      next == NextSeg(b, s.sock.rWnd,
                      s.sock.sackEnabled /\ s.sock.congState = "RECOVERY")
  IN IF s.sock.dropped \/ s.sock.nullItem \/ b.tail = b.una \/ window = 0
        \/ ~MaySend(s, window, next)
     THEN s
     ELSE MoveOn(SendDataPacket(s, next.seq, Smaller(Smaller(window, SegmentSize), next.size)),
                 next.seq)

\* The states the loop can end in: the one it reaches for each congestion window.
\* No byte is sent twice in one call, so Total rounds are enough.
SendPendingData(s, windows) ==
  LET after[k \in 0..Total] ==
        IF k = 0 THEN windows \X {s}
        ELSE {<<p[1], Round(p[2], p[1])>> : p \in after[k - 1]}
  IN {p[2] : p \in after[Total]}

DoRetransmit(s) ==
  LET next == NextSeg(s.tx, s.sock.rWnd, FALSE)
  IN SendDataPacket(s, IF next.ok THEN next.seq ELSE s.tx.una,
                    IF next.ok THEN next.size ELSE SegmentSize)

(***************************************************************************)
(* Acknowledgments                                                         *)
(***************************************************************************)
\* The buffer when recovery begins: its head is lost.
HeadLost(s) ==
  LET b == s.tx
  IN IF ~s.sock.sackEnabled THEN MarkHeadAsLost(AddRenoSack(b))
     ELSE IF IsLost(b, b.una) THEN b ELSE MarkHeadAsLost(b)

EnterRecovery(s) ==
  DoRetransmit([s EXCEPT !.tx = HeadLost(s),
                         !.sock.recover = s.sock.highTx,
                         !.sock.recoverActive = TRUE,
                         !.sock.congState = "RECOVERY"])

\* The duplicate counts, unless in recovery, and takes OPEN to DISORDER.
Counted(s) ==
  [s EXCEPT !.sock.dupAckCount = IF s.sock.congState = "RECOVERY" THEN @ ELSE @ + 1,
            !.sock.congState = IF @ = "OPEN" THEN "DISORDER" ELSE @]

\* m_highRxAckMark is the ACK just taken, SND.UNA.
LossSeen(s) ==
  \/ /\ s.sock.dupAckCount = DupAckThresh
     /\ s.tx.una >= s.sock.recover \/ ~s.sock.recoverActive
  \/ IsLost(s.tx, s.tx.una + SegmentSize)

RenoSack(s) == IF s.sock.sackEnabled THEN s ELSE [s EXCEPT !.tx = AddRenoSack(@)]

DupAck(s) ==
  LET c == Counted(s)
  IN CASE s.sock.congState = "LOSS" -> s
       [] s.sock.congState \notin {"LOSS", "RECOVERY"} /\ LossSeen(c) -> EnterRecovery(c)
       [] OTHER -> RenoSack(c)

NewAck(s, resetRTO) ==
  [s EXCEPT !.sock.dataRetrCount = DataRetries,
            !.sock.nextTx = Larger(@, s.tx.una),
            !.sock.retx = s.tx.tail > s.tx.una /\ (@ \/ resetRTO)]

RetransmitUnlessAcked(s) ==
  IF IsRetransmittedDataAcked(s.tx, s.tx.una + SegmentSize) THEN s ELSE DoRetransmit(s)

\* An ACK in recovery below the recovery point
PartialAck(s) ==
  LET m == IF s.sock.sackEnabled THEN s ELSE [s EXCEPT !.tx = MarkHeadAsLost(@)]
  IN [NewAck(RetransmitUnlessAcked(m), s.sock.isFirstPartialAck)
        EXCEPT !.sock.isFirstPartialAck = FALSE]

\* An ACK that is not below the recovery point, or outside recovery and loss
FullAck(s, isDupack) ==
  LET state == s.sock.congState
      ends == state \in {"RECOVERY", "LOSS"}
      next == IF ends \/ (state = "DISORDER" /\ ~isDupack) THEN "OPEN" ELSE state
      p == [s EXCEPT !.sock.congState = next,
                     !.sock.isFirstPartialAck = @ \/ ends,
                     !.sock.dupAckCount = IF state = "RECOVERY" THEN 0 ELSE @,
                     !.sock.recoverActive = @ /\ s.tx.una < s.sock.recover]
  IN IF next = "OPEN" THEN NewAck(p, TRUE) ELSE p

Advanced(s, isDupack) ==
  LET below == s.tx.una < s.sock.recover
      state == s.sock.congState
  IN CASE below /\ state = "RECOVERY" -> PartialAck(s)
       [] below /\ state = "LOSS" -> NewAck(s, TRUE)
       [] OTHER -> FullAck(s, isDupack)

\* An ACK that is not a duplicate and acknowledges something ends the count.
ProcessAck(s, oldHead, isDupack) ==
  LET d == IF isDupack THEN DupAck(s) ELSE s
  IN IF s.tx.una = oldHead THEN d
     ELSE Advanced(IF isDupack THEN d ELSE [s EXCEPT !.sock.dupAckCount = 0], isDupack)

\* A handler leaves the socket in one of the states S; of the segments sent those
\* that are acknowledged are forgotten.
EndsIn(S) ==
  \E s \in S : /\ tx' = s.tx /\ sock' = s.sock
             /\ flight' = {g \in s.flight : g[2] > s.tx.una}

\* A duplicate brings news of what was received out of order or, without SACK,
\* repeats the last one.
IsDupack(s, ack, blocks) ==
  IF s.sock.sackEnabled THEN Update(s.tx, blocks).sacked # s.tx.sacked
  ELSE ack = s.tx.una /\ ack < s.sock.highTx

\* The scoreboard takes the SACK blocks before the cumulative ACK.
Scored(s, ack, blocks) == [s EXCEPT !.tx = DiscardUpTo(Update(s.tx, blocks), ack)]

ReceivedAck(s, ack, blocks) ==
  LET r == ProcessAck(Scored(s, ack, blocks), s.tx.una, IsDupack(s, ack, blocks))
  IN SendPendingData(r, CongWindows)

(***************************************************************************)
(* The receiver: what it holds above the first byte it misses, in at most  *)
(* three blocks, in some order, of which the first holds what just arrived *)
(***************************************************************************)
FirstMissing(bytes, from) == LeastOf({q \in from..(Total + 1) : q \notin bytes})

NextRxSeq(bytes) == FirstMissing(bytes, 1)

Runs(bytes) ==
  LET next == NextRxSeq(bytes)
  IN {<<f, FirstMissing(bytes, f)>> : f \in {q \in bytes : q > next /\ q - 1 \notin bytes}}

SackLists(bytes, arrived) ==
  LET runs == Runs(bytes)
      n == Smaller(Cardinality(runs), 3)
      recent(r) == r[1] <= arrived /\ arrived < r[2]
  IN IF sock.sackEnabled
     THEN {list \in [1..n -> runs] :
             /\ \A j, k \in 1..n : list[j] = list[k] => j = k
             /\ (\E r \in runs : recent(r)) => recent(list[1])}
     ELSE {<<>>}

(***************************************************************************)
(* Actions                                                                 *)
(***************************************************************************)
\* The program runs on: no null pointer, no connection given up
Running == ~sock.dropped /\ ~sock.nullItem

Sender == [tx |-> tx, sock |-> sock, flight |-> flight, out |-> 0]

Send(n) ==
  /\ Running /\ tx.tail + n <= Total + 1
  /\ EndsIn(SendPendingData([Sender EXCEPT !.tx = Add(@, n)], CongWindows))
  /\ UNCHANGED got

\* A segment reaches the receiver and its ACK the sender.
Arrive(g) ==
  /\ Running
  /\ got' = got \cup g[1]..(g[2] - 1)
  /\ \E blocks \in SackLists(got', g[1])  :
       EndsIn(ReceivedAck(Sender, NextRxSeq(got'), blocks))

\* The ACK is lost.
ArriveUnheard(g) ==
  /\ Running
  /\ ~(g[1]..(g[2] - 1) \subseteq got)
  /\ got' = got \cup g[1]..(g[2] - 1)
  /\ UNCHANGED <<tx, sock, flight>>

\* A copy of a segment that the receiver has passed on already
ArriveAgain ==
  /\ Running /\ 1 \in got
  /\ \E blocks \in SackLists(got, 1)  :
       EndsIn(ReceivedAck(Sender, NextRxSeq(got), blocks))
  /\ UNCHANGED got

\* The state the timer leaves before it sends
TimedOut ==
  LET b == IF sock.sackEnabled THEN tx ELSE ResetRenoSack(tx)
  IN [tx |-> SetSentListLost(b, ~sock.sackEnabled), flight |-> flight, out |-> 0,
      sock |-> [sock EXCEPT !.retx = FALSE, !.dataRetrCount = @ - 1,
                            !.dupAckCount = 0,
                            !.recover = sock.highTx, !.recoverActive = TRUE,
                            !.congState = "LOSS"]]

ReTxTimeout ==
  /\ Running /\ sock.retx /\ tx.tail > tx.una /\ sock.dataRetrCount > 0
  /\ EndsIn(SendPendingData(TimedOut, {SegmentSize}))
  /\ UNCHANGED got

\* It fires with nothing to send, or with no retry left.
LastTimeout ==
  /\ Running /\ sock.retx /\ (tx.tail = tx.una \/ sock.dataRetrCount = 0)
  /\ sock' = [sock EXCEPT !.retx = FALSE, !.dropped = tx.tail > tx.una]
  /\ UNCHANGED <<tx, flight, got>>

Next == \/ \E n \in Writes : Send(n)
        \/ \E g \in flight : Arrive(g)
        \/ \E g \in flight : ArriveUnheard(g)
        \/ ArriveAgain
        \/ ReTxTimeout
        \/ LastTimeout

Spec == Init /\ [][Next]_vars

\* Weak fairness of the timer, which fires if it stays scheduled, written out:
\* its actions are enabled when it is scheduled, and one of them takes a retry
\* or leaves the timer idle.
TimerFairness == \/ []<>~(Running /\ sock.retx)
                 \/ []<><<sock'.dataRetrCount < sock.dataRetrCount>>_vars

FairSpec == Spec /\ TimerFairness

(***************************************************************************)
(* Properties                                                              *)
(***************************************************************************)
CongStates == {"OPEN", "DISORDER", "RECOVERY", "LOSS"}

Bytes == 1..Total

SenderTypeOK ==
  /\ tx \in [una : 1..(Total + 1), end : 1..(Total + 1), tail : 1..(Total + 1),
             starts : SUBSET Bytes, sacked : SUBSET Bytes, lost : SUBSET Bytes,
             retrans : SUBSET Bytes, sackedOut : Nat, lostOut : Nat,
             retransOut : Nat, high : 0..Total]
  /\ sock \in [congState : CongStates, dupAckCount : Nat, sackEnabled : SackModes, rWnd : Nat,
               recover : 0..(Total + 1),
               recoverActive : BOOLEAN, isFirstPartialAck : BOOLEAN,
               highTx : 1..(Total + 1), nextTx : 1..(Total + 1), retx : BOOLEAN,
               dataRetrCount : 0..DataRetries, dropped : BOOLEAN, nullItem : BOOLEAN]
  /\ flight \subseteq Bytes \X (1..(Total + 1))
  /\ got \subseteq Bytes

\* The three counters agree with the flags of the items (ConsistencyCheck, which
\* the code has switched off).
CountersAgree ==
  /\ tx.sackedOut = Cardinality(tx.sacked)
  /\ tx.lostOut = Cardinality(tx.lost)
  /\ tx.retransOut = Cardinality(tx.retrans)

\* What is counted out as SACKed or lost was sent, so that BytesInFlight does not
\* wrap (the assertion in BytesInFlight).
LeftOutWithinSent == tx.sackedOut + tx.lostOut <= SentSize(tx)

\* The head of the sent list is never SACKed, neither by the receiver nor by a
\* guess (the assertion at the end of Update).
HeadNotSacked == tx.una \notin tx.sacked

\* With SACK the scoreboard believes of the receiver only what it holds.
SackedIsHeld == sock.sackEnabled => tx.sacked \subseteq got

\* An item after the head is held lost only if DupAckThresh items above it are
\* SACKed, or in the aftermath of a timeout.
LostIsJustified ==
  \A i \in tx.starts \cap tx.lost :
    \/ i = tx.una
    \/ sock.congState = "LOSS" /\ i < sock.recover
    \/ Cardinality({j \in tx.starts \cap tx.sacked : j > i}) >= DupAckThresh

\* What the receiver has reported in a SACK block is not sent again.
SackedNotResent ==
  [][sock.sackEnabled => (tx'.retrans \ tx.retrans) \cap tx'.sacked = {}]_vars

\* New data is sent only when nothing is known to be lost and not yet sent again.
RepairFirst ==
  [][tx'.end > tx.end =>
       (tx'.starts \cap tx'.lost) \ (tx'.retrans \cup tx'.sacked) = {}]_vars

\* A timeout leaves no more than one segment in flight (the assertions at the end
\* of ReTxTimeout), and the head is in it.
RestartsFromHead ==
  [][sock'.congState = "LOSS" /\ sock'.dataRetrCount < sock.dataRetrCount =>
       BytesInFlight(tx') <= SegmentSize /\ tx'.una \in tx'.retrans]_vars

\* NextSeg offers a range of bytes that are there to be sent, never an empty one:
\* the item that SendDataPacket takes from the buffer exists.
OfferHasBytes == ~sock.nullItem

\* Whatever is written is acknowledged in the end, or the connection is given up.
AckedOrGivenUp == []<>(tx.una = tx.tail \/ sock.dropped)
=============================================================================
