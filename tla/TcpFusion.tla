----------------------------- MODULE TcpFusion -----------------------------
(***************************************************************************)
(* TCP-Fusion (tcp-fusion.cc) on top of NewReno (tcp-congestion-ops.cc),   *)
(* driven by the congestion state machine of TcpSocketBase.                *)
(*                                                                         *)
(* Sequence numbers count segments of a transfer of Total segments;        *)
(* windows are in bytes, times in ticks.  Of the scoreboard only the SACKed *)
(* segments are kept: which segments it holds for lost, and the window the *)
(* recovery algorithm sets while it lasts, are free choices, and so is     *)
(* Winc = BW / beta, seen only through the whole segments it adds.         *)
(***************************************************************************)
EXTENDS Integers, FiniteSets

CONSTANTS SegmentSize,     \* m_segmentSize, in bytes
          Total,           \* segments the application writes
          InitialCwnd,     \* m_initialCWnd, in segments
          InitialSsThresh, \* m_initialSsThresh, above the initial window
          RetxThresh,      \* m_retxThresh
          ReceiverWindow,  \* m_rWnd, in segments
          Rtts,            \* the RTT estimates the socket passes on (0: none yet)
          TimeMax,         \* Time::Max()
          Dmin,            \* m_dMinAlpha
          MaxGrowth,       \* most whole segments one increase adds
          RecoveryWindows, \* what the recovery algorithm may set cWnd to
          Ecn              \* whether ECN is negotiated

ASSUME FusionAssumption ==
  /\ SegmentSize \in Nat \ {0}
  /\ Total \in Nat
  /\ InitialCwnd \in Nat \ {0}
  /\ InitialSsThresh \in Nat
  /\ InitialSsThresh >= 2 * SegmentSize
  /\ InitialSsThresh > InitialCwnd * SegmentSize
  /\ RetxThresh \in Nat
  /\ ReceiverWindow \in Nat
  /\ TimeMax \in Nat \ {0}
  /\ Rtts \subseteq 0..(TimeMax - 1)
  /\ Dmin \in Nat
  /\ MaxGrowth \in Nat
  /\ RecoveryWindows \subseteq Nat
  /\ Ecn \in BOOLEAN

VARIABLES tcb,      \* the socket state, and the segments SACKed above una
          fusion,   \* the TcpFusion object
          estimate  \* whether the EstimateBW event is scheduled

vars == <<tcb, fusion, estimate>>

CongStates == {"OPEN", "DISORDER", "CWR", "RECOVERY", "LOSS"}

MaxOf(a, b) == IF a >= b THEN a ELSE b
MinOf(a, b) == IF a <= b THEN a ELSE b

(***************************************************************************)
(* NewReno                                                                 *)
(***************************************************************************)
SlowStart(w, segs) == IF segs >= 1 THEN w + SegmentSize ELSE w

CongestionAvoidance(w, segs) ==
  IF segs > 0 THEN w + MaxOf(1, (SegmentSize * SegmentSize) \div w) ELSE w

RenoIncrease(w, ssThresh, segs) ==
  LET started == IF w < ssThresh THEN SlowStart(w, segs) ELSE w
      left == IF w < ssThresh THEN MaxOf(segs - 1, 0) ELSE segs
  IN IF started >= ssThresh THEN CongestionAvoidance(started, left) ELSE started

(***************************************************************************)
(* TCP-Fusion                                                              *)
(***************************************************************************)
\* Mutant: a socket that has no estimate yet counts as a sample of zero
MutantPktsAcked(f, rtt) ==
  [f EXCEPT !.minRtt = MinOf(@, rtt), !.baseRtt = MinOf(@, rtt),
            !.currentRtt = rtt, !.cntRtt = MinOf(@ + 1, 3), !.isCount = TRUE]

\* cntRtt stops at 3: the code only asks whether it is above 2
PktsAcked(f, rtt) ==
  IF rtt = 0 THEN f ELSE
  [f EXCEPT !.minRtt = MinOf(@, rtt), !.baseRtt = MinOf(@, rtt),
            !.currentRtt = rtt, !.cntRtt = MinOf(@ + 1, 3), !.isCount = TRUE]

\* Mutant: the samples of the last cycle still count
MutantNewCycle(f) == [f EXCEPT !.minRtt = TimeMax]

NewCycle(f) == [f EXCEPT !.cntRtt = 0, !.minRtt = TimeMax]

\* Mutant: only a timeout disables the algorithm
MutantCongestionStateSet(f, state, nextTx) ==
  IF state # "LOSS"
  THEN [NewCycle(f) EXCEPT !.doingFusionNow = TRUE, !.begSndNxt = nextTx]
  ELSE [f EXCEPT !.doingFusionNow = FALSE]

CongestionStateSet(f, state, nextTx) ==
  IF state = "OPEN"
  THEN [NewCycle(f) EXCEPT !.doingFusionNow = TRUE, !.begSndNxt = nextTx]
  ELSE [f EXCEPT !.doingFusionNow = FALSE]

\* The delay-based window in segments: diff and alpha are compared after
\* multiplying by minRtt; in the decrease phase 0 < (diff - alpha)/cwnd < 1,
\* so dropping the fraction drops one segment.
Alpha(f, n) == MaxOf(f.minRtt, n * Dmin)
Diff(f, n) == n * (f.minRtt - f.baseRtt)

Increasing(f, n) == Diff(f, n) < Alpha(f, n)
Decreasing(f, n) == Diff(f, n) > 3 * Alpha(f, n)

FusionWindow(f, w, grown) ==
  LET n == w \div SegmentSize
      next == IF Increasing(f, n) THEN n + grown
              ELSE IF Decreasing(f, n) THEN n - 1 ELSE n
  IN MaxOf(next, 2) * SegmentSize

\* The guard of IncreaseWindow against a delay nobody measured
InvalidRtt(f) == 0 \in {f.minRtt, f.baseRtt} \/ f.baseRtt = TimeMax

\* Winc is at least one segment, so an increase from one segment adds one.
Growths(w) == IF w < 2 * SegmentSize THEN 1..MaxGrowth ELSE 0..MaxGrowth

CycleComplete(t, f) == t.una >= f.begSndNxt

\* TcpFusion::IncreaseWindow: the window and the object after an ACK of segs
\* segments, when Winc adds `grown' whole segments
IncreaseWindow(t, f, segs, grown) ==
  LET reno == f.renoCwnd + SegmentSize
      careful == CongestionAvoidance(t.cWnd, segs)
      adjusted == MaxOf(FusionWindow(f, t.cWnd, grown), reno)
      cycle == [NewCycle(f) EXCEPT !.begSndNxt = t.nextTx]
  IN IF ~f.doingFusionNow
     THEN [cWnd |-> RenoIncrease(t.cWnd, t.ssThresh, segs), fusion |-> f]
     ELSE IF t.cWnd < t.ssThresh
     THEN [cWnd |-> SlowStart(t.cWnd, segs),
           fusion |-> [f EXCEPT !.renoCwnd = SlowStart(t.cWnd, segs)]]
     ELSE IF ~CycleComplete(t, f) THEN [cWnd |-> t.cWnd, fusion |-> f]
     ELSE IF f.cntRtt <= 2 \/ InvalidRtt(f)
     THEN [cWnd |-> careful,
           fusion |-> [cycle EXCEPT !.renoCwnd = MaxOf(reno, careful)]]
     ELSE [cWnd |-> adjusted, fusion |-> [cycle EXCEPT !.renoCwnd = reno]]

\* Mutant: the ratio of the RTTs is turned round
MutantGetSsThresh(f, w) ==
  LET half == MaxOf(w \div 2, 2 * SegmentSize)
  IN IF TimeMax \in {f.baseRtt, f.currentRtt} THEN half
     ELSE MaxOf(half, (f.currentRtt * w) \div f.baseRtt)

\* The ratio of the RTTs is clamped to [1/2, 1], which `half' expresses.
GetSsThresh(f, w) ==
  LET half == MaxOf(w \div 2, 2 * SegmentSize)
  IN IF TimeMax \in {f.baseRtt, f.currentRtt} THEN half
     ELSE MaxOf(half, (f.baseRtt * w) \div f.currentRtt)

\* Mutant: the shadow window is left alone by a loss
MutantReduce(t, f) ==
  [t |-> [t EXCEPT !.ssThresh = GetSsThresh(f, t.cWnd)], f |-> f]

\* A loss event: the threshold and with it the Reno shadow window
Reduce(t, f) ==
  LET s == GetSsThresh(f, t.cWnd)
  IN [t |-> [t EXCEPT !.ssThresh = s], f |-> [f EXCEPT !.renoCwnd = s]]

(***************************************************************************)
(* TcpSocketBase: what happens to a state s = [t, f] of socket and object. *)
(* Of an operation that may end in several states the set is given.        *)
(***************************************************************************)
Entered(s, state) ==
  [t |-> [s.t EXCEPT !.congState = state],
   f |-> CongestionStateSet(s.f, state, s.t.nextTx)]

\* An ACK past recover ends CWR, without CongestionStateSet.
LeaveCwr(s) ==
  IF s.t.congState = "CWR" /\ s.t.una > s.t.recover
  THEN [s EXCEPT !.t.congState = "OPEN", !.t.cWnd = s.t.ssThresh] ELSE s

\* The recovery algorithm sets the window to w.
EnterCwr(s, w) ==
  [Reduce(s.t, s.f) EXCEPT !.t.congState = "CWR", !.t.recover = s.t.highTx,
                           !.t.cWnd = w]

\* DoRetransmit leaves nextTx on what it sends: the head, another lost
\* segment or, when NextSeg knows of none, new data.
DoRetransmit(s) ==
  {[s EXCEPT !.t.nextTx = seq] : seq \in s.t.una..(s.t.highTx - 1)} \cup
  (IF s.t.highTx < Total
   THEN {[s EXCEPT !.t.nextTx = s.t.highTx, !.t.highTx = @ + 1]} ELSE {})

EnterRecovery(s, w) ==
  LET e == Entered(s, "RECOVERY")
      r == Reduce(e.t, e.f)
  IN DoRetransmit([r EXCEPT !.t.recover = s.t.highTx, !.t.recoverActive = TRUE,
                            !.t.cWnd = w])

\* IsLost(una + 1): the scoreboard may hold the segment after the head for lost
\* when RetxThresh segments above it are SACKed.
MaySeeLoss(t) == t.una + 1 \notin t.sacked /\ Cardinality(t.sacked) >= RetxThresh

DupThreshold(t) == /\ t.dupAckCount = RetxThresh
                   /\ t.una >= t.recover \/ ~t.recoverActive

DupAck(s, w) ==
  LET c == [s EXCEPT !.t.dupAckCount = @ + 1]
      d == IF c.t.congState = "OPEN" THEN Entered(c, "DISORDER") ELSE c
  IN CASE s.t.congState = "LOSS" -> {s}
       [] s.t.congState = "RECOVERY" -> {[s EXCEPT !.t.cWnd = w]}
       [] s.t.congState = "CWR" -> {c}
       [] OTHER -> (IF DupThreshold(d.t) THEN {} ELSE {d}) \cup
                   (IF DupThreshold(d.t) \/ MaySeeLoss(d.t)
                    THEN EnterRecovery(d, w) ELSE {})

NewAck(s) == [s EXCEPT !.t.nextTx = MaxOf(@, s.t.una)]

Sampled(s, rtt) == [s EXCEPT !.f = PktsAcked(@, rtt)]

Increased(s, segs, grown) ==
  LET i == IncreaseWindow(s.t, s.f, segs, grown)
  IN [t |-> [s.t EXCEPT !.cWnd = i.cWnd], f |-> i.fusion]

\* A recovery point that is passed is no longer active.
Passed(s) ==
  [s EXCEPT !.t.recoverActive = @ /\ s.t.una < s.t.recover]

\* ProcessAck of an ACK that moves SND.UNA by k > 0, one operator for each
\* branch.  oldDup is dupAckCount before the ACK.
PartialAck(s, rtt, w) ==
  LET r == [s EXCEPT !.t.cWnd = w]
  IN {NewAck(Sampled(x, rtt)) : x \in {r} \cup DoRetransmit(r)}

AckInLoss(s, k, rtt, grown) == NewAck(Increased(Sampled(s, rtt), k, grown))

AckInCwr(s, rtt, w) == NewAck([Sampled(s, rtt) EXCEPT !.t.cWnd = w])

AckInOpen(s, k, rtt, grown) ==
  NewAck(Increased(Passed(Sampled(s, rtt)), k, grown))

AckInDisorder(s, k, oldDup, dup, rtt, grown) ==
  LET a == Passed(IF k >= oldDup THEN Sampled(s, rtt) ELSE s)
  IN IF dup THEN a ELSE NewAck(Increased(Entered(a, "OPEN"), k, grown))

AckEndsRecovery(s, k, rtt, grown) ==
  LET o == NewAck(Passed(Entered(Sampled(s, rtt), "OPEN")))
  IN Increased([o EXCEPT !.t.dupAckCount = 0, !.t.cWnd = o.t.ssThresh], k, grown)

AckEndsLoss(s, rtt, grown) ==
  NewAck(Increased(Passed(Entered(Sampled(s, rtt), "OPEN")),
                   s.t.una - s.t.recover, grown))

ResetDup(s, dup) == IF dup THEN s ELSE [s EXCEPT !.t.dupAckCount = 0]

ProcessAck(s, k, oldDup, dup, rtt, grown, w) ==
  LET a == ResetDup(s, dup)
      below == s.t.una < s.t.recover
  IN CASE s.t.congState = "RECOVERY" /\ below -> PartialAck(a, rtt, w)
       [] s.t.congState = "LOSS" /\ below -> {AckInLoss(a, k, rtt, grown)}
       [] s.t.congState = "CWR" -> {AckInCwr(a, rtt, w)}
       [] s.t.congState = "OPEN" -> {AckInOpen(a, k, rtt, grown)}
       [] s.t.congState = "DISORDER" ->
            {AckInDisorder(a, k, oldDup, dup, rtt, grown)}
       [] s.t.congState = "RECOVERY" /\ ~below -> {AckEndsRecovery(a, k, rtt, grown)}
       [] s.t.congState = "LOSS" /\ ~below -> {AckEndsLoss(a, rtt, grown)}

\* Segments with RetxThresh SACKed ones above them
Overtaken(t, segments) ==
  {q \in segments \ t.sacked :
     Cardinality({r \in t.sacked : r > q}) >= RetxThresh}

\* Segments are sent in order, from the first new one or, after a timeout, from
\* the first not sent again, and those not SACKed since are in flight.
InOrder(t) ==
  \/ t.congState = "OPEN" /\ t.sacked = {}
  \/ t.congState = "LOSS" /\ Overtaken(t, t.recover..(t.highTx - 1)) = {}

\* Where else the scoreboard, not modelled, can make NextSeg turn to
Resendable(t) ==
  LET sent == t.una..(t.highTx - 1)
  IN CASE t.congState \in {"RECOVERY", "CWR"} -> sent \ t.sacked
       [] t.congState = "LOSS" ->
            Overtaken(t, sent) \cup ((t.nextTx..(t.highTx - 1)) \ t.sacked)
       [] OTHER -> Overtaken(t, sent)

\* SendPendingData: some rounds of its loop.  In order while the window has
\* room; else any new data, then perhaps an earlier segment.
SendPendingData(t) ==
  LET limit == MaxOf(t.highTx, MinOf(Total, t.una + ReceiverWindow))
      from == IF t.congState = "LOSS" THEN t.nextTx ELSE t.highTx
  IN IF InOrder(t)
     THEN {t} \cup {[t EXCEPT !.nextTx = q + 1, !.highTx = MaxOf(@, q + 1)] :
            q \in {r \in (from..(limit - 1)) \ t.sacked :
                     Cardinality((t.una..r) \ t.sacked) * SegmentSize <= t.cWnd}}
     ELSE UNION {{[t EXCEPT !.highTx = h, !.nextTx = n] :
                    n \in {IF h = t.highTx THEN t.nextTx ELSE h} \cup
                          {q + 1 : q \in Resendable(t)}} :
                 h \in t.highTx..limit}

\* PktsAcked schedules EstimateBW when it starts a measurement.
Become(s) == /\ tcb' \in SendPendingData(s.t)
             /\ fusion' = s.f
             /\ estimate' = (estimate \/ (s.f.isCount /\ ~fusion.isCount))

\* The head of ReceivedAck: k segments acknowledged, CWR left, ECN echo
Arrived(k, news, ece, w) ==
  LET una == tcb.una + k
      t == [tcb EXCEPT !.una = una, !.sacked = {q \in @ \cup news : q > una}]
      s == LeaveCwr([t |-> t, f |-> fusion])
  IN IF ece /\ s.t.congState # "CWR" THEN EnterCwr(s, w) ELSE s

\* An ACK of k segments, up to one that is missing.  The news are the segments
\* above it that its SACK blocks name for the first time; an ACK with news is a
\* duplicate ACK too.
ReceivedAck(k, news, ece, rtt, w) ==
  /\ tcb.una + k <= tcb.highTx /\ tcb.una + k \notin tcb.sacked
  /\ news \cap tcb.sacked = {}
  /\ ece => Ecn /\ k > 0
  /\ LET a == Arrived(k, news, ece, w)
         dup == news # {}
     IN \E s \in IF dup THEN DupAck(a, w) ELSE {a} :
          IF k > 0
          THEN \E grown \in Growths(s.t.cWnd) :
               \E n \in ProcessAck(s, k, tcb.dupAckCount, dup, rtt, grown, w) :
                 Become(n)
          ELSE Become(IF s.t.una = s.t.highTx THEN s ELSE Sampled(s, rtt))

\* The application writes: SendPendingData alone
Send == Become([t |-> tcb, f |-> fusion])

\* The window falls to one segment, and the head is sent again.  The test for a
\* head that the timer has sent before never holds: SetSentListLost has just
\* cleared m_retrans of every segment.
ReTxTimeout ==
  /\ tcb.una < tcb.highTx
  /\ LET e == Reduce(tcb, fusion)
         l == Entered(e, "LOSS")
     IN /\ tcb' = [l.t EXCEPT !.recover = tcb.highTx, !.recoverActive = TRUE,
                              !.dupAckCount = 0, !.cWnd = SegmentSize,
                              !.nextTx = tcb.una + 1]
        /\ fusion' = l.f
        /\ UNCHANGED estimate

\* Mutant: the flag that a measurement is running stays up
MutantEstimateBW ==
  /\ estimate
  /\ estimate' = FALSE
  /\ UNCHANGED <<tcb, fusion>>

\* The event PktsAcked scheduled
EstimateBW ==
  /\ estimate
  /\ estimate' = FALSE
  /\ fusion' = [fusion EXCEPT !.isCount = FALSE]
  /\ UNCHANGED tcb

Init ==
  /\ tcb = [una |-> 0, nextTx |-> 0, highTx |-> 0, recover |-> 0,
            recoverActive |-> FALSE, dupAckCount |-> 0, sacked |-> {},
            congState |-> "OPEN", cWnd |-> InitialCwnd * SegmentSize,
            ssThresh |-> InitialSsThresh]
  /\ fusion = [baseRtt |-> TimeMax, minRtt |-> TimeMax, currentRtt |-> TimeMax,
               cntRtt |-> 0, doingFusionNow |-> TRUE, begSndNxt |-> 0,
               renoCwnd |-> 0, isCount |-> FALSE]
  /\ estimate = FALSE

Acknowledge ==
  \E k \in 0..Total, ece \in BOOLEAN, rtt \in Rtts, w \in RecoveryWindows :
    \E news \in SUBSET ((tcb.una + k + 1)..(tcb.highTx - 1)) :
      ReceivedAck(k, news, ece, rtt, w)

Next == \/ Acknowledge
        \/ Send
        \/ ReTxTimeout
        \/ EstimateBW

Spec == Init /\ [][Next]_vars

\* The simulator runs every event that is not cancelled.
FairSpec == Spec /\ WF_vars(EstimateBW)

(***************************************************************************)
(* Properties                                                              *)
(***************************************************************************)
\* Every field keeps its type.
FusionTypeOK ==
  /\ tcb \in [una : 0..Total, nextTx : 0..Total, highTx : 0..Total,
              recover : 0..Total, recoverActive : BOOLEAN,
              dupAckCount : Nat, sacked : SUBSET (0..Total),
              congState : CongStates, cWnd : Nat, ssThresh : Nat]
  /\ fusion \in [baseRtt : 1..TimeMax, minRtt : 1..TimeMax,
                 currentRtt : 1..TimeMax, cntRtt : 0..3,
                 doingFusionNow : BOOLEAN, begSndNxt : 0..Total,
                 renoCwnd : Nat, isCount : BOOLEAN]
  /\ estimate \in BOOLEAN
  /\ {tcb.una, tcb.nextTx, tcb.recover} \subseteq 0..tcb.highTx

\* Whenever a loss strikes, the new threshold, and the window taken from it
\* when recovery ends, is not above the window of that moment (GetSsThresh has
\* no upper clamp: the base RTT must survive every reset and stay below the
\* current one).
ReductionIsBounded ==
  GetSsThresh(fusion, tcb.cWnd) <= MaxOf(tcb.cWnd, 2 * SegmentSize)

\* In congestion avoidance the Reno shadow window is at least the threshold
\* of the last loss, through every mixture of timeouts, CWR, recoveries and
\* spells of slow start, some run by Fusion and some by NewReno.
ShadowAboveThreshold ==
  tcb.congState = "OPEN" /\ tcb.cWnd >= tcb.ssThresh
    => fusion.renoCwnd >= tcb.ssThresh

\* So the delay-based decrease of an ACK never takes an open connection from
\* congestion avoidance back below the threshold, into slow start.
NoRelapse ==
  [][tcb.congState = "OPEN" /\ tcb'.congState = "OPEN"
     /\ tcb.cWnd >= tcb.ssThresh /\ tcb'.ssThresh = tcb.ssThresh
       => tcb'.cWnd >= tcb'.ssThresh]_vars

\* Delay-based control never runs while the connection repairs a loss.
FusionOffWhileRepairing ==
  tcb.congState \in {"DISORDER", "RECOVERY", "LOSS"} => ~fusion.doingFusionNow

\* The delay-based branch never runs without a measurement: the guard against
\* an invalid RTT in IncreaseWindow is never needed.
CountedIsMeasured ==
  fusion.cntRtt > 0 => fusion.minRtt < TimeMax /\ fusion.baseRtt <= fusion.minRtt

\* A bandwidth measurement that began always ends, so that the next begins.
MeasurementEnds == fusion.isCount ~> ~fusion.isCount

\* tcp-fusion.h: "Enable Fusion mode (called on CA_OPEN)".
FusionOnInOpen == tcb.congState = "OPEN" => fusion.doingFusionNow

=============================================================================
