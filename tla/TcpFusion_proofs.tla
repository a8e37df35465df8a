-------------------------- MODULE TcpFusion_proofs --------------------------
(***************************************************************************)
(* Proofs about TcpFusion, for every segment size, transfer, set of RTTs   *)
(* and behaviour of the recovery algorithm.  A handler is a chain of       *)
(* operators on a state s = [t, f]; each keeps the invariant Sane, which   *)
(* says what the windows may be in every congestion state.                 *)
(***************************************************************************)
EXTENDS TcpFusion, TLAPS

TcbSet == [una : 0..Total, nextTx : 0..Total, highTx : 0..Total,
           recover : 0..Total, recoverActive : BOOLEAN,
           dupAckCount : Nat, sacked : SUBSET (0..Total),
           congState : CongStates, cWnd : Nat, ssThresh : Nat]

FusionSet == [baseRtt : 1..TimeMax, minRtt : 1..TimeMax,
              currentRtt : 1..TimeMax, cntRtt : 0..3,
              doingFusionNow : BOOLEAN, begSndNxt : 0..Total,
              renoCwnd : Nat, isCount : BOOLEAN]

StateSet == [t : TcbSet, f : FusionSet]

\* What the RTTs of the object have to do with each other
RttsOrdered(f) ==
  /\ f.baseRtt <= f.minRtt /\ f.baseRtt <= f.currentRtt
  /\ f.cntRtt > 0 => f.minRtt < TimeMax

InBounds(t) ==
  t.una <= t.highTx /\ t.nextTx <= t.highTx /\ t.recover <= t.highTx

\* The shadow window against the threshold, where Fusion may run or has run
ShadowHolds(t, f) ==
  /\ t.cWnd >= t.ssThresh => f.renoCwnd >= t.ssThresh
  /\ ~f.doingFusionNow => t.cWnd >= t.ssThresh

Sane(s) ==
  /\ s \in StateSet
  /\ InBounds(s.t) /\ RttsOrdered(s.f) /\ s.t.ssThresh > 0
  /\ s.t.congState \in {"OPEN", "DISORDER", "LOSS"} => s.t.cWnd > 0
  /\ s.t.congState \in {"DISORDER", "RECOVERY", "LOSS"} => ~s.f.doingFusionNow
  /\ s.t.congState \in {"RECOVERY", "CWR", "LOSS"} => s.f.renoCwnd >= s.t.ssThresh
  /\ s.t.congState = "OPEN" => ShadowHolds(s.t, s.f)
  /\ s.t.congState = "DISORDER" /\ s.t.cWnd >= s.t.ssThresh
       => s.f.renoCwnd >= s.t.ssThresh

(***************************************************************************)
(* Arithmetic                                                              *)
(***************************************************************************)
\* A fraction of a window is not above the window.
LEMMA FractionBelow ==
  ASSUME NEW a \in Nat, NEW b \in Nat, NEW c \in Nat, b <= c, 0 < c
  PROVE  /\ (b * a) \div c \in Nat
         /\ (b * a) \div c <= a
<1>1. b * a <= c * a
  BY SMT
<1>2. b * a \in Nat /\ c * a \in Nat
  BY SMT
<1>3. \A x \in Nat : x <= c * a => x \div c \in Nat /\ x \div c <= a
  <2> SUFFICES ASSUME NEW x \in Nat, x <= c * a
               PROVE  x \div c \in Nat /\ x \div c <= a
    OBVIOUS
  <2>1. x \div c \in Nat /\ c * (x \div c) <= x
    BY SMT
  <2>2. CASE x \div c > a
    <3>1. x \div c >= a + 1
      BY <2>1, <2>2, SMT
    <3>2. c * (x \div c) >= c * (a + 1)
      BY <2>1, <3>1, SMT
    <3>3. c * (a + 1) = c * a + c
      BY SMT
    <3> QED BY <2>1, <3>2, <3>3, SMT
  <2> QED BY <2>1, <2>2, SMT
<1> QED BY <1>1, <1>2, <1>3

\* The threshold after a loss: at least two segments, and not above the window.
LEMMA ThresholdBounded ==
  ASSUME NEW f \in FusionSet, RttsOrdered(f), NEW w \in Nat
  PROVE  /\ GetSsThresh(f, w) \in Nat
         /\ GetSsThresh(f, w) >= 2 * SegmentSize
         /\ GetSsThresh(f, w) > 0
         /\ GetSsThresh(f, w) <= MaxOf(w, 2 * SegmentSize)
<1>1. /\ f.baseRtt \in Nat /\ f.currentRtt \in Nat
      /\ f.baseRtt <= f.currentRtt /\ 0 < f.currentRtt
  BY FusionAssumption DEF FusionSet, RttsOrdered
<1>2. /\ (f.baseRtt * w) \div f.currentRtt \in Nat
      /\ (f.baseRtt * w) \div f.currentRtt <= w
  BY <1>1, FractionBelow
<1>3. w \div 2 \in Nat /\ w \div 2 <= w
  OBVIOUS
<1>4. 2 * SegmentSize \in Nat /\ 2 * SegmentSize > 0
  BY FusionAssumption
<1> DEFINE ratio == (f.baseRtt * w) \div f.currentRtt
<1>5. ratio \in Nat /\ ratio <= w
  BY <1>2
<1>6. GetSsThresh(f, w) \in {MaxOf(w \div 2, 2 * SegmentSize),
                            MaxOf(MaxOf(w \div 2, 2 * SegmentSize), ratio)}
  BY DEF GetSsThresh
<1> HIDE DEF ratio
<1> QED BY <1>3, <1>4, <1>5, <1>6 DEF MaxOf

(***************************************************************************)
(* The TcpFusion object                                                    *)
(***************************************************************************)
LEMMA PktsAckedType ==
  ASSUME NEW f \in FusionSet, RttsOrdered(f), NEW rtt \in Rtts
  PROVE  /\ PktsAcked(f, rtt) \in FusionSet
         /\ RttsOrdered(PktsAcked(f, rtt))
         /\ PktsAcked(f, rtt).doingFusionNow = f.doingFusionNow
         /\ PktsAcked(f, rtt).renoCwnd = f.renoCwnd
<1>1. CASE rtt = 0
  BY <1>1 DEF PktsAcked
<1>2. CASE rtt # 0
  <2>1. rtt \in 1..(TimeMax - 1)
    BY <1>2, FusionAssumption
  <2>2. /\ rtt \in 1..TimeMax
        /\ MinOf(f.minRtt, rtt) \in 1..TimeMax
        /\ MinOf(f.baseRtt, rtt) \in 1..TimeMax
        /\ MinOf(f.cntRtt + 1, 3) \in 0..3
    BY <2>1, FusionAssumption DEF FusionSet, MinOf
  <2>3. PktsAcked(f, rtt) \in FusionSet
    BY <1>2, <2>2, Zenon DEF FusionSet, PktsAcked
  <2>4. RttsOrdered(PktsAcked(f, rtt))
    BY <2>1, FusionAssumption DEF FusionSet, PktsAcked, MinOf, RttsOrdered
  <2>5. /\ PktsAcked(f, rtt).doingFusionNow = f.doingFusionNow
        /\ PktsAcked(f, rtt).renoCwnd = f.renoCwnd
    BY DEF FusionSet, PktsAcked
  <2> QED BY <2>3, <2>4, <2>5
<1> QED BY <1>1, <1>2

LEMMA NewCycleType ==
  ASSUME NEW f \in FusionSet, RttsOrdered(f)
  PROVE  /\ NewCycle(f) \in FusionSet
         /\ RttsOrdered(NewCycle(f))
         /\ NewCycle(f).doingFusionNow = f.doingFusionNow
         /\ NewCycle(f).renoCwnd = f.renoCwnd
<1>1. TimeMax \in 1..TimeMax /\ 0 \in 0..3
  BY FusionAssumption DEF FusionSet
<1>2. NewCycle(f) \in FusionSet
  BY <1>1, Zenon DEF FusionSet, NewCycle
<1>3. RttsOrdered(NewCycle(f))
  BY <1>1, FusionAssumption DEF FusionSet, RttsOrdered, NewCycle
<1> QED BY <1>2, <1>3 DEF FusionSet, NewCycle

LEMMA CongestionStateSetType ==
  ASSUME NEW f \in FusionSet, RttsOrdered(f), NEW n \in 0..Total, NEW state
  PROVE  /\ CongestionStateSet(f, state, n) \in FusionSet
         /\ RttsOrdered(CongestionStateSet(f, state, n))
         /\ CongestionStateSet(f, state, n).doingFusionNow = (state = "OPEN")
         /\ CongestionStateSet(f, state, n).renoCwnd = f.renoCwnd
<1>1. CongestionStateSet(f, state, n) \in FusionSet
  BY NewCycleType DEF FusionSet, CongestionStateSet
<1>2. RttsOrdered(CongestionStateSet(f, state, n))
  BY NewCycleType DEF FusionSet, CongestionStateSet, RttsOrdered
<1>3. CongestionStateSet(f, state, n).doingFusionNow = (state = "OPEN")
  BY NewCycleType DEF FusionSet, CongestionStateSet
<1>4. CongestionStateSet(f, state, n).renoCwnd = f.renoCwnd
  BY NewCycleType DEF FusionSet, CongestionStateSet
<1> QED BY <1>1, <1>2, <1>3, <1>4

(***************************************************************************)
(* The operators on a state                                                *)
(***************************************************************************)
LEMMA StateOf ==
  ASSUME NEW t \in TcbSet, NEW f \in FusionSet
  PROVE  /\ [t |-> t, f |-> f] \in StateSet
         /\ [t |-> t, f |-> f].t = t /\ [t |-> t, f |-> f].f = f
BY DEF StateSet

LEMMA SampledSane ==
  ASSUME NEW s, Sane(s), NEW rtt \in Rtts
  PROVE  Sane(Sampled(s, rtt)) /\ Sampled(s, rtt).t = s.t
<1>1. /\ s \in StateSet /\ s.f \in FusionSet /\ RttsOrdered(s.f)
  BY DEF Sane, StateSet
<1>2. /\ Sampled(s, rtt) \in StateSet
      /\ Sampled(s, rtt).t = s.t
      /\ Sampled(s, rtt).f = PktsAcked(s.f, rtt)
  BY <1>1, PktsAckedType DEF Sampled, StateSet
<1> QED BY <1>1, <1>2, PktsAckedType DEF Sane, ShadowHolds

\* The fields of the socket that an operator may change are those of C.
SameExcept(C, t, u) ==
  /\ "una" \notin C => u.una = t.una
  /\ "nextTx" \notin C => u.nextTx = t.nextTx
  /\ "highTx" \notin C => u.highTx = t.highTx
  /\ "recover" \notin C => u.recover = t.recover
  /\ "congState" \notin C => u.congState = t.congState
  /\ "cWnd" \notin C => u.cWnd = t.cWnd
  /\ "ssThresh" \notin C => u.ssThresh = t.ssThresh

LEMMA EnteredFields ==
  ASSUME NEW s \in StateSet, RttsOrdered(s.f), NEW state \in CongStates
  PROVE  /\ Entered(s, state) \in StateSet
         /\ Entered(s, state).t = [s.t EXCEPT !.congState = state]
         /\ Entered(s, state).t.congState = state
         /\ SameExcept({"congState"}, s.t, Entered(s, state).t)
         /\ RttsOrdered(Entered(s, state).f)
         /\ Entered(s, state).f.doingFusionNow = (state = "OPEN")
         /\ Entered(s, state).f.renoCwnd = s.f.renoCwnd
<1>1. s.t \in TcbSet /\ s.f \in FusionSet /\ s.t.nextTx \in 0..Total
  BY DEF StateSet, TcbSet
<1> DEFINE u == [s.t EXCEPT !.congState = state]
           g == CongestionStateSet(s.f, state, s.t.nextTx)
<1>2. u \in TcbSet
  BY <1>1, Zenon DEF TcbSet
<1>3. u.congState = state /\ SameExcept({"congState"}, s.t, u)
  BY <1>1 DEF TcbSet, SameExcept
<1>4. /\ g \in FusionSet /\ RttsOrdered(g)
      /\ g.doingFusionNow = (state = "OPEN") /\ g.renoCwnd = s.f.renoCwnd
  BY <1>1, CongestionStateSetType
<1>5. Entered(s, state) = [t |-> u, f |-> g]
  BY DEF Entered
<1> HIDE DEF u, g
<1>6. Entered(s, state) \in StateSet /\ Entered(s, state).t = u /\ Entered(s, state).f = g
  BY <1>2, <1>4, <1>5, StateOf
<1> QED BY <1>3, <1>4, <1>6, Zenon DEF u

LEMMA ReduceFields ==
  ASSUME NEW t \in TcbSet, NEW f \in FusionSet, RttsOrdered(f)
  PROVE  /\ Reduce(t, f) \in StateSet
         /\ Reduce(t, f).t = [t EXCEPT !.ssThresh = GetSsThresh(f, t.cWnd)]
         /\ Reduce(t, f).t.ssThresh = GetSsThresh(f, t.cWnd)
         /\ SameExcept({"ssThresh"}, t, Reduce(t, f).t)
         /\ RttsOrdered(Reduce(t, f).f)
         /\ Reduce(t, f).f.doingFusionNow = f.doingFusionNow
         /\ Reduce(t, f).f.renoCwnd = GetSsThresh(f, t.cWnd)
         /\ GetSsThresh(f, t.cWnd) \in Nat /\ GetSsThresh(f, t.cWnd) > 0
<1> DEFINE S == GetSsThresh(f, t.cWnd)
           u == [t EXCEPT !.ssThresh = S]
           g == [f EXCEPT !.renoCwnd = S]
<1>1. S \in Nat /\ S > 0
  BY ThresholdBounded DEF TcbSet
<1>2. Reduce(t, f) = [t |-> u, f |-> g]
  BY DEF Reduce
<1> HIDE DEF S
<1>3. u \in TcbSet
  BY <1>1, Zenon DEF TcbSet
<1>4. g \in FusionSet
  BY <1>1, Zenon DEF FusionSet
<1>5. /\ RttsOrdered(g) /\ g.renoCwnd = S
      /\ g.doingFusionNow = f.doingFusionNow
  BY <1>1 DEF FusionSet, RttsOrdered
<1>u. u.ssThresh = S /\ SameExcept({"ssThresh"}, t, u)
  BY <1>1 DEF TcbSet, SameExcept
<1> HIDE DEF u, g
<1>6. Reduce(t, f) \in StateSet /\ Reduce(t, f).t = u /\ Reduce(t, f).f = g
  BY <1>2, <1>3, <1>4, StateOf
<1> QED BY <1>1, <1>5, <1>6, <1>u, Zenon DEF S, u

(***************************************************************************)
(* IncreaseWindow                                                          *)
(***************************************************************************)
LEMMA CongestionAvoidanceGrows ==
  ASSUME NEW w \in Nat, w > 0, NEW segs \in Nat
  PROVE  /\ CongestionAvoidance(w, segs) \in Nat
         /\ CongestionAvoidance(w, segs) >= w
<1>1. (SegmentSize * SegmentSize) \div w \in Int
  BY FusionAssumption
<1> QED BY <1>1 DEF CongestionAvoidance, MaxOf

LEMMA RenoIncreaseGrows ==
  ASSUME NEW w \in Nat, w > 0, NEW ssThresh \in Nat, NEW segs \in Nat
  PROVE  /\ RenoIncrease(w, ssThresh, segs) \in Nat
         /\ RenoIncrease(w, ssThresh, segs) >= w
<1>1. /\ SlowStart(w, segs) \in Nat /\ SlowStart(w, segs) >= w
      /\ MaxOf(segs - 1, 0) \in Nat
  BY FusionAssumption DEF SlowStart, MaxOf
<1> DEFINE started == IF w < ssThresh THEN SlowStart(w, segs) ELSE w
           left == IF w < ssThresh THEN MaxOf(segs - 1, 0) ELSE segs
<1>2. started \in Nat /\ started >= w /\ started > 0 /\ left \in Nat
  BY <1>1
<1>3. RenoIncrease(w, ssThresh, segs) =
        IF started >= ssThresh THEN CongestionAvoidance(started, left) ELSE started
  BY DEF RenoIncrease
<1> HIDE DEF started, left
<1>4. /\ CongestionAvoidance(started, left) \in Nat
      /\ CongestionAvoidance(started, left) >= started
  BY <1>2, CongestionAvoidanceGrows
<1> QED BY <1>2, <1>3, <1>4

LEMMA FusionWindowPositive ==
  ASSUME NEW f \in FusionSet, NEW w \in Nat, NEW grown \in Nat
  PROVE  FusionWindow(f, w, grown) \in Nat /\ FusionWindow(f, w, grown) > 0
<1> DEFINE n == w \div SegmentSize
           next == IF Increasing(f, n) THEN n + grown
                   ELSE IF Decreasing(f, n) THEN n - 1 ELSE n
<1>1. n \in Int
  BY FusionAssumption
<1>2. next \in Int
  BY <1>1
<1>3. FusionWindow(f, w, grown) = MaxOf(next, 2) * SegmentSize
  BY DEF FusionWindow
<1> HIDE DEF n, next
<1>4. MaxOf(next, 2) \in Nat \ {0}
  BY <1>2 DEF MaxOf
<1>5. \A a, b \in Nat \ {0} : a * b \in Nat /\ a * b > 0
  OBVIOUS
<1> QED BY <1>3, <1>4, <1>5, FusionAssumption

\* What an ACK may do to the window and the object.
LEMMA IncreaseWindowFields ==
  ASSUME NEW t \in TcbSet, NEW f \in FusionSet, RttsOrdered(f), t.cWnd > 0,
         NEW segs \in Nat, NEW grown \in Nat,
         NEW i, i = IncreaseWindow(t, f, segs, grown)
  PROVE  /\ i.cWnd \in Nat /\ i.cWnd > 0
         /\ i.fusion \in FusionSet /\ RttsOrdered(i.fusion)
         /\ i.fusion.doingFusionNow = f.doingFusionNow
         /\ ~f.doingFusionNow => i.fusion = f /\ i.cWnd >= t.cWnd
         /\ ShadowHolds(t, f) =>
              /\ i.cWnd >= t.ssThresh => i.fusion.renoCwnd >= t.ssThresh
              /\ t.cWnd >= t.ssThresh => i.cWnd >= t.ssThresh
<1> USE DEF ShadowHolds
<1>t. /\ t.cWnd \in Nat /\ t.ssThresh \in Nat /\ t.nextTx \in 0..Total
      /\ f.renoCwnd \in Nat
  BY DEF TcbSet, FusionSet
<1>g. /\ CongestionAvoidance(t.cWnd, segs) \in Nat
      /\ CongestionAvoidance(t.cWnd, segs) >= t.cWnd
  BY <1>t, CongestionAvoidanceGrows
<1>m. SegmentSize \in Nat
  BY FusionAssumption
<1>1. CASE ~f.doingFusionNow
  <2>1. i = [cWnd |-> RenoIncrease(t.cWnd, t.ssThresh, segs), fusion |-> f]
    BY <1>1 DEF IncreaseWindow
  <2>2. /\ RenoIncrease(t.cWnd, t.ssThresh, segs) \in Nat
        /\ RenoIncrease(t.cWnd, t.ssThresh, segs) >= t.cWnd
    BY <1>t, RenoIncreaseGrows
  <2>3. i.cWnd = RenoIncrease(t.cWnd, t.ssThresh, segs) /\ i.fusion = f
    BY <2>1
  <2> QED BY <1>1, <1>t, <2>2, <2>3
<1>2. CASE f.doingFusionNow /\ t.cWnd < t.ssThresh
  <2> DEFINE c == SlowStart(t.cWnd, segs)
  <2>1. c \in Nat /\ c >= t.cWnd
    BY <1>t, <1>m DEF SlowStart
  <2>2. i.cWnd = c /\ i.fusion = [f EXCEPT !.renoCwnd = c]
    BY <1>2 DEF IncreaseWindow
  <2> HIDE DEF c
  <2>3. [f EXCEPT !.renoCwnd = c] \in FusionSet
    BY <2>1, Zenon DEF FusionSet
  <2>4. /\ RttsOrdered([f EXCEPT !.renoCwnd = c])
        /\ [f EXCEPT !.renoCwnd = c].renoCwnd = c
        /\ [f EXCEPT !.renoCwnd = c].doingFusionNow = f.doingFusionNow
    BY DEF FusionSet, RttsOrdered
  <2>5. /\ i.fusion \in FusionSet /\ RttsOrdered(i.fusion)
        /\ i.fusion.renoCwnd = c /\ i.fusion.doingFusionNow = f.doingFusionNow
    BY <2>2, <2>3, <2>4, Zenon
  <2>6. /\ i.cWnd \in Nat /\ i.cWnd > 0
        /\ i.cWnd >= t.ssThresh => i.fusion.renoCwnd >= t.ssThresh
        /\ ~(t.cWnd >= t.ssThresh)
    BY <1>2, <1>t, <2>1, <2>2, <2>5
  <2> QED BY <1>2, <2>5, <2>6, Zenon
<1>3. CASE f.doingFusionNow /\ ~(t.cWnd < t.ssThresh) /\ ~CycleComplete(t, f)
  <2>1. i.cWnd = t.cWnd /\ i.fusion = f
    BY <1>3 DEF IncreaseWindow
  <2> QED BY <1>3, <1>t, <2>1
<1>4. CASE f.doingFusionNow /\ ~(t.cWnd < t.ssThresh) /\ CycleComplete(t, f)
  <2> DEFINE reno == f.renoCwnd + SegmentSize
             careful == CongestionAvoidance(t.cWnd, segs)
             adjusted == MaxOf(FusionWindow(f, t.cWnd, grown), reno)
             cycle == [NewCycle(f) EXCEPT !.begSndNxt = t.nextTx]
  <2>1. \/ i = [cWnd |-> careful,
                fusion |-> [cycle EXCEPT !.renoCwnd = MaxOf(reno, careful)]]
        \/ i = [cWnd |-> adjusted, fusion |-> [cycle EXCEPT !.renoCwnd = reno]]
    BY <1>4 DEF IncreaseWindow
  <2>2. PICK c, r : /\ \/ c = careful /\ r = MaxOf(reno, careful)
                       \/ c = adjusted /\ r = reno
                    /\ i = [cWnd |-> c, fusion |-> [cycle EXCEPT !.renoCwnd = r]]
    BY <2>1, Zenon
  <2>w. FusionWindow(f, t.cWnd, grown) \in Nat /\ FusionWindow(f, t.cWnd, grown) > 0
    BY <1>t, FusionWindowPositive
  <2>3. /\ reno \in Nat /\ reno >= f.renoCwnd
        /\ careful \in Nat /\ careful >= t.cWnd
        /\ adjusted \in Nat /\ adjusted > 0 /\ adjusted >= reno
    BY <1>t, <1>g, <1>m, <2>w DEF MaxOf
  <2>4. cycle \in FusionSet /\ RttsOrdered(cycle)
        /\ cycle.doingFusionNow = f.doingFusionNow
    <3>1. /\ NewCycle(f) \in FusionSet /\ RttsOrdered(NewCycle(f))
          /\ NewCycle(f).doingFusionNow = f.doingFusionNow
      BY NewCycleType
    <3>2. cycle \in FusionSet
      BY <1>t, <3>1, Zenon DEF FusionSet
    <3> QED BY <3>1, <3>2 DEF FusionSet, RttsOrdered
  <2> HIDE DEF reno, careful, adjusted, cycle
  <2>5. /\ c \in Nat /\ c > 0 /\ r \in Nat /\ r >= f.renoCwnd
        /\ c >= t.cWnd \/ c >= r
    BY <1>t, <2>2, <2>3 DEF MaxOf
  <2>6. [cycle EXCEPT !.renoCwnd = r] \in FusionSet
    BY <2>4, <2>5, Zenon DEF FusionSet
  <2>7. /\ RttsOrdered([cycle EXCEPT !.renoCwnd = r])
        /\ [cycle EXCEPT !.renoCwnd = r].renoCwnd = r
        /\ [cycle EXCEPT !.renoCwnd = r].doingFusionNow = f.doingFusionNow
    BY <2>4 DEF FusionSet, RttsOrdered
  <2>8. i.cWnd = c /\ i.fusion = [cycle EXCEPT !.renoCwnd = r]
    BY <2>2
  <2>9. /\ i.fusion \in FusionSet /\ RttsOrdered(i.fusion)
        /\ i.fusion.renoCwnd = r /\ i.fusion.doingFusionNow = f.doingFusionNow
    BY <2>4, <2>6, <2>7, <2>8, Zenon
  <2>10. /\ i.cWnd \in Nat /\ i.cWnd > 0
         /\ ShadowHolds(t, f) => /\ i.fusion.renoCwnd >= t.ssThresh
                                 /\ i.cWnd >= t.ssThresh
    BY <1>4, <1>t, <2>5, <2>8, <2>9
  <2> QED BY <1>4, <2>9, <2>10, Zenon
<1> QED BY <1>1, <1>2, <1>3, <1>4

(***************************************************************************)
(* Sane is kept by every operator of the chain.                            *)
(***************************************************************************)
LEMMA IncreasedSane ==
  ASSUME NEW s, Sane(s), s.t.cWnd > 0, s.t.congState \in {"OPEN", "LOSS"},
         NEW segs \in Nat, NEW grown \in Nat
  PROVE  LET r == Increased(s, segs, grown)
         IN /\ Sane(r)
            /\ r.t.congState = s.t.congState /\ r.t.ssThresh = s.t.ssThresh
            /\ s.t.congState = "OPEN" /\ s.t.cWnd >= s.t.ssThresh
                 => r.t.cWnd >= r.t.ssThresh
<1> DEFINE i == IncreaseWindow(s.t, s.f, segs, grown)
           u == [s.t EXCEPT !.cWnd = i.cWnd]
           r == Increased(s, segs, grown)
<1>1. s.t \in TcbSet /\ s.f \in FusionSet /\ RttsOrdered(s.f)
  BY DEF Sane, StateSet
<1>2. /\ i.cWnd \in Nat /\ i.cWnd > 0
      /\ i.fusion \in FusionSet /\ RttsOrdered(i.fusion)
      /\ i.fusion.doingFusionNow = s.f.doingFusionNow
      /\ ~s.f.doingFusionNow => i.fusion = s.f /\ i.cWnd >= s.t.cWnd
      /\ ShadowHolds(s.t, s.f) =>
           /\ i.cWnd >= s.t.ssThresh => i.fusion.renoCwnd >= s.t.ssThresh
           /\ s.t.cWnd >= s.t.ssThresh => i.cWnd >= s.t.ssThresh
  BY <1>1, IncreaseWindowFields
<1>3. Increased(s, segs, grown) = [t |-> u, f |-> i.fusion]
  BY DEF Increased
<1> HIDE DEF i
<1>4. u \in TcbSet
  BY <1>1, <1>2, Zenon DEF TcbSet
<1>5. /\ u.una = s.t.una /\ u.highTx = s.t.highTx /\ u.recover = s.t.recover
      /\ u.nextTx = s.t.nextTx /\ u.congState = s.t.congState
      /\ u.ssThresh = s.t.ssThresh /\ u.cWnd = i.cWnd
  BY <1>1 DEF TcbSet
<1> HIDE DEF u
<1>6. /\ r \in StateSet /\ r.t = u /\ r.f = i.fusion
  BY <1>2, <1>3, <1>4, StateOf
<1> HIDE DEF r
<1>7. s.t.cWnd \in Nat /\ s.t.ssThresh \in Nat
  BY <1>1 DEF TcbSet
<1>8. s.t.congState = "LOSS" => s.f.renoCwnd >= s.t.ssThresh /\ ~s.f.doingFusionNow
  BY DEF Sane
<1>9. s.t.congState = "OPEN" => ShadowHolds(s.t, s.f)
  BY DEF Sane
<1>10. InBounds(r.t) /\ r.t.ssThresh > 0
  BY <1>5, <1>6 DEF Sane, InBounds
<1>11. r.t.congState = "LOSS" => r.f.renoCwnd >= r.t.ssThresh /\ ~r.f.doingFusionNow
  BY <1>2, <1>5, <1>6, <1>8, Zenon
<1>12. r.t.congState = "OPEN" =>
         ShadowHolds(r.t, r.f) /\ (s.t.cWnd >= s.t.ssThresh => r.t.cWnd >= r.t.ssThresh)
  BY <1>2, <1>5, <1>6, <1>7, <1>9 DEF ShadowHolds
<1>13. Sane(r)
  BY <1>2, <1>5, <1>6, <1>10, <1>11, <1>12 DEF Sane
<1> QED BY <1>5, <1>6, <1>12, <1>13 DEF r

LEMMA LeaveCwrSane ==
  ASSUME NEW s, Sane(s)
  PROVE  /\ Sane(LeaveCwr(s))
         /\ s.t.congState # "CWR" => LeaveCwr(s) = s
<1>1. CASE s.t.congState = "CWR" /\ s.t.una > s.t.recover
  <2> DEFINE u == [s.t EXCEPT !.congState = "OPEN", !.cWnd = s.t.ssThresh]
  <2>1. s.t \in TcbSet /\ s.f \in FusionSet /\ s.t.ssThresh \in Nat /\ "OPEN" \in CongStates
    BY DEF Sane, StateSet, TcbSet, CongStates
  <2>2. u \in TcbSet
    BY <2>1, Zenon DEF TcbSet
  <2>3. LeaveCwr(s) = [t |-> u, f |-> s.f]
    BY <1>1, <2>1 DEF LeaveCwr, Sane, StateSet
  <2>4. /\ u.una = s.t.una /\ u.highTx = s.t.highTx /\ u.recover = s.t.recover
        /\ u.nextTx = s.t.nextTx /\ u.congState = "OPEN"
        /\ u.ssThresh = s.t.ssThresh /\ u.cWnd = s.t.ssThresh
    BY <2>1 DEF TcbSet
  <2> HIDE DEF u
  <2>5. LeaveCwr(s) \in StateSet /\ LeaveCwr(s).t = u /\ LeaveCwr(s).f = s.f
    BY <2>1, <2>2, <2>3, StateOf
  <2>6. ShadowHolds(u, s.f)
    BY <1>1, <2>1, <2>4 DEF Sane, ShadowHolds
  <2> QED BY <1>1, <2>1, <2>4, <2>5, <2>6 DEF Sane, InBounds
<1>2. CASE ~(s.t.congState = "CWR" /\ s.t.una > s.t.recover)
  BY <1>2 DEF LeaveCwr
<1> QED BY <1>1, <1>2

LEMMA EnterCwrSane ==
  ASSUME NEW s, Sane(s), NEW w \in Nat
  PROVE  /\ Sane(EnterCwr(s, w)) /\ EnterCwr(s, w).t.congState = "CWR"
<1> DEFINE e == Reduce(s.t, s.f)
           u == [e.t EXCEPT !.congState = "CWR", !.recover = s.t.highTx, !.cWnd = w]
<1>1. /\ s.t \in TcbSet /\ s.f \in FusionSet /\ RttsOrdered(s.f)
      /\ s.t.highTx \in 0..Total /\ "CWR" \in CongStates
  BY DEF Sane, StateSet, TcbSet, CongStates
<1>2. /\ e \in StateSet /\ RttsOrdered(e.f)
      /\ e.f.renoCwnd = e.t.ssThresh /\ e.t.ssThresh > 0
      /\ e.t.una = s.t.una /\ e.t.highTx = s.t.highTx /\ e.t.nextTx = s.t.nextTx
  <2>1. /\ e \in StateSet /\ RttsOrdered(e.f)
        /\ e.t.ssThresh = GetSsThresh(s.f, s.t.cWnd)
        /\ e.f.renoCwnd = GetSsThresh(s.f, s.t.cWnd)
        /\ GetSsThresh(s.f, s.t.cWnd) > 0
        /\ SameExcept({"ssThresh"}, s.t, e.t)
    BY <1>1, ReduceFields
  <2> HIDE DEF e
  <2> QED BY <2>1 DEF SameExcept
<1> HIDE DEF e
<1>3. e.t \in TcbSet /\ e.f \in FusionSet
  BY <1>2 DEF StateSet
<1>4. u \in TcbSet
  BY <1>1, <1>3, Zenon DEF TcbSet
<1>5. /\ u.una = e.t.una /\ u.highTx = e.t.highTx /\ u.recover = s.t.highTx
      /\ u.nextTx = e.t.nextTx /\ u.congState = "CWR" /\ u.ssThresh = e.t.ssThresh
  BY <1>3 DEF TcbSet
<1>6. EnterCwr(s, w) = [t |-> u, f |-> e.f]
  <2>1. EnterCwr(s, w) = [e EXCEPT !.t.congState = "CWR", !.t.recover = s.t.highTx,
                                   !.t.cWnd = w]
    BY DEF EnterCwr, e
  <2> QED BY <1>2, <2>1 DEF StateSet
<1> HIDE DEF u
<1>7. /\ EnterCwr(s, w) \in StateSet
      /\ EnterCwr(s, w).t = u /\ EnterCwr(s, w).f = e.f
  BY <1>3, <1>4, <1>6, StateOf
<1>8. /\ u.ssThresh \in Nat /\ e.f.renoCwnd >= u.ssThresh
      /\ u.highTx \in Nat
  BY <1>2, <1>4, <1>5 DEF TcbSet
<1> QED BY <1>2, <1>5, <1>7, <1>8 DEF Sane, InBounds

\* Of the socket, Sane looks at the fields of SameExcept.
LEMMA NeutralSane ==
  ASSUME NEW s, Sane(s), NEW u \in TcbSet,
         SameExcept({"nextTx", "recover"}, s.t, u), InBounds(u)
  PROVE  Sane([t |-> u, f |-> s.f])
<1>1. s.f \in FusionSet
  BY DEF Sane, StateSet
<1>2. /\ [t |-> u, f |-> s.f] \in StateSet
      /\ [t |-> u, f |-> s.f].t = u /\ [t |-> u, f |-> s.f].f = s.f
  BY <1>1, StateOf
<1>3. u.congState = s.t.congState /\ u.cWnd = s.t.cWnd /\ u.ssThresh = s.t.ssThresh
  BY DEF SameExcept
<1> QED BY <1>2, <1>3, Zenon DEF Sane, ShadowHolds

LEMMA ResetDupSane ==
  ASSUME NEW s, Sane(s), NEW dup \in BOOLEAN
  PROVE  /\ Sane(ResetDup(s, dup))
         /\ SameExcept({}, s.t, ResetDup(s, dup).t)
<1> DEFINE u == [s.t EXCEPT !.dupAckCount = 0]
<1>1. s.t \in TcbSet /\ s.f \in FusionSet /\ InBounds(s.t) /\ s \in StateSet
  BY DEF Sane, StateSet
<1>2. SameExcept({}, s.t, s.t)
  BY DEF SameExcept
<1>3. u \in TcbSet
  BY <1>1, 0 \in Nat, Zenon DEF TcbSet
<1>4. SameExcept({}, s.t, u) /\ SameExcept({"nextTx", "recover"}, s.t, u) /\ InBounds(u)
  BY <1>1 DEF SameExcept, TcbSet, InBounds
<1>5. ResetDup(s, dup) = s \/ ResetDup(s, dup) = [t |-> u, f |-> s.f]
  BY <1>1 DEF ResetDup, StateSet
<1> HIDE DEF u
<1>6. [t |-> u, f |-> s.f].t = u
  OBVIOUS
<1> QED BY <1>2, <1>3, <1>4, <1>5, <1>6, NeutralSane

LEMMA PassedSane ==
  ASSUME NEW s, Sane(s)
  PROVE  Sane(Passed(s)) /\ SameExcept({}, s.t, Passed(s).t)
<1> DEFINE u == [s.t EXCEPT !.recoverActive = @ /\ s.t.una < s.t.recover]
<1>1. s.t \in TcbSet /\ s.f \in FusionSet /\ InBounds(s.t) /\ s \in StateSet
  BY DEF Sane, StateSet
<1>2. u \in TcbSet
  <2>1. (s.t.recoverActive /\ s.t.una < s.t.recover) \in BOOLEAN
    OBVIOUS
  <2> QED BY <1>1, <2>1, Zenon DEF TcbSet
<1>3. SameExcept({}, s.t, u) /\ SameExcept({"nextTx", "recover"}, s.t, u) /\ InBounds(u)
  BY <1>1 DEF SameExcept, TcbSet, InBounds
<1>4. Passed(s) = [t |-> u, f |-> s.f]
  BY <1>1 DEF Passed, StateSet
<1> HIDE DEF u
<1>5. [t |-> u, f |-> s.f].t = u
  OBVIOUS
<1> QED BY <1>2, <1>3, <1>4, <1>5, NeutralSane

LEMMA NewAckSane ==
  ASSUME NEW s, Sane(s)
  PROVE  Sane(NewAck(s)) /\ SameExcept({"nextTx"}, s.t, NewAck(s).t)
<1> DEFINE n == MaxOf(s.t.nextTx, s.t.una)
           u == [s.t EXCEPT !.nextTx = n]
<1>1. s.t \in TcbSet /\ s.f \in FusionSet /\ InBounds(s.t) /\ s \in StateSet
  BY DEF Sane, StateSet
<1>2. n \in 0..Total /\ n <= s.t.highTx
  BY <1>1 DEF TcbSet, InBounds, MaxOf
<1>3. NewAck(s) = [t |-> u, f |-> s.f]
  BY <1>1 DEF NewAck, StateSet
<1> HIDE DEF n
<1>4. u \in TcbSet
  BY <1>1, <1>2, Zenon DEF TcbSet
<1>5. /\ SameExcept({"nextTx"}, s.t, u) /\ SameExcept({"nextTx", "recover"}, s.t, u)
      /\ InBounds(u)
  BY <1>1, <1>2 DEF SameExcept, TcbSet, InBounds
<1> HIDE DEF u
<1>6. [t |-> u, f |-> s.f].t = u
  OBVIOUS
<1> QED BY <1>3, <1>4, <1>5, <1>6, NeutralSane

LEMMA DoRetransmitSane ==
  ASSUME NEW s, Sane(s), NEW r \in DoRetransmit(s)
  PROVE  Sane(r) /\ SameExcept({"nextTx", "highTx"}, s.t, r.t)
<1>1. s.t \in TcbSet /\ s.f \in FusionSet /\ InBounds(s.t) /\ s \in StateSet
  BY DEF Sane, StateSet
<1>h. s.t.highTx \in 0..Total /\ s.t.una \in 0..Total
  BY <1>1 DEF TcbSet
<1>2. PICK n \in 0..Total, h \in 0..Total :
        /\ n <= h /\ s.t.highTx <= h
        /\ r = [s EXCEPT !.t.nextTx = n, !.t.highTx = h]
  <2>1. CASE \E seq \in s.t.una..(s.t.highTx - 1) : r = [s EXCEPT !.t.nextTx = seq]
    <3>1. PICK seq \in s.t.una..(s.t.highTx - 1) : r = [s EXCEPT !.t.nextTx = seq]
      BY <2>1
    <3>2. seq \in 0..Total /\ seq <= s.t.highTx /\ s.t.highTx <= s.t.highTx
      BY <1>h, FusionAssumption
    <3>3. r = [s EXCEPT !.t.nextTx = seq, !.t.highTx = s.t.highTx]
      BY <1>1, <3>1 DEF StateSet, TcbSet
    <3> QED BY <1>h, <3>2, <3>3, Zenon
  <2>2. CASE s.t.highTx < Total /\
             r = [s EXCEPT !.t.nextTx = s.t.highTx, !.t.highTx = @ + 1]
    <3>1. /\ s.t.highTx + 1 \in 0..Total
          /\ s.t.highTx <= s.t.highTx + 1
      BY <1>h, <2>2, FusionAssumption
    <3>2. r = [s EXCEPT !.t.nextTx = s.t.highTx, !.t.highTx = s.t.highTx + 1]
      BY <1>1, <2>2 DEF StateSet, TcbSet
    <3> QED BY <1>h, <3>1, <3>2, Zenon
  <2> QED BY <2>1, <2>2 DEF DoRetransmit
<1> DEFINE u == [s.t EXCEPT !.nextTx = n, !.highTx = h]
<1>3. r = [t |-> u, f |-> s.f]
  BY <1>1, <1>2 DEF StateSet
<1>4. u \in TcbSet
  BY <1>1, <1>2, Zenon DEF TcbSet
<1>5. SameExcept({"nextTx", "highTx"}, s.t, u) /\ InBounds(u)
  BY <1>1, <1>2 DEF SameExcept, TcbSet, InBounds
<1> HIDE DEF u
<1>6. r \in StateSet /\ r.t = u /\ r.f = s.f
  BY <1>1, <1>3, <1>4, StateOf
<1>7. u.congState = s.t.congState /\ u.cWnd = s.t.cWnd /\ u.ssThresh = s.t.ssThresh
  BY <1>5 DEF SameExcept
<1> QED BY <1>5, <1>6, <1>7, Zenon DEF Sane, ShadowHolds

\* While the recovery algorithm sets the window it may be anything.
LEMMA WindowSane ==
  ASSUME NEW s, Sane(s), s.t.congState \in {"RECOVERY", "CWR"}, NEW w \in Nat
  PROVE  /\ Sane([s EXCEPT !.t.cWnd = w])
         /\ SameExcept({"cWnd"}, s.t, [s EXCEPT !.t.cWnd = w].t)
<1> DEFINE u == [s.t EXCEPT !.cWnd = w]
           r == [s EXCEPT !.t.cWnd = w]
<1>1. s.t \in TcbSet /\ s.f \in FusionSet /\ s \in StateSet
  BY DEF Sane, StateSet
<1>2. u \in TcbSet
  BY <1>1, Zenon DEF TcbSet
<1>3. SameExcept({"cWnd"}, s.t, u)
  BY <1>1 DEF SameExcept, TcbSet
<1>4. r = [t |-> u, f |-> s.f]
  BY <1>1 DEF StateSet
<1> HIDE DEF u
<1>5. r \in StateSet /\ r.t = u /\ r.f = s.f
  BY <1>1, <1>2, <1>4, StateOf
<1> HIDE DEF r
<1>6. /\ u.congState = s.t.congState /\ u.ssThresh = s.t.ssThresh
      /\ u.una = s.t.una /\ u.nextTx = s.t.nextTx
      /\ u.highTx = s.t.highTx /\ u.recover = s.t.recover
  BY <1>3 DEF SameExcept
<1>7. Sane(r)
  BY <1>5, <1>6, Zenon DEF Sane, InBounds
<1> QED BY <1>3, <1>5, <1>7 DEF r

LEMMA EnteredSane ==
  ASSUME NEW s, Sane(s), NEW state \in CongStates,
         \/ s.t.congState = "OPEN" /\ state = "DISORDER"
         \/ s.t.congState = "DISORDER" /\ state = "OPEN"
         \/ s.t.congState \in {"RECOVERY", "LOSS"} /\ state = "OPEN" /\ s.t.cWnd > 0
  PROVE  /\ Sane(Entered(s, state))
         /\ Entered(s, state).t.congState = state
         /\ SameExcept({"congState"}, s.t, Entered(s, state).t)
<1> DEFINE r == Entered(s, state)
<1>1. s \in StateSet /\ RttsOrdered(s.f) /\ InBounds(s.t)
  BY DEF Sane
<1>2. /\ r \in StateSet /\ r.t.congState = state
      /\ SameExcept({"congState"}, s.t, r.t) /\ RttsOrdered(r.f)
      /\ r.f.doingFusionNow = (state = "OPEN") /\ r.f.renoCwnd = s.f.renoCwnd
  BY <1>1, EnteredFields
<1> HIDE DEF r
<1>3. /\ r.t.cWnd = s.t.cWnd /\ r.t.ssThresh = s.t.ssThresh
      /\ r.t.una = s.t.una /\ r.t.nextTx = s.t.nextTx
      /\ r.t.highTx = s.t.highTx /\ r.t.recover = s.t.recover
  BY <1>2 DEF SameExcept
<1>4. r.t.cWnd > 0 /\ r.t.ssThresh > 0 /\ InBounds(r.t)
  BY <1>1, <1>3 DEF Sane, InBounds
<1>5. CASE state = "OPEN"
  <2>1. r.f.doingFusionNow
    BY <1>2, <1>5
  <2>2. r.t.cWnd >= r.t.ssThresh => r.f.renoCwnd >= r.t.ssThresh
    BY <1>2, <1>3, <1>5 DEF Sane
  <2> QED BY <1>2, <1>4, <1>5, <2>1, <2>2 DEF Sane, ShadowHolds, r
<1>6. CASE state = "DISORDER"
  <2>1. ~r.f.doingFusionNow
    BY <1>2, <1>6
  <2>2. r.t.cWnd >= r.t.ssThresh => r.f.renoCwnd >= r.t.ssThresh
    BY <1>2, <1>3, <1>6 DEF Sane, ShadowHolds
  <2> QED BY <1>2, <1>4, <1>6, <2>1, <2>2 DEF Sane, r
<1> QED BY <1>5, <1>6

LEMMA EnterRecoverySane ==
  ASSUME NEW s, Sane(s), NEW w \in Nat, NEW r \in EnterRecovery(s, w)
  PROVE  Sane(r) /\ r.t.congState = "RECOVERY" /\ r.t.una = s.t.una
<1> DEFINE e == Entered(s, "RECOVERY")
           d == Reduce(e.t, e.f)
           u == [d.t EXCEPT !.recover = s.t.highTx, !.recoverActive = TRUE, !.cWnd = w]
           b == [t |-> u, f |-> d.f]
<1>1. /\ s \in StateSet /\ s.t \in TcbSet /\ RttsOrdered(s.f) /\ InBounds(s.t)
      /\ s.t.highTx \in 0..Total /\ "RECOVERY" \in CongStates
  BY DEF Sane, StateSet, TcbSet, CongStates
<1>2. /\ e \in StateSet /\ e.t.congState = "RECOVERY"
      /\ SameExcept({"congState"}, s.t, e.t) /\ RttsOrdered(e.f)
      /\ e.f.doingFusionNow = ("RECOVERY" = "OPEN")
  BY <1>1, EnteredFields
<1> HIDE DEF e
<1>3. ~e.f.doingFusionNow /\ e.t \in TcbSet /\ e.f \in FusionSet
  BY <1>2 DEF StateSet
<1>4. /\ d \in StateSet /\ SameExcept({"ssThresh"}, e.t, d.t) /\ RttsOrdered(d.f)
      /\ d.f.doingFusionNow = e.f.doingFusionNow
      /\ d.f.renoCwnd = d.t.ssThresh /\ d.t.ssThresh > 0
  BY <1>2, <1>3, ReduceFields
<1>5. EnterRecovery(s, w) = DoRetransmit([d EXCEPT !.t.recover = s.t.highTx,
                              !.t.recoverActive = TRUE, !.t.cWnd = w])
  BY DEF EnterRecovery, e
<1> HIDE DEF d
<1>6. d.t \in TcbSet /\ d.f \in FusionSet /\ TRUE \in BOOLEAN
  BY <1>4 DEF StateSet
<1>7. u \in TcbSet
  BY <1>1, <1>6, Zenon DEF TcbSet
<1>8. /\ u.recover = s.t.highTx /\ u.una = d.t.una /\ u.nextTx = d.t.nextTx
      /\ u.highTx = d.t.highTx /\ u.congState = d.t.congState
      /\ u.ssThresh = d.t.ssThresh
  BY <1>6 DEF TcbSet
<1>9. r \in DoRetransmit(b)
  <2>1. [d EXCEPT !.t.recover = s.t.highTx, !.t.recoverActive = TRUE, !.t.cWnd = w] =
        [d EXCEPT !.t = u]
    BY <1>4, <1>6 DEF StateSet, TcbSet
  <2>2. [d EXCEPT !.t = u] = b
    BY <1>4, <1>6, <1>7 DEF StateSet
  <2> QED BY <1>5, <2>1, <2>2, Zenon
<1>10. /\ d.t.una = s.t.una /\ d.t.nextTx = s.t.nextTx /\ d.t.highTx = s.t.highTx
       /\ d.t.congState = "RECOVERY"
  BY <1>2, <1>4 DEF SameExcept
<1> HIDE DEF u
<1>11. b \in StateSet /\ b.t = u /\ b.f = d.f
  BY <1>6, <1>7, StateOf
<1> HIDE DEF b
<1>12. InBounds(u) /\ d.f.renoCwnd >= u.ssThresh
  BY <1>1, <1>4, <1>6, <1>8, <1>10 DEF InBounds, FusionSet, TcbSet
<1>13. Sane(b) /\ b.t.congState = "RECOVERY" /\ b.t.una = s.t.una
  BY <1>3, <1>4, <1>8, <1>10, <1>11, <1>12 DEF Sane
<1> QED BY <1>9, <1>13, DoRetransmitSane DEF SameExcept

LEMMA DupAckSane ==
  ASSUME NEW s, Sane(s), NEW w \in Nat, NEW r \in DupAck(s, w)
  PROVE  /\ Sane(r) /\ r.t.una = s.t.una
         /\ s.t.congState = "OPEN" => r.t.congState \in {"DISORDER", "RECOVERY"}
         /\ s.t.congState = "CWR" => r.t.congState = "CWR"
<1> DEFINE u == [s.t EXCEPT !.dupAckCount = @ + 1]
           c == [s EXCEPT !.t.dupAckCount = @ + 1]
           d == IF c.t.congState = "OPEN" THEN Entered(c, "DISORDER") ELSE c
<1>1. s \in StateSet /\ s.t \in TcbSet /\ s.f \in FusionSet /\ InBounds(s.t)
  BY DEF Sane, StateSet
<1>2. s.t.congState \in CongStates /\ s.t.dupAckCount + 1 \in Nat
  BY <1>1 DEF TcbSet
<1>3. u \in TcbSet
  BY <1>1, <1>2, Zenon DEF TcbSet
<1>4. /\ SameExcept({"nextTx", "recover"}, s.t, u) /\ InBounds(u)
      /\ u.una = s.t.una /\ u.congState = s.t.congState
  BY <1>1 DEF SameExcept, TcbSet, InBounds
<1>5. c = [t |-> u, f |-> s.f]
  BY <1>1 DEF StateSet
<1>d. DupAck(s, w) =
        CASE s.t.congState = "LOSS" -> {s}
          [] s.t.congState = "RECOVERY" -> {[s EXCEPT !.t.cWnd = w]}
          [] s.t.congState = "CWR" -> {c}
          [] OTHER -> (IF DupThreshold(d.t) THEN {} ELSE {d}) \cup
                      (IF DupThreshold(d.t) \/ MaySeeLoss(d.t)
                       THEN EnterRecovery(d, w) ELSE {})
  BY DEF DupAck
<1> HIDE DEF u, c
<1>6. Sane(c) /\ c.t = u
  BY <1>3, <1>4, <1>5, NeutralSane
<1>7. CASE s.t.congState = "LOSS"
  BY <1>7, <1>d
<1>8. CASE s.t.congState = "RECOVERY"
  <2>1. r = [s EXCEPT !.t.cWnd = w]
    BY <1>8, <1>d
  <2>2. Sane(r) /\ SameExcept({"cWnd"}, s.t, r.t)
    BY <1>8, <2>1, WindowSane, Zenon
  <2> QED BY <1>8, <2>2 DEF SameExcept
<1>9. CASE s.t.congState = "CWR"
  BY <1>9, <1>d, <1>4, <1>6
<1>10. CASE s.t.congState \in {"OPEN", "DISORDER"}
  <2>1. /\ Sane(d) /\ d.t.una = s.t.una /\ d.t.congState = "DISORDER"
    <3>1. CASE s.t.congState = "OPEN"
      <4>1. "DISORDER" \in CongStates
        BY DEF CongStates
      <4>2. d = Entered(c, "DISORDER")
        BY <1>4, <1>6, <3>1
      <4> HIDE DEF d
      <4>3. /\ Sane(d) /\ d.t.congState = "DISORDER"
            /\ SameExcept({"congState"}, c.t, d.t)
        BY <1>4, <1>6, <3>1, <4>1, <4>2, EnteredSane
      <4> QED BY <1>4, <1>6, <4>3 DEF SameExcept
    <3>2. CASE s.t.congState = "DISORDER"
      BY <1>4, <1>6, <3>2
    <3> QED BY <1>10, <3>1, <3>2
  <2> HIDE DEF d
  <2>2. r = d \/ r \in EnterRecovery(d, w)
    BY <1>10, <1>d
  <2> QED BY <1>10, <2>1, <2>2, EnterRecoverySane
<1> QED BY <1>2, <1>7, <1>8, <1>9, <1>10 DEF CongStates

(***************************************************************************)
(* The branches of ProcessAck                                              *)
(***************************************************************************)
LEMMA PartialAckSane ==
  ASSUME NEW s, Sane(s), s.t.congState = "RECOVERY", NEW rtt \in Rtts, NEW w \in Nat,
         NEW n \in PartialAck(s, rtt, w)
  PROVE  Sane(n) /\ n.t.congState = "RECOVERY"
<1> DEFINE r == [s EXCEPT !.t.cWnd = w]
<1>1. Sane(r) /\ r.t.congState = "RECOVERY"
  BY WindowSane DEF SameExcept
<1>2. PICK x \in {r} \cup DoRetransmit(r) : n = NewAck(Sampled(x, rtt))
  BY DEF PartialAck
<1> HIDE DEF r
<1>3. Sane(x) /\ x.t.congState = "RECOVERY"
  BY <1>1, <1>2, DoRetransmitSane DEF SameExcept
<1>4. Sane(Sampled(x, rtt)) /\ Sampled(x, rtt).t.congState = "RECOVERY"
  BY <1>3, SampledSane
<1> QED BY <1>2, <1>4, NewAckSane DEF SameExcept

LEMMA AckInLossSane ==
  ASSUME NEW s, Sane(s), s.t.congState = "LOSS", NEW k \in Nat, NEW rtt \in Rtts,
         NEW grown \in Nat
  PROVE  /\ Sane(AckInLoss(s, k, rtt, grown))
         /\ AckInLoss(s, k, rtt, grown).t.congState = "LOSS"
<1> DEFINE a == Sampled(s, rtt)
           b == Increased(a, k, grown)
<1>1. Sane(a) /\ a.t.congState = "LOSS"
  BY SampledSane
<1>2. a.t.cWnd > 0
  BY <1>1 DEF Sane
<1> HIDE DEF a
<1>3. Sane(b) /\ b.t.congState = "LOSS"
  BY <1>1, <1>2, IncreasedSane
<1> HIDE DEF b
<1>4. Sane(NewAck(b)) /\ NewAck(b).t.congState = "LOSS"
  BY <1>3, NewAckSane DEF SameExcept
<1>5. AckInLoss(s, k, rtt, grown) = NewAck(b)
  BY DEF AckInLoss, a, b
<1> QED BY <1>4, <1>5

LEMMA AckInCwrSane ==
  ASSUME NEW s, Sane(s), s.t.congState = "CWR", NEW rtt \in Rtts, NEW w \in Nat
  PROVE  Sane(AckInCwr(s, rtt, w)) /\ AckInCwr(s, rtt, w).t.congState = "CWR"
<1> DEFINE a == Sampled(s, rtt)
           b == [a EXCEPT !.t.cWnd = w]
<1>1. Sane(a) /\ a.t.congState = "CWR"
  BY SampledSane
<1> HIDE DEF a
<1>2. Sane(b) /\ b.t.congState = "CWR"
  BY <1>1, WindowSane DEF SameExcept
<1> HIDE DEF b
<1>3. Sane(NewAck(b)) /\ NewAck(b).t.congState = "CWR"
  BY <1>2, NewAckSane DEF SameExcept
<1>4. AckInCwr(s, rtt, w) = NewAck(b)
  BY DEF AckInCwr, a, b
<1> QED BY <1>3, <1>4

\* An ACK on an open connection never relapses below the threshold.
LEMMA AckInOpenSane ==
  ASSUME NEW s, Sane(s), s.t.congState = "OPEN", NEW k \in Nat, NEW rtt \in Rtts,
         NEW grown \in Nat, NEW n, n = AckInOpen(s, k, rtt, grown)
  PROVE  /\ Sane(n)
         /\ s.t.cWnd >= s.t.ssThresh => n.t.cWnd >= n.t.ssThresh
<1> DEFINE a == Passed(Sampled(s, rtt))
           b == Increased(a, k, grown)
<1>1. Sane(Sampled(s, rtt)) /\ Sampled(s, rtt).t = s.t
  BY SampledSane
<1>2. Sane(a) /\ SameExcept({}, s.t, a.t)
  BY <1>1, PassedSane
<1>3. n = NewAck(b)
  BY DEF AckInOpen
<1> HIDE DEF a
<1>4. a.t.congState = "OPEN" /\ a.t.cWnd = s.t.cWnd /\ a.t.ssThresh = s.t.ssThresh
  BY <1>2 DEF SameExcept
<1>5. a.t.cWnd > 0
  BY <1>2, <1>4 DEF Sane
<1>6. Sane(b) /\ (a.t.cWnd >= a.t.ssThresh => b.t.cWnd >= b.t.ssThresh)
  BY <1>2, <1>4, <1>5, IncreasedSane
<1> HIDE DEF b
<1>7. Sane(NewAck(b)) /\ SameExcept({"nextTx"}, b.t, NewAck(b).t)
  BY <1>6, NewAckSane
<1> QED BY <1>3, <1>4, <1>6, <1>7 DEF SameExcept

LEMMA AckInDisorderSane ==
  ASSUME NEW s, Sane(s), s.t.congState = "DISORDER", NEW k \in Nat, NEW rtt \in Rtts,
         NEW oldDup \in Nat, NEW dup \in BOOLEAN,
         NEW grown \in Nat, NEW n, n = AckInDisorder(s, k, oldDup, dup, rtt, grown)
  PROVE  /\ Sane(n)
         /\ dup => n.t.congState = "DISORDER"
<1> DEFINE x == IF k >= oldDup THEN Sampled(s, rtt) ELSE s
           a == Passed(x)
           e == Entered(a, "OPEN")
           b == Increased(e, k, grown)
<1>1. Sane(x) /\ x.t = s.t
  BY SampledSane
<1>2. n = IF dup THEN a ELSE NewAck(b)
  BY DEF AckInDisorder
<1> HIDE DEF x
<1>3. Sane(a) /\ SameExcept({}, x.t, a.t)
  BY <1>1, PassedSane
<1> HIDE DEF a
<1>4. a.t.congState = "DISORDER" /\ "OPEN" \in CongStates
  BY <1>1, <1>3 DEF SameExcept, CongStates
<1>5. Sane(e) /\ e.t.congState = "OPEN"
  BY <1>3, <1>4, EnteredSane
<1> HIDE DEF e
<1>6. e.t.cWnd > 0
  BY <1>5 DEF Sane
<1>7. Sane(b)
  BY <1>5, <1>6, IncreasedSane
<1> HIDE DEF b
<1>8. Sane(NewAck(b))
  BY <1>7, NewAckSane
<1> QED BY <1>2, <1>3, <1>4, <1>8

\* The window is the threshold when recovery ends, and grows from there.
LEMMA AckEndsRecoverySane ==
  ASSUME NEW s, Sane(s), s.t.congState = "RECOVERY", NEW k \in Nat, NEW rtt \in Rtts,
         NEW grown \in Nat, NEW n, n = AckEndsRecovery(s, k, rtt, grown)
  PROVE  Sane(n) /\ n.t.cWnd >= n.t.ssThresh
<1> DEFINE a == Sampled(s, rtt)
           e == Entered(a, "OPEN")
           p == Passed(e)
           o == NewAck(p)
           u == [o.t EXCEPT !.dupAckCount = 0, !.cWnd = o.t.ssThresh]
           b == [t |-> u, f |-> o.f]
<1>1. Sane(a) /\ a.t.congState = "RECOVERY"
  BY SampledSane
<1>2. n = Increased([o EXCEPT !.t.dupAckCount = 0, !.t.cWnd = o.t.ssThresh], k, grown)
  BY DEF AckEndsRecovery
<1> HIDE DEF a
<1>3. /\ a \in StateSet /\ RttsOrdered(a.f) /\ InBounds(a.t)
      /\ a.f.renoCwnd >= a.t.ssThresh /\ a.t.ssThresh > 0 /\ "OPEN" \in CongStates
  BY <1>1 DEF Sane, CongStates
<1>4. /\ e \in StateSet /\ e.t.congState = "OPEN" /\ RttsOrdered(e.f)
      /\ SameExcept({"congState"}, a.t, e.t)
      /\ e.f.doingFusionNow = ("OPEN" = "OPEN") /\ e.f.renoCwnd = a.f.renoCwnd
  BY <1>3, EnteredFields
<1> HIDE DEF e
<1>5. /\ e.t.ssThresh = a.t.ssThresh /\ e.t.una = a.t.una /\ e.t.nextTx = a.t.nextTx
      /\ e.t.highTx = a.t.highTx /\ e.t.recover = a.t.recover /\ e.f.doingFusionNow
  BY <1>4 DEF SameExcept
<1>6. e.t \in TcbSet /\ e.f \in FusionSet
  BY <1>4 DEF StateSet
\* Passed and NewAck, on a window that is still anything
<1>7. /\ p \in StateSet /\ p.f = e.f /\ SameExcept({}, e.t, p.t)
  <2> DEFINE v == [e.t EXCEPT !.recoverActive = @ /\ e.t.una < e.t.recover]
  <2>1. (e.t.recoverActive /\ e.t.una < e.t.recover) \in BOOLEAN
    OBVIOUS
  <2>2. v \in TcbSet
    BY <1>6, <2>1, Zenon DEF TcbSet
  <2>3. SameExcept({}, e.t, v)
    BY <1>6 DEF SameExcept, TcbSet
  <2>4. p = [t |-> v, f |-> e.f]
    BY <1>4 DEF Passed, StateSet
  <2> HIDE DEF v, p
  <2> QED BY <1>6, <2>2, <2>3, <2>4, StateOf
<1> HIDE DEF p
<1>8. p.t \in TcbSet /\ p.f \in FusionSet
  BY <1>7 DEF StateSet
<1>9. /\ o \in StateSet /\ o.f = e.f /\ SameExcept({"nextTx"}, p.t, o.t)
      /\ o.t.nextTx = MaxOf(p.t.nextTx, p.t.una)
  <2> DEFINE m == MaxOf(p.t.nextTx, p.t.una)
             v == [p.t EXCEPT !.nextTx = m]
  <2>1. m \in 0..Total
    BY <1>8 DEF TcbSet, MaxOf
  <2>2. o = [t |-> v, f |-> p.f]
    BY <1>7 DEF NewAck, StateSet
  <2> HIDE DEF m
  <2>3. v \in TcbSet
    BY <1>8, <2>1, Zenon DEF TcbSet
  <2>4. SameExcept({"nextTx"}, p.t, v) /\ v.nextTx = m
    BY <1>8 DEF SameExcept, TcbSet
  <2> HIDE DEF v, o
  <2>5. o \in StateSet /\ o.t = v /\ o.f = p.f
    BY <1>8, <2>2, <2>3, StateOf
  <2> QED BY <1>7, <2>4, <2>5 DEF m
<1> HIDE DEF o
<1>10. /\ o.t \in TcbSet /\ o.f \in FusionSet
       /\ o.t.ssThresh \in Nat /\ 0 \in Nat
  BY <1>9 DEF StateSet, TcbSet
<1>11. u \in TcbSet
  BY <1>10, Zenon DEF TcbSet
<1>12. [o EXCEPT !.t.dupAckCount = 0, !.t.cWnd = o.t.ssThresh] = b
  <2>1. [o EXCEPT !.t.dupAckCount = 0, !.t.cWnd = o.t.ssThresh] = [o EXCEPT !.t = u]
    BY <1>9, <1>10 DEF StateSet, TcbSet
  <2>2. [o EXCEPT !.t = u] = b
    BY <1>9, <1>11 DEF StateSet
  <2> QED BY <2>1, <2>2, Zenon
<1>13. /\ u.cWnd = o.t.ssThresh /\ u.ssThresh = o.t.ssThresh /\ u.una = o.t.una
       /\ u.nextTx = o.t.nextTx /\ u.highTx = o.t.highTx /\ u.recover = o.t.recover
       /\ u.congState = o.t.congState
  BY <1>10 DEF TcbSet
<1>14. /\ o.t.ssThresh = a.t.ssThresh /\ o.t.congState = "OPEN" /\ InBounds(o.t)
  BY <1>3, <1>4, <1>5, <1>6, <1>7, <1>9 DEF SameExcept, InBounds, MaxOf
<1> HIDE DEF u
<1>15. b \in StateSet /\ b.t = u /\ b.f = e.f
  BY <1>6, <1>9, <1>11, StateOf
<1> HIDE DEF b
<1>16. /\ InBounds(b.t) /\ ShadowHolds(b.t, b.f)
       /\ b.t.cWnd > 0 /\ b.t.cWnd >= b.t.ssThresh
  BY <1>3, <1>4, <1>5, <1>10, <1>13, <1>14, <1>15 DEF InBounds, ShadowHolds
<1>17. Sane(b) /\ b.t.congState = "OPEN"
  BY <1>3, <1>4, <1>13, <1>14, <1>15, <1>16 DEF Sane
<1>18. n = Increased(b, k, grown)
  BY <1>2, <1>12
<1> QED BY <1>16, <1>17, <1>18, IncreasedSane

LEMMA AckEndsLossSane ==
  ASSUME NEW s, Sane(s), s.t.congState = "LOSS", s.t.una >= s.t.recover,
         NEW rtt \in Rtts, NEW grown \in Nat
  PROVE  Sane(AckEndsLoss(s, rtt, grown))
<1> DEFINE a == Sampled(s, rtt)
           e == Entered(a, "OPEN")
           p == Passed(e)
           k == s.t.una - s.t.recover
           b == Increased(p, k, grown)
<1>1. Sane(a) /\ a.t.congState = "LOSS"
  BY SampledSane
<1>2. AckEndsLoss(s, rtt, grown) = NewAck(b)
  BY DEF AckEndsLoss
<1>3. k \in Nat
  BY DEF Sane, StateSet, TcbSet
<1> HIDE DEF a, k
<1>4. a.t.cWnd > 0 /\ "OPEN" \in CongStates
  BY <1>1 DEF Sane, CongStates
<1>5. Sane(e) /\ e.t.congState = "OPEN"
  BY <1>1, <1>4, EnteredSane
<1> HIDE DEF e
<1>6. Sane(p) /\ p.t.congState = "OPEN"
  BY <1>5, PassedSane DEF SameExcept
<1> HIDE DEF p
<1>7. p.t.cWnd > 0
  BY <1>6 DEF Sane
<1>8. Sane(b)
  BY <1>3, <1>6, <1>7, IncreasedSane
<1> HIDE DEF b
<1> QED BY <1>2, <1>8, NewAckSane

LEMMA ProcessAckSane ==
  ASSUME NEW s, Sane(s), NEW k \in Nat, NEW oldDup \in Nat, NEW dup \in BOOLEAN,
         NEW rtt \in Rtts, NEW grown \in Nat, NEW w \in Nat,
         NEW n \in ProcessAck(s, k, oldDup, dup, rtt, grown, w)
  PROVE  /\ Sane(n)
         /\ n.t.congState = "OPEN" =>
              /\ s.t.congState # "CWR"
              /\ ~(s.t.congState = "DISORDER" /\ dup)
              /\ s.t.congState = "RECOVERY" => n.t.cWnd >= n.t.ssThresh
              /\ s.t.congState = "OPEN" /\ s.t.cWnd >= s.t.ssThresh
                   => n.t.cWnd >= n.t.ssThresh
<1> DEFINE a == ResetDup(s, dup)
           below == s.t.una < s.t.recover
<1>1. Sane(a) /\ SameExcept({}, s.t, a.t)
  BY ResetDupSane
<1>2. n \in
       CASE s.t.congState = "RECOVERY" /\ below -> PartialAck(a, rtt, w)
         [] s.t.congState = "LOSS" /\ below -> {AckInLoss(a, k, rtt, grown)}
         [] s.t.congState = "CWR" -> {AckInCwr(a, rtt, w)}
         [] s.t.congState = "OPEN" -> {AckInOpen(a, k, rtt, grown)}
         [] s.t.congState = "DISORDER" ->
              {AckInDisorder(a, k, oldDup, dup, rtt, grown)}
         [] s.t.congState = "RECOVERY" /\ ~below -> {AckEndsRecovery(a, k, rtt, grown)}
         [] s.t.congState = "LOSS" /\ ~below -> {AckEndsLoss(a, rtt, grown)}
  BY DEF ProcessAck
<1> HIDE DEF a
<1>3. /\ a.t.congState = s.t.congState /\ a.t.cWnd = s.t.cWnd
      /\ a.t.ssThresh = s.t.ssThresh /\ a.t.una = s.t.una /\ a.t.recover = s.t.recover
  BY <1>1 DEF SameExcept
<1>4. /\ s.t.congState \in {"OPEN", "DISORDER", "CWR", "RECOVERY", "LOSS"}
      /\ s.t.una \in Int /\ s.t.recover \in Int
  BY DEF Sane, StateSet, TcbSet, CongStates
<1>5. CASE s.t.congState = "RECOVERY" /\ below
  BY <1>1, <1>2, <1>3, <1>5, PartialAckSane
<1>6. CASE s.t.congState = "LOSS" /\ below
  <2>1. n = AckInLoss(a, k, rtt, grown)
    BY <1>2, <1>6
  <2> QED BY <1>1, <1>3, <1>6, <2>1, AckInLossSane
<1>7. CASE s.t.congState = "CWR"
  <2>1. n = AckInCwr(a, rtt, w)
    BY <1>2, <1>7
  <2> QED BY <1>1, <1>3, <1>7, <2>1, AckInCwrSane
<1>8. CASE s.t.congState = "OPEN"
  <2>1. n = AckInOpen(a, k, rtt, grown)
    BY <1>2, <1>8
  <2> QED BY <1>1, <1>3, <1>8, <2>1, AckInOpenSane
<1>9. CASE s.t.congState = "DISORDER"
  <2>1. n = AckInDisorder(a, k, oldDup, dup, rtt, grown)
    BY <1>2, <1>9
  <2> QED BY <1>1, <1>3, <1>9, <2>1, AckInDisorderSane
<1>10. CASE s.t.congState = "RECOVERY" /\ ~below
  <2>1. n = AckEndsRecovery(a, k, rtt, grown)
    BY <1>2, <1>10
  <2> QED BY <1>1, <1>3, <1>10, <2>1, AckEndsRecoverySane
<1>11. CASE s.t.congState = "LOSS" /\ ~below
  <2>1. n = AckEndsLoss(a, rtt, grown)
    BY <1>2, <1>11
  <2>2. a.t.una >= a.t.recover
    BY <1>3, <1>4, <1>11
  <2> QED BY <1>1, <1>3, <1>11, <2>1, <2>2, AckEndsLossSane
<1> QED BY <1>4, <1>5, <1>6, <1>7, <1>8, <1>9, <1>10, <1>11

(***************************************************************************)
(* SendPendingData, and the head of ReceivedAck                            *)
(***************************************************************************)
LEMMA SendPendingDataFrame ==
  ASSUME NEW t \in TcbSet, InBounds(t), NEW u \in SendPendingData(t)
  PROVE  /\ u \in TcbSet /\ InBounds(u)
         /\ SameExcept({"nextTx", "highTx"}, t, u)
<1> DEFINE limit == MaxOf(t.highTx, MinOf(Total, t.una + ReceiverWindow))
           from == IF t.congState = "LOSS" THEN t.nextTx ELSE t.highTx
<1>1. /\ t.una \in 0..Total /\ t.nextTx \in 0..Total /\ t.highTx \in 0..Total
      /\ t.una <= t.highTx /\ t.nextTx <= t.highTx
  BY DEF TcbSet, InBounds
<1>2. limit \in 0..Total /\ t.highTx <= limit /\ from \in 0..Total
  BY <1>1, FusionAssumption DEF MaxOf, MinOf
<1>3. CASE u = t
  BY <1>3 DEF SameExcept
<1>4. CASE \E q \in from..(limit - 1) :
             u = [t EXCEPT !.nextTx = q + 1, !.highTx = MaxOf(@, q + 1)]
  <2>1. PICK q \in from..(limit - 1) :
               u = [t EXCEPT !.nextTx = q + 1, !.highTx = MaxOf(t.highTx, q + 1)]
    BY <1>4
  <2> HIDE DEF limit, from
  <2> DEFINE m == MaxOf(t.highTx, q + 1)
  <2>2. /\ q + 1 \in 0..Total /\ m \in 0..Total /\ q + 1 <= m /\ t.highTx <= m
    BY <1>1, <1>2, FusionAssumption DEF MaxOf
  <2> HIDE DEF m
  <2>3. u = [t EXCEPT !.nextTx = q + 1, !.highTx = m]
    BY <2>1 DEF m
  <2>4. u \in TcbSet
    BY <2>2, <2>3, Zenon DEF TcbSet
  <2>5. /\ SameExcept({"nextTx", "highTx"}, t, u)
        /\ u.nextTx = q + 1 /\ u.highTx = m
    BY <2>3 DEF SameExcept, TcbSet
  <2> QED BY <1>1, <2>2, <2>4, <2>5 DEF InBounds, TcbSet, SameExcept
<1>5. CASE \E h \in t.highTx..limit, n \in Int :
             /\ n \in 0..h
             /\ u = [t EXCEPT !.highTx = h, !.nextTx = n]
  <2>1. PICK h \in t.highTx..limit, n \in Int :
               n \in 0..h /\ u = [t EXCEPT !.highTx = h, !.nextTx = n]
    BY <1>5
  <2> HIDE DEF limit
  <2>2. h \in 0..Total /\ n \in 0..Total /\ n <= h /\ t.highTx <= h
    BY <1>1, <1>2, <2>1, FusionAssumption
  <2>3. u \in TcbSet
    BY <2>1, <2>2, Zenon DEF TcbSet
  <2>4. SameExcept({"nextTx", "highTx"}, t, u) /\ u.nextTx = n /\ u.highTx = h
    BY <2>1 DEF SameExcept, TcbSet
  <2> QED BY <1>1, <2>2, <2>3, <2>4 DEF InBounds, TcbSet, SameExcept
<1>6. CASE InOrder(t)
  BY <1>3, <1>4, <1>6 DEF SendPendingData
<1>7. CASE ~InOrder(t)
  <2> DEFINE Ends(h) == {IF h = t.highTx THEN t.nextTx ELSE h} \cup
                        {q + 1 : q \in Resendable(t)}
             Outcomes(h) == {[t EXCEPT !.highTx = h, !.nextTx = n] : n \in Ends(h)}
  <2>u. u \in UNION {Outcomes(h) : h \in t.highTx..limit}
    BY <1>7, Zenon DEF SendPendingData
  <2> HIDE DEF limit, Outcomes
  <2>o. PICK h \in t.highTx..limit : u \in Outcomes(h)
    BY <2>u
  <2> HIDE DEF Ends
  <2>n. PICK n \in Ends(h) : u = [t EXCEPT !.highTx = h, !.nextTx = n]
    BY <2>o, Zenon DEF Outcomes
  <2>2. Resendable(t) \subseteq (t.una..(t.highTx - 1)) \cup (t.nextTx..(t.highTx - 1))
    BY DEF Resendable, Overtaken
  <2> HIDE DEF limit
  <2>3. n \in Int /\ n \in 0..h
    <3>1. CASE n = IF h = t.highTx THEN t.nextTx ELSE h
      BY <1>1, <1>2, <3>1, FusionAssumption DEF Ends
    <3>2. CASE \E q \in Resendable(t) : n = q + 1
      BY <1>1, <1>2, <2>2, <3>2, FusionAssumption
    <3> QED BY <3>1, <3>2 DEF Ends
  <2> QED BY <1>5, <2>n, <2>3
<1> QED BY <1>6, <1>7

LEMMA SendPendingDataSane ==
  ASSUME NEW s, Sane(s), NEW u \in SendPendingData(s.t)
  PROVE  /\ Sane([t |-> u, f |-> s.f])
         /\ SameExcept({"nextTx", "highTx"}, s.t, u)
<1>1. s.t \in TcbSet /\ s.f \in FusionSet /\ InBounds(s.t)
  BY DEF Sane, StateSet
<1>2. u \in TcbSet /\ InBounds(u) /\ SameExcept({"nextTx", "highTx"}, s.t, u)
  BY <1>1, SendPendingDataFrame
<1>3. /\ [t |-> u, f |-> s.f] \in StateSet
      /\ [t |-> u, f |-> s.f].t = u /\ [t |-> u, f |-> s.f].f = s.f
  BY <1>1, <1>2, StateOf
<1>4. u.congState = s.t.congState /\ u.cWnd = s.t.cWnd /\ u.ssThresh = s.t.ssThresh
  BY <1>2 DEF SameExcept
<1> QED BY <1>2, <1>3, <1>4, Zenon DEF Sane, ShadowHolds

LEMMA ArrivedSane ==
  ASSUME Sane([t |-> tcb, f |-> fusion]), NEW k \in Nat, tcb.una + k <= tcb.highTx,
         NEW news \in SUBSET (0..Total), NEW ece \in BOOLEAN, NEW w \in Nat
  PROVE  LET a == Arrived(k, news, ece, w)
         IN /\ Sane(a)
            /\ tcb.congState # "CWR" =>
                 \/ a.t.congState = "CWR"
                 \/ /\ a.t.congState = tcb.congState
                    /\ a.t.cWnd = tcb.cWnd /\ a.t.ssThresh = tcb.ssThresh
<1> DEFINE s == [t |-> tcb, f |-> fusion]
           una == tcb.una + k
           sacks == {q \in tcb.sacked \cup news : q > una}
           u == [tcb EXCEPT !.una = una, !.sacked = sacks]
           l == LeaveCwr([t |-> u, f |-> fusion])
           a == Arrived(k, news, ece, w)
<1>1. s \in StateSet /\ s.t = tcb /\ s.f = fusion /\ InBounds(tcb)
  BY DEF Sane
<1>2. tcb \in TcbSet /\ fusion \in FusionSet
  BY <1>1, Zenon DEF StateSet
<1>3. una \in 0..Total /\ sacks \in SUBSET (0..Total)
  <2>1. tcb.una \in 0..Total /\ tcb.highTx \in 0..Total /\ tcb.sacked \subseteq 0..Total
    BY <1>2 DEF TcbSet
  <2>2. una \in 0..Total
    BY <2>1, FusionAssumption
  <2>3. sacks \subseteq 0..Total
    BY <2>1
  <2> QED BY <2>2, <2>3
<1>4. u \in TcbSet
  BY <1>2, <1>3, Zenon DEF TcbSet
<1>5. /\ u.una = una /\ u.nextTx = tcb.nextTx /\ u.highTx = tcb.highTx
      /\ u.recover = tcb.recover /\ u.congState = tcb.congState
      /\ u.cWnd = tcb.cWnd /\ u.ssThresh = tcb.ssThresh
  BY <1>2 DEF TcbSet
<1>6. a = IF ece /\ l.t.congState # "CWR" THEN EnterCwr(l, w) ELSE l
  BY DEF Arrived
<1> HIDE DEF sacks, u
<1>7. InBounds(u)
  BY <1>1, <1>5 DEF InBounds
<1> DEFINE v == [t |-> u, f |-> fusion]
<1>8. v \in StateSet /\ v.t = u /\ v.f = fusion
  BY <1>2, <1>4, StateOf
<1> HIDE DEF s, v
<1>9. Sane(v)
  BY <1>1, <1>5, <1>7, <1>8, Zenon DEF Sane, ShadowHolds, s
<1>10. Sane(l) /\ (tcb.congState # "CWR" => l = v)
  BY <1>5, <1>8, <1>9, LeaveCwrSane DEF v
<1> HIDE DEF l, a
<1>11. CASE ece /\ l.t.congState # "CWR"
  BY <1>6, <1>10, <1>11, EnterCwrSane DEF a
<1>12. CASE ~(ece /\ l.t.congState # "CWR")
  BY <1>5, <1>6, <1>8, <1>10, <1>12 DEF a
<1> QED BY <1>11, <1>12

(***************************************************************************)
(* The inductive invariant, and the actions                                *)
(***************************************************************************)
IInv == Sane([t |-> tcb, f |-> fusion]) /\ estimate \in BOOLEAN

\* What NoRelapse says of one step
Relapses ==
  /\ tcb.congState = "OPEN" /\ tcb'.congState = "OPEN"
  /\ tcb.cWnd >= tcb.ssThresh /\ tcb'.ssThresh = tcb.ssThresh
  /\ ~(tcb'.cWnd >= tcb'.ssThresh)

LEMMA CurrentState ==
  ASSUME Sane([t |-> tcb, f |-> fusion])
  PROVE  /\ tcb \in TcbSet /\ fusion \in FusionSet /\ InBounds(tcb) /\ RttsOrdered(fusion)
         /\ tcb.ssThresh > 0
<1> DEFINE s == [t |-> tcb, f |-> fusion]
<1>1. s.t = tcb /\ s.f = fusion
  OBVIOUS
<1> HIDE DEF s
<1>2. s \in StateSet /\ InBounds(s.t) /\ RttsOrdered(s.f) /\ s.t.ssThresh > 0
  BY DEF Sane, s
<1> QED BY <1>1, <1>2 DEF StateSet

LEMMA BecomeSane ==
  ASSUME NEW s, Sane(s), estimate \in BOOLEAN, Become(s)
  PROVE  /\ IInv'
         /\ tcb'.congState = s.t.congState /\ tcb'.cWnd = s.t.cWnd
         /\ tcb'.ssThresh = s.t.ssThresh
<1>1. tcb' \in SendPendingData(s.t) /\ fusion' = s.f /\ estimate' \in BOOLEAN
  BY DEF Become
<1>2. Sane([t |-> tcb', f |-> s.f]) /\ SameExcept({"nextTx", "highTx"}, s.t, tcb')
  BY <1>1, SendPendingDataSane
<1>3. IInv'
  BY <1>1, <1>2, Zenon DEF IInv
<1> QED BY <1>2, <1>3 DEF SameExcept

LEMMA ReceivedAckSane ==
  ASSUME IInv, NEW k \in 0..Total, NEW ece \in BOOLEAN, NEW rtt \in Rtts,
         NEW w \in RecoveryWindows,
         NEW news \in SUBSET ((tcb.una + k + 1)..(tcb.highTx - 1)),
         ReceivedAck(k, news, ece, rtt, w)
  PROVE  IInv' /\ ~Relapses
<1> DEFINE a == Arrived(k, news, ece, w)
           dup == news # {}
<1>1. /\ Sane([t |-> tcb, f |-> fusion]) /\ estimate \in BOOLEAN
      /\ tcb \in TcbSet /\ InBounds(tcb)
  BY CurrentState DEF IInv
<1>2. /\ k \in Nat /\ w \in Nat /\ news \in SUBSET (0..Total)
      /\ tcb.una + k <= tcb.highTx /\ tcb.dupAckCount \in Nat /\ dup \in BOOLEAN
  <2>1. /\ tcb.una \in 0..Total /\ tcb.highTx \in 0..Total
        /\ tcb.dupAckCount \in Nat
    BY <1>1 DEF TcbSet
  <2>2. k \in Nat /\ w \in Nat /\ news \in SUBSET (0..Total)
    BY <2>1, FusionAssumption
  <2> QED BY <2>1, <2>2 DEF ReceivedAck
<1>3. /\ Sane(a)
      /\ tcb.congState # "CWR" =>
           \/ a.t.congState = "CWR"
           \/ /\ a.t.congState = tcb.congState
              /\ a.t.cWnd = tcb.cWnd /\ a.t.ssThresh = tcb.ssThresh
  BY <1>1, <1>2, ArrivedSane
<1>4. PICK s \in IF dup THEN DupAck(a, w) ELSE {a} :
        IF k > 0
        THEN \E grown \in Growths(s.t.cWnd) :
             \E n \in ProcessAck(s, k, tcb.dupAckCount, dup, rtt, grown, w) :
               Become(n)
        ELSE Become(IF s.t.una = s.t.highTx THEN s ELSE Sampled(s, rtt))
  BY DEF ReceivedAck
<1> HIDE DEF a
<1>5. /\ Sane(s)
      /\ dup => /\ a.t.congState = "OPEN" => s.t.congState \in {"DISORDER", "RECOVERY"}
                /\ a.t.congState = "CWR" => s.t.congState = "CWR"
      /\ ~dup => s = a
  BY <1>2, <1>3, <1>4, DupAckSane
<1> HIDE DEF dup
<1>6. CASE k > 0
  <2>1. PICK grown \in Growths(s.t.cWnd) :
          \E n \in ProcessAck(s, k, tcb.dupAckCount, dup, rtt, grown, w) : Become(n)
    BY <1>4, <1>6
  <2>2. PICK n \in ProcessAck(s, k, tcb.dupAckCount, dup, rtt, grown, w) : Become(n)
    BY <2>1
  <2>3. grown \in Nat
    BY FusionAssumption DEF Growths
  <2>4. /\ Sane(n)
        /\ n.t.congState = "OPEN" =>
              /\ s.t.congState # "CWR"
              /\ ~(s.t.congState = "DISORDER" /\ dup)
              /\ s.t.congState = "RECOVERY" => n.t.cWnd >= n.t.ssThresh
              /\ s.t.congState = "OPEN" /\ s.t.cWnd >= s.t.ssThresh
                   => n.t.cWnd >= n.t.ssThresh
    BY <1>2, <1>5, <2>2, <2>3, ProcessAckSane
  <2>5. /\ IInv'
        /\ tcb'.congState = n.t.congState /\ tcb'.cWnd = n.t.cWnd
        /\ tcb'.ssThresh = n.t.ssThresh
    BY <1>1, <2>2, <2>4, BecomeSane
  <2> QED BY <1>2, <1>3, <1>5, <2>4, <2>5 DEF Relapses
<1>7. CASE ~(k > 0)
  <2> DEFINE n == IF s.t.una = s.t.highTx THEN s ELSE Sampled(s, rtt)
  <2>1. Sane(n) /\ n.t = s.t
    BY <1>5, SampledSane
  <2>2. Become(n)
    BY <1>4, <1>7
  <2> HIDE DEF n
  <2>3. /\ IInv'
        /\ tcb'.congState = n.t.congState /\ tcb'.cWnd = n.t.cWnd
        /\ tcb'.ssThresh = n.t.ssThresh
    BY <1>1, <2>1, <2>2, BecomeSane
  <2> QED BY <1>2, <1>3, <1>5, <2>1, <2>3 DEF Relapses
<1> QED BY <1>6, <1>7

LEMMA SendSane ==
  ASSUME IInv, Send
  PROVE  IInv' /\ ~Relapses
<1> DEFINE s == [t |-> tcb, f |-> fusion]
<1>1. Sane(s) /\ estimate \in BOOLEAN /\ Become(s) /\ s.t = tcb
  BY DEF IInv, Send
<1> HIDE DEF s
<1> QED BY <1>1, BecomeSane DEF Relapses

LEMMA ReTxTimeoutSane ==
  ASSUME IInv, ReTxTimeout
  PROVE  IInv' /\ ~Relapses
<1> DEFINE e == Reduce(tcb, fusion)
           l == Entered(e, "LOSS")
           u == [l.t EXCEPT !.recover = tcb.highTx, !.recoverActive = TRUE,
                            !.dupAckCount = 0, !.cWnd = SegmentSize,
                            !.nextTx = tcb.una + 1]
           r == [t |-> u, f |-> l.f]
<1>1. /\ tcb \in TcbSet /\ fusion \in FusionSet /\ InBounds(tcb) /\ RttsOrdered(fusion)
      /\ estimate \in BOOLEAN
  BY CurrentState DEF IInv
<1>2. /\ tcb.una < tcb.highTx /\ tcb' = u /\ fusion' = l.f /\ estimate' = estimate
  BY DEF ReTxTimeout
<1>3. /\ e \in StateSet /\ SameExcept({"ssThresh"}, tcb, e.t) /\ RttsOrdered(e.f)
      /\ e.f.renoCwnd = e.t.ssThresh /\ e.t.ssThresh > 0
  BY <1>1, ReduceFields
<1> HIDE DEF e
<1>4. "LOSS" \in CongStates
  BY DEF CongStates
<1>5. /\ l \in StateSet /\ l.t.congState = "LOSS" /\ SameExcept({"congState"}, e.t, l.t)
      /\ RttsOrdered(l.f) /\ l.f.doingFusionNow = ("LOSS" = "OPEN")
      /\ l.f.renoCwnd = e.f.renoCwnd
  BY <1>3, <1>4, EnteredFields
<1> HIDE DEF l
<1>6. l.t \in TcbSet /\ l.f \in FusionSet /\ ~l.f.doingFusionNow
  BY <1>5 DEF StateSet
<1>7. /\ l.t.una = tcb.una /\ l.t.highTx = tcb.highTx
      /\ l.t.ssThresh = e.t.ssThresh
  BY <1>3, <1>5 DEF SameExcept
<1>8. /\ tcb.highTx \in 0..Total /\ tcb.una + 1 \in 0..Total
      /\ SegmentSize \in Nat /\ SegmentSize > 0 /\ 0 \in Nat /\ TRUE \in BOOLEAN
  BY <1>1, <1>2, FusionAssumption DEF TcbSet
<1>9. u \in TcbSet
  BY <1>6, <1>8, Zenon DEF TcbSet
<1>10. /\ u.recover = tcb.highTx /\ u.cWnd = SegmentSize /\ u.nextTx = tcb.una + 1
       /\ u.una = l.t.una /\ u.highTx = l.t.highTx /\ u.congState = l.t.congState
       /\ u.ssThresh = l.t.ssThresh
  BY <1>6 DEF TcbSet
<1> HIDE DEF u
<1>11. r \in StateSet /\ r.t = u /\ r.f = l.f
  BY <1>6, <1>9, StateOf
<1>r. r = [t |-> tcb', f |-> fusion']
  BY <1>2
<1> HIDE DEF r
<1>12. InBounds(u) /\ l.f.renoCwnd >= u.ssThresh
  BY <1>1, <1>2, <1>3, <1>5, <1>6, <1>7, <1>10 DEF InBounds, TcbSet, FusionSet
<1>13. Sane(r)
  BY <1>3, <1>5, <1>6, <1>7, <1>8, <1>10, <1>11, <1>12 DEF Sane
<1>14. IInv'
  BY <1>1, <1>2, <1>r, <1>13, Zenon DEF IInv
<1>15. ~Relapses
  BY <1>2, <1>5, <1>10 DEF Relapses
<1> QED BY <1>14, <1>15

LEMMA EstimateBWSane ==
  ASSUME IInv, EstimateBW
  PROVE  IInv' /\ ~Relapses
<1> DEFINE s == [t |-> tcb, f |-> fusion]
           g == [fusion EXCEPT !.isCount = FALSE]
           r == [t |-> tcb, f |-> g]
<1>1. Sane(s) /\ tcb \in TcbSet /\ fusion \in FusionSet
  BY CurrentState DEF IInv
<1>2. tcb' = tcb /\ fusion' = g /\ estimate' = FALSE
  BY DEF EstimateBW
<1>3. g \in FusionSet
  BY <1>1, FALSE \in BOOLEAN, Zenon DEF FusionSet
<1>4. /\ g.baseRtt = fusion.baseRtt /\ g.minRtt = fusion.minRtt
      /\ g.currentRtt = fusion.currentRtt /\ g.cntRtt = fusion.cntRtt
      /\ g.doingFusionNow = fusion.doingFusionNow /\ g.renoCwnd = fusion.renoCwnd
  BY <1>1 DEF FusionSet
<1> HIDE DEF g
<1>5. /\ r \in StateSet /\ r.t = tcb /\ r.f = g
      /\ s.t = tcb /\ s.f = fusion
  BY <1>1, <1>3, StateOf
<1>r. r = [t |-> tcb', f |-> fusion']
  BY <1>2
<1> HIDE DEF r, s
<1>6. Sane(r)
  BY <1>1, <1>4, <1>5, Zenon DEF Sane, RttsOrdered, ShadowHolds
<1>7. IInv'
  BY <1>2, <1>r, <1>6, Zenon DEF IInv
<1>8. ~Relapses
  BY <1>2 DEF Relapses
<1> QED BY <1>7, <1>8

LEMMA InitSane == Init => IInv
<1> SUFFICES ASSUME Init
             PROVE  IInv
  OBVIOUS
<1> DEFINE s == [t |-> tcb, f |-> fusion]
<1>1. InitialCwnd * SegmentSize \in Nat /\ InitialCwnd * SegmentSize > 0
  <2>1. \A a, b \in Nat \ {0} : a * b \in Nat /\ a * b > 0
    OBVIOUS
  <2> QED BY <2>1, FusionAssumption
<1>2. /\ 0 \in 0..Total /\ 0 \in Nat /\ {} \in SUBSET (0..Total) /\ "OPEN" \in CongStates
      /\ TRUE \in BOOLEAN /\ FALSE \in BOOLEAN
      /\ InitialSsThresh \in Nat /\ TimeMax \in 1..TimeMax /\ 0 \in 0..3
  BY FusionAssumption DEF CongStates
<1>3. tcb \in TcbSet
  BY <1>1, <1>2, Zenon DEF Init, TcbSet
<1>4. fusion \in FusionSet
  BY <1>2, Zenon DEF Init, FusionSet
<1>5. s \in StateSet /\ s.t = tcb /\ s.f = fusion
  BY <1>3, <1>4, StateOf
<1>6. /\ tcb.una = 0 /\ tcb.nextTx = 0 /\ tcb.highTx = 0 /\ tcb.recover = 0
      /\ tcb.congState = "OPEN" /\ tcb.cWnd = InitialCwnd * SegmentSize
      /\ tcb.ssThresh = InitialSsThresh
  BY DEF Init
<1>7. /\ fusion.baseRtt = TimeMax /\ fusion.minRtt = TimeMax
      /\ fusion.currentRtt = TimeMax /\ fusion.cntRtt = 0
      /\ fusion.doingFusionNow
  BY DEF Init
<1> HIDE DEF s
<1>8. InBounds(tcb) /\ RttsOrdered(fusion) /\ ShadowHolds(tcb, fusion)
  BY <1>1, <1>6, <1>7, FusionAssumption DEF InBounds, RttsOrdered, ShadowHolds
<1>9. tcb.ssThresh > 0
  BY <1>1, <1>6, FusionAssumption
<1>10. Sane(s)
  BY <1>1, <1>5, <1>6, <1>8, <1>9 DEF Sane
<1> QED BY <1>10 DEF IInv, Init, s

LEMMA StepSane ==
  ASSUME IInv, [Next]_vars
  PROVE  IInv' /\ ~Relapses
<1>1. CASE Acknowledge
  BY <1>1, ReceivedAckSane DEF Acknowledge
<1>2. CASE Send
  BY <1>2, SendSane
<1>3. CASE ReTxTimeout
  BY <1>3, ReTxTimeoutSane
<1>4. CASE EstimateBW
  BY <1>4, EstimateBWSane
<1>5. CASE UNCHANGED vars
  <2>1. tcb' = tcb /\ fusion' = fusion /\ estimate' = estimate
    BY <1>5 DEF vars
  <2>2. IInv'
    BY <2>1, Zenon DEF IInv
  <2>3. ~Relapses
    BY <2>1 DEF Relapses
  <2> QED BY <2>2, <2>3
<1> QED BY <1>1, <1>2, <1>3, <1>4, <1>5 DEF Next

(***************************************************************************)
(* The theorems                                                            *)
(***************************************************************************)
\* Every reachable state is sane: the windows of socket and object hold
\* together in every congestion state.
THEOREM FusionInvariant == Spec => []IInv
BY InitSane, StepSane, PTL DEF Spec

\* Every field of the socket and of the TcpFusion object keeps its type, and
\* SND.NXT, SND.UNA and the recovery point stay within what was sent.
THEOREM FusionTypeCorrect == Spec => []FusionTypeOK
<1>1. IInv => FusionTypeOK
  <2> SUFFICES ASSUME IInv
               PROVE  FusionTypeOK
    OBVIOUS
  <2>1. tcb \in TcbSet /\ fusion \in FusionSet /\ InBounds(tcb) /\ estimate \in BOOLEAN
    BY CurrentState DEF IInv
  <2>2. {tcb.una, tcb.nextTx, tcb.recover} \subseteq 0..tcb.highTx
    BY <2>1 DEF TcbSet, InBounds
  <2> QED BY <2>1, <2>2, Zenon DEF FusionTypeOK, TcbSet, FusionSet
<1> QED BY <1>1, FusionInvariant, PTL

\* TcpFusion::GetSsThresh never sets a threshold above the window it reduces.
THEOREM ReductionNeverRaises == Spec => []ReductionIsBounded
<1>1. IInv => ReductionIsBounded
  <2> SUFFICES ASSUME IInv
               PROVE  ReductionIsBounded
    OBVIOUS
  <2>1. fusion \in FusionSet /\ RttsOrdered(fusion) /\ tcb.cWnd \in Nat
    BY CurrentState DEF IInv, TcbSet
  <2> QED BY <2>1, ThresholdBounded DEF ReductionIsBounded
<1> QED BY <1>1, FusionInvariant, PTL

\* In congestion avoidance m_renoCwnd is at least ssThresh.
THEOREM ShadowFollowsThreshold == Spec => []ShadowAboveThreshold
<1>1. IInv => ShadowAboveThreshold
  <2> SUFFICES ASSUME IInv
               PROVE  ShadowAboveThreshold
    OBVIOUS
  <2> DEFINE s == [t |-> tcb, f |-> fusion]
  <2>1. Sane(s) /\ s.t = tcb /\ s.f = fusion
    BY DEF IInv
  <2> HIDE DEF s
  <2> QED BY <2>1 DEF Sane, ShadowHolds, ShadowAboveThreshold
<1> QED BY <1>1, FusionInvariant, PTL

\* m_doingFusionNow is down in CA_DISORDER, CA_RECOVERY and CA_LOSS.
THEOREM NoDelayControlInRepair == Spec => []FusionOffWhileRepairing
<1>1. IInv => FusionOffWhileRepairing
  <2> SUFFICES ASSUME IInv
               PROVE  FusionOffWhileRepairing
    OBVIOUS
  <2> DEFINE s == [t |-> tcb, f |-> fusion]
  <2>1. Sane(s) /\ s.t = tcb /\ s.f = fusion
    BY DEF IInv
  <2> HIDE DEF s
  <2> QED BY <2>1 DEF Sane, FusionOffWhileRepairing
<1> QED BY <1>1, FusionInvariant, PTL

\* A cycle that counted a sample has a minimum RTT, not below the base RTT.
THEOREM CountsAreMeasured == Spec => []CountedIsMeasured
<1>1. IInv => CountedIsMeasured
  <2> SUFFICES ASSUME IInv
               PROVE  CountedIsMeasured
    OBVIOUS
  <2>1. RttsOrdered(fusion)
    BY CurrentState DEF IInv
  <2> QED BY <2>1 DEF RttsOrdered, CountedIsMeasured
<1> QED BY <1>1, FusionInvariant, PTL

\* No step on an open connection takes the window from congestion avoidance
\* below the threshold.
THEOREM NeverRelapses == Spec => NoRelapse
<1>1. IInv /\ [Next]_vars =>
        [tcb.congState = "OPEN" /\ tcb'.congState = "OPEN"
          /\ tcb.cWnd >= tcb.ssThresh /\ tcb'.ssThresh = tcb.ssThresh
            => tcb'.cWnd >= tcb'.ssThresh]_vars
  BY StepSane DEF Relapses
<1> QED BY <1>1, FusionInvariant, PTL DEF Spec, NoRelapse
=============================================================================
