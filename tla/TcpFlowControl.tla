--------------------------- MODULE TcpFlowControl ---------------------------
(***************************************************************************)
(* The sender of TcpSender against a receiver whose application reads when *)
(* it likes: the offered window, the ACKs that are delayed, and the        *)
(* persist timer that probes a window of zero.  Recv sends no window       *)
(* update, so that what the application has read is only told in answer to *)
(* a segment.  Segments and ACKs are lost, repeated and reordered.         *)
(***************************************************************************)
EXTENDS TcpSender

CONSTANTS MaxBuffer,      \* m_maxBuffer of the receiver
          WindowUnit,     \* 2^m_rcvWindShift: windows are told in this unit
          DelAckMaxCount, \* m_delAckMaxCount
          Reads,          \* the sizes the application reads in
          MaxAcks         \* ACKs in the network at a time; an old one gives way

ASSUME FlowAssumption == /\ MaxBuffer \in Nat \ {0}
                         /\ WindowUnit \in Nat \ {0}
                         /\ DelAckMaxCount \in Nat \ {0}
                         /\ Reads \subseteq Nat \ {0}
                         /\ MaxAcks \in Nat \ {0}
                         /\ ReceiverWindow <= MaxBuffer

VARIABLES win,   \* the sender's view of the window
          rcv,   \* the receiver, which holds or has passed on the bytes of got
          acks   \* the ACKs in the network

flowVars == <<tx, sock, flight, got, win, rcv, acks>>

FlowInit == /\ Init
            /\ win = [highRxAck |-> 1,      \* m_highRxAckMark
                      persist |-> FALSE]    \* m_persistEvent is scheduled
            /\ rcv = [read |-> 0,           \* bytes the application has read
                      delAckCount |-> DelAckMaxCount, \* the first segment is answered
                      delAck |-> FALSE]     \* m_delAckEvent is scheduled
            /\ acks = {}

(***************************************************************************)
(* The receiver                                                            *)
(***************************************************************************)
MaxRxSequence == rcv.read + 1 + MaxBuffer

AdvertisedWindowSize(bytes) ==
  ((MaxRxSequence - NextRxSeq(bytes)) \div WindowUnit) * WindowUnit

\* SendEmptyPacket(ACK) when the receiver holds these bytes, one just arrived
SendAck(bytes, arrived) ==
  \E blocks \in SackLists(bytes, arrived) : \E old \in SUBSET acks :
    /\ Cardinality(old) < MaxAcks
    /\ acks' = old \cup {[ack |-> NextRxSeq(bytes), blocks |-> blocks,
                          wnd |-> AdvertisedWindowSize(bytes)]}

SendAckNow(bytes, arrived) ==
  /\ SendAck(bytes, arrived)
  /\ rcv' = [rcv EXCEPT !.delAckCount = 0, !.delAck = FALSE]

\* ReceivedData when it may wait for more before it answers
DelayAck == /\ rcv' = [rcv EXCEPT !.delAckCount = @ + 1, !.delAck = TRUE]
            /\ UNCHANGED acks

\* Mutant: the count is due only when it is reached, and it starts beyond.
MutantAckDue == rcv.delAckCount + 1 = DelAckMaxCount

\* An in-sequence segment is answered at once when so many others wait.
AckDue == rcv.delAckCount + 1 >= DelAckMaxCount

\* ForwardUp and ReceivedData: a segment out of the window, one with nothing new,
\* and one that leaves or fills a gap are answered at once.
ArriveData(g) ==
  LET next == NextRxSeq(got)
      outOfRange == g[2] < next \/ MaxRxSequence <= g[1]
      bytes == IF outOfRange THEN got ELSE got \cup g[1]..(g[2] - 1)
      gap == Runs(bytes) # {} \/ NextRxSeq(bytes) > next + (g[2] - g[1])
      atOnce == bytes = got \/ gap \/ AckDue
  IN /\ Running
     /\ got' = bytes
     /\ IF atOnce THEN SendAckNow(bytes, g[1]) ELSE DelayAck
     /\ UNCHANGED <<tx, sock, flight, win>>

DelAckTimeout ==
  /\ Running /\ rcv.delAck
  /\ SendAckNow(got, 0)
  /\ UNCHANGED <<tx, sock, flight, got, win>>

\* The application reads: nothing is sent.
Recv(n) ==
  /\ Running /\ rcv.read + 1 < NextRxSeq(got)
  /\ rcv' = [rcv EXCEPT !.read = Smaller(@ + n, NextRxSeq(got) - 1)]
  /\ UNCHANGED <<tx, sock, flight, got, win, acks>>

(***************************************************************************)
(* The sender                                                              *)
(***************************************************************************)
\* Mutant: the window of every ACK is taken.
MutantUpdateWindowSize(a) == a.wnd

\* m_rWnd after the ACK a: an old ACK does not move it, nor does a repeated one
\* to the left.
UpdateWindowSize(a) ==
  IF a.ack > win.highRxAck \/ (a.ack = win.highRxAck /\ a.wnd > sock.rWnd)
  THEN a.wnd ELSE sock.rWnd

\* Mutant: nothing probes the window.
MutantHear(a) ==
  LET s == [Sender EXCEPT !.sock.rWnd = UpdateWindowSize(a)]
  IN /\ EndsIn(IF a.ack < tx.una \/ a.ack > sock.highTx THEN {s}
               ELSE ReceivedAck(s, a.ack, a.blocks))
     /\ win' = [win EXCEPT !.highRxAck = Larger(@, a.ack)]

\* DoForwardUp and ProcessEstablished: a window of zero starts the persist timer
\* in place of the retransmission timer, an ACK of what was not sent is ignored,
\* and a window that opens lets the sender go on.
Hear(a) ==
  LET rWnd == UpdateWindowSize(a)
      enter == rWnd = 0 /\ ~win.persist
      leave == rWnd # 0 /\ win.persist
      s == [Sender EXCEPT !.sock.rWnd = rWnd, !.sock.retx = @ /\ ~enter]
      handled == IF a.ack < tx.una \/ a.ack > sock.highTx THEN {s}
                 ELSE ReceivedAck(s, a.ack, a.blocks)
  IN /\ EndsIn(IF leave THEN UNION {SendPendingData(h, CongWindows) : h \in handled}
               ELSE handled)
     /\ win' = [highRxAck |-> Larger(win.highRxAck, a.ack), persist |-> rWnd = 0]

HearAck(a) ==
  /\ Running
  /\ Hear(a)
  /\ acks' \in {acks, acks \ {a}}
  /\ UNCHANGED <<got, rcv>>

\* One byte, which the buffer then takes back.  The item may be missing: then the
\* program ends.
PersistTimeout ==
  LET seq == sock.nextTx
      none == SizeFromSequence(tx, seq) = 0 \/ seq > tx.end
      probed == ResetLastSegmentSent(CopyFromSequence(tx, 1, seq))
  IN /\ Running /\ win.persist
     /\ IF none THEN /\ sock' = [sock EXCEPT !.nullItem = TRUE]
                     /\ UNCHANGED <<tx, flight>>
        ELSE /\ tx' = probed /\ flight' = flight \cup {<<seq, seq + 1>>}
             /\ UNCHANGED sock
     /\ UNCHANGED <<got, win, rcv, acks>>

(***************************************************************************)
(* The whole                                                               *)
(***************************************************************************)
Write == /\ \E n \in Writes : Send(n)
         /\ UNCHANGED <<win, rcv, acks>>

RetxTimer == /\ ReTxTimeout \/ LastTimeout
             /\ UNCHANGED <<win, rcv, acks>>

Lose == /\ Running
        /\ \E g \in flight : flight' = flight \ {g}
        /\ UNCHANGED <<tx, sock, got, win, rcv, acks>>

FlowNext == \/ Write \/ RetxTimer \/ PersistTimeout \/ Lose \/ DelAckTimeout
            \/ \E g \in flight : ArriveData(g)
            \/ \E a \in acks : HearAck(a)
            \/ \E n \in Reads : Recv(n)

FlowSpec == FlowInit /\ [][FlowNext]_flowVars

(***************************************************************************)
(* Fairness.  That of the sender's timers and of the network is written    *)
(* out as what it leaves of a behaviour: the steps of these events either  *)
(* end what enabled them or make progress that is bounded.                 *)
(***************************************************************************)
\* The persist timer fires: its probe is in the network again and again.
PersistFires == []<>(Running /\ win.persist => <<sock.nextTx, sock.nextTx + 1>> \in flight)

\* The delayed ACK is sent in the end, and the application reads in the end.
ReceiverFairness == WF_flowVars(DelAckTimeout) /\ WF_flowVars(\E n \in Reads : Recv(n))

HasRoom == NextRxSeq(got) < MaxRxSequence

\* A segment the receiver waits for and has room for, and one it only answers
Awaited(g) == HasRoom /\ g[1] <= NextRxSeq(got) /\ NextRxSeq(got) < g[2]

OnlyAnswered(g) == g[2] <= NextRxSeq(got) \/ (~HasRoom /\ NextRxSeq(got) <= g[1])

\* A segment, if it is sent again and again, arrives.
SegmentsArrive ==
  /\ <>[]~(Running /\ \E g \in flight : Awaited(g))
  /\ []<>(Running /\ \E g \in flight : OnlyAnswered(g))
       => []<>(\E a \in acks : a.ack = NextRxSeq(got) /\ a.wnd = AdvertisedWindowSize(got))

News(a) == /\ Running
           /\ (tx.una < a.ack /\ a.ack <= sock.highTx) \/ UpdateWindowSize(a) # sock.rWnd

\* An ACK that tells the sender something, if it is sent again and again, is heard.
NewsIsHeard == <>[]~(\E a \in acks : News(a))

FlowFairSpec == /\ FlowSpec
                /\ TimerFairness /\ PersistFires /\ ReceiverFairness
                /\ SegmentsArrive /\ NewsIsHeard

(***************************************************************************)
(* Properties                                                              *)
(***************************************************************************)
FlowTypeOK ==
  /\ SenderTypeOK
  /\ win \in [highRxAck : 1..(Total + 1), persist : BOOLEAN]
  /\ rcv \in [read : 0..Total, delAckCount : 0..DelAckMaxCount, delAck : BOOLEAN]
  /\ \A a \in acks : a.ack \in 1..(Total + 1) /\ a.wnd \in 0..MaxBuffer

\* The sender never goes beyond the window the receiver has room for, however old
\* and in whatever order the ACKs are that it goes by.
WindowKept == tx.end <= MaxRxSequence

\* The persist timer always has a byte to probe with.
ProbeHasByte == ~sock.nullItem
=============================================================================
