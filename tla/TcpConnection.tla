--------------------------- MODULE TcpConnection ---------------------------
(***************************************************************************)
(* Opening and closing a connection: the state machine of two              *)
(* TcpSocketBase, A that connects and B that a listening socket forks.     *)
(*                                                                         *)
(* Each end writes at most one segment of one unit, so that fast           *)
(* retransmit, SACK and the windows play no part.  A segment, once sent,   *)
(* may arrive at any later time, repeatedly, or never.  The application    *)
(* reads at once.  Initial sequence numbers are 0, and simultaneous open   *)
(* and a second connection between the two do not occur.                   *)
(***************************************************************************)
EXTENDS Integers

CONSTANTS WriterSets,     \* which ends write, one set for each behaviour
          SynRetries,     \* m_synRetries
          DataRetries,    \* m_dataRetries
          DelAckMaxCount, \* m_delAckMaxCount
          CallbackCloses  \* the callbacks in which an application may call Close

ASSUME ConnectionAssumption == /\ WriterSets \subseteq SUBSET {"A", "B"}
                               /\ SynRetries \in Nat \ {0}
                               /\ DataRetries \in Nat
                               /\ DelAckMaxCount \in Nat \ {0}
                               /\ CallbackCloses \subseteq {"DataRecv", "NormalClose"}

VARIABLES end,      \* the socket of each end
          sent,     \* the segments ever sent, under the end they go to
          writers   \* the ends that write

vars == <<end, sent, writers>>

Ends == {"A", "B"}
Peer(x) == IF x = "A" THEN "B" ELSE "A"

\* Handlers act on s = [e, out, closes]: the socket, the segments it has sent and the
\* callbacks in which the application closes this time.
InitialSocket(state) ==
  [state |-> state, bound |-> TRUE,       \* m_endPoint is not null
   connected |-> FALSE, closeOnEmpty |-> FALSE, shutdownSend |-> FALSE,
   closeCalled |-> FALSE,                 \* Close() was called
   closeNotified |-> FALSE, failed |-> FALSE,  \* an error was notified
   synCount |-> SynRetries, dataRetrCount |-> DataRetries,
   una |-> 0, size |-> 0,                 \* m_txBuffer: head and bytes
   nextTx |-> 0, highTx |-> 0,
   rxNext |-> 0, gotFin |-> FALSE, fin |-> 0,  \* m_rxBuffer
   written |-> 0, read |-> 0,             \* by the application, in all
   delAckCount |-> 0, delAck |-> FALSE,   \* m_delAckEvent is scheduled
   retx |-> "none",                       \* what m_retxEvent will do
   lastAck |-> FALSE, timewait |-> FALSE, sendPending |-> FALSE]

Init == /\ end = [x \in Ends |-> InitialSocket(IF x = "A" THEN "CLOSED" ELSE "LISTEN")]
        /\ sent = [x \in Ends |-> {}]
        /\ writers \in WriterSets

Finished(e) == e.gotFin /\ e.fin < e.rxNext

\* The application has closed neither its sending side nor the socket.
Unclosed(e) == ~e.closeCalled /\ ~e.shutdownSend

(***************************************************************************)
(* Sending                                                                 *)
(***************************************************************************)
CancelAllTimers(e) ==
  [e EXCEPT !.retx = "none", !.delAck = FALSE, !.lastAck = FALSE,
            !.timewait = FALSE, !.sendPending = FALSE]

DeallocateEndPoint(e) ==
  IF e.bound THEN [CancelAllTimers(e) EXCEPT !.bound = FALSE] ELSE e

CloseAndNotify(s) ==
  [s EXCEPT !.e = DeallocateEndPoint([@ EXCEPT !.closeNotified = TRUE,
                                               !.lastAck = FALSE, !.state = "CLOSED"])]

\* Mutant of Emit: acknowledges a FIN that came before its data.
MutantEmit(s, flags, seq, len) ==
  [s EXCEPT !.out = @ \cup {[flags |-> flags, seq |-> seq, len |-> len,
                             ack |-> IF s.e.gotFin THEN s.e.fin + 1 ELSE s.e.rxNext]}]

Emit(s, flags, seq, len) ==
  [s EXCEPT !.out = @ \cup {[flags |-> flags, seq |-> seq, ack |-> s.e.rxNext,
                             len |-> len]}]

\* Mutant of SendEmptyPacket: a FIN is sent once.
MutantSendEmptyPacket(s, wanted) ==
  LET flags == IF "FIN" \in wanted THEN wanted \cup {"ACK"} ELSE wanted
      acks == "ACK" \in flags
      syn == "SYN" \in flags
      seq == IF "FIN" \notin wanted /\ s.e.state \in {"FIN_WAIT_1", "LAST_ACK", "CLOSING"}
             THEN s.e.nextTx + 1 ELSE s.e.nextTx
  IN IF ~s.e.bound THEN s
     ELSE Emit([s EXCEPT !.e.delAck = @ /\ ~acks,
                         !.e.delAckCount = IF acks THEN 0 ELSE @,
                         !.e.retx = IF @ # "none" \/ ~syn THEN @
                                    ELSE IF acks THEN "SYN+ACK" ELSE "SYN"],
               flags, seq, 0)

\* Every FIN carries an ACK, and nothing is sent without an endpoint.  What opens
\* or closes is repeated by the retransmission event, if that is free.
SendEmptyPacket(s, wanted) ==
  LET flags == IF "FIN" \in wanted THEN wanted \cup {"ACK"} ELSE wanted
      seq == IF "FIN" \notin wanted /\ s.e.state \in {"FIN_WAIT_1", "LAST_ACK", "CLOSING"}
             THEN s.e.nextTx + 1 ELSE s.e.nextTx
      syn == "SYN" \in flags
      acks == "ACK" \in flags
      again == IF "FIN" \in flags THEN "FIN" ELSE IF acks THEN "SYN+ACK" ELSE "SYN"
  IN IF ~s.e.bound THEN s
     ELSE IF syn /\ s.e.synCount = 0
     THEN [s EXCEPT !.e = DeallocateEndPoint([@ EXCEPT !.failed = TRUE,
                                                       !.state = "CLOSED"])]
     ELSE Emit([s EXCEPT
                 !.e.synCount = IF syn THEN @ - 1 ELSE @,
                 !.e.delAck = @ /\ ~acks,
                 !.e.delAckCount = IF acks THEN 0 ELSE @,
                 !.e.retx = IF @ = "none" /\ (syn \/ "FIN" \in flags) THEN again ELSE @],
               flags, seq, 0)

SendRST(s) ==
  LET r == SendEmptyPacket(s, {"RST"})
  IN [r EXCEPT !.e = DeallocateEndPoint([@ EXCEPT !.failed = TRUE])]

\* The last byte takes the FIN along if the application has closed.
SendDataPacket(s) ==
  LET fin == s.e.closeOnEmpty
      next == CASE fin /\ s.e.state = "ESTABLISHED" -> "FIN_WAIT_1"
                [] fin /\ s.e.state = "CLOSE_WAIT" -> "LAST_ACK"
                [] OTHER -> s.e.state
  IN Emit([s EXCEPT !.e.state = next, !.e.delAck = FALSE, !.e.delAckCount = 0,
                    !.e.retx = IF @ = "none" THEN "RTO" ELSE @,
                    !.e.highTx = s.e.una + 1, !.e.nextTx = s.e.una + 1],
          IF fin THEN {"FIN", "ACK"} ELSE {"ACK"}, s.e.una, 1)

\* New data; ReTxTimeout sends again what was sent.
SendPendingData(s) ==
  IF s.e.size > 0 /\ s.e.bound /\ s.e.highTx = s.e.una THEN SendDataPacket(s) ELSE s

(***************************************************************************)
(* Closing                                                                 *)
(***************************************************************************)
DoClose(s) ==
  CASE s.e.state \in {"SYN_RCVD", "ESTABLISHED"} ->
         [SendEmptyPacket(s, {"FIN"}) EXCEPT !.e.state = "FIN_WAIT_1"]
    [] s.e.state = "CLOSE_WAIT" ->
         [SendEmptyPacket(s, {"FIN", "ACK"}) EXCEPT !.e.state = "LAST_ACK"]
    [] s.e.state \in {"SYN_SENT", "CLOSING"} -> CloseAndNotify(SendRST(s))
    [] OTHER -> s

\* Nothing is unread: the application has read all that was in order.
CloseSocket(s) ==
  IF s.e.una + s.e.size > s.e.nextTx THEN [s EXCEPT !.e.closeOnEmpty = TRUE]
  ELSE DoClose(s)

\* Mutant of TimeWait: the timers are cancelled after the last one was set.
MutantTimeWait(s) ==
  [s EXCEPT !.e = [CancelAllTimers(@) EXCEPT !.state = "TIME_WAIT",
                                             !.closeNotified = TRUE]]

TimeWait(s) ==
  [s EXCEPT !.e = [CancelAllTimers(@) EXCEPT !.state = "TIME_WAIT", !.timewait = TRUE,
                                             !.closeNotified = TRUE]]

\* The application is called, and may close before the handler goes on.
Notify(s, callback) ==
  IF callback \in s.closes /\ Unclosed(s.e)
  THEN CloseSocket([s EXCEPT !.e.closeCalled = TRUE]) ELSE s

CloseWait(s) ==
  LET w == [s EXCEPT !.e.state = "CLOSE_WAIT"]
  IN [(IF s.e.closeNotified THEN w ELSE Notify(w, "NormalClose"))
        EXCEPT !.e.closeNotified = TRUE]

DoPeerClose(s) ==
  LET w == CloseWait(s)
      r == IF w.e.shutdownSend THEN CloseSocket(w) ELSE SendEmptyPacket(w, {"ACK"})
  IN IF r.e.state = "LAST_ACK"
     THEN [r EXCEPT !.e.dataRetrCount = DataRetries, !.e.lastAck = TRUE] ELSE r

(***************************************************************************)
(* Receiving                                                               *)
(***************************************************************************)
\* TcpRxBuffer models the buffer; here one unit of data is in order or refused.
AddData(e, m) ==
  LET next == IF e.gotFin /\ e.fin = e.rxNext + 1 THEN e.rxNext + 2 ELSE e.rxNext + 1
  IN [e EXCEPT !.rxNext = next, !.read = @ + 1]

\* Mutant of SetFinSequence: the end of the stream is where the FIN is.
MutantSetFinSequence(e, seq) == [e EXCEPT !.gotFin = TRUE, !.fin = seq, !.rxNext = seq + 1]

SetFinSequence(e, seq) ==
  [e EXCEPT !.gotFin = TRUE, !.fin = seq, !.rxNext = IF @ = seq THEN @ + 1 ELSE @]

ReceivedData(s, m) ==
  LET a == Notify([s EXCEPT !.e = AddData(@, m)], "DataRecv")
      filled == a.e.rxNext > s.e.rxNext + 1
  IN CASE m.seq # s.e.rxNext -> SendEmptyPacket(s, {"ACK"})
       [] m.seq = s.e.rxNext /\ Finished(a.e) /\ "FIN" \notin m.flags -> DoPeerClose(a)
       [] m.seq = s.e.rxNext /\ ~(Finished(a.e) /\ "FIN" \notin m.flags) ->
            IF filled \/ a.e.delAckCount + 1 >= DelAckMaxCount
            THEN SendEmptyPacket(a, {"ACK"})
            ELSE [a EXCEPT !.e.delAckCount = @ + 1, !.e.delAck = TRUE]

NewAck(e, ack) ==
  LET idle == e.size = 0 /\ e.state \notin {"FIN_WAIT_1", "CLOSING"}
  IN [e EXCEPT !.dataRetrCount = DataRetries,
               !.nextTx = IF ack > @ THEN ack ELSE @,
               !.retx = IF idle THEN "none" ELSE "RTO"]

\* The cumulative ACK; an ACK of the FIN goes past all the data.
ProcessAck(e, ack) ==
  CASE ack > e.una -> NewAck([e EXCEPT !.una = ack, !.size = 0], ack)
    [] ack = e.una /\ ack > e.highTx -> [e EXCEPT !.nextTx = ack]
    [] OTHER -> e

ReceivedAck(s, m) ==
  LET p == [s EXCEPT !.e = ProcessAck(@, m.ack)]
  IN SendPendingData(IF m.len > 0 THEN ReceivedData(p, m) ELSE p)

\* A FIN in order, unless the application has closed while its data was handled
PeerClose(s, m) ==
  LET f == [s EXCEPT !.e = SetFinSequence(@, m.seq + m.len)]
      d == IF m.len > 0 THEN ReceivedData(f, m) ELSE f
  IN IF m.seq < s.e.rxNext \/ (s.e.gotFin /\ m.seq > s.e.fin) THEN s
     ELSE IF ~Finished(d.e) THEN d
     ELSE IF d.e.state = "FIN_WAIT_1" THEN [d EXCEPT !.e.state = "CLOSING"]
     ELSE DoPeerClose(d)

Refuse(s, m) == CloseAndNotify(IF m.flags = {"RST"} THEN s ELSE SendRST(s))

ProcessEstablished(s, m) ==
  CASE m.flags = {"ACK"} ->
         IF m.ack < s.e.una THEN s
         ELSE IF m.ack > s.e.highTx THEN SendEmptyPacket(s, {"ACK"})
         ELSE ReceivedAck(s, m)
    [] "SYN" \in m.flags -> s
    [] "FIN" \in m.flags -> PeerClose(s, m)
    [] "RST" \in m.flags -> Refuse(s, m)

\* The first byte that is neither a SYN's: both sides count from 1 now.
Establish(e) == [e EXCEPT !.connected = TRUE, !.retx = "none", !.una = e.nextTx + 1,
                          !.nextTx = e.nextTx + 1, !.highTx = e.nextTx + 1]

ProcessSynSent(s, m) ==
  LET open == [s EXCEPT !.e = [Establish(@) EXCEPT !.state = "ESTABLISHED",
                                                   !.rxNext = m.seq + 1]]
      r == SendPendingData(SendEmptyPacket(open, {"ACK"}))
  IN CASE "ACK" \in m.flags /\ "SYN" \notin m.flags -> s
       [] m.flags = {"SYN", "ACK"} -> [r EXCEPT !.e.delAckCount = DelAckMaxCount]
       [] OTHER -> Refuse(s, m)

ProcessSynRcvd(s, m) ==
  CASE m.flags = {"ACK"} /\ m.ack = s.e.nextTx + 1 ->
         ReceivedAck([s EXCEPT !.e = [Establish(@) EXCEPT !.state = "ESTABLISHED",
                                                          !.delAckCount = DelAckMaxCount]],
                     m)
    [] m.flags = {"SYN"} ->
         SendEmptyPacket([s EXCEPT !.e.rxNext = m.seq + 1], {"SYN", "ACK"})
    [] m.flags = {"FIN", "ACK"} ->
         IF m.seq = s.e.rxNext THEN PeerClose([s EXCEPT !.e = Establish(@)], m) ELSE s
    [] OTHER -> Refuse(s, m)

\* Mutant of InOrderFin: the FIN is handled as in ESTABLISHED.
MutantInOrderFin(s, m) == IF Finished(s.e) THEN DoPeerClose(s) ELSE s

\* After a FIN in order, with the ACK that m carries
InOrderFin(s, m) ==
  LET acked == s.e.size = 0 /\ m.ack = s.e.highTx + 1
      c == [s EXCEPT !.e.state = "CLOSING"]
      next == IF s.e.state = "FIN_WAIT_2" THEN TimeWait(s)
              ELSE IF acked THEN TimeWait(c) ELSE c
  IN IF s.e.state \in {"FIN_WAIT_1", "FIN_WAIT_2"} /\ Finished(s.e)
     THEN SendEmptyPacket(next, {"ACK"}) ELSE s

\* Mutant of ProcessWait: any ACK of all the data moves on to FIN_WAIT_2.
MutantProcessWait(s, m) ==
  LET r == ReceivedAck(s, m)
      sentAll == r.e.state = "FIN_WAIT_1" /\ r.e.size = 0
  IN CASE m.flags = {"ACK"} ->
            InOrderFin(IF sentAll THEN [r EXCEPT !.e.state = "FIN_WAIT_2"] ELSE r, m)
       [] m.flags = {"FIN", "ACK"} ->
            InOrderFin([r EXCEPT !.e = SetFinSequence(@, m.seq)], m)
       [] OTHER -> s

ProcessWait(s, m) ==
  LET r == ReceivedAck(s, m)
      finAcked == /\ r.e.state = "FIN_WAIT_1" /\ r.e.size = 0
                  /\ m.ack = r.e.highTx + 1
  IN CASE m.flags = {"ACK"} ->
            InOrderFin(IF finAcked THEN [r EXCEPT !.e.state = "FIN_WAIT_2"] ELSE r, m)
       [] m.flags = {"FIN", "ACK"} ->
            InOrderFin([r EXCEPT !.e = SetFinSequence(@, m.seq)], m)
       [] "SYN" \in m.flags -> s
       [] "RST" \in m.flags -> Refuse(s, m)

ProcessClosing(s, m) ==
  CASE m.flags = {"ACK"} -> IF m.seq = s.e.rxNext THEN TimeWait(s) ELSE s
    [] m.flags = {"FIN", "ACK"} -> CloseAndNotify(SendEmptyPacket(s, {"ACK"}))
    [] OTHER -> Refuse(s, m)

ProcessLastAck(s, m) ==
  CASE m.flags = {"ACK"} -> IF m.seq = s.e.rxNext THEN CloseAndNotify(s) ELSE s
    [] m.flags = {"FIN", "ACK"} -> CloseAndNotify(s)
    [] OTHER -> Refuse(s, m)

\* The listening socket forks on a SYN and ignores all else.
ProcessListen(s, m) ==
  IF m.flags = {"SYN"}
  THEN SendEmptyPacket([s EXCEPT !.e.state = "SYN_RCVD", !.e.rxNext = m.seq + 1],
                       {"SYN", "ACK"})
  ELSE s

\* Segments with data that are out of the window are answered and dropped.
OutOfRange(e, m) ==
  /\ m.len > 0
  /\ CASE e.state \in {"LISTEN", "SYN_SENT", "SYN_RCVD"} -> FALSE
       [] e.state \in {"LAST_ACK", "CLOSING", "CLOSE_WAIT"} -> m.seq # e.rxNext
       [] OTHER -> m.seq + m.len < e.rxNext \/ (e.gotFin /\ e.fin <= m.seq)

\* Without a socket the host of A answers with a reset; the listener of B is there.
NoEndPointsFound(s, x, m) ==
  IF x = "B" \/ "RST" \in m.flags THEN s
  ELSE [s EXCEPT !.out = @ \cup
         {IF "ACK" \in m.flags
          THEN [flags |-> {"RST"}, seq |-> m.ack, ack |-> 0, len |-> 0]
          ELSE [flags |-> {"RST", "ACK"}, seq |-> 0, ack |-> m.seq + 1, len |-> 0]}]

ForwardUp(s, x, m) ==
  IF ~s.e.bound THEN NoEndPointsFound(s, x, m)
  ELSE IF OutOfRange(s.e, m) THEN SendEmptyPacket(s, {"ACK"})
  ELSE CASE s.e.state = "ESTABLISHED" -> ProcessEstablished(s, m)
         [] s.e.state = "LISTEN" -> ProcessListen(s, m)
         [] s.e.state = "SYN_SENT" -> ProcessSynSent(s, m)
         [] s.e.state = "SYN_RCVD" -> ProcessSynRcvd(s, m)
         [] s.e.state \in {"FIN_WAIT_1", "FIN_WAIT_2", "CLOSE_WAIT"} -> ProcessWait(s, m)
         [] s.e.state = "CLOSING" -> ProcessClosing(s, m)
         [] s.e.state = "LAST_ACK" -> ProcessLastAck(s, m)
         [] OTHER -> s

(***************************************************************************)
(* Actions                                                                 *)
(***************************************************************************)
Handle(x) == [e |-> end[x], out |-> {}, closes |-> {}]

EndsIn(x, s) == /\ end' = [end EXCEPT ![x] = s.e]
                /\ sent' = [sent EXCEPT ![Peer(x)] = @ \cup s.out]
                /\ UNCHANGED writers

Connect ==
  /\ end["A"].state = "CLOSED" /\ end["A"].bound
  /\ EndsIn("A", [SendEmptyPacket(Handle("A"), {"SYN"}) EXCEPT !.e.state = "SYN_SENT"])

\* Send: the data goes out a moment later.
Write(x) ==
  LET e == end[x]
  IN /\ x \in writers /\ e.state \in {"SYN_SENT", "ESTABLISHED", "CLOSE_WAIT"}
     /\ Unclosed(e) /\ e.written = 0
     /\ EndsIn(x, [e |-> [e EXCEPT !.size = 1, !.written = 1, !.sendPending = e.state # "SYN_SENT"],
                   out |-> {}, closes |-> {}])

SendPendingEvent(x) ==
  /\ end[x].sendPending
  /\ EndsIn(x, SendPendingData([Handle(x) EXCEPT !.e.sendPending = FALSE]))

\* The application of B has its socket when the connection is there.
MayClose(x) == /\ end[x].bound /\ Unclosed(end[x])
               /\ end[x].state \notin {"CLOSED", "LISTEN", "SYN_RCVD"}

\* A segment, and what the application does when it is called meanwhile
Arrive(x, m) ==
  \E closes \in SUBSET CallbackCloses :
    /\ closes # {} => Unclosed(end[x])
    /\ EndsIn(x, ForwardUp([Handle(x) EXCEPT !.closes = closes], x, m))

Close(x) ==
  /\ MayClose(x)
  /\ EndsIn(x, CloseSocket([Handle(x) EXCEPT !.e.closeCalled = TRUE]))

ShutdownSend(x) ==
  LET s == [Handle(x) EXCEPT !.e.shutdownSend = TRUE, !.e.closeOnEmpty = TRUE]
      f == SendEmptyPacket(s, {"FIN"})
  IN /\ MayClose(x)
     /\ EndsIn(x, CASE s.e.size = 0 /\ s.e.state = "ESTABLISHED" ->
                         [f EXCEPT !.e.state = "FIN_WAIT_1"]
                    [] s.e.size = 0 /\ s.e.state = "CLOSE_WAIT" ->
                         [f EXCEPT !.e.state = "LAST_ACK"]
                    [] OTHER -> s)

\* Mutant of ReTxTimeout: the number of attempts is not limited.
MutantReTxTimeout(s) ==
  IF s.e.size > 0 THEN SendDataPacket([s EXCEPT !.e.dataRetrCount = @ - 1])
  ELSE IF s.e.state \in {"FIN_WAIT_1", "CLOSING"} THEN SendEmptyPacket(s, {"FIN"}) ELSE s

\* With data it is sent again, without it a FIN that nobody has acknowledged.
ReTxTimeout(s) ==
  CASE s.e.size = 0 -> IF s.e.state \in {"FIN_WAIT_1", "CLOSING"}
                       THEN SendEmptyPacket(s, {"FIN"}) ELSE s
    [] s.e.size > 0 /\ s.e.dataRetrCount = 0 ->
         [s EXCEPT !.e = DeallocateEndPoint([@ EXCEPT !.failed = TRUE])]
    [] s.e.size > 0 /\ s.e.dataRetrCount > 0 ->
         SendDataPacket([s EXCEPT !.e.dataRetrCount = @ - 1])

RetxEvent(x) ==
  LET s == [Handle(x) EXCEPT !.e.retx = "none"]
  IN CASE end[x].retx = "RTO" -> EndsIn(x, ReTxTimeout(s))
       [] end[x].retx = "SYN" -> EndsIn(x, SendEmptyPacket(s, {"SYN"}))
       [] end[x].retx = "SYN+ACK" -> EndsIn(x, SendEmptyPacket(s, {"SYN", "ACK"}))
       [] end[x].retx = "FIN" -> EndsIn(x, SendEmptyPacket(s, {"FIN"}))
       [] OTHER -> FALSE

LastAckTimeout(x) ==
  LET s == [Handle(x) EXCEPT !.e.lastAck = FALSE]
      again == SendEmptyPacket([s EXCEPT !.e.dataRetrCount = @ - 1], {"FIN", "ACK"})
  IN /\ end[x].lastAck
     /\ EndsIn(x, CASE s.e.state # "LAST_ACK" -> s
                    [] s.e.state = "LAST_ACK" /\ s.e.dataRetrCount = 0 ->
                         [s EXCEPT !.e = DeallocateEndPoint([@ EXCEPT !.failed = TRUE])]
                    [] OTHER -> [again EXCEPT !.e.lastAck = TRUE])

DelAckTimeout(x) ==
  /\ end[x].delAck
  /\ EndsIn(x, SendEmptyPacket([Handle(x) EXCEPT !.e.delAck = FALSE, !.e.delAckCount = 0],
                               {"ACK"}))

TimeWaitEnds(x) == end[x].timewait /\ EndsIn(x, CloseAndNotify(Handle(x)))

Timer(x) == \/ SendPendingEvent(x) \/ RetxEvent(x) \/ LastAckTimeout(x)
            \/ DelAckTimeout(x) \/ TimeWaitEnds(x)

Next == \/ Connect
        \/ \E x \in Ends : \/ \E m \in sent[x] : Arrive(x, m)
                           \/ Write(x) \/ Close(x) \/ ShutdownSend(x) \/ Timer(x)

Spec == Init /\ [][Next]_vars

\* A scheduled event takes place unless it is cancelled.
FairSpec == /\ Spec
            /\ \A x \in Ends : /\ WF_vars(RetxEvent(x)) /\ WF_vars(LastAckTimeout(x))
                               /\ WF_vars(TimeWaitEnds(x)) /\ WF_vars(SendPendingEvent(x))

(***************************************************************************)
(* Properties                                                              *)
(***************************************************************************)
States == {"CLOSED", "LISTEN", "SYN_SENT", "SYN_RCVD", "ESTABLISHED", "FIN_WAIT_1",
           "FIN_WAIT_2", "CLOSING", "TIME_WAIT", "CLOSE_WAIT", "LAST_ACK"}

Segments == [flags : SUBSET {"SYN", "ACK", "FIN", "RST"}, seq : 0..4, ack : 0..3, len : 0..1]

\* Two bytes of the sequence space, data and FIN, are all that is ever used.
ConnTypeOK ==
  /\ \A x \in Ends :
       LET e == end[x]
       IN /\ e.state \in States /\ e.retx \in {"none", "SYN", "SYN+ACK", "FIN", "RTO"}
          /\ e.synCount \in 0..SynRetries /\ e.dataRetrCount \in 0..DataRetries
          /\ {e.una, e.nextTx, e.rxNext} \subseteq 0..3
          /\ e.highTx \in 0..2 /\ e.fin \in 0..2 /\ {e.size, e.written, e.read} \subseteq 0..1
          /\ e.delAckCount \in 0..DelAckMaxCount
  /\ \A x \in Ends : sent[x] \subseteq Segments

\* What an end takes for acknowledged, the other one has.
AckedIsReceived == \A x \in Ends : end[x].una <= end[Peer(x)].rxNext

\* Whoever reads the end of the stream has read all that was written.
EndOfStreamLast ==
  \A x \in Ends : Finished(end[x]) => end[x].read = end[Peer(x)].written

\* An end in FIN_WAIT_2 has been heard: the other one knows of its FIN.
FinWasHeard == \A x \in Ends : end[x].state = "FIN_WAIT_2" => Finished(end[Peer(x)])

HasTimer(e) == e.retx # "none" \/ e.lastAck \/ e.timewait \/ e.sendPending

\* States in which the code has an event scheduled.  FIN_WAIT_2 is not among them.
TimedStates == {"SYN_SENT", "SYN_RCVD", "FIN_WAIT_1", "CLOSING", "LAST_ACK", "TIME_WAIT"}

\* No end waits for ever: while it opens, closes or has data that is not acknowledged,
\* one of its events is scheduled, and so it is with every end whose application has
\* closed, except in FIN_WAIT_2, which has no timer.  Data from the other end may take
\* an end that has closed back to CLOSE_WAIT (DoPeerClose), where it waits for nothing.
NoStuckEnd ==
  \A x \in Ends :
    /\ end[x].bound
    /\ \/ end[x].state \in TimedStates \/ end[x].size > 0
       \/ Peer(x) \notin writers /\ end[x].closeCalled /\ end[x].state # "FIN_WAIT_2"
    => HasTimer(end[x])

Busy(e) == \/ e.state \in {"SYN_SENT", "SYN_RCVD", "TIME_WAIT"}
           \/ e.size > 0 /\ e.bound

\* A handshake is completed or given up, data is acknowledged or given up, and
\* TIME_WAIT ends: no end is busy with one of these for ever.
Settles == \A x \in Ends : []<>~Busy(end[x])

\* A socket that leaves LAST_ACK peacefully has had its FIN acknowledged.
PeacefulIfAcked ==
  [][\A x \in Ends :
       end[x].state = "LAST_ACK" /\ end'[x].state = "CLOSED" =>
         Finished(end[Peer(x)]) \/ ~end[Peer(x)].bound]_vars

\* An end that has sent its FIN never again acts as if it had not: what arrives late
\* or twice does not reopen it.  With data from the other end it does (DoPeerClose).
FinIsFinal ==
  [][\A x \in Ends :
       /\ Peer(x) \notin writers
       /\ end[x].state \in {"FIN_WAIT_1", "FIN_WAIT_2", "CLOSING", "LAST_ACK", "TIME_WAIT"}
       => end'[x].state \notin {"ESTABLISHED", "CLOSE_WAIT"}]_vars

\* After ShutdownSend the FIN goes when the data has been acknowledged.
FinWhenEmpty ==
  \A x \in Ends : end[x].shutdownSend /\ end[x].written = 1 /\ end[x].size = 0 =>
                    end[x].state \notin {"ESTABLISHED", "CLOSE_WAIT"}
=============================================================================
