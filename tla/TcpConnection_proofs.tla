------------------------ MODULE TcpConnection_proofs ------------------------
(***************************************************************************)
(* Theorems about opening and closing: what an end takes for acknowledged  *)
(* the other has received, the end of the stream is read only after all    *)
(* that was written, FIN_WAIT_2 means that the FIN was heard, late         *)
(* segments do not reopen an end that has sent its FIN, and no end that    *)
(* opens, closes or has data is left without a timer.                      *)
(*                                                                         *)
(* The invariant relates each socket to the other one and to the segments  *)
(* on their way.  Every handler has a lemma that it keeps the relation to  *)
(* the peer p, which does not change meanwhile, and what p relies on.      *)
(* The sequence space and the counters need a second invariant, AllProper, *)
(* which says where a FIN with a wrong number can arrive.  It is kept as   *)
(* long as no application closes in a callback: with data both ways that   *)
(* can take an end from FIN_WAIT_1 back to CLOSE_WAIT, and the FINs that   *)
(* its peer then repeats under wrong numbers move its RCV.NXT on.          *)
(***************************************************************************)
EXTENDS TcpConnection, TLAPS

(***************************************************************************)
(* The invariant                                                           *)
(***************************************************************************)
Sockets ==
  [state : States, bound : BOOLEAN, connected : BOOLEAN, closeOnEmpty : BOOLEAN,
   shutdownSend : BOOLEAN, closeCalled : BOOLEAN, closeNotified : BOOLEAN,
   failed : BOOLEAN, synCount : Int, dataRetrCount : Nat, una : Nat, size : {0, 1},
   nextTx : Nat, highTx : Nat, rxNext : Nat, gotFin : BOOLEAN, fin : Nat,
   written : {0, 1}, read : Nat, delAckCount : Int, delAck : BOOLEAN,
   retx : {"none", "SYN", "SYN+ACK", "FIN", "RTO"}, lastAck : BOOLEAN,
   timewait : BOOLEAN, sendPending : BOOLEAN]

\* The combinations of flags that the code sends
FlagSets == {{"SYN"}, {"SYN", "ACK"}, {"ACK"}, {"FIN", "ACK"}, {"RST"}, {"RST", "ACK"}}

Messages == [flags : FlagSets, seq : Nat, ack : Nat, len : {0, 1}]

OpeningStates == {"CLOSED", "LISTEN", "SYN_SENT", "SYN_RCVD"}

ClosingStates == {"FIN_WAIT_1", "FIN_WAIT_2", "CLOSING", "LAST_ACK", "TIME_WAIT"}

\* The application may not write any more.
DoneWriting(e) == e.closeCalled \/ e.shutdownSend

\* What was written has been sent.
AllSent(e) == e.written = 1 => e.highTx = 2

\* Before the handshake is over nothing but SYNs is sent or received.
Young(e) ==
  /\ e.una = 0 /\ e.nextTx = 0 /\ e.highTx = 0 /\ e.size = e.written
  /\ e.retx \in {"none", "SYN", "SYN+ACK"}
  /\ ~e.sendPending /\ ~e.lastAck /\ ~e.delAck /\ ~e.timewait
  /\ e.rxNext <= 1 /\ e.read = 0 /\ ~e.gotFin
  /\ e.retx = "SYN+ACK" \/ e.state = "SYN_RCVD" => e.rxNext = 1

\* Whoever sends a FIN, or may send it again, has sent its data before and writes
\* no more.
FinFollowsData(e) ==
  e.state \in ClosingStates \/ e.retx = "FIN" \/ e.lastAck =>
    DoneWriting(e) /\ AllSent(e) /\ e.nextTx >= 1 + e.written

\* After the handshake: the sequence numbers of the one unit of data and the FIN,
\* heard being the peer's RCV.NXT
Grown(e, heard) ==
  /\ 1 <= e.una /\ e.una <= e.nextTx /\ 1 <= e.highTx /\ e.highTx <= 1 + e.written
  /\ e.size = 1 => e.una = 1 /\ e.nextTx = e.highTx
  /\ e.size = 0 => AllSent(e) /\ e.una >= 1 + e.written
  /\ e.nextTx <= 1 + e.written \/ e.nextTx <= heard
  /\ e.retx \in {"none", "FIN", "RTO"}
  /\ e.rxNext >= 1 + e.read
  /\ FinFollowsData(e)

\* What e has received of y
Received(e, y) ==
  /\ e.read <= y.written
  /\ e.read = 1 => y.highTx = 2
  /\ ~Finished(e) => e.rxNext <= 1 + e.read
  /\ e.gotFin => /\ DoneWriting(y) /\ AllSent(y)
                 /\ e.fin >= 1 + y.written \/ e.read = y.written
  /\ Finished(e) => e.read = y.written

Whole(e, p) ==
  /\ e \in Sockets
  /\ e.size <= e.written
  /\ e.closeOnEmpty => DoneWriting(e)
  /\ e.una <= p.rxNext
  /\ e.state = "FIN_WAIT_2" => Finished(p)
  /\ Received(e, p)

\* A socket e between two events, whose peer is p
Kept(e, p) ==
  /\ Whole(e, p)
  /\ \/ Young(e) /\ e.state \in OpeningStates
     \/ /\ Grown(e, p.rxNext)
        /\ e.state \notin {"LISTEN", "SYN_SENT", "SYN_RCVD"}
        /\ e.state = "CLOSED" => ~e.bound

\* A segment m that y sent to an end with that RCV.NXT
Meant(m, y, heard) ==
  /\ m \in Messages
  /\ m.flags \in {{"RST"}, {"RST", "ACK"}} \/ m.ack <= y.rxNext
  /\ m.len = 1 => m.seq = 1 /\ y.highTx = 2 /\ y.written = 1
  /\ "SYN" \in m.flags => m.seq = 0 /\ m.len = 0
  /\ m.flags \in {{"SYN", "ACK"}, {"FIN", "ACK"}} => m.ack >= 1
  /\ m.flags \in {{"RST"}, {"RST", "ACK"}} => m.len = 0
  /\ "FIN" \in m.flags => /\ DoneWriting(y) /\ AllSent(y)
                          /\ m.seq + m.len >= 1 + y.written
                          /\ m.seq + m.len <= 1 + y.written \/ m.seq <= heard

ConnInv ==
  /\ end \in [Ends -> Sockets]
  /\ sent \in [Ends -> SUBSET Messages]
  /\ \A x \in Ends : Kept(end[x], end[Peer(x)])
  /\ \A x \in Ends : \A m \in sent[x] : Meant(m, end[Peer(x)], end[x].rxNext)
  /\ \A x \in Ends \ writers : end[x].written = 0

\* Handlers act on s = [e, out, closes].
Handled == [e : Sockets, out : SUBSET Messages, closes : SUBSET CallbackCloses]

\* What a handler never takes back: the peer relies on it.
Later(e, f) ==
  /\ f.written = e.written /\ f.read >= e.read
  /\ f.state \in {"LISTEN", "SYN_RCVD"} => e.state \in {"LISTEN", "SYN_RCVD"}
  /\ DoneWriting(e) => DoneWriting(f)
  /\ e.highTx = 2 => f.highTx = 2
  /\ f.rxNext >= e.rxNext
  /\ Finished(e) => Finished(f)

\* What the peer p has acknowledged was sent, and a FIN is acknowledged when it
\* was received.
Fits(e, p) ==
  /\ p.rxNext >= 2 => AllSent(e)
  /\ p.rxNext >= 2 + e.written => Finished(p)

\* A socket that has been through the handshake, in the middle of a handler
Active(s, p) ==
  /\ s \in Handled
  /\ Whole(s.e, p) /\ Grown(s.e, p.rxNext) /\ Fits(s.e, p)
  /\ s.e.state \notin {"LISTEN", "SYN_SENT"}
  /\ s.e.state = "CLOSED" => ~s.e.bound
  /\ \A m \in s.out : Meant(m, s.e, p.rxNext)

(***************************************************************************)
(* Steps that leave the numbers alone                                      *)
(***************************************************************************)
SameNumbers(e, f) ==
  /\ f.una = e.una /\ f.nextTx = e.nextTx /\ f.highTx = e.highTx /\ f.size = e.size
  /\ f.written = e.written /\ f.rxNext = e.rxNext /\ f.read = e.read
  /\ f.gotFin = e.gotFin /\ f.fin = e.fin /\ f.closeOnEmpty = e.closeOnEmpty
  /\ f.closeCalled = e.closeCalled /\ f.shutdownSend = e.shutdownSend

LEMMA SameIsLater ==
  ASSUME NEW e \in Sockets, NEW f \in Sockets, SameNumbers(e, f),
         f.state \in {"LISTEN", "SYN_RCVD"} => e.state \in {"LISTEN", "SYN_RCVD"}
  PROVE  Later(e, f)
  BY DEF SameNumbers, Later, DoneWriting, Finished, Sockets

LEMMA LaterMeant ==
  ASSUME NEW e \in Sockets, NEW f \in Sockets, Later(e, f), NEW h \in Nat, NEW k \in Nat,
         k >= h, NEW m, Meant(m, e, h)
  PROVE  Meant(m, f, k)
  BY DEF Meant, Later, AllSent, Messages, Sockets

LEMMA LaterLater ==
  ASSUME NEW e \in Sockets, NEW f \in Sockets, NEW g \in Sockets, Later(e, f), Later(f, g)
  PROVE  Later(e, g)
  BY DEF Later, Sockets

\* The timers and the state may change, if the FIN follows the data.
LEMMA SameKeeps ==
  ASSUME NEW p \in Sockets, NEW s, Active(s, p), NEW r \in Handled, SameNumbers(s.e, r.e),
         r.out = s.out, r.e.retx \in {"none", "FIN", "RTO"},
         FinFollowsData(r.e), r.e.state \notin {"LISTEN", "SYN_SENT"},
         r.e.state = "CLOSED" => ~r.e.bound,
         r.e.state = "FIN_WAIT_2" => Finished(p),
         r.e.state = "SYN_RCVD" => s.e.state = "SYN_RCVD"
  PROVE  Active(r, p) /\ Later(s.e, r.e)
<1>1. s.e \in Sockets /\ r.e \in Sockets /\ p.rxNext \in Nat
  BY DEF Active, Handled, Sockets
<1>2. Later(s.e, r.e)
  BY <1>1, SameIsLater
<1>3. Whole(r.e, p)
  BY <1>1 DEF Active, Whole, SameNumbers, DoneWriting, Received, Finished
<1>4. Grown(r.e, p.rxNext)
  BY <1>1 DEF Active, Grown, SameNumbers, AllSent
<1>5. Fits(r.e, p)
  BY <1>1 DEF Active, Fits, SameNumbers, AllSent
<1>6. \A m \in r.out : Meant(m, r.e, p.rxNext)
  BY <1>1, <1>2, LaterMeant DEF Active
<1> QED
  BY <1>2, <1>3, <1>4, <1>5, <1>6 DEF Active

(***************************************************************************)
(* Handlers after the handshake                                            *)
(***************************************************************************)
\* CancelAllTimers stops every timer and touches nothing else.
LEMMA CancelKeeps ==
  ASSUME NEW e \in Sockets
  PROVE  LET c == CancelAllTimers(e)
         IN /\ c \in Sockets /\ SameNumbers(e, c) /\ c.state = e.state
            /\ c.retx = "none" /\ ~c.lastAck /\ ~c.sendPending /\ ~c.delAck
            /\ ~c.timewait
<1> DEFINE c == CancelAllTimers(e)
<1>1. c \in Sockets
  BY DEF CancelAllTimers, Sockets
<1>2. c.state = e.state /\ c.retx = "none" /\ ~c.lastAck /\ ~c.sendPending
      /\ ~c.delAck /\ ~c.timewait
  BY DEF CancelAllTimers, Sockets
<1>3. /\ c.una = e.una /\ c.nextTx = e.nextTx /\ c.highTx = e.highTx /\ c.size = e.size
      /\ c.written = e.written /\ c.rxNext = e.rxNext /\ c.read = e.read
  BY DEF CancelAllTimers, Sockets
<1>4. /\ c.gotFin = e.gotFin /\ c.fin = e.fin /\ c.closeOnEmpty = e.closeOnEmpty
      /\ c.closeCalled = e.closeCalled /\ c.shutdownSend = e.shutdownSend
  BY DEF CancelAllTimers, Sockets
<1> HIDE DEF c
<1>5. SameNumbers(e, c)
  BY <1>3, <1>4 DEF SameNumbers
<1> QED
  BY <1>1, <1>2, <1>5 DEF c

LEMMA DeallocateIs ==
  ASSUME NEW e \in Sockets
  PROVE  LET f == DeallocateEndPoint(e)
         IN /\ f \in Sockets /\ SameNumbers(e, f) /\ f.state = e.state /\ ~f.bound
            /\ f.retx \in {e.retx, "none"}
            /\ f.lastAck => e.lastAck
            /\ f.sendPending => e.sendPending
            /\ f.delAck => e.delAck
            /\ f.timewait => e.timewait
<1>1. CASE ~e.bound
  BY <1>1 DEF DeallocateEndPoint, SameNumbers, Sockets
<1>2. CASE e.bound
  <2> DEFINE c == CancelAllTimers(e)
             f == DeallocateEndPoint(e)
  <2>1. f = [c EXCEPT !.bound = FALSE]
    BY <1>2 DEF DeallocateEndPoint
  <2>2. c \in Sockets /\ SameNumbers(e, c) /\ c.state = e.state /\ c.retx = "none"
    BY CancelKeeps
  <2>3. ~c.lastAck /\ ~c.sendPending /\ ~c.delAck /\ ~c.timewait
    BY CancelKeeps
  <2> HIDE DEF c, f
  <2>4. f \in Sockets
    BY <2>1, <2>2, ZenonT(60) DEF Sockets
  <2>5. SameNumbers(e, f) /\ f.state = e.state /\ ~f.bound /\ f.retx = "none"
    BY <2>1, <2>2 DEF Sockets, SameNumbers
  <2>6. ~f.lastAck /\ ~f.sendPending /\ ~f.delAck /\ ~f.timewait
    BY <2>1, <2>2, <2>3 DEF Sockets
  <2> QED
    BY <2>4, <2>5, <2>6 DEF f
<1> QED
  BY <1>1, <1>2 DEF Sockets

LEMMA DropKeeps ==
  ASSUME NEW p \in Sockets, NEW s, Active(s, p)
  PROVE  LET r == [s EXCEPT !.e = DeallocateEndPoint([@ EXCEPT !.failed = TRUE])]
         IN Active(r, p) /\ Later(s.e, r.e) /\ r.e.state = s.e.state /\ ~r.e.bound
<1> DEFINE g == [s.e EXCEPT !.failed = TRUE]
           r == [s EXCEPT !.e = DeallocateEndPoint(g)]
<1>1. s \in Handled /\ s.e \in Sockets
  BY DEF Active, Handled
<1>2. g \in Sockets /\ SameNumbers(s.e, g) /\ g.state = s.e.state /\ g.retx = s.e.retx
      /\ g.lastAck = s.e.lastAck
  BY <1>1 DEF Sockets, SameNumbers
<1> HIDE DEF g
<1>3. r \in Handled /\ r.out = s.out /\ r.e = DeallocateEndPoint(g)
  BY <1>1, <1>2, DeallocateIs DEF Handled
<1>4. SameNumbers(s.e, r.e) /\ r.e.state = s.e.state /\ r.e.retx \in {s.e.retx, "none"}
      /\ (r.e.lastAck => s.e.lastAck) /\ ~r.e.bound
  <2>1. SameNumbers(g, r.e) /\ r.e.state = g.state /\ r.e.retx \in {g.retx, "none"}
        /\ (r.e.lastAck => g.lastAck) /\ ~r.e.bound
    BY <1>2, <1>3, DeallocateIs
  <2> QED
    BY <1>2, <2>1 DEF SameNumbers
<1> HIDE DEF r
<1>5. FinFollowsData(r.e)
  BY <1>4 DEF Active, Grown, FinFollowsData, SameNumbers, DoneWriting, AllSent
<1>6. Active(r, p) /\ Later(s.e, r.e)
  BY <1>3, <1>4, <1>5, SameKeeps DEF Active, Whole, Grown
<1> QED
  BY <1>4, <1>6 DEF r, g

LEMMA CloseAndNotifyKeeps ==
  ASSUME NEW p \in Sockets, NEW s, Active(s, p)
  PROVE  LET r == CloseAndNotify(s)
         IN Active(r, p) /\ Later(s.e, r.e) /\ r.e.state = "CLOSED" /\ ~r.e.bound
<1> DEFINE g == [s.e EXCEPT !.closeNotified = TRUE, !.lastAck = FALSE, !.state = "CLOSED"]
           r == CloseAndNotify(s)
<1>1. s \in Handled /\ s.e \in Sockets
  BY DEF Active, Handled
<1>2. g \in Sockets /\ SameNumbers(s.e, g) /\ g.state = "CLOSED" /\ g.retx = s.e.retx
      /\ ~g.lastAck
  BY <1>1, ZenonT(60) DEF Sockets, SameNumbers, States
<1>3. r = [s EXCEPT !.e = DeallocateEndPoint(g)]
  BY DEF CloseAndNotify
<1> HIDE DEF g, r
<1>4. r \in Handled /\ r.out = s.out /\ r.e = DeallocateEndPoint(g)
  BY <1>1, <1>2, <1>3, DeallocateIs DEF Handled
<1>5. SameNumbers(s.e, r.e) /\ r.e.state = "CLOSED" /\ r.e.retx \in {s.e.retx, "none"}
      /\ ~r.e.lastAck /\ ~r.e.bound
  <2>1. SameNumbers(g, r.e) /\ r.e.state = g.state /\ r.e.retx \in {g.retx, "none"}
        /\ (r.e.lastAck => g.lastAck) /\ ~r.e.bound
    BY <1>2, <1>4, DeallocateIs
  <2> QED
    BY <1>2, <2>1 DEF SameNumbers
<1>6. FinFollowsData(r.e)
  BY <1>5 DEF Active, Grown, FinFollowsData, SameNumbers, DoneWriting, AllSent,
              ClosingStates
<1>7. Active(r, p) /\ Later(s.e, r.e)
  BY <1>4, <1>5, <1>6, SameKeeps DEF Active, Whole, Grown
<1> QED
  BY <1>5, <1>7 DEF r

\* What a segment without SYN says is true when it is sent.
LEMMA EmitKeeps ==
  ASSUME NEW p \in Sockets, NEW s, Active(s, p),
         NEW flags \in FlagSets, "SYN" \notin flags, NEW seq \in Nat, NEW len \in {0, 1},
         len = 1 => /\ seq = 1 /\ s.e.highTx = 2 /\ s.e.written = 1
                    /\ "RST" \notin flags,
         "FIN" \in flags => /\ DoneWriting(s.e) /\ AllSent(s.e)
                            /\ seq + len >= 1 + s.e.written
                            /\ seq + len <= 1 + s.e.written \/ seq <= p.rxNext
  PROVE  Active(Emit(s, flags, seq, len), p) /\ Emit(s, flags, seq, len).e = s.e
<1> DEFINE m == [flags |-> flags, seq |-> seq, ack |-> s.e.rxNext, len |-> len]
           r == Emit(s, flags, seq, len)
<1>1. s \in Handled /\ s.e \in Sockets /\ s.e.rxNext \in Nat /\ s.e.rxNext >= 1
  BY DEF Active, Handled, Grown, Sockets
<1>2. r = [s EXCEPT !.out = s.out \cup {m}]
  BY DEF Emit
<1>3. m \in Messages /\ m.flags = flags /\ m.seq = seq /\ m.ack = s.e.rxNext /\ m.len = len
  BY <1>1 DEF Messages
<1> HIDE DEF m, r
<1>4. r \in Handled /\ r.e = s.e /\ r.out = s.out \cup {m}
  BY <1>1, <1>2, <1>3 DEF Handled
<1>5. Meant(m, s.e, p.rxNext)
  BY <1>1, <1>3 DEF Meant, FlagSets
<1> QED
  BY <1>4, <1>5 DEF Active, r

LEMMA SendEmptyKeeps ==
  ASSUME NEW p \in Sockets, NEW s, Active(s, p),
         NEW wanted \in {{"ACK"}, {"RST"}, {"FIN"}, {"FIN", "ACK"}},
         "FIN" \in wanted => /\ DoneWriting(s.e) /\ AllSent(s.e)
                             /\ s.e.nextTx >= 1 + s.e.written
  PROVE  LET r == SendEmptyPacket(s, wanted)
         IN /\ Active(r, p) /\ Later(s.e, r.e) /\ SameNumbers(s.e, r.e)
            /\ r.e.state = s.e.state /\ r.e.bound = s.e.bound
<1> DEFINE flags == IF "FIN" \in wanted THEN wanted \cup {"ACK"} ELSE wanted
           seq == IF "FIN" \notin wanted /\ s.e.state \in {"FIN_WAIT_1", "LAST_ACK", "CLOSING"}
                  THEN s.e.nextTx + 1 ELSE s.e.nextTx
           acks == "ACK" \in flags
           again == IF "FIN" \in flags THEN "FIN" ELSE IF acks THEN "SYN+ACK" ELSE "SYN"
           due == s.e.delAck /\ ~acks
           count == IF acks THEN 0 ELSE s.e.delAckCount
           retx == IF s.e.retx = "none" /\ "FIN" \in flags THEN again ELSE s.e.retx
           c == [s EXCEPT !.e.synCount = @, !.e.delAck = due, !.e.delAckCount = count,
                          !.e.retx = retx]
<1>1. s \in Handled /\ s.e \in Sockets
  BY DEF Active, Handled
<1>2. "SYN" \notin flags /\ flags \in FlagSets /\ ("FIN" \in flags <=> "FIN" \in wanted)
  BY DEF FlagSets
<1>3. CASE ~s.e.bound
  <2>1. SendEmptyPacket(s, wanted) = s
    BY <1>3 DEF SendEmptyPacket
  <2> QED
    BY <1>1, <2>1, SameIsLater DEF SameNumbers
<1>4. CASE s.e.bound
  <2>1. SendEmptyPacket(s, wanted) = Emit(c, flags, seq, 0)
    BY <1>2, <1>4 DEF SendEmptyPacket
  <2>2. seq \in Nat /\ ("FIN" \in flags => seq = s.e.nextTx)
    BY <1>1, <1>2 DEF Sockets
  <2>3. /\ due \in BOOLEAN /\ count \in Int
        /\ retx = s.e.retx \/ (retx = "FIN" /\ "FIN" \in wanted)
    BY <1>1, <1>2 DEF Sockets
  <2> HIDE DEF due, count, retx, flags, seq
  <2>4. c \in Handled /\ c.out = s.out
    BY <1>1, <2>3, ZenonT(60) DEF Handled, Sockets
  <2>5. SameNumbers(s.e, c.e) /\ c.e.state = s.e.state /\ c.e.bound = s.e.bound
        /\ c.e.lastAck = s.e.lastAck /\ c.e.retx = retx
    BY <1>1 DEF Handled, Sockets, SameNumbers
  <2> HIDE DEF c
  <2>6. FinFollowsData(c.e)
    BY <2>3, <2>5 DEF Active, Grown, FinFollowsData, SameNumbers, DoneWriting, AllSent
  <2>7. Active(c, p) /\ Later(s.e, c.e)
    BY <2>3, <2>4, <2>5, <2>6, SameKeeps DEF Active, Whole, Grown
  <2>8. "FIN" \in flags => /\ DoneWriting(c.e) /\ AllSent(c.e) /\ seq + 0 >= 1 + c.e.written
                           /\ seq + 0 <= 1 + c.e.written \/ seq <= p.rxNext
    BY <1>1, <1>2, <2>2, <2>5
    DEF SameNumbers, DoneWriting, AllSent, Active, Grown, Sockets
  <2>9. Active(Emit(c, flags, seq, 0), p) /\ Emit(c, flags, seq, 0).e = c.e
    BY <1>2, <2>2, <2>7, <2>8, EmitKeeps
  <2> QED
    BY <2>1, <2>5, <2>7, <2>9
<1> QED
  BY <1>3, <1>4 DEF Sockets

LEMMA SendRSTKeeps ==
  ASSUME NEW p \in Sockets, NEW s, Active(s, p)
  PROVE  Active(SendRST(s), p) /\ Later(s.e, SendRST(s).e)
<1> DEFINE t == SendEmptyPacket(s, {"RST"})
<1>1. Active(t, p) /\ Later(s.e, t.e)
  BY SendEmptyKeeps
<1>2. SendRST(s) = [t EXCEPT !.e = DeallocateEndPoint([@ EXCEPT !.failed = TRUE])]
  BY DEF SendRST
<1> HIDE DEF t
<1>3. Active(SendRST(s), p) /\ Later(t.e, SendRST(s).e)
  BY <1>1, <1>2, DropKeeps
<1> QED
  BY <1>1, <1>3, LaterLater DEF Active, Handled

LEMMA RefuseKeeps ==
  ASSUME NEW p \in Sockets, NEW s, Active(s, p), NEW m
  PROVE  LET r == Refuse(s, m)
         IN Active(r, p) /\ Later(s.e, r.e) /\ r.e.state = "CLOSED" /\ ~r.e.bound
<1> DEFINE t == IF m.flags = {"RST"} THEN s ELSE SendRST(s)
<1>1. Active(t, p) /\ Later(s.e, t.e)
  BY SendRSTKeeps, SameIsLater DEF SameNumbers, Active, Handled
<1>2. Refuse(s, m) = CloseAndNotify(t)
  BY DEF Refuse
<1> HIDE DEF t
<1>3. Active(CloseAndNotify(t), p) /\ Later(t.e, CloseAndNotify(t).e)
      /\ CloseAndNotify(t).e.state = "CLOSED" /\ ~CloseAndNotify(t).e.bound
  BY <1>1, CloseAndNotifyKeeps
<1> QED
  BY <1>1, <1>2, <1>3, LaterLater DEF Active, Handled

LEMMA StateKeeps ==
  ASSUME NEW p \in Sockets, NEW s, Active(s, p), NEW to \in
           States \ {"LISTEN", "SYN_SENT", "SYN_RCVD", "CLOSED"},
         to \in ClosingStates => /\ DoneWriting(s.e) /\ AllSent(s.e)
                                 /\ s.e.nextTx >= 1 + s.e.written,
         to = "FIN_WAIT_2" => Finished(p)
  PROVE  LET r == [s EXCEPT !.e.state = to]
         IN Active(r, p) /\ Later(s.e, r.e) /\ SameNumbers(s.e, r.e) /\ r.e.state = to
<1> DEFINE r == [s EXCEPT !.e.state = to]
<1>1. s \in Handled /\ s.e \in Sockets
  BY DEF Active, Handled
<1>2. r \in Handled /\ r.out = s.out
  BY <1>1 DEF Handled, Sockets
<1>3. SameNumbers(s.e, r.e) /\ r.e.state = to /\ r.e.retx = s.e.retx
      /\ r.e.lastAck = s.e.lastAck
  BY <1>1 DEF Handled, Sockets, SameNumbers
<1> HIDE DEF r
<1>4. FinFollowsData(r.e)
  BY <1>3 DEF Active, Grown, FinFollowsData, SameNumbers, DoneWriting, AllSent
<1>5. Active(r, p) /\ Later(s.e, r.e)
  BY <1>2, <1>3, <1>4, SameKeeps DEF Active, Whole, Grown
<1> QED
  BY <1>3, <1>5 DEF r

LEMMA DataSocketTyped ==
  ASSUME NEW e \in Sockets, NEW next \in States, NEW past \in Nat, NEW count \in Int,
         NEW retx \in {"none", "SYN", "SYN+ACK", "FIN", "RTO"}
  PROVE  [e EXCEPT !.state = next, !.delAck = FALSE, !.delAckCount = count,
                   !.retx = retx, !.highTx = past, !.nextTx = past] \in Sockets
  BY DEF Sockets

LEMMA SendDataKeeps ==
  ASSUME NEW p \in Sockets, NEW s, Active(s, p), s.e.size > 0
  PROVE  LET r == SendDataPacket(s)
         IN /\ Active(r, p) /\ Later(s.e, r.e) /\ r.e.bound = s.e.bound
            /\ r.e.una = s.e.una /\ r.e.size = s.e.size /\ AllSent(r.e)
            /\ \/ r.e.state = s.e.state
               \/ s.e.state = "ESTABLISHED" /\ r.e.state = "FIN_WAIT_1"
               \/ s.e.state = "CLOSE_WAIT" /\ r.e.state = "LAST_ACK"
<1> DEFINE fin == s.e.closeOnEmpty
           next == CASE fin /\ s.e.state = "ESTABLISHED" -> "FIN_WAIT_1"
                     [] fin /\ s.e.state = "CLOSE_WAIT" -> "LAST_ACK"
                     [] OTHER -> s.e.state
           retx == IF s.e.retx = "none" THEN "RTO" ELSE s.e.retx
           past == s.e.una + 1
           c == [s EXCEPT !.e.state = next, !.e.delAck = FALSE, !.e.delAckCount = 0,
                          !.e.retx = retx, !.e.highTx = past, !.e.nextTx = past]
           flags == IF fin THEN {"FIN", "ACK"} ELSE {"ACK"}
<1>1. s \in Handled /\ s.e \in Sockets /\ fin \in BOOLEAN
  BY DEF Active, Handled, Sockets
<1>2. /\ s.e.una = 1 /\ s.e.written = 1 /\ s.e.size = 1
      /\ fin => DoneWriting(s.e)
  BY <1>1 DEF Active, Whole, Grown, Sockets
<1>3. /\ next \in States
      /\ \/ next = s.e.state
         \/ fin /\ s.e.state = "ESTABLISHED" /\ next = "FIN_WAIT_1"
         \/ fin /\ s.e.state = "CLOSE_WAIT" /\ next = "LAST_ACK"
  BY <1>1 DEF Sockets, States
<1>4. retx \in {"RTO", s.e.retx} /\ past = 2
  BY <1>2
<1>5. SendDataPacket(s) = Emit(c, flags, s.e.una, 1)
  BY DEF SendDataPacket
<1>6. flags \in FlagSets /\ "SYN" \notin flags /\ "RST" \notin flags /\ ("FIN" \in flags => fin)
  BY DEF FlagSets
<1> HIDE DEF fin, next, retx, past, flags
<1>7. c \in Handled /\ c.out = s.out
  <2>1. next \in States /\ past \in Nat
        /\ retx \in {"none", "SYN", "SYN+ACK", "FIN", "RTO"}
    BY <1>1, <1>3, <1>4 DEF Sockets
  <2> DEFINE d == [s.e EXCEPT !.state = next, !.delAck = FALSE, !.delAckCount = 0,
                              !.retx = retx, !.highTx = past, !.nextTx = past]
  <2>2. d \in Sockets
    <3>1. 0 \in Int
      OBVIOUS
    <3> QED
      BY <1>1, <2>1, <3>1, DataSocketTyped, Zenon
  <2>3. c = [s EXCEPT !.e = d]
    BY <1>1 DEF Handled
  <2> HIDE DEF c, d
  <2> QED
    BY <1>1, <2>2, <2>3 DEF Handled
<1>8. /\ c.e.una = 1 /\ c.e.nextTx = 2 /\ c.e.highTx = 2 /\ c.e.size = 1 /\ c.e.written = 1
      /\ c.e.rxNext = s.e.rxNext /\ c.e.read = s.e.read /\ c.e.gotFin = s.e.gotFin
      /\ c.e.fin = s.e.fin /\ c.e.closeOnEmpty = s.e.closeOnEmpty
  BY <1>1, <1>2, <1>4, ZenonT(60) DEF Handled, Sockets
<1>9. /\ c.e.closeCalled = s.e.closeCalled /\ c.e.shutdownSend = s.e.shutdownSend
      /\ c.e.bound = s.e.bound /\ c.e.lastAck = s.e.lastAck
      /\ c.e.state = next /\ c.e.retx = retx
  BY <1>1, ZenonT(60) DEF Handled, Sockets
<1> HIDE DEF c
<1>10. Later(s.e, c.e)
  BY <1>1, <1>2, <1>3, <1>8, <1>9 DEF Later, DoneWriting, Finished, Sockets
<1>11. Whole(c.e, p)
  BY <1>1, <1>2, <1>3, <1>7, <1>8, <1>9
  DEF Active, Handled, Whole, Received, Finished, DoneWriting
<1>12. FinFollowsData(c.e)
  BY <1>2, <1>3, <1>4, <1>8, <1>9
  DEF Active, Grown, FinFollowsData, DoneWriting, AllSent, ClosingStates
<1>13. Grown(c.e, p.rxNext)
  BY <1>1, <1>4, <1>8, <1>9, <1>12 DEF Active, Grown, AllSent, Sockets
<1>14. Fits(c.e, p)
  BY <1>2, <1>8 DEF Active, Fits, AllSent
<1>15. \A m \in c.out : Meant(m, c.e, p.rxNext)
  BY <1>1, <1>7, <1>10, LaterMeant DEF Active, Handled, Sockets
<1>16. c.e.state \notin {"LISTEN", "SYN_SENT"} /\ (c.e.state = "CLOSED" => ~c.e.bound)
  BY <1>3, <1>9 DEF Active
<1>17. Active(c, p)
  BY <1>7, <1>11, <1>13, <1>14, <1>15, <1>16 DEF Active
<1>18. Active(Emit(c, flags, s.e.una, 1), p) /\ Emit(c, flags, s.e.una, 1).e = c.e
  <2>1. fin => DoneWriting(c.e)
    BY <1>2, <1>9 DEF DoneWriting
  <2>2. 1 = 1 => /\ s.e.una = 1 /\ c.e.highTx = 2 /\ c.e.written = 1
                 /\ "RST" \notin flags
    BY <1>2, <1>6, <1>8
  <2>3. "FIN" \in flags => /\ DoneWriting(c.e) /\ AllSent(c.e)
                           /\ s.e.una + 1 >= 1 + c.e.written
                           /\ s.e.una + 1 <= 1 + c.e.written \/ s.e.una <= p.rxNext
    BY <1>2, <1>6, <1>8, <2>1 DEF AllSent
  <2>4. s.e.una \in Nat /\ 1 \in {0, 1}
    BY <1>2
  <2> HIDE DEF Active
  <2> QED
    BY <1>6, <1>17, <2>2, <2>3, <2>4, EmitKeeps
<1> QED
  BY <1>2, <1>3, <1>5, <1>8, <1>9, <1>10, <1>18 DEF AllSent

LEMMA SendPendingKeeps ==
  ASSUME NEW p \in Sockets, NEW s, Active(s, p)
  PROVE  LET r == SendPendingData(s)
         IN /\ Active(r, p) /\ Later(s.e, r.e)
            /\ \/ r.e.state = s.e.state
               \/ s.e.state = "ESTABLISHED" /\ r.e.state = "FIN_WAIT_1"
               \/ s.e.state = "CLOSE_WAIT" /\ r.e.state = "LAST_ACK"
<1>1. CASE s.e.size > 0 /\ s.e.bound /\ s.e.highTx = s.e.una
  BY <1>1, SendDataKeeps DEF SendPendingData
<1>2. CASE ~(s.e.size > 0 /\ s.e.bound /\ s.e.highTx = s.e.una)
  BY <1>2, SameIsLater DEF SendPendingData, SameNumbers, Active, Handled
<1> QED
  BY <1>1, <1>2

LEMMA DoCloseKeeps ==
  ASSUME NEW p \in Sockets, NEW s, Active(s, p),
         DoneWriting(s.e), AllSent(s.e), s.e.nextTx >= 1 + s.e.written
  PROVE  LET r == DoClose(s)
         IN /\ Active(r, p) /\ Later(s.e, r.e)
            /\ \/ r.e.state = s.e.state
               \/ r.e.state \in {"FIN_WAIT_1", "LAST_ACK", "CLOSED"}
<1>1. s.e \in Sockets
  BY DEF Active, Handled
<1>2. CASE s.e.state \in {"SYN_RCVD", "ESTABLISHED"}
  <2> DEFINE t == SendEmptyPacket(s, {"FIN"})
  <2>1. DoClose(s) = [t EXCEPT !.e.state = "FIN_WAIT_1"]
    BY <1>2 DEF DoClose
  <2>2. Active(t, p) /\ Later(s.e, t.e) /\ SameNumbers(s.e, t.e)
    BY SendEmptyKeeps
  <2> HIDE DEF t
  <2>3. DoneWriting(t.e) /\ AllSent(t.e) /\ t.e.nextTx >= 1 + t.e.written
    BY <2>2 DEF SameNumbers, DoneWriting, AllSent
  <2>4. /\ Active(DoClose(s), p) /\ Later(t.e, DoClose(s).e)
        /\ DoClose(s).e.state = "FIN_WAIT_1"
    BY <2>1, <2>2, <2>3, StateKeeps DEF States
  <2> QED
    BY <1>1, <2>2, <2>4, LaterLater DEF Active, Handled
<1>3. CASE s.e.state = "CLOSE_WAIT"
  <2> DEFINE t == SendEmptyPacket(s, {"FIN", "ACK"})
  <2>1. DoClose(s) = [t EXCEPT !.e.state = "LAST_ACK"]
    BY <1>3 DEF DoClose
  <2>2. Active(t, p) /\ Later(s.e, t.e) /\ SameNumbers(s.e, t.e)
    BY SendEmptyKeeps
  <2> HIDE DEF t
  <2>3. DoneWriting(t.e) /\ AllSent(t.e) /\ t.e.nextTx >= 1 + t.e.written
    BY <2>2 DEF SameNumbers, DoneWriting, AllSent
  <2>4. Active(DoClose(s), p) /\ Later(t.e, DoClose(s).e) /\ DoClose(s).e.state = "LAST_ACK"
    BY <2>1, <2>2, <2>3, StateKeeps DEF States
  <2> QED
    BY <1>1, <2>2, <2>4, LaterLater DEF Active, Handled
<1>4. CASE s.e.state = "CLOSING"
  <2> DEFINE t == SendRST(s)
  <2>1. DoClose(s) = CloseAndNotify(t)
    BY <1>4 DEF DoClose
  <2>2. Active(t, p) /\ Later(s.e, t.e)
    BY SendRSTKeeps
  <2> HIDE DEF t
  <2>3. Active(DoClose(s), p) /\ Later(t.e, DoClose(s).e) /\ DoClose(s).e.state = "CLOSED"
    BY <2>1, <2>2, CloseAndNotifyKeeps
  <2> QED
    BY <1>1, <2>2, <2>3, LaterLater DEF Active, Handled
<1>5. CASE s.e.state \notin {"SYN_RCVD", "ESTABLISHED", "CLOSE_WAIT", "CLOSING"}
  <2>1. DoClose(s) = s
    BY <1>5 DEF DoClose, Active
  <2> QED
    BY <1>1, <2>1, SameIsLater DEF SameNumbers
<1> QED
  BY <1>2, <1>3, <1>4, <1>5

LEMMA CloseSocketKeeps ==
  ASSUME NEW p \in Sockets, NEW s, Active(s, p), DoneWriting(s.e)
  PROVE  LET r == CloseSocket(s)
         IN /\ Active(r, p) /\ Later(s.e, r.e)
            /\ \/ r.e.state = s.e.state
               \/ r.e.state \in {"FIN_WAIT_1", "LAST_ACK", "CLOSED"}
<1>1. s \in Handled /\ s.e \in Sockets
  BY DEF Active, Handled
<1>2. CASE s.e.una + s.e.size > s.e.nextTx
  <2> DEFINE r == [s EXCEPT !.e.closeOnEmpty = TRUE]
  <2>1. CloseSocket(s) = r
    BY <1>2 DEF CloseSocket
  <2>2. r \in Handled /\ r.out = s.out /\ r.e \in Sockets
    BY <1>1 DEF Handled, Sockets
  <2>3. /\ r.e.una = s.e.una /\ r.e.nextTx = s.e.nextTx /\ r.e.highTx = s.e.highTx
        /\ r.e.size = s.e.size /\ r.e.written = s.e.written /\ r.e.rxNext = s.e.rxNext
        /\ r.e.read = s.e.read /\ r.e.gotFin = s.e.gotFin /\ r.e.fin = s.e.fin
    BY <1>1 DEF Handled, Sockets
  <2>4. /\ r.e.closeCalled = s.e.closeCalled /\ r.e.shutdownSend = s.e.shutdownSend
        /\ r.e.state = s.e.state /\ r.e.bound = s.e.bound /\ r.e.retx = s.e.retx
        /\ r.e.lastAck = s.e.lastAck
    BY <1>1 DEF Handled, Sockets
  <2> HIDE DEF r
  <2>5. Later(s.e, r.e)
    BY <1>1, <2>3, <2>4 DEF Later, DoneWriting, Finished, Sockets
  <2>6. Whole(r.e, p)
    BY <2>2, <2>3, <2>4 DEF Active, Whole, Received, Finished, DoneWriting
  <2>7. Grown(r.e, p.rxNext)
    BY <2>3, <2>4 DEF Active, Grown, AllSent, FinFollowsData, DoneWriting
  <2>8. Fits(r.e, p)
    BY <2>3 DEF Active, Fits, AllSent
  <2>9. \A m \in r.out : Meant(m, r.e, p.rxNext)
    BY <1>1, <2>2, <2>5, LaterMeant DEF Active, Sockets
  <2> QED
    BY <2>1, <2>2, <2>4, <2>5, <2>6, <2>7, <2>8, <2>9 DEF Active
<1>3. CASE ~(s.e.una + s.e.size > s.e.nextTx)
  <2>1. s.e.nextTx >= 1 + s.e.written /\ AllSent(s.e)
    BY <1>1, <1>3 DEF Active, Whole, Grown, AllSent, Sockets
  <2>2. CloseSocket(s) = DoClose(s)
    BY <1>3 DEF CloseSocket
  <2> QED
    BY <2>1, <2>2, DoCloseKeeps
<1> QED
  BY <1>2, <1>3

\* What CloseSocket starts from when a callback calls Close
Closed(s) == [s EXCEPT !.e.closeCalled = TRUE]

LEMMA ClosedIs ==
  ASSUME NEW p \in Sockets, NEW s, Active(s, p)
  PROVE  LET c == Closed(s)
         IN /\ Active(c, p) /\ Later(s.e, c.e) /\ c.out = s.out /\ c \in Handled
            /\ c.e = [s.e EXCEPT !.closeCalled = TRUE] /\ c.e.state = s.e.state
            /\ c.e.closeCalled /\ DoneWriting(c.e)
<1> DEFINE c == Closed(s)
<1>1. s \in Handled /\ s.e \in Sockets
  BY DEF Active, Handled
<1>2. c \in Handled /\ c.out = s.out /\ c.e = [s.e EXCEPT !.closeCalled = TRUE]
  <2>1. [s.e EXCEPT !.closeCalled = TRUE] \in Sockets
    BY <1>1 DEF Sockets
  <2>2. c = [s EXCEPT !.e = [s.e EXCEPT !.closeCalled = TRUE]]
    BY <1>1 DEF Closed, Handled
  <2> QED
    BY <1>1, <2>1, <2>2 DEF Handled
<1> HIDE DEF c
<1>3. /\ c.e.una = s.e.una /\ c.e.nextTx = s.e.nextTx /\ c.e.highTx = s.e.highTx
      /\ c.e.size = s.e.size /\ c.e.written = s.e.written /\ c.e.rxNext = s.e.rxNext
      /\ c.e.read = s.e.read /\ c.e.gotFin = s.e.gotFin /\ c.e.fin = s.e.fin
  BY <1>1, <1>2 DEF Sockets
<1>4. /\ c.e.closeCalled /\ c.e.closeOnEmpty = s.e.closeOnEmpty
      /\ c.e.shutdownSend = s.e.shutdownSend /\ c.e.state = s.e.state
      /\ c.e.bound = s.e.bound /\ c.e.retx = s.e.retx /\ c.e.lastAck = s.e.lastAck
  BY <1>1, <1>2 DEF Sockets
<1>5. Later(s.e, c.e)
  BY <1>1, <1>3, <1>4 DEF Later, DoneWriting, Finished, Sockets
<1>6. Whole(c.e, p)
  BY <1>2, <1>3, <1>4 DEF Active, Whole, Received, Finished, DoneWriting, Handled
<1>7. Grown(c.e, p.rxNext)
  BY <1>3, <1>4 DEF Active, Grown, AllSent, FinFollowsData, DoneWriting
<1>8. Fits(c.e, p)
  BY <1>3 DEF Active, Fits, AllSent
<1>9. \A m \in c.out : Meant(m, c.e, p.rxNext)
  <2>1. c.e \in Sockets /\ p.rxNext \in Nat
    BY <1>2 DEF Handled, Sockets
  <2> QED
    BY <1>1, <1>2, <1>5, <2>1, LaterMeant DEF Active
<1>10. Active(c, p)
  BY <1>2, <1>4, <1>6, <1>7, <1>8, <1>9 DEF Active
<1> QED
  BY <1>2, <1>4, <1>5, <1>10 DEF c, DoneWriting

\* A callback leaves the socket alone or closes it.
LEMMA NotifyIs ==
  ASSUME NEW s, NEW callback
  PROVE  \/ Notify(s, callback) = s
         \/ /\ Notify(s, callback) = CloseSocket(Closed(s))
            /\ callback \in s.closes /\ ~DoneWriting(s.e)
  BY DEF Notify, Closed, Unclosed, DoneWriting

LEMMA NotifyKeeps ==
  ASSUME NEW p \in Sockets, NEW s, Active(s, p), NEW callback
  PROVE  LET r == Notify(s, callback)
         IN /\ Active(r, p) /\ Later(s.e, r.e)
            /\ \/ r.e.state = s.e.state
               \/ r.e.state \in {"FIN_WAIT_1", "LAST_ACK", "CLOSED"}
<1> DEFINE r == Notify(s, callback)
           c == Closed(s)
           d == CloseSocket(c)
<1>1. s.e \in Sockets
  BY DEF Active, Handled
<1>2. r = s \/ r = d
  BY NotifyIs
<1> HIDE DEF r
<1>3. Active(c, p) /\ Later(s.e, c.e) /\ DoneWriting(c.e) /\ c.e.state = s.e.state
      /\ c.e \in Sockets
  BY ClosedIs DEF Handled
<1> HIDE DEF c
<1>4. /\ Active(d, p) /\ Later(c.e, d.e)
      /\ \/ d.e.state = c.e.state
         \/ d.e.state \in {"FIN_WAIT_1", "LAST_ACK", "CLOSED"}
  BY <1>3, CloseSocketKeeps
<1> HIDE DEF d
<1>5. Later(s.e, d.e)
  BY <1>1, <1>3, <1>4, LaterLater DEF Active, Handled
<1> QED
  BY <1>1, <1>2, <1>3, <1>4, <1>5, SameIsLater DEF SameNumbers, r

\* The numbers may change too, if what the lemma asks for is seen to.
LEMMA ChangeKeeps ==
  ASSUME NEW p \in Sockets, NEW s, Active(s, p), NEW r \in Handled, r.out = s.out,
         Later(s.e, r.e), Whole(r.e, p), Grown(r.e, p.rxNext),
         r.e.state = s.e.state, r.e.bound = s.e.bound
  PROVE  Active(r, p)
<1>1. s.e \in Sockets /\ r.e \in Sockets /\ p.rxNext \in Nat
  BY DEF Active, Handled, Sockets
<1>2. Fits(r.e, p)
  BY <1>1 DEF Active, Fits, Later, AllSent
<1>3. \A m \in r.out : Meant(m, r.e, p.rxNext)
  BY <1>1, LaterMeant DEF Active
<1> QED
  BY <1>2, <1>3 DEF Active

LEMMA TimeWaitKeeps ==
  ASSUME NEW p \in Sockets, NEW s, Active(s, p), s.e.state \in ClosingStates
  PROVE  LET r == TimeWait(s) IN Active(r, p) /\ Later(s.e, r.e) /\ r.e.state = "TIME_WAIT"
<1> DEFINE c == CancelAllTimers(s.e)
           d == [c EXCEPT !.state = "TIME_WAIT", !.timewait = TRUE, !.closeNotified = TRUE]
           r == TimeWait(s)
<1>1. s \in Handled /\ s.e \in Sockets
  BY DEF Active, Handled
<1>2. c \in Sockets /\ SameNumbers(s.e, c) /\ c.retx = "none" /\ ~c.lastAck
  BY <1>1, CancelKeeps
<1>3. r = [s EXCEPT !.e = d]
  BY <1>1 DEF TimeWait, Handled
<1> HIDE DEF c, r
<1>4. d \in Sockets /\ SameNumbers(c, d) /\ d.state = "TIME_WAIT" /\ d.retx = c.retx
      /\ d.lastAck = c.lastAck
  BY <1>2 DEF Sockets, SameNumbers, States
<1> HIDE DEF d
<1>5. r \in Handled /\ r.out = s.out /\ r.e = d
  BY <1>1, <1>3, <1>4 DEF Handled
<1>6. SameNumbers(s.e, r.e) /\ r.e.state = "TIME_WAIT" /\ r.e.retx = "none"
  BY <1>2, <1>4, <1>5 DEF SameNumbers
<1>7. FinFollowsData(r.e)
  BY <1>6 DEF Active, Grown, FinFollowsData, SameNumbers, DoneWriting, AllSent
<1>8. Active(r, p) /\ Later(s.e, r.e)
  BY <1>5, <1>6, <1>7, SameKeeps
<1> QED
  BY <1>6, <1>8 DEF r

LEMMA CloseWaitKeeps ==
  ASSUME NEW p \in Sockets, NEW s, Active(s, p)
  PROVE  LET w == CloseWait(s)
         IN Active(w, p) /\ Later(s.e, w.e) /\ w.e.state # "SYN_RCVD"
<1> DEFINE v == [s EXCEPT !.e.state = "CLOSE_WAIT"]
           t == Notify(v, "NormalClose")
           n == IF s.e.closeNotified THEN v ELSE t
           w == [n EXCEPT !.e.closeNotified = TRUE]
<1>1. s \in Handled /\ s.e \in Sockets
  BY DEF Active, Handled
<1>2. Active(v, p) /\ Later(s.e, v.e) /\ v.e.state = "CLOSE_WAIT"
  <2>1. "CLOSE_WAIT" \in States \ {"LISTEN", "SYN_SENT", "SYN_RCVD", "CLOSED"}
        /\ "CLOSE_WAIT" \notin ClosingStates
    BY DEF States, ClosingStates
  <2> QED
    BY <2>1, StateKeeps
<1> HIDE DEF v
<1>3. /\ Active(t, p) /\ Later(v.e, t.e)
      /\ t.e.state \in {"CLOSE_WAIT", "FIN_WAIT_1", "LAST_ACK", "CLOSED"}
  BY <1>2, NotifyKeeps
<1> HIDE DEF t
<1>4. v.e \in Sockets /\ t.e \in Sockets
  BY <1>2, <1>3 DEF Active, Handled
<1>5. Active(n, p) /\ Later(s.e, n.e) /\ n.e.state # "SYN_RCVD"
  BY <1>1, <1>2, <1>3, <1>4, LaterLater
<1> HIDE DEF n
<1>6. n \in Handled /\ n.e \in Sockets
  BY <1>5 DEF Active, Handled
<1>7. w \in Handled /\ w.out = n.out
  BY <1>6 DEF Handled, Sockets
<1>8. SameNumbers(n.e, w.e) /\ w.e.state = n.e.state /\ w.e.retx = n.e.retx
      /\ w.e.lastAck = n.e.lastAck /\ w.e.bound = n.e.bound
  BY <1>6 DEF Handled, Sockets, SameNumbers
<1>9. CloseWait(s) = w
  BY DEF CloseWait, n, t, v
<1> HIDE DEF w
<1>10. FinFollowsData(w.e)
  BY <1>5, <1>8 DEF Active, Grown, FinFollowsData, SameNumbers, DoneWriting, AllSent
<1>11. Active(w, p) /\ Later(n.e, w.e)
  BY <1>5, <1>7, <1>8, <1>10, SameKeeps DEF Active, Whole, Grown
<1>12. Later(s.e, w.e)
  BY <1>1, <1>5, <1>6, <1>7, <1>11, LaterLater DEF Handled
<1> QED
  BY <1>5, <1>8, <1>9, <1>11, <1>12

LEMMA DoPeerCloseKeeps ==
  ASSUME NEW p \in Sockets, NEW s, Active(s, p)
  PROVE  LET r == DoPeerClose(s)
         IN Active(r, p) /\ Later(s.e, r.e) /\ r.e.state # "SYN_RCVD"
<1> DEFINE w == CloseWait(s)
           c == IF w.e.shutdownSend THEN CloseSocket(w) ELSE SendEmptyPacket(w, {"ACK"})
           r == [c EXCEPT !.e.dataRetrCount = DataRetries, !.e.lastAck = TRUE]
<1>1. s \in Handled /\ s.e \in Sockets
  BY DEF Active, Handled
<1>2. /\ Active(w, p) /\ Later(s.e, w.e) /\ w.e.state # "SYN_RCVD"
      /\ w.e.shutdownSend => DoneWriting(w.e)
  BY CloseWaitKeeps DEF DoneWriting
<1> HIDE DEF w
<1>3. Active(c, p) /\ Later(w.e, c.e)
  <2>1. CASE w.e.shutdownSend
    BY <1>2, <2>1, CloseSocketKeeps
  <2>2. CASE ~w.e.shutdownSend
    BY <1>2, <2>2, SendEmptyKeeps
  <2> QED
    BY <2>1, <2>2
<1>4. DoPeerClose(s) = IF c.e.state = "LAST_ACK" THEN r ELSE c
  BY DEF DoPeerClose, w
<1> HIDE DEF c
<1>5. Later(s.e, c.e) /\ c.e.state # "SYN_RCVD" /\ c \in Handled /\ c.e \in Sockets
  BY <1>1, <1>2, <1>3, LaterLater DEF Active, Handled, Later
<1>6. CASE c.e.state = "LAST_ACK"
  <2>1. r \in Handled /\ r.out = c.out
    <3>1. DataRetries \in Nat
      BY ConnectionAssumption DEF ConnectionAssumption
    <3>2. [c.e EXCEPT !.dataRetrCount = DataRetries, !.lastAck = TRUE] \in Sockets
      BY <1>5, <3>1 DEF Sockets
    <3>3. r = [c EXCEPT !.e = [c.e EXCEPT !.dataRetrCount = DataRetries, !.lastAck = TRUE]]
      BY <1>5 DEF Handled
    <3> QED
      BY <1>5, <3>2, <3>3 DEF Handled
  <2>2. SameNumbers(c.e, r.e) /\ r.e.state = c.e.state /\ r.e.retx = c.e.retx
    BY <1>5 DEF Handled, Sockets, SameNumbers
  <2> HIDE DEF r
  <2>3. FinFollowsData(r.e)
    BY <1>3, <1>6, <2>2
    DEF Active, Grown, FinFollowsData, SameNumbers, DoneWriting, AllSent, ClosingStates
  <2>4. Active(r, p) /\ Later(c.e, r.e)
    BY <1>3, <1>6, <2>1, <2>2, <2>3, SameKeeps DEF Active, Grown
  <2> QED
    BY <1>1, <1>4, <1>5, <1>6, <2>2, <2>4, LaterLater DEF Active, Handled
<1>7. CASE c.e.state # "LAST_ACK"
  BY <1>3, <1>4, <1>5, <1>7
<1> QED
  BY <1>6, <1>7

(***************************************************************************)
(* Receiving                                                               *)
(***************************************************************************)
LEMMA RxTyped ==
  ASSUME NEW e \in Sockets, NEW next \in Nat, NEW n \in Nat
  PROVE  /\ [e EXCEPT !.gotFin = TRUE, !.fin = n, !.rxNext = next] \in Sockets
         /\ [e EXCEPT !.rxNext = next, !.read = n] \in Sockets
  BY DEF Sockets

LEMMA SetFinKeeps ==
  ASSUME NEW p \in Sockets, NEW s, Active(s, p), NEW seq \in Nat,
         DoneWriting(p), AllSent(p),
         seq >= 1 + p.written \/ s.e.read = p.written,
         seq <= 1 + p.written \/ seq <= s.e.rxNext
  PROVE  LET r == [s EXCEPT !.e = SetFinSequence(@, seq)]
         IN Active(r, p) /\ Later(s.e, r.e) /\ r.e.state = s.e.state
<1> DEFINE next == IF s.e.rxNext = seq THEN s.e.rxNext + 1 ELSE s.e.rxNext
           r == [s EXCEPT !.e = SetFinSequence(@, seq)]
<1>1. s \in Handled /\ s.e \in Sockets /\ p.written \in {0, 1} /\ s.e.read \in Nat
      /\ s.e.rxNext \in Nat
  BY DEF Active, Handled, Sockets
<1>2. SetFinSequence(s.e, seq) = [s.e EXCEPT !.gotFin = TRUE, !.fin = seq, !.rxNext = next]
  BY <1>1 DEF SetFinSequence, Sockets
<1>3. next \in Nat /\ next >= s.e.rxNext
      /\ (seq # s.e.rxNext => next = s.e.rxNext) /\ (seq = s.e.rxNext => next = seq + 1)
  BY <1>1
<1> HIDE DEF next
<1>4. SetFinSequence(s.e, seq) \in Sockets
  <2>1. [s.e EXCEPT !.gotFin = TRUE, !.fin = seq, !.rxNext = next] \in Sockets
    BY <1>1, <1>3, RxTyped
  <2> QED
    BY <1>2, <2>1
<1>5. r \in Handled /\ r.out = s.out /\ r.e = SetFinSequence(s.e, seq)
  BY <1>1, <1>4 DEF Handled
<1> HIDE DEF r
<1>6. /\ r.e.una = s.e.una /\ r.e.nextTx = s.e.nextTx /\ r.e.highTx = s.e.highTx
      /\ r.e.size = s.e.size /\ r.e.written = s.e.written /\ r.e.rxNext = next
      /\ r.e.read = s.e.read /\ r.e.gotFin = TRUE /\ r.e.fin = seq
      /\ r.e.closeOnEmpty = s.e.closeOnEmpty
  BY <1>1, <1>2, <1>5 DEF Sockets
<1>7. /\ r.e.closeCalled = s.e.closeCalled /\ r.e.shutdownSend = s.e.shutdownSend
      /\ r.e.state = s.e.state /\ r.e.bound = s.e.bound /\ r.e.retx = s.e.retx
      /\ r.e.lastAck = s.e.lastAck
  BY <1>1, <1>2, <1>5 DEF Sockets
<1>8. Received(s.e, p) /\ s.e.rxNext >= 1 + s.e.read
  BY DEF Active, Whole, Grown
<1>9. Finished(s.e) => next > seq
  BY <1>1, <1>3, <1>8 DEF Received
<1>10. next > seq => s.e.read = p.written
  BY <1>1, <1>3, <1>8 DEF Received
<1>11. ~(next > seq) => next <= 1 + s.e.read
  BY <1>1, <1>3, <1>8 DEF Received
<1>12. Finished(r.e) <=> next > seq
  BY <1>6 DEF Finished
<1>13. Received(r.e, p)
  BY <1>6, <1>8, <1>10, <1>11, <1>12 DEF Received
<1>14. Later(s.e, r.e)
  BY <1>1, <1>3, <1>6, <1>7, <1>9, <1>12 DEF Later, DoneWriting
<1>15. Whole(r.e, p)
  BY <1>5, <1>6, <1>7, <1>13 DEF Active, Handled, Whole, DoneWriting
<1>16. Grown(r.e, p.rxNext)
  BY <1>1, <1>3, <1>6, <1>7 DEF Active, Grown, AllSent, FinFollowsData, DoneWriting
<1> QED
  BY <1>5, <1>7, <1>14, <1>15, <1>16, ChangeKeeps DEF r

LEMMA AddDataKeeps ==
  ASSUME NEW p \in Sockets, NEW s, Active(s, p), NEW m,
         s.e.rxNext = 1, p.highTx = 2, p.written = 1
  PROVE  LET r == [s EXCEPT !.e = AddData(@, m)]
         IN /\ Active(r, p) /\ Later(s.e, r.e) /\ r.e.state = s.e.state /\ r.e.read = 1
<1> DEFINE next == IF s.e.gotFin /\ s.e.fin = s.e.rxNext + 1 THEN s.e.rxNext + 2
                   ELSE s.e.rxNext + 1
           read == s.e.read + 1
           r == [s EXCEPT !.e = AddData(@, m)]
<1>1. s \in Handled /\ s.e \in Sockets
  BY DEF Active, Handled
<1>2. AddData(s.e, m) = [s.e EXCEPT !.rxNext = next, !.read = read]
  BY <1>1 DEF AddData, Sockets
<1>3. /\ s.e.read = 0 /\ read = 1 /\ next \in {2, 3}
      /\ s.e.gotFin /\ s.e.fin = 2 => next = 3
      /\ ~(s.e.gotFin /\ s.e.fin = 2) => next = 2
  BY <1>1 DEF Active, Grown, Sockets
<1>4. ~Finished(s.e)
  BY <1>1, <1>3 DEF Active, Whole, Received
<1> HIDE DEF next, read
<1>5. AddData(s.e, m) \in Sockets
  <2>1. next \in Nat /\ read \in Nat
    BY <1>3
  <2> QED
    <3>1. [s.e EXCEPT !.rxNext = next, !.read = read] \in Sockets
      BY <1>1, <2>1, RxTyped
    <3> QED
      BY <1>2, <3>1
<1>6. r \in Handled /\ r.out = s.out /\ r.e = AddData(s.e, m)
  BY <1>1, <1>5 DEF Handled
<1> HIDE DEF r
<1>7. /\ r.e.una = s.e.una /\ r.e.nextTx = s.e.nextTx /\ r.e.highTx = s.e.highTx
      /\ r.e.size = s.e.size /\ r.e.written = s.e.written /\ r.e.rxNext = next
      /\ r.e.read = read /\ r.e.gotFin = s.e.gotFin /\ r.e.fin = s.e.fin
      /\ r.e.closeOnEmpty = s.e.closeOnEmpty
  BY <1>1, <1>2, <1>6 DEF Sockets
<1>8. /\ r.e.closeCalled = s.e.closeCalled /\ r.e.shutdownSend = s.e.shutdownSend
      /\ r.e.state = s.e.state /\ r.e.bound = s.e.bound /\ r.e.retx = s.e.retx
      /\ r.e.lastAck = s.e.lastAck
  BY <1>1, <1>2, <1>6 DEF Sockets
<1>9. Received(r.e, p)
  <2>1. s.e.fin \in Nat
    BY <1>1 DEF Sockets
  <2> QED
    BY <1>3, <1>7, <2>1 DEF Active, Whole, Received, Finished
<1>10. Later(s.e, r.e)
  BY <1>1, <1>3, <1>4, <1>7, <1>8 DEF Later, DoneWriting
<1>11. Whole(r.e, p)
  BY <1>6, <1>7, <1>8, <1>9 DEF Active, Handled, Whole, DoneWriting
<1>12. Grown(r.e, p.rxNext)
  BY <1>1, <1>3, <1>7, <1>8 DEF Active, Grown, AllSent, FinFollowsData, DoneWriting
<1> QED
  BY <1>3, <1>6, <1>7, <1>8, <1>10, <1>11, <1>12, ChangeKeeps DEF r

LEMMA TimersTyped ==
  ASSUME NEW e \in Sockets, NEW n \in Int, NEW tries \in Nat, NEW next \in Nat,
         NEW retx \in {"none", "SYN", "SYN+ACK", "FIN", "RTO"}
  PROVE  /\ [e EXCEPT !.delAckCount = n, !.delAck = TRUE] \in Sockets
         /\ [e EXCEPT !.dataRetrCount = tries, !.nextTx = next, !.retx = retx] \in Sockets
  BY DEF Sockets

LEMMA ReceivedDataKeeps ==
  ASSUME NEW p \in Sockets, NEW s, Active(s, p), NEW h \in Nat, h <= s.e.rxNext,
         NEW m, Meant(m, p, h), m.len > 0
  PROVE  LET r == ReceivedData(s, m)
         IN /\ Active(r, p) /\ Later(s.e, r.e) /\ r.e.read = 1
            /\ m.seq = s.e.rxNext => Later(AddData(s.e, m), r.e)
<1> DEFINE b == [s EXCEPT !.e = AddData(@, m)]
           a == Notify(b, "DataRecv")
           filled == a.e.rxNext > s.e.rxNext + 1
           d == [a EXCEPT !.e.delAckCount = @ + 1, !.e.delAck = TRUE]
<1>1. s \in Handled /\ s.e \in Sockets /\ s.e.read \in Nat /\ s.e.rxNext \in Nat
  BY DEF Active, Handled, Sockets
<1>2. m.seq = 1 /\ p.highTx = 2 /\ p.written = 1 /\ m \in Messages
  BY DEF Meant, Messages
<1>3. CASE m.seq # s.e.rxNext
  <2>1. ReceivedData(s, m) = SendEmptyPacket(s, {"ACK"})
    BY <1>3 DEF ReceivedData
  <2>2. s.e.read = 1
    BY <1>1, <1>2, <1>3 DEF Active, Whole, Grown, Received
  <2> QED
    BY <1>3, <2>1, <2>2, SendEmptyKeeps DEF SameNumbers
<1>4. CASE m.seq = s.e.rxNext
  <2>1. /\ Active(a, p) /\ Later(s.e, a.e) /\ a.e.read = 1
        /\ Later(AddData(s.e, m), a.e) /\ AddData(s.e, m) \in Sockets
    <3>1. Active(b, p) /\ Later(s.e, b.e) /\ b.e.read = 1 /\ b.e = AddData(s.e, m)
      BY <1>1, <1>2, <1>4, AddDataKeeps DEF Handled
    <3> HIDE DEF b
    <3>2. Active(a, p) /\ Later(b.e, a.e)
      BY <3>1, NotifyKeeps
    <3>3. b.e \in Sockets /\ a.e \in Sockets /\ a.e.read \in Nat /\ a.e.read <= 1
      BY <1>2, <3>1, <3>2 DEF Active, Handled, Whole, Received, Sockets
    <3> HIDE DEF a
    <3>4. a.e.read = 1
      BY <3>1, <3>2, <3>3 DEF Later
    <3> QED
      BY <1>1, <3>1, <3>2, <3>3, <3>4, LaterLater
  <2> HIDE DEF a
  <2>2. a \in Handled /\ a.e \in Sockets /\ a.e.read \in Nat
    BY <2>1 DEF Active, Handled, Sockets
  <2>3. Active(DoPeerClose(a), p) /\ Later(a.e, DoPeerClose(a).e)
    BY <2>1, DoPeerCloseKeeps
  <2>4. Active(SendEmptyPacket(a, {"ACK"}), p) /\ Later(a.e, SendEmptyPacket(a, {"ACK"}).e)
    BY <2>1, SendEmptyKeeps
  <2>5. Active(d, p) /\ Later(a.e, d.e)
    <3>1. d \in Handled /\ d.out = a.out
      <4> DEFINE count == a.e.delAckCount + 1
                 f == [a.e EXCEPT !.delAckCount = count, !.delAck = TRUE]
      <4>1. count \in Int
        BY <2>2 DEF Sockets
      <4>2. d = [a EXCEPT !.e = f]
        BY <2>2 DEF Handled, Sockets
      <4> HIDE DEF count, d
      <4>3. f \in Sockets
        BY <2>2, <4>1, TimersTyped
      <4> QED
        BY <2>2, <4>2, <4>3 DEF Handled
    <3>2. SameNumbers(a.e, d.e) /\ d.e.state = a.e.state /\ d.e.bound = a.e.bound
          /\ d.e.retx = a.e.retx /\ d.e.lastAck = a.e.lastAck
      BY <2>2 DEF Handled, Sockets, SameNumbers
    <3> HIDE DEF d
    <3>3. FinFollowsData(d.e)
      BY <2>1, <3>2 DEF Active, Grown, FinFollowsData, SameNumbers, DoneWriting, AllSent
    <3> QED
      BY <2>1, <3>1, <3>2, <3>3, SameKeeps DEF Active, Whole, Grown
  <2>6. ReceivedData(s, m) \in {DoPeerClose(a), SendEmptyPacket(a, {"ACK"}), d}
    BY <1>4 DEF ReceivedData, a
  <2> DEFINE r == ReceivedData(s, m)
  <2> HIDE DEF d, r
  <2>7. Active(r, p) /\ Later(a.e, r.e)
    BY <2>3, <2>4, <2>5, <2>6 DEF r
  <2>8. r.e \in Sockets /\ r.e.read \in Nat /\ r.e.read <= 1
    BY <1>2, <2>7 DEF Active, Handled, Whole, Received, Sockets
  <2>9. r.e.read = 1
    BY <2>1, <2>7, <2>8 DEF Later
  <2> QED
    BY <1>1, <2>1, <2>2, <2>7, <2>8, <2>9, LaterLater DEF r
<1> QED
  BY <1>3, <1>4

LEMMA ProcessAckKeeps ==
  ASSUME NEW p \in Sockets, NEW s, Active(s, p), NEW ack \in Nat, ack <= p.rxNext
  PROVE  LET r == [s EXCEPT !.e = ProcessAck(@, ack)]
         IN /\ Active(r, p) /\ Later(s.e, r.e) /\ r.e.state = s.e.state
            /\ r.e.rxNext = s.e.rxNext
<1> DEFINE r == [s EXCEPT !.e = ProcessAck(@, ack)]
<1>1. s \in Handled /\ s.e \in Sockets /\ p.rxNext \in Nat
  BY DEF Active, Handled, Sockets
<1>2. r.e = ProcessAck(s.e, ack) /\ r.out = s.out
  BY <1>1 DEF Handled
<1>3. /\ s.e.una \in Nat /\ s.e.nextTx \in Nat /\ s.e.highTx \in Nat /\ s.e.rxNext \in Nat
      /\ s.e.size \in {0, 1} /\ s.e.written \in {0, 1} /\ 1 <= s.e.una
      /\ s.e.una <= s.e.nextTx /\ 1 <= s.e.highTx
  BY <1>1 DEF Sockets, Active, Grown
<1>4. CASE ack > s.e.una
  <2> DEFINE c == [s.e EXCEPT !.una = ack, !.size = 0]
             idle == c.size = 0 /\ c.state \notin {"FIN_WAIT_1", "CLOSING"}
             next == IF ack > c.nextTx THEN ack ELSE c.nextTx
             retx == IF idle THEN "none" ELSE "RTO"
  <2>1. r.e = NewAck(c, ack)
    BY <1>2, <1>4 DEF ProcessAck
  <2>2. r.e = [c EXCEPT !.dataRetrCount = DataRetries, !.nextTx = next, !.retx = retx]
    BY <2>1 DEF NewAck
  <2>3. c \in Sockets
    BY <1>1 DEF Sockets
  <2>4. /\ c.una = ack /\ c.nextTx = s.e.nextTx /\ c.highTx = s.e.highTx /\ c.size = 0
        /\ c.written = s.e.written /\ c.rxNext = s.e.rxNext /\ c.read = s.e.read
        /\ c.gotFin = s.e.gotFin /\ c.fin = s.e.fin /\ c.closeOnEmpty = s.e.closeOnEmpty
    BY <1>1 DEF Sockets
  <2>5. /\ c.closeCalled = s.e.closeCalled /\ c.shutdownSend = s.e.shutdownSend
        /\ c.state = s.e.state /\ c.bound = s.e.bound /\ c.lastAck = s.e.lastAck
    BY <1>1 DEF Sockets
  <2>6. retx \in {"none", "RTO"}
    OBVIOUS
  <2> HIDE DEF c, retx, r
  <2>7. next \in Nat /\ next >= ack /\ next >= s.e.nextTx /\ next \in {ack, s.e.nextTx}
    BY <1>3, <2>4
  <2> HIDE DEF next
  <2>8. DataRetries \in Nat
    BY ConnectionAssumption DEF ConnectionAssumption
  <2>9. r.e \in Sockets
    <3>1. retx \in {"none", "SYN", "SYN+ACK", "FIN", "RTO"} /\ 0 \in Int
      BY <2>6
    <3>2. [c EXCEPT !.dataRetrCount = DataRetries, !.nextTx = next, !.retx = retx] \in Sockets
      BY <2>3, <2>7, <2>8, <3>1, TimersTyped
    <3> QED
      BY <2>2, <3>2
  <2>10. /\ r.e.una = ack /\ r.e.nextTx = next /\ r.e.highTx = s.e.highTx /\ r.e.size = 0
         /\ r.e.written = s.e.written /\ r.e.rxNext = s.e.rxNext /\ r.e.read = s.e.read
         /\ r.e.gotFin = s.e.gotFin /\ r.e.fin = s.e.fin
         /\ r.e.closeOnEmpty = s.e.closeOnEmpty
    <3>1. /\ r.e.una = c.una /\ r.e.nextTx = next /\ r.e.highTx = c.highTx
          /\ r.e.size = c.size /\ r.e.written = c.written /\ r.e.rxNext = c.rxNext
          /\ r.e.read = c.read /\ r.e.gotFin = c.gotFin /\ r.e.fin = c.fin
          /\ r.e.closeOnEmpty = c.closeOnEmpty
      BY <2>2, <2>3 DEF Sockets
    <3> QED
      BY <2>4, <3>1
  <2>11. /\ r.e.closeCalled = s.e.closeCalled /\ r.e.shutdownSend = s.e.shutdownSend
         /\ r.e.state = s.e.state /\ r.e.bound = s.e.bound /\ r.e.lastAck = s.e.lastAck
         /\ r.e.retx = retx
    <3>1. /\ r.e.closeCalled = c.closeCalled /\ r.e.shutdownSend = c.shutdownSend
          /\ r.e.state = c.state /\ r.e.bound = c.bound /\ r.e.lastAck = c.lastAck
          /\ r.e.retx = retx
      BY <2>2, <2>3 DEF Sockets
    <3> QED
      BY <2>5, <3>1
  <2>12. r \in Handled
    BY <1>1, <1>2, <2>9 DEF Handled, r
  <2>13. Later(s.e, r.e)
    BY <1>1, <2>10, <2>11 DEF Later, DoneWriting, Finished, Sockets
  <2>14. Whole(r.e, p)
    BY <1>3, <2>9, <2>10, <2>11 DEF Active, Whole, Received, Finished, DoneWriting
  <2>15. AllSent(s.e)
    BY <1>1, <1>3, <1>4 DEF Active, Fits
  <2>16. FinFollowsData(r.e)
    BY <1>3, <2>6, <2>7, <2>10, <2>11
    DEF Active, Grown, FinFollowsData, DoneWriting, AllSent
  <2>17. Grown(r.e, p.rxNext)
    BY <1>1, <1>3, <1>4, <2>6, <2>7, <2>10, <2>11, <2>15, <2>16 DEF Active, Grown, AllSent
  <2> QED
    BY <1>2, <2>10, <2>11, <2>12, <2>13, <2>14, <2>17, ChangeKeeps DEF r
<1>5. CASE ack = s.e.una /\ ack > s.e.highTx
  <2>1. r.e = [s.e EXCEPT !.nextTx = ack]
    BY <1>2, <1>3, <1>5 DEF ProcessAck
  <2>2. r.e \in Sockets
    BY <1>1, <2>1 DEF Sockets
  <2>3. /\ r.e.una = s.e.una /\ r.e.nextTx = ack /\ r.e.highTx = s.e.highTx
        /\ r.e.size = s.e.size /\ r.e.written = s.e.written /\ r.e.rxNext = s.e.rxNext
        /\ r.e.read = s.e.read /\ r.e.gotFin = s.e.gotFin /\ r.e.fin = s.e.fin
        /\ r.e.closeOnEmpty = s.e.closeOnEmpty
    BY <1>1, <2>1 DEF Sockets
  <2>4. /\ r.e.closeCalled = s.e.closeCalled /\ r.e.shutdownSend = s.e.shutdownSend
        /\ r.e.state = s.e.state /\ r.e.bound = s.e.bound /\ r.e.lastAck = s.e.lastAck
        /\ r.e.retx = s.e.retx
    BY <1>1, <2>1 DEF Sockets
  <2>5. r \in Handled
    BY <1>1, <1>2, <2>2 DEF Handled
  <2> HIDE DEF r
  <2>6. s.e.size = 0
    BY <1>3, <1>5 DEF Active, Grown
  <2>7. Later(s.e, r.e)
    BY <1>1, <2>3, <2>4 DEF Later, DoneWriting, Finished, Sockets
  <2>8. Whole(r.e, p)
    BY <1>3, <2>2, <2>3, <2>4 DEF Active, Whole, Received, Finished, DoneWriting
  <2>9. FinFollowsData(r.e)
    BY <1>3, <1>5, <2>3, <2>4, <2>6 DEF Active, Grown, FinFollowsData, DoneWriting, AllSent
  <2>10. Grown(r.e, p.rxNext)
    BY <1>1, <1>3, <1>5, <2>3, <2>4, <2>6, <2>9 DEF Active, Grown, AllSent
  <2> QED
    BY <1>2, <2>3, <2>4, <2>5, <2>7, <2>8, <2>10, ChangeKeeps DEF r
<1>6. CASE ~(ack > s.e.una) /\ ~(ack = s.e.una /\ ack > s.e.highTx)
  <2>1. ProcessAck(s.e, ack) = s.e
    BY <1>6 DEF ProcessAck
  <2>2. r = s
    BY <1>1, <2>1 DEF Handled
  <2> QED
    BY <1>1, <2>2, SameIsLater DEF SameNumbers
<1> QED
  BY <1>4, <1>5, <1>6

LEMMA ReceivedAckKeeps ==
  ASSUME NEW p \in Sockets, NEW s, Active(s, p), NEW h \in Nat, h <= s.e.rxNext,
         NEW m, Meant(m, p, h), m.flags \notin {{"RST"}, {"RST", "ACK"}}
  PROVE  LET r == ReceivedAck(s, m)
         IN /\ Active(r, p) /\ Later(s.e, r.e)
            /\ m.len > 0 => r.e.read = 1
<1> DEFINE a == [s EXCEPT !.e = ProcessAck(@, m.ack)]
           d == IF m.len > 0 THEN ReceivedData(a, m) ELSE a
<1>1. s.e \in Sockets /\ m.ack \in Nat /\ m.ack <= p.rxNext /\ s.e.rxNext \in Nat
  BY DEF Active, Handled, Sockets, Meant, Messages
<1>2. Active(a, p) /\ Later(s.e, a.e) /\ a.e.rxNext = s.e.rxNext
  BY <1>1, ProcessAckKeeps
<1>3. ReceivedAck(s, m) = SendPendingData(d)
  BY DEF ReceivedAck
<1> HIDE DEF a
<1>4. Active(d, p) /\ Later(a.e, d.e) /\ (m.len > 0 => d.e.read = 1)
  <2>1. CASE m.len > 0
    BY <1>2, <2>1, ReceivedDataKeeps
  <2>2. CASE ~(m.len > 0)
    BY <1>2, <2>2, SameIsLater DEF SameNumbers, Active, Handled
  <2> QED
    BY <2>1, <2>2
<1> DEFINE r == SendPendingData(d)
<1> HIDE DEF d
<1>5. Active(r, p) /\ Later(d.e, r.e)
  BY <1>4, SendPendingKeeps
<1> HIDE DEF r
<1>6. /\ a.e \in Sockets /\ d.e \in Sockets /\ r.e \in Sockets
      /\ r.e.read \in Nat /\ r.e.read <= p.written
  BY <1>2, <1>4, <1>5 DEF Active, Handled, Whole, Received, Sockets
<1>7. Later(s.e, r.e)
  BY <1>1, <1>2, <1>4, <1>5, <1>6, LaterLater
<1>8. m.len > 0 => r.e.read = 1
  <2>1. p.written \in {0, 1}
    BY DEF Sockets
  <2> QED
    BY <1>4, <1>5, <1>6, <2>1 DEF Later
<1> QED
  BY <1>3, <1>5, <1>7, <1>8 DEF r

LEMMA PeerCloseKeeps ==
  ASSUME NEW p \in Sockets, NEW s, Active(s, p), NEW h \in Nat, h <= s.e.rxNext,
         NEW m, Meant(m, p, h), m.flags = {"FIN", "ACK"}
  PROVE  LET r == PeerClose(s, m)
         IN /\ Active(r, p) /\ Later(s.e, r.e)
            /\ m.seq = s.e.rxNext /\ ~s.e.gotFin => r.e.state # "SYN_RCVD"
<1> DEFINE seq == m.seq + m.len
           f == [s EXCEPT !.e = SetFinSequence(@, seq)]
           d == IF m.len > 0 THEN ReceivedData(f, m) ELSE f
           c == [d EXCEPT !.e.state = "CLOSING"]
           r == PeerClose(s, m)
           late == m.seq < s.e.rxNext \/ (s.e.gotFin /\ m.seq > s.e.fin)
<1>1. s \in Handled /\ s.e \in Sockets /\ m \in Messages /\ s.e.rxNext \in Nat
      /\ m.seq \in Nat /\ m.len \in {0, 1} /\ p.written \in {0, 1}
  BY DEF Active, Handled, Sockets, Meant, Messages
<1>2. seq \in Nat /\ seq >= 1 + p.written
      /\ (seq <= 1 + p.written \/ seq <= s.e.rxNext) /\ DoneWriting(p) /\ AllSent(p)
      /\ (m.len = 1 => m.seq = 1) /\ (m.len = 0 => seq = m.seq) /\ (m.len = 1 => seq = 2)
  BY <1>1 DEF Meant
<1>3. r = IF late THEN s ELSE IF ~Finished(d.e) THEN d
          ELSE IF d.e.state = "FIN_WAIT_1" THEN c ELSE DoPeerClose(d)
  BY DEF PeerClose
<1> DEFINE next == IF s.e.rxNext = seq THEN s.e.rxNext + 1 ELSE s.e.rxNext
<1> HIDE DEF seq
<1>4. f.e = [s.e EXCEPT !.gotFin = TRUE, !.fin = seq, !.rxNext = next]
  BY <1>1 DEF Handled, Sockets, SetFinSequence
<1>5. Active(f, p) /\ Later(s.e, f.e)
  BY <1>2, SetFinKeeps
<1> HIDE DEF f
<1>6. f.e.fin = seq /\ f.e.gotFin /\ f.e.rxNext = IF s.e.rxNext = seq THEN s.e.rxNext + 1
                                                  ELSE s.e.rxNext
  <2> HIDE DEF next
  <2>1. f.e.fin = seq /\ f.e.gotFin /\ f.e.rxNext = next
    BY <1>1, <1>4 DEF Sockets
  <2> QED
    BY <2>1 DEF next
<1>7. f.e \in Sockets
  BY <1>5 DEF Active, Handled
<1>8. /\ Active(d, p) /\ Later(f.e, d.e)
      /\ m.len > 0 /\ m.seq = f.e.rxNext => Later(AddData(f.e, m), d.e)
  <2>1. CASE m.len > 0
    <3>1. h <= f.e.rxNext
      BY <1>1, <1>5, <1>7 DEF Later, Sockets
    <3>2. d = ReceivedData(f, m)
      BY <2>1
    <3> QED
      BY <1>5, <2>1, <3>1, <3>2, ReceivedDataKeeps
  <2>2. CASE ~(m.len > 0)
    BY <1>5, <1>7, <2>2, SameIsLater DEF SameNumbers
  <2> QED
    BY <2>1, <2>2
<1>9. m.seq = s.e.rxNext /\ ~s.e.gotFin => Finished(d.e) /\ ~late
  <2> SUFFICES ASSUME m.seq = s.e.rxNext, ~s.e.gotFin
               PROVE  Finished(d.e) /\ ~late
    OBVIOUS
  <2>1. ~late
    BY <1>1
  <2>2. CASE m.len = 0
    <3>1. Finished(f.e)
      BY <1>1, <1>2, <1>6, <2>2 DEF Finished
    <3> QED
      BY <1>8, <2>1, <3>1 DEF Later
  <2>3. CASE m.len = 1
    <3>1. f.e.rxNext = 1 /\ f.e.fin = 2 /\ m.seq = 1
      BY <1>1, <1>2, <1>6, <2>3
    <3>2. AddData(f.e, m).rxNext = 3 /\ AddData(f.e, m).fin = 2 /\ AddData(f.e, m).gotFin
      BY <1>6, <1>7, <3>1 DEF AddData, Sockets
    <3>3. Later(AddData(f.e, m), d.e)
      BY <1>8, <2>3, <3>1
    <3> QED
      BY <2>1, <3>2, <3>3 DEF Later, Finished
  <2> QED
    BY <1>1, <2>2, <2>3
<1> HIDE DEF d, late
<1>10. Active(DoPeerClose(d), p) /\ Later(d.e, DoPeerClose(d).e)
       /\ DoPeerClose(d).e.state # "SYN_RCVD"
  BY <1>8, DoPeerCloseKeeps
<1>11. d.e.state = "FIN_WAIT_1" =>
         Active(c, p) /\ Later(d.e, c.e) /\ c.e.state = "CLOSING"
  <2> SUFFICES ASSUME d.e.state = "FIN_WAIT_1"
               PROVE  Active(c, p) /\ Later(d.e, c.e) /\ c.e.state = "CLOSING"
    OBVIOUS
  <2>1. DoneWriting(d.e) /\ AllSent(d.e) /\ d.e.nextTx >= 1 + d.e.written
    BY <1>8 DEF Active, Grown, FinFollowsData, ClosingStates
  <2>2. "CLOSING" \in States \ {"LISTEN", "SYN_SENT", "SYN_RCVD", "CLOSED"}
    BY DEF States
  <2> QED
    BY <1>8, <2>1, <2>2, StateKeeps
<1> HIDE DEF c
<1> DEFINE g == DoPeerClose(d)
<1>12. d.e \in Sockets /\ g.e \in Sockets
       /\ (d.e.state = "FIN_WAIT_1" => c.e \in Sockets)
  BY <1>8, <1>10, <1>11 DEF Active, Handled
<1>13. /\ Later(s.e, d.e) /\ Later(s.e, g.e) /\ Later(s.e, s.e)
       /\ d.e.state = "FIN_WAIT_1" => Later(s.e, c.e)
  BY <1>1, <1>5, <1>7, <1>8, <1>10, <1>11, <1>12, LaterLater, SameIsLater DEF SameNumbers
<1> HIDE DEF g
<1> QED
  BY <1>3, <1>8, <1>9, <1>10, <1>11, <1>13 DEF g

LEMMA ProcessEstablishedKeeps ==
  ASSUME NEW p \in Sockets, NEW s, Active(s, p), NEW h \in Nat, h <= s.e.rxNext,
         NEW m, Meant(m, p, h)
  PROVE  LET r == ProcessEstablished(s, m) IN Active(r, p) /\ Later(s.e, r.e)
<1>1. s.e \in Sockets /\ m.flags \in FlagSets
  BY DEF Active, Handled, Meant, Messages
<1>2. Later(s.e, s.e)
  BY <1>1, SameIsLater DEF SameNumbers
<1>3. CASE m.flags = {"ACK"}
  <2>1. ProcessEstablished(s, m) \in {s, SendEmptyPacket(s, {"ACK"}), ReceivedAck(s, m)}
    BY <1>3 DEF ProcessEstablished
  <2>2. m.flags \notin {{"RST"}, {"RST", "ACK"}}
    BY <1>3
  <2>3. Active(ReceivedAck(s, m), p) /\ Later(s.e, ReceivedAck(s, m).e)
    BY <2>2, ReceivedAckKeeps
  <2>4. Active(SendEmptyPacket(s, {"ACK"}), p) /\ Later(s.e, SendEmptyPacket(s, {"ACK"}).e)
    BY SendEmptyKeeps
  <2> QED
    BY <1>2, <2>1, <2>3, <2>4
<1>4. CASE m.flags \in {{"SYN"}, {"SYN", "ACK"}}
  <2>1. ProcessEstablished(s, m) = s
    BY <1>4 DEF ProcessEstablished
  <2> QED
    BY <1>2, <2>1
<1>5. CASE m.flags = {"FIN", "ACK"}
  <2>1. ProcessEstablished(s, m) = PeerClose(s, m)
    BY <1>5 DEF ProcessEstablished
  <2> QED
    BY <1>5, <2>1, PeerCloseKeeps
<1>6. CASE m.flags \in {{"RST"}, {"RST", "ACK"}}
  <2>1. ProcessEstablished(s, m) = Refuse(s, m)
    BY <1>6 DEF ProcessEstablished
  <2> QED
    BY <2>1, RefuseKeeps
<1> QED
  BY <1>1, <1>3, <1>4, <1>5, <1>6 DEF FlagSets

LEMMA InOrderFinKeeps ==
  ASSUME NEW p \in Sockets, NEW s, Active(s, p), NEW m
  PROVE  LET r == InOrderFin(s, m) IN Active(r, p) /\ Later(s.e, r.e)
<1> DEFINE acked == s.e.size = 0 /\ m.ack = s.e.highTx + 1
           c == [s EXCEPT !.e.state = "CLOSING"]
           next == IF s.e.state = "FIN_WAIT_2" THEN TimeWait(s)
                   ELSE IF acked THEN TimeWait(c) ELSE c
           inOrder == s.e.state \in {"FIN_WAIT_1", "FIN_WAIT_2"} /\ Finished(s.e)
<1>1. s.e \in Sockets
  BY DEF Active, Handled
<1>2. InOrderFin(s, m) = IF inOrder THEN SendEmptyPacket(next, {"ACK"}) ELSE s
  BY DEF InOrderFin
<1>3. CASE inOrder
  <2>1. s.e.state \in ClosingStates
    BY <1>3 DEF ClosingStates
  <2>2. DoneWriting(s.e) /\ AllSent(s.e) /\ s.e.nextTx >= 1 + s.e.written
    BY <2>1 DEF Active, Grown, FinFollowsData
  <2>3. "CLOSING" \in States \ {"LISTEN", "SYN_SENT", "SYN_RCVD", "CLOSED"}
    BY DEF States
  <2>4. Active(c, p) /\ Later(s.e, c.e) /\ c.e.state = "CLOSING"
    BY <2>2, <2>3, StateKeeps
  <2> HIDE DEF c
  <2>5. Active(TimeWait(c), p) /\ Later(c.e, TimeWait(c).e)
    BY <2>4, TimeWaitKeeps DEF ClosingStates
  <2>6. Active(TimeWait(s), p) /\ Later(s.e, TimeWait(s).e)
    BY <2>1, TimeWaitKeeps
  <2>7. Later(s.e, TimeWait(c).e)
    BY <1>1, <2>4, <2>5, LaterLater DEF Active, Handled
  <2>8. Active(next, p) /\ Later(s.e, next.e)
    BY <2>4, <2>5, <2>6, <2>7
  <2> HIDE DEF next
  <2>9. Active(SendEmptyPacket(next, {"ACK"}), p)
        /\ Later(next.e, SendEmptyPacket(next, {"ACK"}).e)
    BY <2>8, SendEmptyKeeps
  <2> QED
    BY <1>1, <1>2, <1>3, <2>8, <2>9, LaterLater DEF Active, Handled
<1>4. CASE ~inOrder
  BY <1>1, <1>2, <1>4, SameIsLater DEF SameNumbers
<1> QED
  BY <1>3, <1>4

LEMMA ProcessWaitKeeps ==
  ASSUME NEW p \in Sockets, NEW s, Active(s, p), NEW h \in Nat, h <= s.e.rxNext,
         NEW m, Meant(m, p, h)
  PROVE  LET r == ProcessWait(s, m) IN Active(r, p) /\ Later(s.e, r.e)
<1> DEFINE r == ReceivedAck(s, m)
           finAcked == r.e.state = "FIN_WAIT_1" /\ r.e.size = 0 /\ m.ack = r.e.highTx + 1
           w == IF finAcked THEN [r EXCEPT !.e.state = "FIN_WAIT_2"] ELSE r
           f == [r EXCEPT !.e = SetFinSequence(@, m.seq)]
<1>1. s.e \in Sockets /\ m.flags \in FlagSets /\ m \in Messages
  BY DEF Active, Handled, Meant, Messages
<1>2. CASE m.flags \in {{"ACK"}, {"FIN", "ACK"}}
  <2>1. m.flags \notin {{"RST"}, {"RST", "ACK"}}
    BY <1>2
  <2>2. Active(r, p) /\ Later(s.e, r.e) /\ (m.len > 0 => r.e.read = 1)
    BY <2>1, ReceivedAckKeeps
  <2>3. m.ack <= p.rxNext
    BY <2>1 DEF Meant
  <2> HIDE DEF r
  <2>4. r.e \in Sockets /\ r \in Handled
    BY <2>2 DEF Active, Handled
  <2>5. CASE m.flags = {"ACK"}
    <3>1. ProcessWait(s, m) = InOrderFin(w, m)
      BY <2>5 DEF ProcessWait, r
    <3>2. Active(w, p) /\ Later(r.e, w.e)
      <4>1. CASE finAcked
        <5>1. Finished(p)
          <6>1. AllSent(r.e) /\ r.e.highTx \in Nat /\ r.e.highTx >= 1
                /\ r.e.written \in {0, 1} /\ p.rxNext \in Nat
            BY <2>2, <2>4, <4>1 DEF Active, Grown, Sockets
          <6>2. r.e.highTx >= 1 + r.e.written
            BY <6>1 DEF AllSent
          <6>3. p.rxNext >= 2 + r.e.written
            BY <2>3, <4>1, <6>1, <6>2
          <6> QED
            BY <2>2, <6>3 DEF Active, Fits
        <5>2. DoneWriting(r.e) /\ AllSent(r.e) /\ r.e.nextTx >= 1 + r.e.written
          BY <2>2, <4>1 DEF Active, Grown, FinFollowsData, ClosingStates
        <5>3. "FIN_WAIT_2" \in States \ {"LISTEN", "SYN_SENT", "SYN_RCVD", "CLOSED"}
          BY DEF States
        <5> QED
          BY <2>2, <4>1, <5>1, <5>2, <5>3, StateKeeps
      <4>2. CASE ~finAcked
        BY <2>2, <2>4, <4>2, SameIsLater DEF SameNumbers
      <4> QED
        BY <4>1, <4>2
    <3> HIDE DEF w
    <3>3. Active(InOrderFin(w, m), p) /\ Later(w.e, InOrderFin(w, m).e)
      BY <3>2, InOrderFinKeeps
    <3>4. Later(s.e, w.e)
      BY <1>1, <2>2, <2>4, <3>2, LaterLater DEF Active, Handled
    <3> QED
      BY <1>1, <3>1, <3>2, <3>3, <3>4, LaterLater DEF Active, Handled
  <2>6. CASE m.flags = {"FIN", "ACK"}
    <3>1. ProcessWait(s, m) = InOrderFin(f, m)
      BY <2>6 DEF ProcessWait, r
    <3>2. m.seq \in Nat /\ DoneWriting(p) /\ AllSent(p) /\ r.e.rxNext \in Nat
          /\ m.len \in {0, 1} /\ s.e.rxNext \in Nat
      BY <1>1, <2>4, <2>6 DEF Meant, Messages, Sockets
    <3>3. m.seq >= 1 + p.written \/ r.e.read = p.written
      BY <2>2, <2>6, <3>2 DEF Meant
    <3>4. m.seq <= 1 + p.written \/ m.seq <= r.e.rxNext
      BY <2>2, <2>6, <3>2 DEF Meant, Later, Sockets
    <3>5. Active(f, p) /\ Later(r.e, f.e)
      BY <2>2, <3>2, <3>3, <3>4, SetFinKeeps
    <3> HIDE DEF f
    <3>6. Active(InOrderFin(f, m), p) /\ Later(f.e, InOrderFin(f, m).e)
      BY <3>5, InOrderFinKeeps
    <3>7. Later(s.e, f.e)
      BY <1>1, <2>2, <2>4, <3>5, LaterLater DEF Active, Handled
    <3> QED
      BY <1>1, <3>1, <3>5, <3>6, <3>7, LaterLater DEF Active, Handled
  <2> QED
    BY <1>2, <2>5, <2>6
<1>3. CASE m.flags \in {{"SYN"}, {"SYN", "ACK"}}
  <2>1. ProcessWait(s, m) = s
    BY <1>3 DEF ProcessWait
  <2> QED
    BY <1>1, <2>1, SameIsLater DEF SameNumbers
<1>4. CASE m.flags \in {{"RST"}, {"RST", "ACK"}}
  <2>1. ProcessWait(s, m) = Refuse(s, m)
    BY <1>4 DEF ProcessWait
  <2> QED
    BY <2>1, RefuseKeeps
<1> QED
  BY <1>1, <1>2, <1>3, <1>4 DEF FlagSets

LEMMA ProcessClosingKeeps ==
  ASSUME NEW p \in Sockets, NEW s, Active(s, p), s.e.state = "CLOSING", NEW m
  PROVE  LET r == ProcessClosing(s, m) IN Active(r, p) /\ Later(s.e, r.e)
<1> DEFINE t == SendEmptyPacket(s, {"ACK"})
<1>1. s.e \in Sockets
  BY DEF Active, Handled
<1>2. Later(s.e, s.e)
  BY <1>1, SameIsLater DEF SameNumbers
<1>3. Active(t, p) /\ Later(s.e, t.e)
  BY SendEmptyKeeps
<1> HIDE DEF t
<1>4. Active(CloseAndNotify(t), p) /\ Later(t.e, CloseAndNotify(t).e)
  BY <1>3, CloseAndNotifyKeeps
<1>5. Later(s.e, CloseAndNotify(t).e)
  BY <1>1, <1>3, <1>4, LaterLater DEF Active, Handled
<1>6. Active(TimeWait(s), p) /\ Later(s.e, TimeWait(s).e)
  BY TimeWaitKeeps DEF ClosingStates
<1>7. Active(Refuse(s, m), p) /\ Later(s.e, Refuse(s, m).e)
  BY RefuseKeeps
<1>8. ProcessClosing(s, m) \in {TimeWait(s), s, CloseAndNotify(t), Refuse(s, m)}
  BY DEF ProcessClosing, t
<1> QED
  BY <1>2, <1>4, <1>5, <1>6, <1>7, <1>8

LEMMA ProcessLastAckKeeps ==
  ASSUME NEW p \in Sockets, NEW s, Active(s, p), NEW m
  PROVE  LET r == ProcessLastAck(s, m) IN Active(r, p) /\ Later(s.e, r.e)
<1>1. Later(s.e, s.e)
  BY SameIsLater DEF SameNumbers, Active, Handled
<1>2. Active(CloseAndNotify(s), p) /\ Later(s.e, CloseAndNotify(s).e)
  BY CloseAndNotifyKeeps
<1>3. Active(Refuse(s, m), p) /\ Later(s.e, Refuse(s, m).e)
  BY RefuseKeeps
<1>4. ProcessLastAck(s, m) \in {s, CloseAndNotify(s), Refuse(s, m)}
  BY DEF ProcessLastAck
<1> QED
  BY <1>1, <1>2, <1>3, <1>4

(***************************************************************************)
(* Handlers before the handshake is over                                   *)
(***************************************************************************)
Fresh(s, p) ==
  /\ s \in Handled
  /\ Whole(s.e, p) /\ Young(s.e) /\ s.e.state \in OpeningStates /\ Fits(s.e, p)
  /\ \A m \in s.out : Meant(m, s.e, p.rxNext)

LEMMA SameStaysFresh ==
  ASSUME NEW p \in Sockets, NEW s, Fresh(s, p), NEW r \in Handled, SameNumbers(s.e, r.e),
         r.out = s.out, r.e.state \in {s.e.state, "CLOSED", "SYN_SENT"},
         r.e.retx \in {s.e.retx, "none"},
         r.e.sendPending => s.e.sendPending, r.e.lastAck => s.e.lastAck,
         r.e.delAck => s.e.delAck, r.e.timewait => s.e.timewait
  PROVE  Fresh(r, p) /\ Later(s.e, r.e)
<1>1. s.e \in Sockets /\ r.e \in Sockets /\ p.rxNext \in Nat
  BY DEF Fresh, Handled, Sockets
<1>2. Later(s.e, r.e)
  BY <1>1, SameIsLater
<1>3. Whole(r.e, p)
  BY <1>1 DEF Fresh, Whole, SameNumbers, DoneWriting, Received, Finished, OpeningStates
<1>4. Young(r.e) /\ r.e.state \in OpeningStates
  BY <1>1 DEF Fresh, Young, SameNumbers, OpeningStates
<1>5. Fits(r.e, p)
  BY <1>1 DEF Fresh, Fits, SameNumbers, AllSent
<1>6. \A m \in r.out : Meant(m, r.e, p.rxNext)
  BY <1>1, <1>2, LaterMeant DEF Fresh
<1> QED
  BY <1>2, <1>3, <1>4, <1>5, <1>6 DEF Fresh

LEMMA DropStaysFresh ==
  ASSUME NEW p \in Sockets, NEW s, Fresh(s, p), NEW g \in Sockets, SameNumbers(s.e, g),
         g.state \in {s.e.state, "CLOSED"}, g.retx = s.e.retx,
         g.sendPending = s.e.sendPending, g.lastAck => s.e.lastAck,
         g.delAck = s.e.delAck, g.timewait = s.e.timewait
  PROVE  LET r == [s EXCEPT !.e = DeallocateEndPoint(g)]
         IN /\ Fresh(r, p) /\ Later(s.e, r.e) /\ SameNumbers(s.e, r.e)
            /\ r.e.state = g.state /\ ~r.e.bound
<1> DEFINE d == DeallocateEndPoint(g)
           r == [s EXCEPT !.e = d]
<1>1. s \in Handled
  BY DEF Fresh
<1>2. d \in Sockets /\ SameNumbers(g, d) /\ d.state = g.state /\ ~d.bound
      /\ d.retx \in {g.retx, "none"}
  BY DeallocateIs
<1>3. (d.lastAck => g.lastAck) /\ (d.sendPending => g.sendPending)
      /\ (d.delAck => g.delAck) /\ (d.timewait => g.timewait)
  BY DeallocateIs
<1> HIDE DEF d
<1>4. r \in Handled /\ r.out = s.out /\ r.e = d
  BY <1>1, <1>2 DEF Handled
<1> HIDE DEF r
<1>5. SameNumbers(s.e, r.e)
  BY <1>2, <1>4 DEF SameNumbers
<1>6. Fresh(r, p) /\ Later(s.e, r.e)
  <2>1. r.e.state \in {s.e.state, "CLOSED"} /\ r.e.retx \in {s.e.retx, "none"}
    BY <1>2, <1>4
  <2>2. (r.e.lastAck => s.e.lastAck) /\ (r.e.sendPending => s.e.sendPending)
        /\ (r.e.delAck => s.e.delAck) /\ (r.e.timewait => s.e.timewait)
    BY <1>3, <1>4
  <2> QED
    BY <1>4, <1>5, <2>1, <2>2, SameStaysFresh
<1> QED
  BY <1>2, <1>4, <1>5, <1>6 DEF r, d

LEMMA CloseAndNotifyStaysFresh ==
  ASSUME NEW p \in Sockets, NEW s, Fresh(s, p)
  PROVE  LET r == CloseAndNotify(s)
         IN Fresh(r, p) /\ Later(s.e, r.e) /\ r.e.state = "CLOSED" /\ ~r.e.bound
<1> DEFINE g == [s.e EXCEPT !.closeNotified = TRUE, !.lastAck = FALSE, !.state = "CLOSED"]
<1>1. s.e \in Sockets
  BY DEF Fresh, Handled
<1>2. g \in Sockets /\ SameNumbers(s.e, g) /\ g.state = "CLOSED" /\ g.retx = s.e.retx
  BY <1>1, ZenonT(60) DEF Sockets, SameNumbers, States
<1>3. g.sendPending = s.e.sendPending /\ ~g.lastAck /\ g.delAck = s.e.delAck
      /\ g.timewait = s.e.timewait
  BY <1>1 DEF Sockets
<1>4. CloseAndNotify(s) = [s EXCEPT !.e = DeallocateEndPoint(g)]
  BY DEF CloseAndNotify
<1> HIDE DEF g
<1> QED
  BY <1>2, <1>3, <1>4, DropStaysFresh

LEMMA FreshIn ==
  ASSUME NEW p \in Sockets, NEW s, Fresh(s, p),
         NEW flags \in {{"SYN"}, {"SYN", "ACK"}, {"RST"}},
         flags = {"SYN", "ACK"} => s.e.rxNext = 1
  PROVE  Fresh(Emit(s, flags, 0, 0), p) /\ Emit(s, flags, 0, 0).e = s.e
<1> DEFINE m == [flags |-> flags, seq |-> 0, ack |-> s.e.rxNext, len |-> 0]
           r == Emit(s, flags, 0, 0)
<1>1. s \in Handled /\ s.e \in Sockets /\ s.e.rxNext \in Nat
  BY DEF Fresh, Handled, Sockets
<1>2. r = [s EXCEPT !.out = s.out \cup {m}]
  BY DEF Emit
<1>3. m \in Messages /\ m.flags = flags /\ m.seq = 0 /\ m.ack = s.e.rxNext /\ m.len = 0
  BY <1>1 DEF Messages, FlagSets
<1> HIDE DEF m, r
<1>4. r \in Handled /\ r.e = s.e /\ r.out = s.out \cup {m}
  BY <1>1, <1>2, <1>3 DEF Handled
<1>5. Meant(m, s.e, p.rxNext)
  BY <1>1, <1>3 DEF Meant
<1> QED
  BY <1>4, <1>5 DEF Fresh, r

\* A SYN, a SYN+ACK when the peer's SYN was received, or a reset
LEMMA SendSynStaysFresh ==
  ASSUME NEW p \in Sockets, NEW s, Fresh(s, p),
         NEW wanted \in {{"SYN"}, {"SYN", "ACK"}, {"RST"}},
         wanted = {"SYN", "ACK"} => s.e.rxNext = 1
  PROVE  LET r == SendEmptyPacket(s, wanted)
         IN /\ Fresh(r, p) /\ Later(s.e, r.e) /\ SameNumbers(s.e, r.e)
            /\ r.e.state \in {s.e.state, "CLOSED"}
            /\ r.e.state = s.e.state \/ ~r.e.bound
<1> DEFINE syn == "SYN" \in wanted
           acks == "ACK" \in wanted
           again == IF "FIN" \in wanted THEN "FIN" ELSE IF acks THEN "SYN+ACK" ELSE "SYN"
           tries == IF syn THEN s.e.synCount - 1 ELSE s.e.synCount
           due == s.e.delAck /\ ~acks
           count == IF acks THEN 0 ELSE s.e.delAckCount
           retx == IF s.e.retx = "none" /\ syn THEN again ELSE s.e.retx
           c == [s EXCEPT !.e.synCount = tries, !.e.delAck = due, !.e.delAckCount = count,
                          !.e.retx = retx]
           g == [s.e EXCEPT !.failed = TRUE, !.state = "CLOSED"]
<1>1. s \in Handled /\ s.e \in Sockets /\ Young(s.e)
  BY DEF Fresh, Handled
<1>2. CASE ~s.e.bound
  <2>1. SendEmptyPacket(s, wanted) = s
    BY <1>2 DEF SendEmptyPacket
  <2> QED
    BY <1>1, <1>2, <2>1, SameIsLater DEF SameNumbers
<1>3. CASE s.e.bound /\ syn /\ s.e.synCount = 0
  <2>1. SendEmptyPacket(s, wanted) = [s EXCEPT !.e = DeallocateEndPoint(g)]
    BY <1>3 DEF SendEmptyPacket
  <2>2. g \in Sockets /\ SameNumbers(s.e, g) /\ g.state = "CLOSED" /\ g.retx = s.e.retx
    BY <1>1 DEF Sockets, SameNumbers, States
  <2>3. g.sendPending = s.e.sendPending /\ g.lastAck = s.e.lastAck
        /\ g.delAck = s.e.delAck /\ g.timewait = s.e.timewait
    BY <1>1 DEF Sockets
  <2> HIDE DEF g
  <2> QED
    BY <2>1, <2>2, <2>3, DropStaysFresh
<1>4. CASE s.e.bound /\ ~(syn /\ s.e.synCount = 0)
  <2>1. s.e.nextTx = 0 /\ s.e.state \notin {"FIN_WAIT_1", "LAST_ACK", "CLOSING"}
        /\ "FIN" \notin wanted
    BY DEF Fresh, Young, OpeningStates
  <2>2. SendEmptyPacket(s, wanted) = Emit(c, wanted, 0, 0)
    BY <1>4, <2>1 DEF SendEmptyPacket
  <2>3. tries \in Int /\ due \in BOOLEAN /\ count \in Int /\ (due => s.e.delAck)
    BY <1>1 DEF Sockets
  <2>4. /\ retx \in {"none", "SYN", "SYN+ACK"}
        /\ retx = "SYN+ACK" => s.e.rxNext = 1
    BY <1>1 DEF Young
  <2> HIDE DEF tries, due, count, retx
  <2>5. c \in Handled /\ c.out = s.out
    <3> DEFINE d == [s.e EXCEPT !.synCount = tries, !.delAck = due, !.delAckCount = count,
                                !.retx = retx]
    <3>1. d \in Sockets
      <4>1. retx \in {"none", "SYN", "SYN+ACK", "FIN", "RTO"}
        BY <2>4
      <4> QED
        BY <1>1, <2>3, <4>1 DEF Sockets
    <3>2. c = [s EXCEPT !.e = d]
      BY <1>1 DEF Handled
    <3> HIDE DEF c, d
    <3> QED
      BY <1>1, <3>1, <3>2 DEF Handled
  <2>6. SameNumbers(s.e, c.e) /\ c.e.state = s.e.state /\ c.e.bound = s.e.bound
        /\ c.e.retx = retx
    BY <1>1 DEF Handled, Sockets, SameNumbers
  <2>7. c.e.sendPending = s.e.sendPending /\ c.e.lastAck = s.e.lastAck
        /\ c.e.delAck = due /\ c.e.timewait = s.e.timewait
    BY <1>1 DEF Handled, Sockets
  <2> HIDE DEF c
  <2>8. c.e \in Sockets /\ p.rxNext \in Nat
    BY <2>5 DEF Handled, Sockets
  <2>9. Later(s.e, c.e)
    BY <1>1, <2>6, <2>8, SameIsLater
  <2>10. Whole(c.e, p)
    BY <2>6, <2>8 DEF Fresh, Whole, SameNumbers, DoneWriting, Received, Finished
  <2>11. Young(c.e)
    BY <1>1, <2>3, <2>4, <2>6, <2>7 DEF Young, SameNumbers
  <2>12. Fits(c.e, p)
    BY <2>6 DEF Fresh, Fits, SameNumbers, AllSent
  <2>13. \A m \in c.out : Meant(m, c.e, p.rxNext)
    BY <1>1, <2>5, <2>8, <2>9, LaterMeant DEF Fresh
  <2>14. Fresh(c, p)
    BY <2>5, <2>6, <2>10, <2>11, <2>12, <2>13 DEF Fresh
  <2>15. Fresh(Emit(c, wanted, 0, 0), p) /\ Emit(c, wanted, 0, 0).e = c.e
    BY <2>6, <2>14, FreshIn DEF SameNumbers
  <2> QED
    BY <2>2, <2>6, <2>9, <2>15
<1> QED
  BY <1>1, <1>2, <1>3, <1>4 DEF Sockets

LEMMA RefuseStaysFresh ==
  ASSUME NEW p \in Sockets, NEW s, Fresh(s, p), NEW m
  PROVE  /\ LET r == CloseAndNotify(SendRST(s))
            IN Fresh(r, p) /\ Later(s.e, r.e) /\ r.e.state = "CLOSED" /\ ~r.e.bound
         /\ LET r == Refuse(s, m)
            IN Fresh(r, p) /\ Later(s.e, r.e) /\ r.e.state = "CLOSED" /\ ~r.e.bound
<1> DEFINE t == SendEmptyPacket(s, {"RST"})
           g == [t.e EXCEPT !.failed = TRUE]
           u == SendRST(s)
<1>1. Fresh(t, p) /\ Later(s.e, t.e)
  BY SendSynStaysFresh
<1>2. u = [t EXCEPT !.e = DeallocateEndPoint(g)]
  BY DEF SendRST
<1> HIDE DEF t, u
<1>3. s.e \in Sockets /\ t.e \in Sockets
  BY <1>1 DEF Fresh, Handled
<1>4. g \in Sockets /\ SameNumbers(t.e, g) /\ g.state = t.e.state /\ g.retx = t.e.retx
      /\ g.sendPending = t.e.sendPending /\ g.lastAck = t.e.lastAck
      /\ g.delAck = t.e.delAck /\ g.timewait = t.e.timewait
  BY <1>3 DEF Sockets, SameNumbers
<1> HIDE DEF g
<1>5. Fresh(u, p) /\ Later(t.e, u.e)
  BY <1>1, <1>2, <1>4, DropStaysFresh
<1>6. u.e \in Sockets
  BY <1>5 DEF Fresh, Handled
<1>7. Later(s.e, u.e)
  BY <1>1, <1>3, <1>5, <1>6, LaterLater
<1> DEFINE v == CloseAndNotify(u)
<1>8. Fresh(v, p) /\ Later(u.e, v.e) /\ v.e.state = "CLOSED" /\ ~v.e.bound
  BY <1>5, CloseAndNotifyStaysFresh
<1> HIDE DEF v
<1>9. Later(s.e, v.e)
  BY <1>3, <1>6, <1>7, <1>8, LaterLater DEF Fresh, Handled
<1>10. Refuse(s, m) \in {CloseAndNotify(s), CloseAndNotify(u)}
  BY DEF Refuse, u
<1> QED
  BY <1>8, <1>9, <1>10, CloseAndNotifyStaysFresh DEF u, v

(***************************************************************************)
(* The handshake                                                           *)
(***************************************************************************)
LEMMA EstablishIs ==
  ASSUME NEW e \in Sockets, Young(e)
  PROVE  LET f == Establish(e)
         IN /\ f \in Sockets
            /\ f.una = 1 /\ f.nextTx = 1 /\ f.highTx = 1 /\ f.retx = "none"
            /\ f.size = e.size /\ f.written = e.written /\ f.rxNext = e.rxNext
            /\ f.read = e.read /\ f.gotFin = e.gotFin /\ f.fin = e.fin
            /\ f.closeOnEmpty = e.closeOnEmpty /\ f.closeCalled = e.closeCalled
            /\ f.shutdownSend = e.shutdownSend /\ f.lastAck = e.lastAck
            /\ f.state = e.state /\ f.bound = e.bound
<1> DEFINE n == e.nextTx + 1
           f == Establish(e)
<1>1. n = 1
  BY DEF Young
<1>2. f = [e EXCEPT !.connected = TRUE, !.retx = "none", !.una = n, !.nextTx = n,
                    !.highTx = n]
  BY DEF Establish
<1> HIDE DEF n, f
<1>3. f \in Sockets
  BY <1>1, <1>2, ZenonT(60) DEF Sockets
<1>4. f.una = 1 /\ f.nextTx = 1 /\ f.highTx = 1 /\ f.retx = "none"
  BY <1>1, <1>2 DEF Sockets
<1>5. /\ f.size = e.size /\ f.written = e.written /\ f.rxNext = e.rxNext
      /\ f.read = e.read /\ f.gotFin = e.gotFin /\ f.fin = e.fin
      /\ f.closeOnEmpty = e.closeOnEmpty /\ f.closeCalled = e.closeCalled
      /\ f.shutdownSend = e.shutdownSend /\ f.lastAck = e.lastAck
      /\ f.state = e.state /\ f.bound = e.bound
  BY <1>2 DEF Sockets
<1> QED
  BY <1>3, <1>4, <1>5 DEF f

\* The sequence numbers start at 1, and nothing that was said before is taken back.
LEMMA OpenKeeps ==
  ASSUME NEW p \in Sockets, NEW s, Fresh(s, p), p.rxNext >= 1, NEW r \in Handled,
         r.out = s.out, r.e.una = 1, r.e.nextTx = 1, r.e.highTx = 1, r.e.retx = "none",
         r.e.rxNext = 1, r.e.size = s.e.size, r.e.written = s.e.written,
         r.e.read = s.e.read, r.e.gotFin = s.e.gotFin, r.e.fin = s.e.fin,
         r.e.closeOnEmpty = s.e.closeOnEmpty, r.e.closeCalled = s.e.closeCalled,
         r.e.shutdownSend = s.e.shutdownSend, r.e.lastAck = s.e.lastAck,
         r.e.state \in {"ESTABLISHED", "SYN_RCVD"},
         r.e.state = "SYN_RCVD" => s.e.state = "SYN_RCVD"
  PROVE  Active(r, p) /\ Later(s.e, r.e)
<1>1. s.e \in Sockets /\ r.e \in Sockets /\ p.rxNext \in Nat /\ Young(s.e)
  BY DEF Fresh, Handled, Sockets
<1>2. Later(s.e, r.e)
  BY <1>1 DEF Later, Young, DoneWriting, Finished, Sockets
<1>3. Whole(r.e, p)
  BY <1>1 DEF Fresh, Whole, Young, DoneWriting, Received, Finished
<1>4. Grown(r.e, p.rxNext)
  BY <1>1 DEF Young, Grown, AllSent, FinFollowsData, ClosingStates, Sockets
<1>5. Fits(r.e, p)
  BY <1>1 DEF Fresh, Fits, Young, AllSent, Sockets
<1>6. \A m \in r.out : Meant(m, r.e, p.rxNext)
  BY <1>1, <1>2, LaterMeant DEF Fresh
<1> QED
  BY <1>2, <1>3, <1>4, <1>5, <1>6 DEF Active

\* The listening socket forks: the peer's SYN has been received.
LEMMA ProcessListenStaysFresh ==
  ASSUME NEW p \in Sockets, NEW s, Fresh(s, p), s.e.state = "LISTEN", NEW h,
         NEW m, Meant(m, p, h)
  PROVE  LET r == ProcessListen(s, m) IN Fresh(r, p) /\ Later(s.e, r.e)
<1> DEFINE next == m.seq + 1
           w == [s EXCEPT !.e.state = "SYN_RCVD", !.e.rxNext = next]
<1>1. s \in Handled /\ s.e \in Sockets /\ Young(s.e) /\ p.rxNext \in Nat
  BY DEF Fresh, Handled, Sockets
<1>2. CASE m.flags = {"SYN"}
  <2>1. next = 1
    BY <1>2 DEF Meant
  <2>2. ProcessListen(s, m) = SendEmptyPacket(w, {"SYN", "ACK"})
    BY <1>2 DEF ProcessListen
  <2> HIDE DEF next
  <2>3. w \in Handled /\ w.out = s.out
    BY <1>1, <2>1 DEF Handled, Sockets, States
  <2>4. /\ w.e.una = s.e.una /\ w.e.nextTx = s.e.nextTx /\ w.e.highTx = s.e.highTx
        /\ w.e.size = s.e.size /\ w.e.written = s.e.written /\ w.e.rxNext = 1
        /\ w.e.read = s.e.read /\ w.e.gotFin = s.e.gotFin /\ w.e.fin = s.e.fin
        /\ w.e.closeOnEmpty = s.e.closeOnEmpty
    BY <1>1, <2>1 DEF Handled, Sockets
  <2>5. /\ w.e.closeCalled = s.e.closeCalled /\ w.e.shutdownSend = s.e.shutdownSend
        /\ w.e.state = "SYN_RCVD" /\ w.e.retx = s.e.retx /\ w.e.lastAck = s.e.lastAck
        /\ w.e.sendPending = s.e.sendPending /\ w.e.delAck = s.e.delAck
        /\ w.e.timewait = s.e.timewait
    BY <1>1 DEF Handled, Sockets
  <2> HIDE DEF w
  <2>6. w.e \in Sockets
    BY <2>3 DEF Handled
  <2>7. Later(s.e, w.e)
    BY <1>1, <2>4, <2>5 DEF Later, Young, DoneWriting, Finished
  <2>8. Whole(w.e, p)
    BY <1>1, <2>4, <2>5, <2>6 DEF Fresh, Whole, Young, DoneWriting, Received, Finished
  <2>9. Young(w.e) /\ w.e.state \in OpeningStates
    BY <1>1, <2>4, <2>5 DEF Young, OpeningStates
  <2>10. Fits(w.e, p)
    BY <2>4 DEF Fresh, Fits, AllSent
  <2>11. \A k \in w.out : Meant(k, w.e, p.rxNext)
    BY <1>1, <2>3, <2>6, <2>7, LaterMeant DEF Fresh
  <2>12. Fresh(w, p)
    BY <2>3, <2>8, <2>9, <2>10, <2>11 DEF Fresh
  <2> DEFINE t == SendEmptyPacket(w, {"SYN", "ACK"})
  <2>13. Fresh(t, p) /\ Later(w.e, t.e)
    BY <2>4, <2>12, SendSynStaysFresh
  <2> HIDE DEF t
  <2>14. Later(s.e, t.e)
    BY <1>1, <2>6, <2>7, <2>13, LaterLater DEF Fresh, Handled
  <2> QED
    BY <2>2, <2>13, <2>14 DEF t
<1>3. CASE m.flags # {"SYN"}
  BY <1>1, <1>3, SameIsLater DEF ProcessListen, SameNumbers
<1> QED
  BY <1>2, <1>3

\* A handler may end here.
Rests(r, p) == Fresh(r, p) \/ (Active(r, p) /\ r.e.state # "SYN_RCVD")

\* The numbers of a connection that opens; what was written is not sent yet.
Opened(e, f) == /\ f.una = 1 /\ f.highTx = 1 /\ f.retx = "none" /\ f.size = e.size
                /\ f.written = e.written /\ f.read = e.read /\ f.bound = e.bound
                /\ f.closeCalled = e.closeCalled /\ f.closeOnEmpty = e.closeOnEmpty

\* What the SYN+ACK makes of the socket that asked for the connection
LEMMA SynSentOpens ==
  ASSUME NEW p \in Sockets, NEW s, Fresh(s, p), s.e.state = "SYN_SENT",
         NEW m, Meant(m, p, s.e.rxNext), m.flags = {"SYN", "ACK"}
  PROVE  LET open == [s EXCEPT !.e = [Establish(@) EXCEPT !.state = "ESTABLISHED",
                                                          !.rxNext = m.seq + 1]]
         IN /\ Active(open, p) /\ Later(s.e, open.e)
            /\ open.e.state = "ESTABLISHED" /\ Opened(s.e, open.e)
<1> DEFINE next == m.seq + 1
           f == Establish(s.e)
           g == [f EXCEPT !.state = "ESTABLISHED", !.rxNext = next]
           open == [s EXCEPT !.e = [Establish(@) EXCEPT !.state = "ESTABLISHED",
                                                        !.rxNext = m.seq + 1]]
<1>1. s \in Handled /\ s.e \in Sockets /\ Young(s.e) /\ p.rxNext \in Nat
  BY DEF Fresh, Handled, Sockets
<1>2. next = 1 /\ p.rxNext >= 1
  BY <1>1 DEF Meant, Messages
<1>3. open = [s EXCEPT !.e = g]
  BY <1>1 DEF Handled
<1> HIDE DEF next, open
<1>4. /\ f \in Sockets
      /\ f.una = 1 /\ f.nextTx = 1 /\ f.highTx = 1 /\ f.retx = "none"
      /\ f.size = s.e.size /\ f.written = s.e.written
      /\ f.read = s.e.read /\ f.gotFin = s.e.gotFin /\ f.fin = s.e.fin
      /\ f.closeOnEmpty = s.e.closeOnEmpty /\ f.closeCalled = s.e.closeCalled
      /\ f.shutdownSend = s.e.shutdownSend /\ f.lastAck = s.e.lastAck
      /\ f.bound = s.e.bound
  BY <1>1, EstablishIs
<1> HIDE DEF f
<1>5. g \in Sockets /\ g.rxNext = 1 /\ g.state = "ESTABLISHED"
  BY <1>2, <1>4, ZenonT(60) DEF Sockets, States
<1>6. /\ g.una = f.una /\ g.nextTx = f.nextTx /\ g.highTx = f.highTx /\ g.retx = f.retx
      /\ g.size = f.size /\ g.written = f.written
      /\ g.read = f.read /\ g.gotFin = f.gotFin /\ g.fin = f.fin
      /\ g.closeOnEmpty = f.closeOnEmpty /\ g.closeCalled = f.closeCalled
      /\ g.shutdownSend = f.shutdownSend /\ g.lastAck = f.lastAck /\ g.bound = f.bound
  BY <1>4 DEF Sockets
<1> HIDE DEF g
<1>7. open \in Handled /\ open.out = s.out /\ open.e = g
  BY <1>1, <1>3, <1>5 DEF Handled
<1>8. Active(open, p) /\ Later(s.e, open.e)
  BY <1>2, <1>4, <1>5, <1>6, <1>7, OpenKeeps
<1>9. Opened(s.e, open.e)
  BY <1>4, <1>6, <1>7 DEF Opened
<1> QED
  BY <1>5, <1>7, <1>8, <1>9 DEF open

\* What the ACK of its SYN+ACK, or a FIN that comes first, makes of a forked socket
LEMMA SynRcvdOpens ==
  ASSUME NEW p \in Sockets, NEW s, Fresh(s, p), s.e.state = "SYN_RCVD", p.rxNext >= 1
  PROVE  LET half == [s EXCEPT !.e = Establish(@)]
             open == [s EXCEPT !.e = [Establish(@) EXCEPT !.state = "ESTABLISHED",
                                                          !.delAckCount = DelAckMaxCount]]
         IN /\ Active(half, p) /\ Later(s.e, half.e) /\ half.e.state = "SYN_RCVD"
            /\ Opened(s.e, half.e) /\ half.e.rxNext = 1 /\ ~half.e.gotFin
            /\ Active(open, p) /\ Later(s.e, open.e) /\ open.e.state = "ESTABLISHED"
            /\ Opened(s.e, open.e) /\ open.e.rxNext = 1
<1> DEFINE f == Establish(s.e)
           g == [f EXCEPT !.state = "ESTABLISHED", !.delAckCount = DelAckMaxCount]
           half == [s EXCEPT !.e = Establish(@)]
           open == [s EXCEPT !.e = [Establish(@) EXCEPT !.state = "ESTABLISHED",
                                                        !.delAckCount = DelAckMaxCount]]
<1>1. s \in Handled /\ s.e \in Sockets /\ Young(s.e) /\ p.rxNext \in Nat
  BY DEF Fresh, Handled, Sockets
<1>2. s.e.rxNext = 1 /\ ~s.e.gotFin /\ DelAckMaxCount \in Int
  BY <1>1, ConnectionAssumption DEF Young, ConnectionAssumption
<1>3. /\ f \in Sockets
      /\ f.una = 1 /\ f.nextTx = 1 /\ f.highTx = 1 /\ f.retx = "none"
      /\ f.size = s.e.size /\ f.written = s.e.written /\ f.rxNext = 1
      /\ f.read = s.e.read /\ f.gotFin = s.e.gotFin /\ f.fin = s.e.fin
      /\ f.closeOnEmpty = s.e.closeOnEmpty /\ f.closeCalled = s.e.closeCalled
      /\ f.shutdownSend = s.e.shutdownSend /\ f.lastAck = s.e.lastAck
      /\ f.state = "SYN_RCVD" /\ f.bound = s.e.bound
  BY <1>1, <1>2, EstablishIs
<1>4. open = [s EXCEPT !.e = g] /\ half = [s EXCEPT !.e = f]
  BY <1>1 DEF Handled
<1> HIDE DEF f, half, open
<1>5. g \in Sockets /\ g.state = "ESTABLISHED"
  BY <1>2, <1>3 DEF Sockets, States
<1>6. /\ g.una = f.una /\ g.nextTx = f.nextTx /\ g.highTx = f.highTx /\ g.retx = f.retx
      /\ g.size = f.size /\ g.written = f.written /\ g.rxNext = f.rxNext
      /\ g.read = f.read /\ g.gotFin = f.gotFin /\ g.fin = f.fin
      /\ g.closeOnEmpty = f.closeOnEmpty /\ g.closeCalled = f.closeCalled
      /\ g.shutdownSend = f.shutdownSend /\ g.lastAck = f.lastAck /\ g.bound = f.bound
  BY <1>3 DEF Sockets
<1> HIDE DEF g
<1>7. /\ half \in Handled /\ half.out = s.out /\ half.e = f
      /\ open \in Handled /\ open.out = s.out /\ open.e = g
  BY <1>1, <1>3, <1>4, <1>5 DEF Handled
<1>8. Active(half, p) /\ Later(s.e, half.e)
  BY <1>3, <1>7, OpenKeeps
<1>9. Active(open, p) /\ Later(s.e, open.e)
  BY <1>3, <1>5, <1>6, <1>7, OpenKeeps
<1>10. Opened(s.e, half.e) /\ Opened(s.e, open.e)
  BY <1>3, <1>6, <1>7 DEF Opened
<1> QED
  BY <1>2, <1>3, <1>5, <1>6, <1>7, <1>8, <1>9, <1>10 DEF half, open

LEMMA ProcessSynSentRests ==
  ASSUME NEW p \in Sockets, NEW s, Fresh(s, p), s.e.state = "SYN_SENT",
         NEW m, Meant(m, p, s.e.rxNext)
  PROVE  LET r == ProcessSynSent(s, m) IN Rests(r, p) /\ Later(s.e, r.e)
<1> DEFINE open == [s EXCEPT !.e = [Establish(@) EXCEPT !.state = "ESTABLISHED",
                                                        !.rxNext = m.seq + 1]]
           t == SendEmptyPacket(open, {"ACK"})
           u == SendPendingData(t)
           r == [u EXCEPT !.e.delAckCount = DelAckMaxCount]
<1>1. s \in Handled /\ s.e \in Sockets /\ Young(s.e) /\ p.rxNext \in Nat
      /\ m.flags \in FlagSets
  BY DEF Fresh, Handled, Sockets, Meant, Messages
<1>2. CASE m.flags = {"SYN", "ACK"}
  <2>1. ProcessSynSent(s, m) = r
    BY <1>2 DEF ProcessSynSent
  <2>2. Active(open, p) /\ Later(s.e, open.e) /\ open.e.state = "ESTABLISHED"
    BY <1>2, SynSentOpens
  <2> HIDE DEF open
  <2>3. Active(t, p) /\ Later(open.e, t.e)
    BY <2>2, SendEmptyKeeps
  <2> HIDE DEF t
  <2>4. Active(u, p) /\ Later(t.e, u.e)
    BY <2>3, SendPendingKeeps
  <2> HIDE DEF u
  <2>5. t.e \in Sockets /\ u.e \in Sockets /\ u \in Handled /\ open.e \in Sockets
    BY <2>2, <2>3, <2>4 DEF Active, Handled
  <2>6. Later(s.e, u.e) /\ Later(open.e, u.e)
    BY <1>1, <2>2, <2>3, <2>4, <2>5, LaterLater
  <2>7. u.e.state # "SYN_RCVD"
    BY <2>2, <2>6 DEF Later
  <2>8. r \in Handled /\ r.out = u.out
    <3>1. DelAckMaxCount \in Int
      BY ConnectionAssumption DEF ConnectionAssumption
    <3> QED
      BY <2>5, <3>1 DEF Handled, Sockets
  <2>9. SameNumbers(u.e, r.e) /\ r.e.state = u.e.state /\ r.e.bound = u.e.bound
         /\ r.e.retx = u.e.retx /\ r.e.lastAck = u.e.lastAck
    BY <2>5 DEF Handled, Sockets, SameNumbers
  <2> HIDE DEF r
  <2>10. FinFollowsData(r.e)
    BY <2>4, <2>9 DEF Active, Grown, FinFollowsData, SameNumbers, DoneWriting, AllSent
  <2>11. Active(r, p) /\ Later(u.e, r.e)
    BY <2>4, <2>8, <2>9, <2>10, SameKeeps DEF Active, Whole, Grown
  <2>12. Later(s.e, r.e)
    BY <1>1, <2>5, <2>6, <2>11, LaterLater DEF Active, Handled
  <2> QED
    BY <2>1, <2>7, <2>9, <2>11, <2>12 DEF Rests
<1>3. CASE m.flags \in {{"ACK"}, {"FIN", "ACK"}, {"RST", "ACK"}}
  <2>1. ProcessSynSent(s, m) = s
    BY <1>3 DEF ProcessSynSent
  <2> QED
    BY <1>1, <2>1, SameIsLater DEF SameNumbers, Rests
<1>4. CASE m.flags \in {{"SYN"}, {"RST"}}
  <2>1. ProcessSynSent(s, m) = Refuse(s, m)
    BY <1>4 DEF ProcessSynSent
  <2> QED
    BY <2>1, RefuseStaysFresh DEF Rests
<1> QED
  BY <1>1, <1>2, <1>3, <1>4 DEF FlagSets

LEMMA ProcessSynRcvdRests ==
  ASSUME NEW p \in Sockets, NEW s, Fresh(s, p), s.e.state = "SYN_RCVD",
         NEW m, Meant(m, p, s.e.rxNext)
  PROVE  LET r == ProcessSynRcvd(s, m) IN Rests(r, p) /\ Later(s.e, r.e)
<1> DEFINE open == [s EXCEPT !.e = [Establish(@) EXCEPT !.state = "ESTABLISHED",
                                                        !.delAckCount = DelAckMaxCount]]
           half == [s EXCEPT !.e = Establish(@)]
           w == [s EXCEPT !.e.rxNext = m.seq + 1]
<1>1. s \in Handled /\ s.e \in Sockets /\ Young(s.e) /\ p.rxNext \in Nat
      /\ m \in Messages /\ m.flags \in FlagSets
  BY DEF Fresh, Handled, Sockets, Meant, Messages
<1>2. s.e.rxNext = 1 /\ s.e.nextTx = 0 /\ ~s.e.gotFin
  BY <1>1 DEF Young
<1>3. p.rxNext >= 1 =>
        /\ Active(half, p) /\ Later(s.e, half.e) /\ half.e.rxNext = 1 /\ ~half.e.gotFin
        /\ Active(open, p) /\ Later(s.e, open.e) /\ open.e.rxNext = 1
        /\ open.e.state = "ESTABLISHED"
  BY SynRcvdOpens
<1>4. CASE m.flags = {"ACK"} /\ m.ack = s.e.nextTx + 1
  <2>1. p.rxNext >= 1
    BY <1>1, <1>2, <1>4 DEF Meant, Messages
  <2>2. ProcessSynRcvd(s, m) = ReceivedAck(open, m)
    BY <1>1, <1>4 DEF ProcessSynRcvd
  <2> HIDE DEF open
  <2>3. Meant(m, p, 1) /\ m.flags \notin {{"RST"}, {"RST", "ACK"}} /\ 1 <= open.e.rxNext
    BY <1>2, <1>3, <1>4, <2>1
  <2> DEFINE r == ReceivedAck(open, m)
  <2>4. Active(r, p) /\ Later(open.e, r.e)
    BY <1>3, <2>1, <2>3, ReceivedAckKeeps
  <2> HIDE DEF r
  <2>5. r.e.state # "SYN_RCVD"
    BY <1>3, <2>1, <2>4 DEF Later
  <2>6. Later(s.e, r.e)
    BY <1>1, <1>3, <2>1, <2>4, LaterLater DEF Active, Handled
  <2> QED
    BY <2>2, <2>4, <2>5, <2>6 DEF Rests, r
<1>5. CASE m.flags = {"SYN"}
  <2>1. m.seq + 1 = 1
    BY <1>5 DEF Meant
  <2>2. w \in Handled /\ w.out = s.out
    BY <1>1, <2>1 DEF Handled, Sockets
  <2>3. SameNumbers(s.e, w.e) /\ w.e.state = s.e.state /\ w.e.retx = s.e.retx
    BY <1>1, <1>2, <2>1 DEF Handled, Sockets, SameNumbers
  <2>4. w.e.sendPending = s.e.sendPending /\ w.e.lastAck = s.e.lastAck
        /\ w.e.delAck = s.e.delAck /\ w.e.timewait = s.e.timewait
    BY <1>1 DEF Handled, Sockets
  <2> HIDE DEF w
  <2>5. Fresh(w, p) /\ Later(s.e, w.e) /\ w.e.rxNext = 1
    BY <1>2, <2>2, <2>3, <2>4, SameStaysFresh DEF SameNumbers
  <2> DEFINE t == SendEmptyPacket(w, {"SYN", "ACK"})
  <2>6. Fresh(t, p) /\ Later(w.e, t.e)
    BY <2>5, SendSynStaysFresh
  <2>7. ProcessSynRcvd(s, m) = t
    BY <1>5 DEF ProcessSynRcvd, w
  <2> HIDE DEF t
  <2>8. Later(s.e, t.e)
    BY <1>1, <2>2, <2>5, <2>6, LaterLater DEF Fresh, Handled
  <2> QED
    BY <2>6, <2>7, <2>8 DEF Rests
<1>6. CASE m.flags = {"FIN", "ACK"} /\ m.seq = s.e.rxNext
  <2>1. p.rxNext >= 1
    BY <1>1, <1>6 DEF Meant, Messages
  <2>2. ProcessSynRcvd(s, m) = PeerClose(half, m)
    BY <1>6 DEF ProcessSynRcvd
  <2> HIDE DEF half
  <2>3. Meant(m, p, 1) /\ 1 <= half.e.rxNext /\ m.seq = half.e.rxNext /\ ~half.e.gotFin
    BY <1>2, <1>3, <1>6, <2>1
  <2> DEFINE r == PeerClose(half, m)
  <2>4. Active(r, p) /\ Later(half.e, r.e) /\ r.e.state # "SYN_RCVD"
    BY <1>3, <1>6, <2>1, <2>3, PeerCloseKeeps
  <2> HIDE DEF r
  <2>5. Later(s.e, r.e)
    BY <1>1, <1>3, <2>1, <2>4, LaterLater DEF Active, Handled
  <2> QED
    BY <2>2, <2>4, <2>5 DEF Rests, r
<1>7. CASE m.flags = {"FIN", "ACK"} /\ m.seq # s.e.rxNext
  <2>1. ProcessSynRcvd(s, m) = s
    BY <1>7 DEF ProcessSynRcvd
  <2> QED
    BY <1>1, <2>1, SameIsLater DEF SameNumbers, Rests
<1>8. CASE /\ ~(m.flags = {"ACK"} /\ m.ack = s.e.nextTx + 1)
           /\ m.flags \notin {{"SYN"}, {"FIN", "ACK"}}
  <2>1. ProcessSynRcvd(s, m) = Refuse(s, m)
    BY <1>8 DEF ProcessSynRcvd
  <2> QED
    BY <2>1, RefuseStaysFresh DEF Rests
<1> QED
  BY <1>4, <1>5, <1>6, <1>7, <1>8

\* The host's reset says nothing that could be wrong.
LEMMA NoEndPointsIs ==
  ASSUME NEW s \in Handled, NEW x \in Ends, NEW m \in Messages, NEW h \in Nat
  PROVE  LET r == NoEndPointsFound(s, x, m)
         IN r \in Handled /\ r.e = s.e /\ \A k \in r.out \ s.out : Meant(k, s.e, h)
<1> DEFINE k == IF "ACK" \in m.flags
                THEN [flags |-> {"RST"}, seq |-> m.ack, ack |-> 0, len |-> 0]
                ELSE [flags |-> {"RST", "ACK"}, seq |-> 0, ack |-> m.seq + 1, len |-> 0]
           r == NoEndPointsFound(s, x, m)
<1>1. /\ k \in Messages /\ k.flags \in {{"RST"}, {"RST", "ACK"}} /\ k.len = 0
  BY DEF Messages, FlagSets
<1>2. r = s \/ r = [s EXCEPT !.out = s.out \cup {k}]
  BY DEF NoEndPointsFound
<1> HIDE DEF k, r
<1>3. Meant(k, s.e, h)
  BY <1>1 DEF Meant
<1>4. r \in Handled /\ r.e = s.e /\ r.out \in {s.out, s.out \cup {k}}
  BY <1>1, <1>2 DEF Handled
<1> QED
  BY <1>3, <1>4 DEF r

LEMMA FreshForwardRests ==
  ASSUME NEW p \in Sockets, NEW s, Fresh(s, p), NEW x \in Ends,
         NEW m, Meant(m, p, s.e.rxNext)
  PROVE  LET r == ForwardUp(s, x, m) IN Rests(r, p) /\ Later(s.e, r.e)
<1>1. s \in Handled /\ s.e \in Sockets /\ Young(s.e) /\ p.rxNext \in Nat /\ m \in Messages
      /\ s.e.rxNext \in Nat /\ s.e.state \in OpeningStates
  BY DEF Fresh, Handled, Sockets, Meant, Messages
<1>2. Later(s.e, s.e)
  BY <1>1, SameIsLater DEF SameNumbers
<1>3. CASE ~s.e.bound
  <2> DEFINE r == NoEndPointsFound(s, x, m)
  <2>1. r \in Handled /\ r.e = s.e /\ \A k \in r.out \ s.out : Meant(k, s.e, p.rxNext)
    BY <1>1, NoEndPointsIs
  <2>2. ForwardUp(s, x, m) = r
    BY <1>3 DEF ForwardUp
  <2> HIDE DEF r
  <2>3. Fresh(r, p)
    BY <2>1 DEF Fresh
  <2> QED
    BY <1>2, <2>1, <2>2, <2>3 DEF Rests
<1>4. CASE s.e.bound
  <2>1. ~OutOfRange(s.e, m)
    <3>1. m.seq \in Nat /\ m.len \in {0, 1} /\ (m.len = 1 => m.seq = 1)
      BY <1>1 DEF Meant, Messages
    <3> QED
      BY <1>1, <3>1 DEF OutOfRange, Young, OpeningStates
  <2>2. CASE s.e.state = "CLOSED"
    <3>1. ForwardUp(s, x, m) = s
      BY <1>4, <2>1, <2>2 DEF ForwardUp
    <3> QED
      BY <1>2, <3>1 DEF Rests
  <2>3. CASE s.e.state = "LISTEN"
    <3>1. ForwardUp(s, x, m) = ProcessListen(s, m)
      BY <1>4, <2>1, <2>3 DEF ForwardUp
    <3> QED
      BY <2>3, <3>1, ProcessListenStaysFresh DEF Rests
  <2>4. CASE s.e.state = "SYN_SENT"
    <3>1. ForwardUp(s, x, m) = ProcessSynSent(s, m)
      BY <1>4, <2>1, <2>4 DEF ForwardUp
    <3> QED
      BY <2>4, <3>1, ProcessSynSentRests
  <2>5. CASE s.e.state = "SYN_RCVD"
    <3>1. ForwardUp(s, x, m) = ProcessSynRcvd(s, m)
      BY <1>4, <2>1, <2>5 DEF ForwardUp
    <3> QED
      BY <2>5, <3>1, ProcessSynRcvdRests
  <2> QED
    BY <1>1, <2>2, <2>3, <2>4, <2>5 DEF OpeningStates
<1> QED
  BY <1>1, <1>3, <1>4 DEF Sockets

LEMMA ActiveForwardRests ==
  ASSUME NEW p \in Sockets, NEW s, Active(s, p), s.e.state # "SYN_RCVD", NEW x \in Ends,
         NEW m, Meant(m, p, s.e.rxNext)
  PROVE  LET r == ForwardUp(s, x, m)
         IN /\ Rests(r, p) /\ Later(s.e, r.e)
            /\ Active(r, p) /\ r.e.state # "SYN_RCVD"
<1> DEFINE r == ForwardUp(s, x, m)
<1>1. s \in Handled /\ s.e \in Sockets /\ p.rxNext \in Nat /\ m \in Messages
      /\ s.e.rxNext \in Nat /\ s.e.rxNext <= s.e.rxNext
  BY DEF Active, Handled, Sockets, Meant, Messages
<1>2. Later(s.e, s.e)
  BY <1>1, SameIsLater DEF SameNumbers
<1>3. Active(r, p) /\ Later(s.e, r.e)
  <2>1. CASE ~s.e.bound
    <3> DEFINE n == NoEndPointsFound(s, x, m)
    <3>1. n \in Handled /\ n.e = s.e /\ \A k \in n.out \ s.out : Meant(k, s.e, p.rxNext)
      BY <1>1, NoEndPointsIs
    <3>2. r = n
      BY <2>1 DEF ForwardUp
    <3> HIDE DEF n, r
    <3>3. Active(n, p)
      BY <3>1 DEF Active
    <3> QED
      BY <1>2, <3>1, <3>2, <3>3
  <2>2. CASE s.e.bound /\ OutOfRange(s.e, m)
    <3>1. r = SendEmptyPacket(s, {"ACK"})
      BY <2>2 DEF ForwardUp
    <3> QED
      BY <3>1, SendEmptyKeeps
  <2>3. CASE s.e.bound /\ ~OutOfRange(s.e, m)
    <3>1. CASE s.e.state = "ESTABLISHED"
      <4>1. r = ProcessEstablished(s, m)
        BY <2>3, <3>1 DEF ForwardUp
      <4> QED
        BY <1>1, <4>1, ProcessEstablishedKeeps
    <3>2. CASE s.e.state \in {"FIN_WAIT_1", "FIN_WAIT_2", "CLOSE_WAIT"}
      <4>1. r = ProcessWait(s, m)
        BY <2>3, <3>2 DEF ForwardUp
      <4> QED
        BY <1>1, <4>1, ProcessWaitKeeps
    <3>3. CASE s.e.state = "CLOSING"
      <4>1. r = ProcessClosing(s, m)
        BY <2>3, <3>3 DEF ForwardUp
      <4> QED
        BY <3>3, <4>1, ProcessClosingKeeps
    <3>4. CASE s.e.state = "LAST_ACK"
      <4>1. r = ProcessLastAck(s, m)
        BY <2>3, <3>4 DEF ForwardUp
      <4> QED
        BY <4>1, ProcessLastAckKeeps
    <3>5. CASE s.e.state \in {"CLOSED", "TIME_WAIT"}
      <4>1. r = s
        BY <2>3, <3>5 DEF ForwardUp
      <4> QED
        BY <1>2, <4>1
    <3>6. s.e.state \in States \ {"LISTEN", "SYN_SENT", "SYN_RCVD"}
      BY <1>1 DEF Active, Sockets
    <3> QED
      BY <3>1, <3>2, <3>3, <3>4, <3>5, <3>6 DEF States
  <2> QED
    BY <1>1, <2>1, <2>2, <2>3 DEF Sockets
<1> HIDE DEF r
<1>4. r.e.state # "SYN_RCVD"
  BY <1>3 DEF Active, Later
<1> QED
  BY <1>3, <1>4 DEF Rests, r

(***************************************************************************)
(* After the FIN                                                           *)
(***************************************************************************)
\* Without data from the peer an end that has sent its FIN stays here.
Shut(e) == e.state \in ClosingStates \cup {"CLOSED"}

StaysShut(x) == end[x].state \in ClosingStates => Shut(end'[x])

LEMMA ReceivedAckStaysShut ==
  ASSUME NEW p \in Sockets, NEW s, Active(s, p), Shut(s.e),
         NEW m, m.len = 0, m.ack \in Nat, m.ack <= p.rxNext
  PROVE  Shut(ReceivedAck(s, m).e)
<1> DEFINE a == [s EXCEPT !.e = ProcessAck(@, m.ack)]
<1>1. Active(a, p) /\ a.e.state = s.e.state
  BY ProcessAckKeeps
<1>2. ReceivedAck(s, m) = SendPendingData(a)
  BY DEF ReceivedAck
<1> HIDE DEF a
<1> QED
  BY <1>1, <1>2, SendPendingKeeps DEF Shut, ClosingStates

LEMMA InOrderFinStaysShut ==
  ASSUME NEW p \in Sockets, NEW s, Active(s, p), Shut(s.e), NEW m
  PROVE  Shut(InOrderFin(s, m).e)
<1> DEFINE acked == s.e.size = 0 /\ m.ack = s.e.highTx + 1
           c == [s EXCEPT !.e.state = "CLOSING"]
           next == IF s.e.state = "FIN_WAIT_2" THEN TimeWait(s)
                   ELSE IF acked THEN TimeWait(c) ELSE c
           inOrder == s.e.state \in {"FIN_WAIT_1", "FIN_WAIT_2"} /\ Finished(s.e)
<1>1. InOrderFin(s, m) = IF inOrder THEN SendEmptyPacket(next, {"ACK"}) ELSE s
  BY DEF InOrderFin
<1>2. CASE inOrder
  <2>1. s.e.state \in ClosingStates
    BY <1>2 DEF ClosingStates
  <2>2. DoneWriting(s.e) /\ AllSent(s.e) /\ s.e.nextTx >= 1 + s.e.written
    BY <2>1 DEF Active, Grown, FinFollowsData
  <2>3. "CLOSING" \in States \ {"LISTEN", "SYN_SENT", "SYN_RCVD", "CLOSED"}
    BY DEF States
  <2>4. Active(c, p) /\ c.e.state = "CLOSING"
    BY <2>2, <2>3, StateKeeps
  <2> HIDE DEF c
  <2>5. /\ Active(TimeWait(c), p) /\ TimeWait(c).e.state = "TIME_WAIT"
        /\ Active(TimeWait(s), p) /\ TimeWait(s).e.state = "TIME_WAIT"
    BY <2>1, <2>4, TimeWaitKeeps DEF ClosingStates
  <2>6. Active(next, p) /\ next.e.state \in {"TIME_WAIT", "CLOSING"}
    BY <2>4, <2>5
  <2> HIDE DEF next
  <2>7. SendEmptyPacket(next, {"ACK"}).e.state = next.e.state
    BY <2>6, SendEmptyKeeps
  <2> QED
    BY <1>1, <1>2, <2>6, <2>7 DEF Shut, ClosingStates
<1>3. CASE ~inOrder
  BY <1>1, <1>3
<1> QED
  BY <1>2, <1>3

LEMMA ProcessWaitStaysShut ==
  ASSUME NEW p \in Sockets, NEW s, Active(s, p), Shut(s.e),
         NEW m, Meant(m, p, s.e.rxNext), m.len = 0
  PROVE  Shut(ProcessWait(s, m).e)
<1> DEFINE r == ReceivedAck(s, m)
           finAcked == r.e.state = "FIN_WAIT_1" /\ r.e.size = 0 /\ m.ack = r.e.highTx + 1
           w == IF finAcked THEN [r EXCEPT !.e.state = "FIN_WAIT_2"] ELSE r
           f == [r EXCEPT !.e = SetFinSequence(@, m.seq)]
<1>1. s.e \in Sockets /\ m.flags \in FlagSets /\ m \in Messages /\ s.e.rxNext \in Nat
      /\ s.e.rxNext <= s.e.rxNext
  BY DEF Active, Handled, Meant, Messages, Sockets
<1>2. CASE m.flags \in {{"ACK"}, {"FIN", "ACK"}}
  <2>1. m.flags \notin {{"RST"}, {"RST", "ACK"}}
    BY <1>2
  <2>2. m.ack <= p.rxNext /\ m.ack \in Nat
    BY <1>1, <2>1 DEF Meant, Messages
  <2>3. Active(r, p) /\ Later(s.e, r.e)
    BY <1>1, <2>1, ReceivedAckKeeps
  <2>4. Shut(r.e)
    BY <2>2, ReceivedAckStaysShut
  <2> HIDE DEF r
  <2>5. r.e \in Sockets /\ r \in Handled
    BY <2>3 DEF Active, Handled
  <2>6. CASE m.flags = {"ACK"}
    <3>1. ProcessWait(s, m) = InOrderFin(w, m)
      BY <2>6 DEF ProcessWait, r
    <3>2. Active(w, p) /\ Shut(w.e)
      <4>1. CASE finAcked
        <5>1. Finished(p)
          <6>1. AllSent(r.e) /\ r.e.highTx \in Nat /\ r.e.highTx >= 1
                /\ r.e.written \in {0, 1} /\ p.rxNext \in Nat
            BY <2>3, <2>5, <4>1 DEF Active, Grown, Sockets
          <6>2. r.e.highTx >= 1 + r.e.written
            BY <6>1 DEF AllSent
          <6>3. p.rxNext >= 2 + r.e.written
            BY <2>2, <4>1, <6>1, <6>2
          <6> QED
            BY <2>3, <6>3 DEF Active, Fits
        <5>2. DoneWriting(r.e) /\ AllSent(r.e) /\ r.e.nextTx >= 1 + r.e.written
          BY <2>3, <4>1 DEF Active, Grown, FinFollowsData, ClosingStates
        <5>3. "FIN_WAIT_2" \in States \ {"LISTEN", "SYN_SENT", "SYN_RCVD", "CLOSED"}
          BY DEF States
        <5>4. Active(w, p) /\ w.e.state = "FIN_WAIT_2"
          BY <2>3, <4>1, <5>1, <5>2, <5>3, StateKeeps
        <5> QED
          BY <5>4 DEF Shut, ClosingStates
      <4>2. CASE ~finAcked
        BY <2>3, <2>4, <4>2
      <4> QED
        BY <4>1, <4>2
    <3> HIDE DEF w
    <3> QED
      BY <3>1, <3>2, InOrderFinStaysShut
  <2>7. CASE m.flags = {"FIN", "ACK"}
    <3>1. ProcessWait(s, m) = InOrderFin(f, m)
      BY <2>7 DEF ProcessWait, r
    <3>2. m.seq \in Nat /\ DoneWriting(p) /\ AllSent(p) /\ r.e.rxNext \in Nat
      BY <1>1, <2>5, <2>7 DEF Meant, Messages, Sockets
    <3>3. m.seq >= 1 + p.written
      BY <2>7, <3>2 DEF Meant
    <3>4. m.seq <= 1 + p.written \/ m.seq <= r.e.rxNext
      BY <1>1, <2>3, <2>7, <3>2 DEF Meant, Later
    <3>5. Active(f, p) /\ f.e.state = r.e.state
      BY <2>3, <3>2, <3>3, <3>4, SetFinKeeps
    <3> HIDE DEF f
    <3> QED
      BY <2>4, <3>1, <3>5, InOrderFinStaysShut DEF Shut
  <2> QED
    BY <1>2, <2>6, <2>7
<1>3. CASE m.flags \in {{"SYN"}, {"SYN", "ACK"}}
  <2>1. ProcessWait(s, m) = s
    BY <1>3 DEF ProcessWait
  <2> QED
    BY <2>1
<1>4. CASE m.flags \in {{"RST"}, {"RST", "ACK"}}
  <2>1. ProcessWait(s, m) = Refuse(s, m)
    BY <1>4 DEF ProcessWait
  <2>2. Refuse(s, m).e.state = "CLOSED"
    BY RefuseKeeps
  <2> QED
    BY <2>1, <2>2 DEF Shut
<1> QED
  BY <1>1, <1>2, <1>3, <1>4 DEF FlagSets

LEMMA ForwardStaysShut ==
  ASSUME NEW p \in Sockets, NEW s, Active(s, p), s.e.state \in ClosingStates,
         NEW x \in Ends, NEW m, Meant(m, p, s.e.rxNext), m.len = 0
  PROVE  Shut(ForwardUp(s, x, m).e)
<1> DEFINE r == ForwardUp(s, x, m)
<1>1. s \in Handled /\ s.e \in Sockets /\ p.rxNext \in Nat /\ m \in Messages /\ Shut(s.e)
  BY DEF Active, Handled, Sockets, Meant, Shut
<1>2. CASE ~s.e.bound
  <2>1. NoEndPointsFound(s, x, m).e = s.e
    BY <1>1, NoEndPointsIs
  <2> QED
    BY <1>1, <1>2, <2>1 DEF ForwardUp
<1>3. CASE s.e.bound
  <2>1. ~OutOfRange(s.e, m)
    BY DEF OutOfRange
  <2>2. CASE s.e.state \in {"FIN_WAIT_1", "FIN_WAIT_2"}
    <3>1. r = ProcessWait(s, m)
      BY <1>3, <2>1, <2>2 DEF ForwardUp
    <3> QED
      BY <1>1, <3>1, ProcessWaitStaysShut
  <2>3. CASE s.e.state = "CLOSING"
    <3> DEFINE t == SendEmptyPacket(s, {"ACK"})
    <3>1. r = ProcessClosing(s, m)
      BY <1>3, <2>1, <2>3 DEF ForwardUp
    <3>2. Active(t, p)
      BY SendEmptyKeeps
    <3>3. ProcessClosing(s, m) \in {TimeWait(s), s, CloseAndNotify(t), Refuse(s, m)}
      BY DEF ProcessClosing
    <3> HIDE DEF r, t
    <3>4. /\ TimeWait(s).e.state = "TIME_WAIT" /\ CloseAndNotify(t).e.state = "CLOSED"
          /\ Refuse(s, m).e.state = "CLOSED"
      BY <3>2, TimeWaitKeeps, CloseAndNotifyKeeps, RefuseKeeps
    <3> QED
      BY <1>1, <3>1, <3>3, <3>4 DEF Shut, ClosingStates, r
  <2>4. CASE s.e.state = "LAST_ACK"
    <3>1. r = ProcessLastAck(s, m)
      BY <1>3, <2>1, <2>4 DEF ForwardUp
    <3>2. ProcessLastAck(s, m) \in {s, CloseAndNotify(s), Refuse(s, m)}
      BY DEF ProcessLastAck
    <3>3. CloseAndNotify(s).e.state = "CLOSED" /\ Refuse(s, m).e.state = "CLOSED"
      BY CloseAndNotifyKeeps, RefuseKeeps
    <3> HIDE DEF r
    <3> QED
      BY <1>1, <3>1, <3>2, <3>3 DEF Shut, r
  <2>5. CASE s.e.state = "TIME_WAIT"
    <3>1. r = s
      BY <1>3, <2>1, <2>5 DEF ForwardUp
    <3> QED
      BY <1>1, <3>1
  <2> QED
    BY <2>2, <2>3, <2>4, <2>5 DEF ClosingStates
<1> QED
  BY <1>1, <1>2, <1>3 DEF Sockets

(***************************************************************************)
(* Steps                                                                   *)
(***************************************************************************)
\* What p has acknowledged and heard of e, e has sent.
LEMMA KeptFits ==
  ASSUME NEW e \in Sockets, NEW p \in Sockets, Kept(p, e)
  PROVE  Fits(e, p)
<1>1. Received(p, e) /\ p.rxNext \in Nat /\ p.read \in Nat /\ p.fin \in Nat
      /\ e.written \in {0, 1}
  BY DEF Kept, Whole, Sockets
<1>2. CASE ~Finished(p)
  BY <1>1, <1>2 DEF Fits, Received, AllSent
<1>3. CASE Finished(p)
  BY <1>1, <1>3 DEF Fits, Received, AllSent, Finished
<1> QED
  BY <1>2, <1>3

LEMMA KeptBegins ==
  ASSUME NEW e, NEW p, Kept(e, p), Kept(p, e), NEW c \in SUBSET CallbackCloses
  PROVE  LET s == [e |-> e, out |-> {}, closes |-> c]
         IN Fresh(s, p) \/ (Active(s, p) /\ e.state # "SYN_RCVD")
<1> DEFINE s == [e |-> e, out |-> {}, closes |-> c]
<1>1. e \in Sockets /\ p \in Sockets /\ Fits(e, p)
  BY KeptFits DEF Kept, Whole
<1>2. s \in Handled /\ s.e = e /\ s.out = {}
  BY <1>1 DEF Handled
<1> HIDE DEF s
<1> QED
  <2>1. CASE Young(e) /\ e.state \in OpeningStates
    BY <1>1, <1>2, <2>1 DEF Kept, Fresh, s
  <2>2. CASE Grown(e, p.rxNext) /\ e.state \notin {"LISTEN", "SYN_SENT", "SYN_RCVD"}
             /\ (e.state = "CLOSED" => ~e.bound)
    BY <1>1, <1>2, <2>2 DEF Kept, Active, s
  <2> QED
    BY <2>1, <2>2 DEF Kept

LEMMA RestsKept ==
  ASSUME NEW r, NEW p, Rests(r, p)
  PROVE  /\ r \in Handled /\ Kept(r.e, p)
         /\ \A m \in r.out : Meant(m, r.e, p.rxNext)
  BY DEF Rests, Fresh, Active, Kept

\* What the peer relied on still holds.
LEMMA LaterKept ==
  ASSUME NEW e \in Sockets, NEW f \in Sockets, Later(e, f), NEW p, Kept(p, e)
  PROVE  Kept(p, f)
<1>1. /\ p \in Sockets /\ p.una \in Nat /\ e.rxNext \in Nat /\ f.rxNext \in Nat
      /\ f.rxNext >= e.rxNext /\ p.nextTx \in Nat /\ f.written = e.written
      /\ p.written \in {0, 1}
  BY DEF Kept, Whole, Sockets, Later
<1>2. Whole(p, f)
  BY <1>1 DEF Kept, Whole, Received, Later, AllSent, Sockets
<1>3. Grown(p, e.rxNext) => Grown(p, f.rxNext)
  BY <1>1 DEF Grown
<1> QED
  BY <1>2, <1>3 DEF Kept

\* An event at x ends with r, and what the other end relies on holds.
LEMMA EndStep ==
  ASSUME ConnInv, NEW x \in Ends, NEW r \in Handled, EndsIn(x, r),
         Kept(r.e, end[Peer(x)]), Kept(end[Peer(x)], r.e), r.e.rxNext >= end[x].rxNext,
         x \in writers \/ r.e.written = end[x].written,
         \A m \in r.out : Meant(m, r.e, end[Peer(x)].rxNext),
         \A m \in sent[Peer(x)] : Meant(m, r.e, end[Peer(x)].rxNext)
  PROVE  ConnInv' /\ end'[x] = r.e
<1> DEFINE y == Peer(x)
<1>1. y \in Ends /\ y # x /\ Peer(y) = x /\ \A z \in Ends : z \in {x, y}
  BY DEF Ends, Peer
<1> HIDE DEF y
<1>2. /\ end \in [Ends -> Sockets] /\ sent \in [Ends -> SUBSET Messages]
      /\ r.e \in Sockets /\ r.out \subseteq Messages
  BY DEF ConnInv, Handled
<1>3. end' = [end EXCEPT ![x] = r.e] /\ sent' = [sent EXCEPT ![y] = sent[y] \cup r.out]
  BY DEF EndsIn, y
<1>4. /\ end' \in [Ends -> Sockets] /\ sent' \in [Ends -> SUBSET Messages]
      /\ end'[x] = r.e /\ end'[y] = end[y]
      /\ sent'[x] = sent[x] /\ sent'[y] = sent[y] \cup r.out
  BY <1>1, <1>2, <1>3
<1>5. \A z \in Ends : Kept(end'[z], end'[Peer(z)])
  <2>1. Kept(end'[x], end'[y]) /\ Kept(end'[y], end'[x])
    BY <1>4 DEF y
  <2> QED
    BY <1>1, <2>1 DEF y
<1>6. \A m \in sent'[y] : Meant(m, end'[x], end'[y].rxNext)
  BY <1>4 DEF y
<1>7. \A m \in sent'[x] : Meant(m, end'[y], end'[x].rxNext)
  <2> SUFFICES ASSUME NEW m \in sent[x]
               PROVE  Meant(m, end[y], r.e.rxNext)
    BY <1>4
  <2>1. Meant(m, end[y], end[x].rxNext)
    BY DEF ConnInv, y
  <2>2. end[y] \in Sockets /\ end[x].rxNext \in Nat /\ r.e.rxNext \in Nat
    BY <1>1, <1>2 DEF Sockets
  <2>3. Later(end[y], end[y])
    BY <2>2, SameIsLater DEF SameNumbers
  <2> QED
    BY <2>1, <2>2, <2>3, LaterMeant
<1>8. \A z \in Ends : \A m \in sent'[z] : Meant(m, end'[Peer(z)], end'[z].rxNext)
  BY <1>1, <1>6, <1>7 DEF y
<1>9. \A z \in Ends \ writers' : end'[z].written = 0
  <2>1. writers' = writers /\ \A z \in Ends \ writers : end[z].written = 0
    BY DEF EndsIn, ConnInv
  <2> QED
    BY <1>1, <1>4, <2>1
<1> QED
  BY <1>4, <1>5, <1>8, <1>9 DEF ConnInv

LEMMA RestStep ==
  ASSUME ConnInv, NEW x \in Ends, NEW r, EndsIn(x, r), Rests(r, end[Peer(x)]),
         Later(end[x], r.e)
  PROVE  ConnInv' /\ end'[x] = r.e
<1> DEFINE p == end[Peer(x)]
<1>1. /\ end[x] \in Sockets /\ p \in Sockets /\ p.rxNext \in Nat /\ Kept(p, end[x])
      /\ \A m \in sent[Peer(x)] : Meant(m, end[x], p.rxNext)
  BY DEF ConnInv, Ends, Peer, Sockets
<1>2. r \in Handled /\ Kept(r.e, p) /\ \A m \in r.out : Meant(m, r.e, p.rxNext)
  BY RestsKept
<1>3. r.e \in Sockets /\ r.e.rxNext >= end[x].rxNext /\ r.e.written = end[x].written
  BY <1>2 DEF Handled, Later
<1>4. Kept(p, r.e)
  BY <1>1, <1>3, LaterKept
<1>5. \A m \in sent[Peer(x)] : Meant(m, r.e, p.rxNext)
  BY <1>1, <1>3, LaterMeant
<1> QED
  BY <1>2, <1>3, <1>4, <1>5, EndStep

\* A segment arrives.
Begun(x, c) == [Handle(x) EXCEPT !.closes = c]

LEMMA ArriveBegins ==
  ASSUME ConnInv, NEW x \in Ends, NEW c \in SUBSET CallbackCloses
  PROVE  LET s == Begun(x, c)
         IN /\ end[x] \in Sockets /\ end[Peer(x)] \in Sockets
            /\ s \in Handled /\ s.e = end[x] /\ s.out = {} /\ s.closes = c
            /\ \/ Fresh(s, end[Peer(x)])
               \/ Active(s, end[Peer(x)]) /\ end[x].state # "SYN_RCVD"
<1>1. Kept(end[x], end[Peer(x)]) /\ Kept(end[Peer(x)], end[x])
      /\ end[x] \in Sockets /\ end[Peer(x)] \in Sockets
  BY DEF ConnInv, Ends, Peer
<1>2. Begun(x, c) = [e |-> end[x], out |-> {}, closes |-> c]
  BY DEF Begun, Handle
<1>3. Begun(x, c) \in Handled
  BY <1>1, <1>2 DEF Handled
<1> QED
  BY <1>1, <1>2, <1>3, KeptBegins

LEMMA Begins ==
  ASSUME ConnInv, NEW x \in Ends
  PROVE  /\ end[x] \in Sockets /\ end[Peer(x)] \in Sockets
         /\ Handle(x) \in Handled /\ Handle(x).e = end[x] /\ Handle(x).out = {}
         /\ \/ Fresh(Handle(x), end[Peer(x)])
            \/ Active(Handle(x), end[Peer(x)]) /\ end[x].state # "SYN_RCVD"
<1>1. Kept(end[x], end[Peer(x)]) /\ Kept(end[Peer(x)], end[x])
      /\ end[x] \in Sockets /\ end[Peer(x)] \in Sockets
  BY DEF ConnInv, Ends, Peer
<1>2. Handle(x) \in Handled /\ Handle(x).e = end[x] /\ Handle(x).out = {}
  BY <1>1 DEF Handle, Handled
<1> QED
  BY <1>1, <1>2, KeptBegins DEF Handle

LEMMA ArriveStep ==
  ASSUME ConnInv, NEW x \in Ends, NEW m \in sent[x], Arrive(x, m)
  PROVE  ConnInv' /\ (Peer(x) \notin writers => StaysShut(x))
<1> DEFINE p == end[Peer(x)]
<1>0. PICK c \in SUBSET CallbackCloses : EndsIn(x, ForwardUp(Begun(x, c), x, m))
  BY DEF Arrive, Begun
<1> DEFINE s == Begun(x, c)
           r == ForwardUp(s, x, m)
<1>1. /\ p \in Sockets /\ s.e = end[x]
      /\ Fresh(s, p) \/ (Active(s, p) /\ end[x].state # "SYN_RCVD")
  BY ArriveBegins
<1> HIDE DEF s
<1>2. Meant(m, p, end[x].rxNext)
  BY DEF ConnInv
<1>3. Rests(r, p) /\ Later(end[x], r.e)
  BY <1>1, <1>2, FreshForwardRests, ActiveForwardRests
<1>4. EndsIn(x, r)
  BY <1>0 DEF s
<1>5. Peer(x) \notin writers /\ end[x].state \in ClosingStates => Shut(r.e)
  <2> SUFFICES ASSUME Peer(x) \notin writers, end[x].state \in ClosingStates
               PROVE  Shut(r.e)
    OBVIOUS
  <2>1. Active(s, p)
    BY <1>1 DEF Fresh, OpeningStates, ClosingStates
  <2>2. m.len = 0
    <3>1. p.written = 0 /\ m \in Messages
      BY <1>2 DEF ConnInv, Ends, Peer, Meant
    <3> QED
      BY <1>2, <3>1 DEF Meant, Messages
  <2> QED
    BY <1>1, <1>2, <2>1, <2>2, ForwardStaysShut
<1> HIDE DEF r
<1>6. ConnInv' /\ end'[x] = r.e
  BY <1>3, <1>4, RestStep
<1> QED
  BY <1>5, <1>6 DEF StaysShut

LEMMA ConnectStep ==
  ASSUME ConnInv, Connect
  PROVE  ConnInv'
<1> DEFINE x == "A"
           s == Handle("A")
           p == end[Peer("A")]
           t == SendEmptyPacket(s, {"SYN"})
           r == [t EXCEPT !.e.state = "SYN_SENT"]
<1>1. /\ p \in Sockets /\ s.e = end[x] /\ end[x] \in Sockets /\ "A" \in Ends
      /\ Fresh(s, p) \/ (Active(s, p) /\ end[x].state # "SYN_RCVD")
  BY Begins DEF Ends
<1>2. Fresh(s, p)
  BY <1>1 DEF Connect, Active
<1> HIDE DEF s, p
<1>3. Fresh(t, p) /\ Later(s.e, t.e)
  BY <1>1, <1>2, SendSynStaysFresh
<1>4. EndsIn("A", r)
  BY DEF Connect, s
<1> HIDE DEF t
<1>5. t \in Handled /\ t.e \in Sockets
  BY <1>3 DEF Fresh, Handled
<1>6. r \in Handled /\ r.out = t.out
  BY <1>5 DEF Handled, Sockets, States
<1>7. SameNumbers(t.e, r.e) /\ r.e.state = "SYN_SENT" /\ r.e.retx = t.e.retx
      /\ r.e.sendPending = t.e.sendPending /\ r.e.lastAck = t.e.lastAck
      /\ r.e.delAck = t.e.delAck /\ r.e.timewait = t.e.timewait
  BY <1>5 DEF Handled, Sockets, SameNumbers
<1> HIDE DEF r
<1>8. Fresh(r, p) /\ Later(t.e, r.e)
  BY <1>1, <1>3, <1>6, <1>7, SameStaysFresh
<1>9. Later(end[x], r.e)
  BY <1>1, <1>3, <1>5, <1>6, <1>8, LaterLater DEF Handled
<1>10. Rests(r, p)
  BY <1>8 DEF Rests
<1> QED
  BY <1>1, <1>4, <1>9, <1>10, RestStep DEF p

\* Nobody has heard of the end of a stream that is written to.
LEMMA WriteStep ==
  ASSUME ConnInv, NEW x \in Ends, Write(x)
  PROVE  ConnInv' /\ StaysShut(x)
<1> DEFINE e == end[x]
           p == end[Peer(x)]
           pending == e.state # "SYN_SENT"
           f == [e EXCEPT !.size = 1, !.written = 1, !.sendPending = pending]
           r == [e |-> f, out |-> {}, closes |-> {}]
<1>1. /\ e \in Sockets /\ p \in Sockets /\ Kept(e, p) /\ Kept(p, e)
      /\ \A m \in sent[Peer(x)] : Meant(m, e, p.rxNext)
  BY DEF ConnInv, Ends, Peer
<1>2. /\ e.state \in {"SYN_SENT", "ESTABLISHED", "CLOSE_WAIT"} /\ ~DoneWriting(e)
      /\ e.written = 0
  BY <1>1 DEF Write, Unclosed, DoneWriting
<1>3. EndsIn(x, r) /\ x \in writers
  BY DEF Write
<1> HIDE DEF e, p, pending
<1>4. f \in Sockets /\ f.size = 1 /\ f.written = 1 /\ f.sendPending = pending
  BY <1>1, ZenonT(60) DEF Sockets, pending
<1>5. /\ f.una = e.una /\ f.nextTx = e.nextTx /\ f.highTx = e.highTx
      /\ f.rxNext = e.rxNext /\ f.read = e.read /\ f.gotFin = e.gotFin /\ f.fin = e.fin
      /\ f.closeOnEmpty = e.closeOnEmpty
  BY <1>1 DEF Sockets
<1>6. /\ f.closeCalled = e.closeCalled /\ f.shutdownSend = e.shutdownSend
      /\ f.state = e.state /\ f.bound = e.bound /\ f.retx = e.retx
      /\ f.lastAck = e.lastAck /\ f.delAck = e.delAck /\ f.timewait = e.timewait
  BY <1>1 DEF Sockets
<1> HIDE DEF f
<1>7. r \in Handled /\ r.e = f /\ r.out = {}
  BY <1>4 DEF Handled
<1> HIDE DEF r
<1>8. /\ ~p.gotFin /\ p.read = 0 /\ p.rxNext <= 1 /\ p.rxNext \in Nat
      /\ e.una \in Nat /\ e.nextTx \in Nat /\ e.highTx \in Nat /\ e.rxNext \in Nat
  BY <1>1, <1>2 DEF Kept, Whole, Received, Finished, Sockets
<1>9. Kept(p, f)
  <2>1. Whole(p, f)
    BY <1>1, <1>2, <1>4, <1>5, <1>8 DEF Kept, Whole, Received, Finished
  <2>2. Grown(p, e.rxNext) => Grown(p, f.rxNext)
    BY <1>5
  <2> QED
    BY <1>1, <2>1, <2>2 DEF Kept
<1>10. Kept(f, p)
  <2>1. Whole(f, p)
    BY <1>1, <1>2, <1>4, <1>5, <1>6 DEF Kept, Whole, Received, Finished, DoneWriting
  <2>2. CASE Young(e) /\ e.state \in OpeningStates
    <3>1. ~pending
      BY <1>2, <2>2 DEF pending, OpeningStates
    <3>2. Young(f)
      BY <1>4, <1>5, <1>6, <2>2, <3>1 DEF Young
    <3> QED
      BY <1>6, <2>1, <2>2, <3>2 DEF Kept
  <2>3. CASE Grown(e, p.rxNext) /\ e.state \notin {"LISTEN", "SYN_SENT", "SYN_RCVD"}
    <3>1. FinFollowsData(f)
      BY <1>2, <1>6, <2>3 DEF Grown, FinFollowsData, DoneWriting
    <3>2. e.una = 1 /\ e.nextTx = 1 /\ e.highTx = 1
      BY <1>1, <1>2, <1>8, <2>3 DEF Kept, Whole, Grown
    <3>3. Grown(f, p.rxNext)
      BY <1>4, <1>5, <1>6, <2>3, <3>1, <3>2 DEF Grown
    <3> QED
      BY <1>2, <1>6, <2>1, <2>3, <3>3 DEF Kept
  <2> QED
    BY <1>1, <2>2, <2>3 DEF Kept
<1>11. \A m \in sent[Peer(x)] : Meant(m, f, p.rxNext)
  BY <1>1, <1>2, <1>5 DEF Meant
<1>12. f.rxNext >= e.rxNext
  BY <1>5, <1>8
<1>13. ConnInv' /\ end'[x] = f
  BY <1>3, <1>7, <1>9, <1>10, <1>11, <1>12, EndStep DEF e, p
<1> QED
  BY <1>2, <1>13 DEF StaysShut, ClosingStates, e

\* The application closes: the numbers, the state and the timers stay.
LEMMA ClosedKeeps ==
  ASSUME NEW p \in Sockets, NEW s, NEW r \in Handled, r.out = s.out,
         Fresh(s, p) \/ Active(s, p),
         r.e.una = s.e.una, r.e.nextTx = s.e.nextTx, r.e.highTx = s.e.highTx,
         r.e.size = s.e.size, r.e.written = s.e.written, r.e.rxNext = s.e.rxNext,
         r.e.read = s.e.read, r.e.gotFin = s.e.gotFin, r.e.fin = s.e.fin,
         r.e.state = s.e.state, r.e.bound = s.e.bound, r.e.retx = s.e.retx,
         r.e.lastAck = s.e.lastAck, r.e.sendPending = s.e.sendPending,
         r.e.delAck = s.e.delAck, r.e.timewait = s.e.timewait, DoneWriting(r.e)
  PROVE  /\ Fresh(s, p) => Fresh(r, p)
         /\ Active(s, p) => Active(r, p)
         /\ Later(s.e, r.e)
<1>1. s.e \in Sockets /\ r.e \in Sockets /\ p.rxNext \in Nat
      /\ Whole(s.e, p) /\ Fits(s.e, p)
      /\ \A m \in s.out : Meant(m, s.e, p.rxNext)
  BY DEF Fresh, Active, Handled, Sockets
<1>2. Later(s.e, r.e)
  BY <1>1 DEF Later, Finished, Sockets
<1>3. Whole(r.e, p)
  BY <1>1 DEF Whole, Received, Finished
<1>4. Fits(r.e, p)
  BY <1>1 DEF Fits, AllSent
<1>5. \A m \in r.out : Meant(m, r.e, p.rxNext)
  BY <1>1, <1>2, LaterMeant
<1>6. Young(s.e) => Young(r.e)
  BY DEF Young
<1>7. Grown(s.e, p.rxNext) => Grown(r.e, p.rxNext)
  BY DEF Grown, AllSent, FinFollowsData
<1> QED
  BY <1>2, <1>3, <1>4, <1>5, <1>6, <1>7 DEF Fresh, Active

LEMMA CloseStep ==
  ASSUME ConnInv, NEW x \in Ends, Close(x)
  PROVE  ConnInv' /\ StaysShut(x)
<1> DEFINE p == end[Peer(x)]
           h == Handle(x)
           s == [h EXCEPT !.e.closeCalled = TRUE]
           r == CloseSocket(s)
<1>1. /\ p \in Sockets /\ h.e = end[x] /\ h \in Handled /\ h.e \in Sockets
      /\ Fresh(h, p) \/ (Active(h, p) /\ end[x].state # "SYN_RCVD")
  BY Begins
<1>2. EndsIn(x, r) /\ h.e.state \notin {"LISTEN", "SYN_RCVD", "CLOSED"}
  BY <1>1 DEF Close, MayClose, Unclosed
<1> HIDE DEF h
<1>3. s \in Handled /\ s.out = h.out /\ DoneWriting(s.e)
  BY <1>1 DEF Handled, Sockets, DoneWriting
<1>4. /\ s.e.una = h.e.una /\ s.e.nextTx = h.e.nextTx /\ s.e.highTx = h.e.highTx
      /\ s.e.size = h.e.size /\ s.e.written = h.e.written /\ s.e.rxNext = h.e.rxNext
      /\ s.e.read = h.e.read /\ s.e.gotFin = h.e.gotFin /\ s.e.fin = h.e.fin
  BY <1>1 DEF Handled, Sockets
<1>5. /\ s.e.state = h.e.state /\ s.e.bound = h.e.bound /\ s.e.retx = h.e.retx
      /\ s.e.lastAck = h.e.lastAck /\ s.e.sendPending = h.e.sendPending
      /\ s.e.delAck = h.e.delAck /\ s.e.timewait = h.e.timewait
  BY <1>1 DEF Handled, Sockets
<1> HIDE DEF s, p
<1>6. /\ Fresh(h, p) => Fresh(s, p)
      /\ Active(h, p) => Active(s, p)
      /\ Later(h.e, s.e)
  BY <1>1, <1>3, <1>4, <1>5, ClosedKeeps
<1>7. s.e \in Sockets
  BY <1>3 DEF Handled
<1>8. /\ Rests(r, p) /\ Later(s.e, r.e)
      /\ s.e.state \in ClosingStates => Shut(r.e)
  <2>1. CASE Active(s, p) /\ s.e.state # "SYN_RCVD"
    <3>1. /\ Active(r, p) /\ Later(s.e, r.e)
          /\ \/ r.e.state = s.e.state
             \/ r.e.state \in {"FIN_WAIT_1", "LAST_ACK", "CLOSED"}
      BY <1>1, <1>3, <2>1, CloseSocketKeeps
    <3>2. r.e.state # "SYN_RCVD"
      BY <1>2, <1>5, <3>1 DEF Later
    <3> QED
      BY <3>1, <3>2 DEF Rests, Shut, ClosingStates
  <2>2. CASE Fresh(s, p)
    <3>1. s.e.state = "SYN_SENT"
      BY <1>2, <1>5, <2>2 DEF Fresh, OpeningStates
    <3> DEFINE o == [s EXCEPT !.e.closeOnEmpty = TRUE]
    <3>2. r \in {o, CloseAndNotify(SendRST(s))}
      BY <3>1 DEF CloseSocket, DoClose
    <3>3. o \in Handled /\ o.out = s.out
      BY <1>3, <1>7 DEF Handled, Sockets
    <3>4. /\ o.e.una = s.e.una /\ o.e.nextTx = s.e.nextTx /\ o.e.highTx = s.e.highTx
          /\ o.e.size = s.e.size /\ o.e.written = s.e.written /\ o.e.rxNext = s.e.rxNext
          /\ o.e.read = s.e.read /\ o.e.gotFin = s.e.gotFin /\ o.e.fin = s.e.fin
      BY <1>3, <1>7 DEF Handled, Sockets
    <3>5. /\ o.e.state = s.e.state /\ o.e.bound = s.e.bound /\ o.e.retx = s.e.retx
          /\ o.e.lastAck = s.e.lastAck /\ o.e.sendPending = s.e.sendPending
          /\ o.e.delAck = s.e.delAck /\ o.e.timewait = s.e.timewait /\ DoneWriting(o.e)
      BY <1>3, <1>7 DEF Handled, Sockets, DoneWriting
    <3> HIDE DEF o, r
    <3>6. Fresh(o, p) /\ Later(s.e, o.e)
      BY <1>1, <2>2, <3>3, <3>4, <3>5, ClosedKeeps
    <3>7. Fresh(CloseAndNotify(SendRST(s)), p)
          /\ Later(s.e, CloseAndNotify(SendRST(s)).e)
      BY <1>1, <2>2, RefuseStaysFresh
    <3> QED
      BY <3>1, <3>2, <3>6, <3>7 DEF Rests, ClosingStates
  <2> QED
    BY <1>1, <1>5, <1>6, <2>1, <2>2
<1> HIDE DEF r
<1>9. Later(end[x], r.e)
  BY <1>1, <1>6, <1>7, <1>8, LaterLater DEF Rests, Fresh, Active, Handled
<1>10. ConnInv' /\ end'[x] = r.e
  BY <1>2, <1>8, <1>9, RestStep DEF p
<1> QED
  BY <1>1, <1>5, <1>8, <1>10 DEF StaysShut

LEMMA ShutdownSendStep ==
  ASSUME ConnInv, NEW x \in Ends, ShutdownSend(x)
  PROVE  ConnInv' /\ StaysShut(x)
<1> DEFINE p == end[Peer(x)]
           h == Handle(x)
           s == [h EXCEPT !.e.shutdownSend = TRUE, !.e.closeOnEmpty = TRUE]
           f == SendEmptyPacket(s, {"FIN"})
           a == [f EXCEPT !.e.state = "FIN_WAIT_1"]
           b == [f EXCEPT !.e.state = "LAST_ACK"]
           r == CASE s.e.size = 0 /\ s.e.state = "ESTABLISHED" -> a
                  [] s.e.size = 0 /\ s.e.state = "CLOSE_WAIT" -> b
                  [] OTHER -> s
<1>1. /\ p \in Sockets /\ h.e = end[x] /\ h \in Handled /\ h.e \in Sockets
      /\ Fresh(h, p) \/ (Active(h, p) /\ end[x].state # "SYN_RCVD")
  BY Begins
<1>2. EndsIn(x, r)
  BY DEF ShutdownSend
<1> HIDE DEF h
<1>3. s \in Handled /\ s.out = h.out /\ DoneWriting(s.e)
  <2>1. [h.e EXCEPT !.shutdownSend = TRUE, !.closeOnEmpty = TRUE] \in Sockets
    BY <1>1 DEF Sockets
  <2>2. s = [h EXCEPT !.e = [h.e EXCEPT !.shutdownSend = TRUE, !.closeOnEmpty = TRUE]]
    BY <1>1 DEF Handled
  <2>3. s.e.shutdownSend
    BY <1>1 DEF Handled, Sockets
  <2> QED
    BY <1>1, <2>1, <2>2, <2>3 DEF Handled, DoneWriting
<1>4. /\ s.e.una = h.e.una /\ s.e.nextTx = h.e.nextTx /\ s.e.highTx = h.e.highTx
      /\ s.e.size = h.e.size /\ s.e.written = h.e.written /\ s.e.rxNext = h.e.rxNext
      /\ s.e.read = h.e.read /\ s.e.gotFin = h.e.gotFin /\ s.e.fin = h.e.fin
  BY <1>1 DEF Handled, Sockets
<1>5. /\ s.e.state = h.e.state /\ s.e.bound = h.e.bound /\ s.e.retx = h.e.retx
      /\ s.e.lastAck = h.e.lastAck /\ s.e.sendPending = h.e.sendPending
      /\ s.e.delAck = h.e.delAck /\ s.e.timewait = h.e.timewait
  BY <1>1 DEF Handled, Sockets
<1> HIDE DEF s, p
<1>6. /\ Fresh(h, p) => Fresh(s, p)
      /\ Active(h, p) => Active(s, p)
      /\ Later(h.e, s.e)
  BY <1>1, <1>3, <1>4, <1>5, ClosedKeeps
<1>7. s.e \in Sockets
  BY <1>3 DEF Handled
<1>8. /\ Rests(r, p) /\ Later(s.e, r.e)
      /\ s.e.state \in ClosingStates => Shut(r.e)
  <2>1. CASE s.e.size = 0 /\ s.e.state \in {"ESTABLISHED", "CLOSE_WAIT"}
    <3>1. Active(s, p)
      BY <1>1, <1>6, <2>1 DEF Fresh, OpeningStates
    <3>2. AllSent(s.e) /\ s.e.nextTx >= 1 + s.e.written
      BY <1>7, <2>1, <3>1 DEF Active, Grown, Sockets
    <3>3. Active(f, p) /\ Later(s.e, f.e) /\ SameNumbers(s.e, f.e)
      BY <1>1, <1>3, <3>1, <3>2, SendEmptyKeeps
    <3> HIDE DEF f
    <3>4. DoneWriting(f.e) /\ AllSent(f.e) /\ f.e.nextTx >= 1 + f.e.written
      BY <1>3, <3>2, <3>3 DEF SameNumbers, DoneWriting, AllSent
    <3>5. {"FIN_WAIT_1", "LAST_ACK"} \subseteq
            States \ {"LISTEN", "SYN_SENT", "SYN_RCVD", "CLOSED"}
      BY DEF States
    <3>6. /\ Active(a, p) /\ Later(f.e, a.e) /\ a.e.state = "FIN_WAIT_1"
          /\ Active(b, p) /\ Later(f.e, b.e) /\ b.e.state = "LAST_ACK"
      BY <1>1, <3>3, <3>4, <3>5, StateKeeps, SMTT(30)
    <3>7. r = a \/ r = b
      BY <2>1
    <3> HIDE DEF a, b, r
    <3>8. Active(r, p) /\ Later(f.e, r.e) /\ r.e.state # "SYN_RCVD"
      BY <3>6, <3>7
    <3> QED
      BY <1>7, <2>1, <3>3, <3>8, LaterLater DEF Rests, Active, Handled, ClosingStates
  <2>2. CASE ~(s.e.size = 0 /\ s.e.state \in {"ESTABLISHED", "CLOSE_WAIT"})
    <3>1. r = s
      BY <2>2
    <3> QED
      BY <1>1, <1>5, <1>6, <1>7, <3>1, SameIsLater DEF Rests, SameNumbers, Shut
  <2> QED
    BY <2>1, <2>2
<1> HIDE DEF r
<1>9. Later(end[x], r.e)
  BY <1>1, <1>6, <1>7, <1>8, LaterLater DEF Rests, Fresh, Active, Handled
<1>10. ConnInv' /\ end'[x] = r.e
  BY <1>2, <1>8, <1>9, RestStep DEF p
<1> QED
  BY <1>1, <1>5, <1>8, <1>10 DEF StaysShut

LEMMA CountTyped ==
  ASSUME NEW e \in Sockets, NEW n \in Nat
  PROVE  LET f == [e EXCEPT !.dataRetrCount = n]
         IN /\ f \in Sockets /\ SameNumbers(e, f) /\ f.state = e.state /\ f.bound = e.bound
            /\ f.retx = e.retx /\ f.lastAck = e.lastAck
  BY DEF Sockets, SameNumbers

\* One attempt less
LEMMA CountKeeps ==
  ASSUME NEW p \in Sockets, NEW s, Active(s, p), s.e.dataRetrCount > 0
  PROVE  LET r == [s EXCEPT !.e.dataRetrCount = @ - 1]
         IN Active(r, p) /\ Later(s.e, r.e) /\ SameNumbers(s.e, r.e)
            /\ r.e.state = s.e.state
<1> DEFINE n == s.e.dataRetrCount - 1
           f == [s.e EXCEPT !.dataRetrCount = n]
           r == [s EXCEPT !.e.dataRetrCount = @ - 1]
<1>1. s \in Handled /\ s.e \in Sockets /\ n \in Nat
  BY DEF Active, Handled, Sockets
<1>2. r = [s EXCEPT !.e = f]
  BY <1>1 DEF Handled, Sockets
<1> HIDE DEF n, r
<1>3. /\ f \in Sockets /\ SameNumbers(s.e, f) /\ f.state = s.e.state /\ f.bound = s.e.bound
      /\ f.retx = s.e.retx /\ f.lastAck = s.e.lastAck
  BY <1>1, CountTyped
<1> HIDE DEF f
<1>4. r \in Handled /\ r.out = s.out /\ r.e = f
  BY <1>1, <1>2, <1>3 DEF Handled
<1>5. FinFollowsData(r.e)
  BY <1>3, <1>4 DEF Active, Grown, FinFollowsData, SameNumbers, DoneWriting, AllSent
<1>6. Active(r, p) /\ Later(s.e, r.e)
  BY <1>3, <1>4, <1>5, SameKeeps DEF Active, Whole, Grown
<1> QED
  BY <1>3, <1>4, <1>6 DEF r

LEMMA ReTxTimeoutKeeps ==
  ASSUME NEW p \in Sockets, NEW s, Active(s, p)
  PROVE  LET r == ReTxTimeout(s) IN Active(r, p) /\ Later(s.e, r.e)
<1>1. s \in Handled /\ s.e \in Sockets /\ s.e.size \in {0, 1} /\ s.e.dataRetrCount \in Nat
  BY DEF Active, Handled, Sockets
<1>2. CASE s.e.size = 0
  <2>1. ReTxTimeout(s) = IF s.e.state \in {"FIN_WAIT_1", "CLOSING"}
                         THEN SendEmptyPacket(s, {"FIN"}) ELSE s
    BY <1>2 DEF ReTxTimeout
  <2>2. CASE s.e.state \in {"FIN_WAIT_1", "CLOSING"}
    <3>1. DoneWriting(s.e) /\ AllSent(s.e) /\ s.e.nextTx >= 1 + s.e.written
      BY <2>2 DEF Active, Grown, FinFollowsData, ClosingStates
    <3> QED
      BY <2>1, <2>2, <3>1, SendEmptyKeeps
  <2>3. CASE s.e.state \notin {"FIN_WAIT_1", "CLOSING"}
    BY <1>1, <2>1, <2>3, SameIsLater DEF SameNumbers
  <2> QED
    BY <2>2, <2>3
<1>3. CASE s.e.size > 0 /\ s.e.dataRetrCount = 0
  <2>1. ReTxTimeout(s) = [s EXCEPT !.e = DeallocateEndPoint([@ EXCEPT !.failed = TRUE])]
    BY <1>3 DEF ReTxTimeout
  <2> QED
    BY <2>1, DropKeeps
<1>4. CASE s.e.size > 0 /\ s.e.dataRetrCount > 0
  <2> DEFINE c == [s EXCEPT !.e.dataRetrCount = @ - 1]
             r == SendDataPacket(c)
  <2>1. ReTxTimeout(s) = r
    BY <1>1, <1>4 DEF ReTxTimeout
  <2>2. Active(c, p) /\ Later(s.e, c.e) /\ c.e.size > 0
    BY <1>4, CountKeeps DEF SameNumbers
  <2> HIDE DEF c
  <2>3. Active(r, p) /\ Later(c.e, r.e)
    BY <2>2, SendDataKeeps
  <2> HIDE DEF r
  <2> QED
    BY <1>1, <2>1, <2>2, <2>3, LaterLater DEF Active, Handled
<1> QED
  BY <1>1, <1>2, <1>3, <1>4

LEMMA ReTxTimeoutStaysShut ==
  ASSUME NEW p \in Sockets, NEW s, Active(s, p), s.e.state \in ClosingStates
  PROVE  Shut(ReTxTimeout(s).e)
<1>1. s \in Handled /\ s.e \in Sockets /\ s.e.size \in {0, 1} /\ s.e.dataRetrCount \in Nat
      /\ Shut(s.e)
  BY DEF Active, Handled, Sockets, Shut
<1>2. CASE s.e.size = 0
  <2>1. ReTxTimeout(s) \in {SendEmptyPacket(s, {"FIN"}), s}
    BY <1>2 DEF ReTxTimeout
  <2>2. DoneWriting(s.e) /\ AllSent(s.e) /\ s.e.nextTx >= 1 + s.e.written
    BY DEF Active, Grown, FinFollowsData
  <2>3. SendEmptyPacket(s, {"FIN"}).e.state = s.e.state
    BY <2>2, SendEmptyKeeps
  <2> QED
    BY <1>1, <2>1, <2>3 DEF Shut
<1>3. CASE s.e.size > 0 /\ s.e.dataRetrCount = 0
  <2> DEFINE d == [s EXCEPT !.e = DeallocateEndPoint([@ EXCEPT !.failed = TRUE])]
  <2>1. ReTxTimeout(s) = d
    BY <1>3 DEF ReTxTimeout
  <2>2. d.e.state = s.e.state
    BY DropKeeps
  <2> HIDE DEF d
  <2> QED
    BY <1>1, <2>1, <2>2 DEF Shut
<1>4. CASE s.e.size > 0 /\ s.e.dataRetrCount > 0
  <2> DEFINE c == [s EXCEPT !.e.dataRetrCount = @ - 1]
  <2>1. ReTxTimeout(s) = SendDataPacket(c)
    BY <1>1, <1>4 DEF ReTxTimeout
  <2>2. Active(c, p) /\ c.e.state = s.e.state /\ c.e.size > 0
    BY <1>4, CountKeeps DEF SameNumbers
  <2> HIDE DEF c
  <2>3. SendDataPacket(c).e.state = c.e.state
    BY <2>2, SendDataKeeps DEF ClosingStates
  <2> QED
    BY <1>1, <2>1, <2>2, <2>3 DEF Shut
<1> QED
  BY <1>1, <1>2, <1>3, <1>4

\* An event is over or set again: the numbers stay, and before the handshake no
\* other event is scheduled.
LEMMA EventKeeps ==
  ASSUME NEW p \in Sockets, NEW s, Active(s, p), NEW r \in Handled, SameNumbers(s.e, r.e),
         r.out = s.out, r.e.state = s.e.state, r.e.bound = s.e.bound,
         r.e.retx \in {"none", s.e.retx},
         r.e.lastAck => s.e.lastAck \/ s.e.state = "LAST_ACK"
  PROVE  Active(r, p) /\ Later(s.e, r.e)
<1>1. FinFollowsData(r.e)
  BY DEF Active, Grown, FinFollowsData, SameNumbers, DoneWriting, AllSent, ClosingStates
<1> QED
  BY <1>1, SameKeeps DEF Active, Whole, Grown

\* An event of a socket that has been through the handshake ends.
LEMMA ActiveStep ==
  ASSUME ConnInv, NEW x \in Ends, NEW s, NEW r, EndsIn(x, r), s.e \in Sockets,
         s.e.state = end[x].state, end[x].state \notin {"LISTEN", "SYN_RCVD"},
         Later(end[x], s.e),
         Active(r, end[Peer(x)]), Later(s.e, r.e)
  PROVE  ConnInv' /\ end'[x] = r.e
<1>1. end[x] \in Sockets /\ r.e \in Sockets
  BY Begins DEF Active, Handled
<1>2. Later(end[x], r.e)
  BY <1>1, LaterLater
<1>3. r.e.state # "SYN_RCVD"
  BY DEF Later, Active
<1> QED
  BY <1>2, <1>3, RestStep DEF Rests

LEMMA SendPendingStep ==
  ASSUME ConnInv, NEW x \in Ends, SendPendingEvent(x)
  PROVE  ConnInv' /\ StaysShut(x)
<1> DEFINE p == end[Peer(x)]
           h == Handle(x)
           s == [h EXCEPT !.e.sendPending = FALSE]
           r == SendPendingData(s)
<1>1. /\ p \in Sockets /\ h.e = end[x] /\ h \in Handled /\ h.e \in Sockets
      /\ Fresh(h, p) \/ (Active(h, p) /\ end[x].state # "SYN_RCVD")
  BY Begins
<1>2. EndsIn(x, r) /\ h.e.sendPending
  BY <1>1 DEF SendPendingEvent
<1> HIDE DEF h
<1>3. Active(h, p) /\ end[x].state \notin {"LISTEN", "SYN_RCVD"}
  BY <1>1, <1>2 DEF Fresh, Young, Active
<1>4. s \in Handled /\ s.out = h.out
  BY <1>1, ZenonT(60) DEF Handled, Sockets
<1>5. /\ SameNumbers(h.e, s.e) /\ s.e.state = h.e.state /\ s.e.bound = h.e.bound
      /\ s.e.retx = h.e.retx /\ s.e.lastAck = h.e.lastAck
  BY <1>1 DEF Handled, Sockets, SameNumbers
<1> HIDE DEF s, p
<1>6. Active(s, p) /\ Later(h.e, s.e) /\ s.e \in Sockets
  BY <1>1, <1>3, <1>4, <1>5, EventKeeps DEF Handled
<1>7. /\ Active(r, p) /\ Later(s.e, r.e)
      /\ s.e.state \in ClosingStates => r.e.state = s.e.state
  BY <1>1, <1>6, SendPendingKeeps DEF ClosingStates
<1> HIDE DEF r
<1>8. ConnInv' /\ end'[x] = r.e
  BY <1>1, <1>2, <1>3, <1>5, <1>6, <1>7, ActiveStep DEF p
<1> QED
  BY <1>1, <1>5, <1>7, <1>8 DEF StaysShut, Shut

LEMMA RetxStep ==
  ASSUME ConnInv, NEW x \in Ends, RetxEvent(x)
  PROVE  ConnInv' /\ StaysShut(x)
<1> DEFINE p == end[Peer(x)]
           h == Handle(x)
           s == [h EXCEPT !.e.retx = "none"]
<1>1. /\ p \in Sockets /\ h.e = end[x] /\ h \in Handled /\ h.e \in Sockets
      /\ Fresh(h, p) \/ (Active(h, p) /\ end[x].state # "SYN_RCVD")
  BY Begins
<1>2. /\ h.e.retx \in {"RTO", "SYN", "SYN+ACK", "FIN"}
      /\ h.e.retx = "RTO" => EndsIn(x, ReTxTimeout(s))
      /\ h.e.retx = "SYN" => EndsIn(x, SendEmptyPacket(s, {"SYN"}))
      /\ h.e.retx = "SYN+ACK" => EndsIn(x, SendEmptyPacket(s, {"SYN", "ACK"}))
      /\ h.e.retx = "FIN" => EndsIn(x, SendEmptyPacket(s, {"FIN"}))
  BY <1>1 DEF RetxEvent
<1> HIDE DEF h
<1>3. s \in Handled /\ s.out = h.out
  BY <1>1 DEF Handled, Sockets
<1>4. /\ SameNumbers(h.e, s.e) /\ s.e.state = h.e.state /\ s.e.bound = h.e.bound
      /\ s.e.retx = "none" /\ s.e.lastAck = h.e.lastAck
      /\ s.e.sendPending = h.e.sendPending /\ s.e.delAck = h.e.delAck
      /\ s.e.timewait = h.e.timewait
  BY <1>1 DEF Handled, Sockets, SameNumbers
<1> HIDE DEF s, p
<1>5. s.e \in Sockets
  BY <1>3 DEF Handled
<1>6. CASE Active(h, p) /\ h.e.state # "SYN_RCVD"
  <2>1. Active(s, p) /\ Later(h.e, s.e)
    BY <1>1, <1>3, <1>4, <1>6, EventKeeps
  <2>2. end[x].state \notin {"LISTEN", "SYN_RCVD"}
    BY <1>1, <1>6 DEF Active
  <2>3. h.e.retx \in {"FIN", "RTO"}
    BY <1>2, <1>6 DEF Active, Grown
  <2>4. CASE h.e.retx = "RTO"
    <3> DEFINE r == ReTxTimeout(s)
    <3>1. Active(r, p) /\ Later(s.e, r.e)
      BY <1>1, <2>1, ReTxTimeoutKeeps
    <3>2. EndsIn(x, r) /\ (s.e.state \in ClosingStates => Shut(r.e))
      BY <1>1, <1>2, <2>1, <2>4, ReTxTimeoutStaysShut
    <3> HIDE DEF r
    <3>3. ConnInv' /\ end'[x] = r.e
      BY <1>1, <1>4, <1>5, <2>1, <2>2, <3>1, <3>2, ActiveStep DEF p
    <3> QED
      BY <1>1, <1>4, <3>2, <3>3 DEF StaysShut
  <2>5. CASE h.e.retx = "FIN"
    <3> DEFINE r == SendEmptyPacket(s, {"FIN"})
    <3>1. DoneWriting(s.e) /\ AllSent(s.e) /\ s.e.nextTx >= 1 + s.e.written
      BY <1>4, <1>6, <2>5
      DEF Active, Grown, FinFollowsData, SameNumbers, DoneWriting, AllSent
    <3>2. Active(r, p) /\ Later(s.e, r.e) /\ r.e.state = s.e.state
      BY <1>1, <2>1, <3>1, SendEmptyKeeps
    <3>3. EndsIn(x, r)
      BY <1>2, <2>5
    <3> HIDE DEF r
    <3>4. ConnInv' /\ end'[x] = r.e
      BY <1>1, <1>4, <1>5, <2>1, <2>2, <3>2, <3>3, ActiveStep DEF p
    <3> QED
      BY <1>1, <1>4, <3>2, <3>4 DEF StaysShut, Shut
  <2> QED
    BY <2>3, <2>4, <2>5
<1>7. CASE Fresh(h, p)
  <2>1. Fresh(s, p) /\ Later(h.e, s.e)
    BY <1>1, <1>3, <1>4, <1>7, SameStaysFresh
  <2>2. PICK flags \in {{"SYN"}, {"SYN", "ACK"}} :
           /\ EndsIn(x, SendEmptyPacket(s, flags))
           /\ flags = {"SYN", "ACK"} => s.e.rxNext = 1
    BY <1>2, <1>4, <1>7 DEF Fresh, Young, SameNumbers
  <2> DEFINE r == SendEmptyPacket(s, flags)
  <2>3. Fresh(r, p) /\ Later(s.e, r.e)
    BY <1>1, <2>1, <2>2, SendSynStaysFresh
  <2>4. EndsIn(x, r)
    BY <2>2
  <2> HIDE DEF r
  <2>5. Later(end[x], r.e)
    BY <1>1, <1>5, <2>1, <2>3, LaterLater DEF Fresh, Handled
  <2>6. ConnInv'
    BY <2>3, <2>4, <2>5, RestStep DEF Rests, p
  <2> QED
    BY <1>1, <1>7, <2>6 DEF StaysShut, Fresh, OpeningStates, ClosingStates
<1> QED
  BY <1>1, <1>6, <1>7

LEMMA LastAckStep ==
  ASSUME ConnInv, NEW x \in Ends, LastAckTimeout(x)
  PROVE  ConnInv' /\ StaysShut(x)
<1> DEFINE p == end[Peer(x)]
           h == Handle(x)
           s == [h EXCEPT !.e.lastAck = FALSE]
           c == [s EXCEPT !.e.dataRetrCount = @ - 1]
           again == SendEmptyPacket(c, {"FIN", "ACK"})
           a == [again EXCEPT !.e.lastAck = TRUE]
           d == [s EXCEPT !.e = DeallocateEndPoint([@ EXCEPT !.failed = TRUE])]
           r == CASE s.e.state # "LAST_ACK" -> s
                  [] s.e.state = "LAST_ACK" /\ s.e.dataRetrCount = 0 -> d
                  [] OTHER -> a
<1>1. /\ p \in Sockets /\ h.e = end[x] /\ h \in Handled /\ h.e \in Sockets
      /\ Fresh(h, p) \/ (Active(h, p) /\ end[x].state # "SYN_RCVD")
  BY Begins
<1>2. EndsIn(x, r) /\ h.e.lastAck
  BY <1>1 DEF LastAckTimeout
<1> HIDE DEF h
<1>3. Active(h, p) /\ end[x].state \notin {"LISTEN", "SYN_RCVD"}
  BY <1>1, <1>2 DEF Fresh, Young, Active
<1>4. s \in Handled /\ s.out = h.out
  BY <1>1 DEF Handled, Sockets
<1>5. /\ SameNumbers(h.e, s.e) /\ s.e.state = h.e.state /\ s.e.bound = h.e.bound
      /\ s.e.retx = h.e.retx /\ ~s.e.lastAck
  BY <1>1 DEF Handled, Sockets, SameNumbers
<1> HIDE DEF s, p
<1>6. Active(s, p) /\ Later(h.e, s.e) /\ s.e \in Sockets
  BY <1>1, <1>3, <1>4, <1>5, EventKeeps DEF Handled
<1>7. Active(r, p) /\ Later(s.e, r.e) /\ r.e.state = s.e.state
  <2>1. CASE s.e.state # "LAST_ACK"
    <3>1. r = s
      BY <2>1
    <3> QED
      BY <1>6, <3>1, SameIsLater DEF SameNumbers
  <2>2. CASE s.e.state = "LAST_ACK" /\ s.e.dataRetrCount = 0
    <3>1. r = d
      BY <2>2
    <3> QED
      BY <1>1, <1>6, <3>1, DropKeeps
  <2>3. CASE s.e.state = "LAST_ACK" /\ s.e.dataRetrCount # 0
    <3>1. r = a
      BY <2>3
    <3>2. s.e.dataRetrCount > 0
      BY <1>6, <2>3 DEF Sockets
    <3>3. Active(c, p) /\ Later(s.e, c.e) /\ c.e.state = "LAST_ACK"
      BY <1>1, <1>6, <2>3, <3>2, CountKeeps
    <3> HIDE DEF c
    <3>4. DoneWriting(c.e) /\ AllSent(c.e) /\ c.e.nextTx >= 1 + c.e.written
      BY <3>3 DEF Active, Grown, FinFollowsData, ClosingStates
    <3>5. Active(again, p) /\ Later(c.e, again.e) /\ again.e.state = "LAST_ACK"
      BY <1>1, <3>3, <3>4, SendEmptyKeeps
    <3> HIDE DEF again
    <3>6. again \in Handled /\ again.e \in Sockets /\ c.e \in Sockets
      BY <3>3, <3>5 DEF Active, Handled
    <3>7. a \in Handled /\ a.out = again.out
      BY <3>6 DEF Handled, Sockets
    <3>8. SameNumbers(again.e, a.e) /\ a.e.state = again.e.state
          /\ a.e.bound = again.e.bound /\ a.e.retx = again.e.retx
      BY <3>6 DEF Handled, Sockets, SameNumbers
    <3> HIDE DEF a, r
    <3>9. Active(a, p) /\ Later(again.e, a.e)
      BY <1>1, <3>5, <3>7, <3>8, EventKeeps
    <3>10. Later(s.e, again.e) /\ a.e \in Sockets
      BY <1>6, <3>3, <3>5, <3>6, <3>9, LaterLater DEF Active, Handled
    <3> QED
      BY <1>6, <2>3, <3>1, <3>5, <3>6, <3>8, <3>9, <3>10, LaterLater
  <2> QED
    BY <2>1, <2>2, <2>3
<1> HIDE DEF r
<1>8. ConnInv' /\ end'[x] = r.e
  BY <1>1, <1>2, <1>3, <1>5, <1>6, <1>7, ActiveStep DEF p
<1> QED
  BY <1>1, <1>5, <1>7, <1>8 DEF StaysShut, Shut

LEMMA DelAckTyped ==
  ASSUME NEW e \in Sockets, NEW n \in Int
  PROVE  [e EXCEPT !.delAck = FALSE, !.delAckCount = n] \in Sockets
  BY DEF Sockets

LEMMA DelAckStep ==
  ASSUME ConnInv, NEW x \in Ends, DelAckTimeout(x)
  PROVE  ConnInv' /\ StaysShut(x)
<1> DEFINE p == end[Peer(x)]
           h == Handle(x)
           s == [h EXCEPT !.e.delAck = FALSE, !.e.delAckCount = 0]
           r == SendEmptyPacket(s, {"ACK"})
<1>1. /\ p \in Sockets /\ h.e = end[x] /\ h \in Handled /\ h.e \in Sockets
      /\ Fresh(h, p) \/ (Active(h, p) /\ end[x].state # "SYN_RCVD")
  BY Begins
<1>2. EndsIn(x, r) /\ h.e.delAck
  BY <1>1 DEF DelAckTimeout
<1> HIDE DEF h
<1>3. Active(h, p) /\ end[x].state \notin {"LISTEN", "SYN_RCVD"}
  BY <1>1, <1>2 DEF Fresh, Young, Active
<1>4. s \in Handled /\ s.out = h.out
  <2>1. [h.e EXCEPT !.delAck = FALSE, !.delAckCount = 0] \in Sockets
    <3>1. 0 \in Int
      OBVIOUS
    <3> QED
      BY <1>1, <3>1, DelAckTyped
  <2>2. s = [h EXCEPT !.e = [h.e EXCEPT !.delAck = FALSE, !.delAckCount = 0]]
    BY <1>1 DEF Handled
  <2> QED
    BY <1>1, <2>1, <2>2 DEF Handled
<1>5. /\ SameNumbers(h.e, s.e) /\ s.e.state = h.e.state /\ s.e.bound = h.e.bound
      /\ s.e.retx = h.e.retx /\ s.e.lastAck = h.e.lastAck
  BY <1>1 DEF Handled, Sockets, SameNumbers
<1> HIDE DEF s, p
<1>6. Active(s, p) /\ Later(h.e, s.e) /\ s.e \in Sockets
  BY <1>1, <1>3, <1>4, <1>5, EventKeeps DEF Handled
<1>7. Active(r, p) /\ Later(s.e, r.e) /\ r.e.state = s.e.state
  BY <1>1, <1>6, SendEmptyKeeps
<1> HIDE DEF r
<1>8. ConnInv' /\ end'[x] = r.e
  BY <1>1, <1>2, <1>3, <1>5, <1>6, <1>7, ActiveStep DEF p
<1> QED
  BY <1>1, <1>5, <1>7, <1>8 DEF StaysShut, Shut

LEMMA TimeWaitStep ==
  ASSUME ConnInv, NEW x \in Ends, TimeWaitEnds(x)
  PROVE  ConnInv' /\ StaysShut(x)
<1> DEFINE p == end[Peer(x)]
           h == Handle(x)
           r == CloseAndNotify(h)
<1>1. /\ p \in Sockets /\ h.e = end[x] /\ h.e \in Sockets
      /\ Fresh(h, p) \/ (Active(h, p) /\ end[x].state # "SYN_RCVD")
  BY Begins
<1>2. EndsIn(x, r) /\ h.e.timewait
  BY <1>1 DEF TimeWaitEnds
<1> HIDE DEF h
<1>3. Active(h, p)
  BY <1>1, <1>2 DEF Fresh, Young
<1>4. Active(r, p) /\ Later(h.e, r.e) /\ r.e.state = "CLOSED"
  BY <1>1, <1>3, CloseAndNotifyKeeps
<1> HIDE DEF r
<1>5. ConnInv' /\ end'[x] = r.e
  BY <1>1, <1>2, <1>4, RestStep DEF Rests
<1> QED
  BY <1>4, <1>5 DEF StaysShut, Shut

(***************************************************************************)
(* What an end may believe of the other                                    *)
(***************************************************************************)
LEMMA ConnInit == Init => ConnInv
<1> SUFFICES ASSUME Init PROVE ConnInv
  OBVIOUS
<1>1. SynRetries \in Nat /\ DataRetries \in Nat
  BY ConnectionAssumption DEF ConnectionAssumption
<1>2. \A st \in {"CLOSED", "LISTEN"} :
        /\ InitialSocket(st) \in Sockets
        /\ Young(InitialSocket(st)) /\ InitialSocket(st).state \in OpeningStates
  <2> SUFFICES ASSUME NEW st \in {"CLOSED", "LISTEN"}
               PROVE  /\ InitialSocket(st) \in Sockets
                      /\ Young(InitialSocket(st)) /\ InitialSocket(st).state \in OpeningStates
    OBVIOUS
  <2>1. InitialSocket(st) \in Sockets
    BY <1>1 DEF InitialSocket, Sockets, States
  <2> QED
    BY <2>1 DEF InitialSocket, Young, OpeningStates
<1>3. \A e \in Sockets, p \in Sockets :
        (\E st \in {"CLOSED", "LISTEN"} : e = InitialSocket(st))
        /\ (\E st \in {"CLOSED", "LISTEN"} : p = InitialSocket(st)) => Whole(e, p)
  BY DEF InitialSocket, Whole, Received, Finished, DoneWriting, AllSent
<1>4. /\ \A x \in Ends : end[x] = InitialSocket(IF x = "A" THEN "CLOSED" ELSE "LISTEN")
      /\ sent = [x \in Ends |-> {}]
      /\ end = [x \in Ends |-> end[x]]
  BY DEF Init
<1>5. \A x \in Ends : \E st \in {"CLOSED", "LISTEN"} : end[x] = InitialSocket(st)
  BY <1>4
<1>6. \A x \in Ends : /\ end[x] \in Sockets /\ Young(end[x]) /\ end[x].state \in OpeningStates
                      /\ Peer(x) \in Ends
  BY <1>2, <1>5 DEF Ends, Peer
<1>7. \A x \in Ends : Kept(end[x], end[Peer(x)])
  BY <1>3, <1>5, <1>6 DEF Kept
<1>8. \A x \in Ends : end[x].written = 0
  BY <1>5 DEF InitialSocket
<1> QED
  BY <1>4, <1>6, <1>7, <1>8 DEF ConnInv

LEMMA ConnNext == ConnInv /\ [Next]_vars => ConnInv'
<1> SUFFICES ASSUME ConnInv, [Next]_vars PROVE ConnInv'
  OBVIOUS
<1>1. CASE Connect
  BY <1>1, ConnectStep
<1>2. ASSUME NEW x \in Ends, NEW m \in sent[x], Arrive(x, m) PROVE ConnInv'
  BY <1>2, ArriveStep
<1>3. ASSUME NEW x \in Ends, Write(x) PROVE ConnInv'
  BY <1>3, WriteStep
<1>4. ASSUME NEW x \in Ends, Close(x) PROVE ConnInv'
  BY <1>4, CloseStep
<1>5. ASSUME NEW x \in Ends, ShutdownSend(x) PROVE ConnInv'
  BY <1>5, ShutdownSendStep
<1>6. ASSUME NEW x \in Ends, Timer(x) PROVE ConnInv'
  BY <1>6, SendPendingStep, RetxStep, LastAckStep, DelAckStep, TimeWaitStep DEF Timer
<1>7. CASE UNCHANGED vars
  BY <1>7 DEF vars, ConnInv, Kept, Whole, Young, Grown, Received, Finished, AllSent,
              DoneWriting, FinFollowsData, Meant
<1> QED
  BY <1>1, <1>2, <1>3, <1>4, <1>5, <1>6, <1>7 DEF Next

\* The invariant holds for both ends writing too, and for every number of attempts.
THEOREM ConnKept == Spec => []ConnInv
BY ConnInit, ConnNext, PTL DEF Spec

\* AckedIsReceived: no end takes for acknowledged what the other has not received,
\* with data and FINs that are lost, repeated and late, and ACKs that come in any
\* order (ProcessAck, EstimateRtt and NewAck trust them).
THEOREM AcknowledgedWasReceived == Spec => []AckedIsReceived
<1>1. ConnInv => AckedIsReceived
  BY DEF ConnInv, Kept, Whole, AckedIsReceived
<1> QED
  BY <1>1, ConnKept, PTL

\* EndOfStreamLast: whoever sees the end of the stream has read all that was written,
\* though the FIN may come before the data (TcpRxBuffer::Finished, PeerClose).
THEOREM EndOfStreamComesLast == Spec => []EndOfStreamLast
<1>1. ConnInv => EndOfStreamLast
  BY DEF ConnInv, Kept, Whole, Received, EndOfStreamLast
<1> QED
  BY <1>1, ConnKept, PTL

\* FinWasHeard: FIN_WAIT_2 is entered only when the other end has the FIN in order;
\* an ACK of the data alone does not do (ProcessWait).
THEOREM FinWaitTwoWasHeard == Spec => []FinWasHeard
<1>1. ConnInv => FinWasHeard
  BY DEF ConnInv, Kept, Whole, FinWasHeard
<1> QED
  BY <1>1, ConnKept, PTL

\* FinIsFinal: once an end has sent its FIN, nothing but data from the other end makes
\* it act as if it had not, however late or often segments arrive and whatever its
\* timers and its application do (ProcessWait, ProcessClosing, ProcessLastAck).
THEOREM FinStaysFinal == Spec => FinIsFinal
<1>1. ASSUME ConnInv, Next, NEW x \in Ends, Peer(x) \notin writers,
             end[x].state \in ClosingStates
      PROVE  Shut(end'[x])
  <2>1. CASE Connect
    <3>1. x # "A" /\ end' = [end EXCEPT !["A"] = end'["A"]]
      BY <1>1, <2>1 DEF Connect, ClosingStates, EndsIn, ConnInv, Ends
    <3> QED
      BY <1>1, <3>1 DEF Shut, ConnInv
  <2>2. ASSUME NEW y \in Ends, NEW r, EndsIn(y, r), y # x
        PROVE  Shut(end'[x])
    BY <1>1, <2>2 DEF EndsIn, ConnInv, Shut
  <2>3. ASSUME NEW m \in sent[x], Arrive(x, m) PROVE Shut(end'[x])
    BY <1>1, <2>3, ArriveStep DEF StaysShut
  <2>4. CASE Write(x) \/ Close(x) \/ ShutdownSend(x) \/ Timer(x)
    BY <1>1, <2>4, WriteStep, CloseStep, ShutdownSendStep, SendPendingStep, RetxStep,
       LastAckStep, DelAckStep, TimeWaitStep DEF StaysShut, Timer
  <2>5. ASSUME NEW y \in Ends, NEW m \in sent[y], Arrive(y, m), y # x
        PROVE  Shut(end'[x])
    BY <2>2, <2>5 DEF Arrive
  <2>6. ASSUME NEW y \in Ends, y # x, Write(y) \/ Close(y) \/ ShutdownSend(y)
        PROVE  Shut(end'[x])
    BY <2>2, <2>6 DEF Write, Close, ShutdownSend
  <2>7. ASSUME NEW y \in Ends, y # x, Timer(y)
        PROVE  Shut(end'[x])
    <3>1. \E r : EndsIn(y, r)
      BY <2>7 DEF Timer, SendPendingEvent, RetxEvent, LastAckTimeout, DelAckTimeout,
                  TimeWaitEnds
    <3> QED
      BY <2>2, <2>7, <3>1
  <2> QED
    BY <1>1, <2>1, <2>3, <2>4, <2>5, <2>6, <2>7 DEF Next
<1>2. ConnInv /\ [Next]_vars =>
        [\A x \in Ends :
           /\ Peer(x) \notin writers
           /\ end[x].state \in {"FIN_WAIT_1", "FIN_WAIT_2", "CLOSING", "LAST_ACK", "TIME_WAIT"}
           => end'[x].state \notin {"ESTABLISHED", "CLOSE_WAIT"}]_vars
  BY <1>1 DEF Shut, ClosingStates
<1> QED
  BY <1>2, ConnKept, PTL DEF Spec, FinIsFinal

(***************************************************************************)
(* Nobody is left without a timer                                          *)
(***************************************************************************)
\* Closing and data that was sent have a timer.
Minded(e) ==
  e.bound =>
    /\ e.state \in {"FIN_WAIT_1", "CLOSING"} => e.retx # "none"
    /\ e.state = "TIME_WAIT" => e.timewait
    /\ e.size = 1 /\ e.state # "TIME_WAIT" => e.retx # "none" \/ e.highTx = e.una
    /\ e.retx = "RTO" /\ e.size = 0 => DoneWriting(e)

\* Data from the peer has been read, or the FIN is to go with data that is not sent.
HasMore(e) == e.read >= 1 \/ (e.closeOnEmpty /\ e.size = 1 /\ e.highTx = e.una)

\* Who has called Close and does not close yet has a reason.
Closes(e) == e.bound /\ e.closeCalled => e.state \in ClosingStates \/ HasMore(e)

\* An end that waits for its FIN to be acknowledged repeats it, or its data.
Repeats(e) ==
  e.bound /\ e.state = "LAST_ACK" =>
    e.lastAck \/ e.retx = "FIN" \/ (e.retx = "RTO" /\ e.size = 1)

\* Data has an event that will send it, or send it again.
Pending(e) ==
  e.bound /\ e.size = 1 /\ e.state # "TIME_WAIT" => e.retx # "none" \/ e.sendPending

\* What the calls of a handler keep
Cared(e) == Minded(e) /\ Closes(e) /\ Repeats(e)

\* A handler ends with this.
Attended(e) ==
  /\ Cared(e) /\ Pending(e)
  /\ e.bound /\ e.state \in {"SYN_SENT", "SYN_RCVD"} => e.retx # "none"
  /\ e.bound /\ e.state \in {"LISTEN", "SYN_RCVD"} => e.size = 0

\* Only what was received, the number to send next and the timers of ACK, FIN and SYN
\* may differ.
Like(e, f) == /\ f.una = e.una /\ f.size = e.size /\ f.highTx = e.highTx
              /\ f.written = e.written /\ f.read >= e.read
              /\ f.closeCalled = e.closeCalled /\ f.shutdownSend = e.shutdownSend
              /\ f.state = e.state /\ f.bound = e.bound /\ f.lastAck = e.lastAck
              /\ f.timewait = e.timewait /\ f.sendPending = e.sendPending
              /\ f.closeOnEmpty = e.closeOnEmpty

LEMMA GoneIsAttended ==
  ASSUME NEW e, ~e.bound
  PROVE  Attended(e)
BY DEF Attended, Cared, Minded, Closes, Repeats, Pending

LEMMA LikeIsAttended ==
  ASSUME NEW e \in Sockets, NEW f \in Sockets, Like(e, f),
         f.retx = e.retx \/ f.retx = "FIN"
  PROVE  /\ Minded(e) => Minded(f)
         /\ Cared(e) => Cared(f)
         /\ Pending(e) => Pending(f)
         /\ Attended(e) => Attended(f)
<1>1. e.read \in Nat /\ f.read \in Nat
  BY DEF Sockets
<1>2. /\ Minded(e) => Minded(f)
      /\ Closes(e) => Closes(f)
      /\ Repeats(e) => Repeats(f)
      /\ Pending(e) => Pending(f)
  BY <1>1 DEF Like, Minded, Closes, HasMore, Repeats, Pending, DoneWriting
<1>3. QED BY <1>2 DEF Like, Attended, Cared

LEMMA SameIsLike ==
  ASSUME NEW e \in Sockets, NEW f \in Sockets, SameNumbers(e, f), f.state = e.state,
         f.bound = e.bound, f.lastAck = e.lastAck, f.timewait = e.timewait,
         f.sendPending = e.sendPending
  PROVE  Like(e, f)
BY DEF SameNumbers, Like, Sockets

\* SendEmptyPacket without a SYN leaves all but the timers of ACK and FIN alone.
LEMMA SendEmptyIs ==
  ASSUME NEW s \in Handled, NEW wanted \in {{"ACK"}, {"RST"}, {"FIN"}, {"FIN", "ACK"}}
  PROVE  LET r == SendEmptyPacket(s, wanted)
         IN /\ r.e \in Sockets /\ Like(s.e, r.e)
            /\ r.e.retx = s.e.retx \/ ("FIN" \in wanted /\ r.e.retx = "FIN" /\ s.e.retx = "none")
            /\ "FIN" \in wanted /\ s.e.bound => r.e.retx # "none"
<1> DEFINE flags == IF "FIN" \in wanted THEN wanted \cup {"ACK"} ELSE wanted
           seq == IF "FIN" \notin wanted /\ s.e.state \in {"FIN_WAIT_1", "LAST_ACK", "CLOSING"}
                  THEN s.e.nextTx + 1 ELSE s.e.nextTx
           acks == "ACK" \in flags
           again == IF "FIN" \in flags THEN "FIN" ELSE IF acks THEN "SYN+ACK" ELSE "SYN"
           due == s.e.delAck /\ ~acks
           count == IF acks THEN 0 ELSE s.e.delAckCount
           retx == IF s.e.retx = "none" /\ "FIN" \in flags THEN again ELSE s.e.retx
           c == [s EXCEPT !.e.synCount = @, !.e.delAck = due, !.e.delAckCount = count,
                          !.e.retx = retx]
<1>1. s.e \in Sockets
  BY DEF Handled
<1>2. "SYN" \notin flags /\ ("FIN" \in flags <=> "FIN" \in wanted)
  OBVIOUS
<1>3. CASE ~s.e.bound
  <2>1. SendEmptyPacket(s, wanted) = s
    BY <1>3 DEF SendEmptyPacket
  <2>2. QED BY <1>1, <1>3, <2>1 DEF SameNumbers, Like, Sockets
<1>4. CASE s.e.bound
  <2>1. SendEmptyPacket(s, wanted) = Emit(c, flags, seq, 0)
    BY <1>2, <1>4 DEF SendEmptyPacket
  <2>2. /\ due \in BOOLEAN /\ count \in Int
        /\ retx \in {"none", "SYN", "SYN+ACK", "FIN", "RTO"}
        /\ retx = s.e.retx \/ ("FIN" \in wanted /\ retx = "FIN" /\ s.e.retx = "none")
        /\ "FIN" \in wanted => retx # "none"
    BY <1>1, <1>2 DEF Sockets
  <2> HIDE DEF due, count, retx, flags, seq
  <2>3. c \in Handled
    BY <1>1, <2>2, ZenonT(60) DEF Handled, Sockets
  <2>4. SameNumbers(s.e, c.e) /\ c.e.state = s.e.state /\ c.e.bound = s.e.bound
        /\ c.e.retx = retx
    BY <1>1 DEF Handled, Sockets, SameNumbers
  <2>5. c.e.lastAck = s.e.lastAck /\ c.e.timewait = s.e.timewait
        /\ c.e.sendPending = s.e.sendPending
    BY <1>1 DEF Handled, Sockets
  <2> HIDE DEF c
  <2>6. Emit(c, flags, seq, 0).e = c.e /\ c.e \in Sockets
    BY <2>3 DEF Emit, Handled
  <2>7. Like(s.e, c.e)
    BY <1>1, <2>4, <2>5, <2>6, SameIsLike
  <2>8. QED BY <2>1, <2>2, <2>4, <2>6, <2>7
<1>5. QED BY <1>1, <1>3, <1>4 DEF Sockets

LEMMA SendEmptyAttends ==
  ASSUME NEW s \in Handled, NEW wanted \in {{"ACK"}, {"RST"}, {"FIN"}, {"FIN", "ACK"}}
  PROVE  LET r == SendEmptyPacket(s, wanted)
         IN /\ Minded(s.e) => Minded(r.e)
            /\ Cared(s.e) => Cared(r.e)
            /\ Pending(s.e) => Pending(r.e)
            /\ Attended(s.e) => Attended(r.e)
            /\ r.e.state = s.e.state
<1> DEFINE r == SendEmptyPacket(s, wanted)
<1>1. /\ r.e \in Sockets /\ Like(s.e, r.e) /\ s.e \in Sockets
      /\ r.e.retx = s.e.retx \/ r.e.retx = "FIN"
  BY SendEmptyIs DEF Handled
<1> HIDE DEF r
<1>2. /\ Minded(s.e) => Minded(r.e)
      /\ Cared(s.e) => Cared(r.e)
      /\ Pending(s.e) => Pending(r.e)
      /\ Attended(s.e) => Attended(r.e)
      /\ r.e.state = s.e.state
  BY <1>1, LikeIsAttended DEF Like
<1>3. QED BY <1>2 DEF r

\* A SYN or a SYN+ACK is repeated, or the socket has given up.
LEMMA SendSynIs ==
  ASSUME NEW s \in Handled, NEW wanted \in {{"SYN"}, {"SYN", "ACK"}}
  PROVE  LET r == SendEmptyPacket(s, wanted)
         IN /\ ~r.e.bound \/ r.e.retx # "none"
            /\ r.e \in Sockets
            /\ r.e.bound => Like(s.e, r.e)
            /\ s.e.retx # "none" => ~r.e.bound \/ r.e.retx = s.e.retx
            /\ r.e.retx \in {s.e.retx, "none", "SYN", "SYN+ACK"}
<1> DEFINE acks == "ACK" \in wanted
           seq == IF s.e.state \in {"FIN_WAIT_1", "LAST_ACK", "CLOSING"}
                  THEN s.e.nextTx + 1 ELSE s.e.nextTx
           again == IF acks THEN "SYN+ACK" ELSE "SYN"
           due == s.e.delAck /\ ~acks
           left == s.e.synCount - 1
           count == IF acks THEN 0 ELSE s.e.delAckCount
           retx == IF s.e.retx = "none" THEN again ELSE s.e.retx
           g == [s.e EXCEPT !.failed = TRUE, !.state = "CLOSED"]
           c == [s EXCEPT !.e.synCount = left, !.e.delAck = due, !.e.delAckCount = count,
                          !.e.retx = retx]
           r == SendEmptyPacket(s, wanted)
<1>1. s.e \in Sockets /\ "SYN" \in wanted /\ "FIN" \notin wanted
  BY DEF Handled
<1>2. CASE ~s.e.bound
  <2>1. r = s
    BY <1>2 DEF SendEmptyPacket
  <2> HIDE DEF r
  <2>2. QED BY <1>1, <1>2, <2>1 DEF r
<1>3. CASE s.e.bound /\ s.e.synCount = 0
  <2>1. r = [s EXCEPT !.e = DeallocateEndPoint(g)]
    BY <1>1, <1>3 DEF SendEmptyPacket
  <2>2. g \in Sockets /\ g.retx = s.e.retx
    BY <1>1 DEF Sockets, States
  <2> HIDE DEF g, r
  <2>3. ~DeallocateEndPoint(g).bound /\ DeallocateEndPoint(g).retx \in {g.retx, "none"}
        /\ DeallocateEndPoint(g) \in Sockets
    BY <2>2, DeallocateIs
  <2>4. r.e = DeallocateEndPoint(g)
    BY <2>1 DEF Handled
  <2>5. QED BY <2>2, <2>3, <2>4 DEF r
<1>4. CASE s.e.bound /\ s.e.synCount # 0
  <2>1. r = Emit(c, wanted, seq, 0)
    BY <1>1, <1>4 DEF SendEmptyPacket
  <2>2. /\ due \in BOOLEAN /\ count \in Int /\ left \in Int
        /\ retx \in {"none", "SYN", "SYN+ACK", "FIN", "RTO"} /\ retx # "none"
        /\ retx \in {s.e.retx, "SYN", "SYN+ACK"}
        /\ s.e.retx # "none" => retx = s.e.retx
    BY <1>1 DEF Sockets
  <2> HIDE DEF due, count, left, retx, seq
  <2>3. c \in Handled
    BY <1>1, <2>2, ZenonT(60) DEF Handled, Sockets
  <2>4. SameNumbers(s.e, c.e) /\ c.e.state = s.e.state /\ c.e.bound = s.e.bound
        /\ c.e.retx = retx
    BY <1>1 DEF Handled, Sockets, SameNumbers
  <2>5. c.e.lastAck = s.e.lastAck /\ c.e.timewait = s.e.timewait
        /\ c.e.sendPending = s.e.sendPending
    BY <1>1 DEF Handled, Sockets
  <2> HIDE DEF c, r
  <2>6. r.e = c.e /\ c.e \in Sockets
    BY <2>1, <2>3 DEF Emit, Handled
  <2>7. Like(s.e, c.e)
    BY <1>1, <2>4, <2>5, <2>6, SameIsLike
  <2>8. QED BY <2>2, <2>4, <2>6, <2>7 DEF r
<1>5. QED BY <1>1, <1>2, <1>3, <1>4 DEF Sockets

\* A socket that has closed has nothing left to do.
LEMMA CloseAndNotifyGone ==
  ASSUME NEW s \in Handled
  PROVE  ~CloseAndNotify(s).e.bound
<1> DEFINE g == [s.e EXCEPT !.closeNotified = TRUE, !.lastAck = FALSE, !.state = "CLOSED"]
<1>1. s.e \in Sockets
  BY DEF Handled
<1>2. g \in Sockets
  BY <1>1, ZenonT(60) DEF Sockets, States
<1>3. CloseAndNotify(s) = [s EXCEPT !.e = DeallocateEndPoint(g)]
  BY DEF CloseAndNotify
<1> HIDE DEF g
<1>4. ~DeallocateEndPoint(g).bound
  BY <1>2, DeallocateIs
<1>5. QED BY <1>3, <1>4 DEF Handled

\* SendDataPacket leaves the data with a timer.
LEMMA SendDataIs ==
  ASSUME NEW s \in Handled, s.e.size > 0
  PROVE  LET r == SendDataPacket(s)
         IN /\ r.e.size = s.e.size /\ r.e.una = s.e.una /\ r.e.written = s.e.written
            /\ r.e.read = s.e.read /\ r.e.closeCalled = s.e.closeCalled
            /\ r.e.shutdownSend = s.e.shutdownSend /\ r.e.bound = s.e.bound
            /\ r.e.lastAck = s.e.lastAck /\ r.e.timewait = s.e.timewait
            /\ r.e.sendPending = s.e.sendPending
            /\ r.e.retx = IF s.e.retx = "none" THEN "RTO" ELSE s.e.retx
            /\ \/ r.e.state = s.e.state
               \/ s.e.state = "ESTABLISHED" /\ r.e.state = "FIN_WAIT_1"
               \/ s.e.state = "CLOSE_WAIT" /\ r.e.state = "LAST_ACK"
            /\ s.e.closeOnEmpty /\ s.e.state \in {"ESTABLISHED", "CLOSE_WAIT"} =>
                 r.e.state \in ClosingStates
<1> DEFINE fin == s.e.closeOnEmpty
           next == CASE fin /\ s.e.state = "ESTABLISHED" -> "FIN_WAIT_1"
                     [] fin /\ s.e.state = "CLOSE_WAIT" -> "LAST_ACK"
                     [] OTHER -> s.e.state
           retx == IF s.e.retx = "none" THEN "RTO" ELSE s.e.retx
           past == s.e.una + 1
           c == [s EXCEPT !.e.state = next, !.e.delAck = FALSE, !.e.delAckCount = 0,
                          !.e.retx = retx, !.e.highTx = past, !.e.nextTx = past]
           flags == IF fin THEN {"FIN", "ACK"} ELSE {"ACK"}
           r == SendDataPacket(s)
<1>1. s.e \in Sockets /\ fin \in BOOLEAN
  BY DEF Handled, Sockets
<1>2. /\ \/ next = s.e.state
         \/ s.e.state = "ESTABLISHED" /\ next = "FIN_WAIT_1"
         \/ s.e.state = "CLOSE_WAIT" /\ next = "LAST_ACK"
      /\ s.e.closeOnEmpty /\ s.e.state \in {"ESTABLISHED", "CLOSE_WAIT"} =>
           next \in ClosingStates
  BY <1>1 DEF ClosingStates
<1>3. r = Emit(c, flags, s.e.una, 1)
  BY DEF SendDataPacket
<1> HIDE DEF fin, next, retx, past, flags
<1>4. /\ c.e.size = s.e.size /\ c.e.una = s.e.una /\ c.e.written = s.e.written
      /\ c.e.read = s.e.read /\ c.e.closeCalled = s.e.closeCalled
      /\ c.e.shutdownSend = s.e.shutdownSend
  BY <1>1, ZenonT(60) DEF Handled, Sockets
<1>5. /\ c.e.bound = s.e.bound /\ c.e.lastAck = s.e.lastAck
      /\ c.e.timewait = s.e.timewait /\ c.e.sendPending = s.e.sendPending
      /\ c.e.retx = retx /\ c.e.state = next
  BY <1>1, ZenonT(60) DEF Handled, Sockets
<1>6. c = [s EXCEPT !.e = c.e]
  BY <1>1, ZenonT(60) DEF Handled, Sockets
<1> HIDE DEF r
<1>7. r.e = c.e
  <2> DEFINE d == c.e
  <2> HIDE DEF c
  <2>1. c = [s EXCEPT !.e = d]
    BY <1>6
  <2>2. QED BY <1>3, <2>1 DEF Emit, Handled
<1> HIDE DEF c
<1>8. QED BY <1>2, <1>4, <1>5, <1>7 DEF r, retx

LEMMA SendDataAttends ==
  ASSUME NEW p \in Sockets, NEW s, Active(s, p), Cared(s.e), s.e.size > 0,
         s.e.state # "SYN_RCVD"
  PROVE  LET r == SendDataPacket(s) IN Cared(r.e) /\ Pending(r.e)
<1> DEFINE r == SendDataPacket(s)
<1>1. s \in Handled /\ s.e \in Sockets /\ s.e.size = 1 /\ s.e.retx \in {"none", "FIN", "RTO"}
  BY DEF Active, Handled, Grown, Sockets
<1>2. /\ r.e.size = 1 /\ r.e.written = s.e.written
      /\ r.e.read = s.e.read /\ r.e.closeCalled = s.e.closeCalled
      /\ r.e.shutdownSend = s.e.shutdownSend /\ r.e.bound = s.e.bound
      /\ r.e.lastAck = s.e.lastAck /\ r.e.timewait = s.e.timewait
      /\ r.e.retx = IF s.e.retx = "none" THEN "RTO" ELSE s.e.retx
      /\ \/ r.e.state = s.e.state
         \/ s.e.state = "ESTABLISHED" /\ r.e.state = "FIN_WAIT_1"
         \/ s.e.state = "CLOSE_WAIT" /\ r.e.state = "LAST_ACK"
      /\ s.e.closeOnEmpty /\ s.e.state \in {"ESTABLISHED", "CLOSE_WAIT"} =>
           r.e.state \in ClosingStates
  BY <1>1, SendDataIs
<1> HIDE DEF r
<1>3. r.e.retx \in {"FIN", "RTO"}
  BY <1>1, <1>2
<1>4. Minded(r.e)
  BY <1>2, <1>3 DEF Cared, Minded
<1>5. Closes(r.e)
  <2>1. s.e.bound => s.e.state \in {"ESTABLISHED", "CLOSE_WAIT"} \cup ClosingStates
    BY <1>1 DEF Active, Sockets, States, ClosingStates
  <2>2. QED BY <1>2, <2>1 DEF Cared, Closes, HasMore, ClosingStates
<1>6. Repeats(r.e) /\ Pending(r.e)
  BY <1>2, <1>3 DEF Repeats, Pending
<1>7. QED BY <1>4, <1>5, <1>6 DEF Cared, r

\* What was not sent before is sent now.
LEMMA SendPendingAttends ==
  ASSUME NEW p \in Sockets, NEW s, Active(s, p), Cared(s.e), s.e.state # "SYN_RCVD"
  PROVE  LET r == SendPendingData(s) IN Cared(r.e) /\ Pending(r.e)
<1>1. CASE s.e.size > 0 /\ s.e.bound /\ s.e.highTx = s.e.una
  BY <1>1, SendDataAttends DEF SendPendingData
<1>2. CASE ~(s.e.size > 0 /\ s.e.bound /\ s.e.highTx = s.e.una)
  <2>1. SendPendingData(s) = s
    BY <1>2 DEF SendPendingData
  <2>2. Pending(s.e)
    BY <1>2 DEF Cared, Minded, Pending
  <2>3. QED BY <2>1, <2>2
<1>3. QED BY <1>1, <1>2

\* TimeWait schedules its own timer after it has cancelled the others.
LEMMA TimeWaitAttends ==
  ASSUME NEW s \in Handled
  PROVE  LET r == TimeWait(s) IN Cared(r.e) /\ Pending(r.e) /\ r \in Handled
<1> DEFINE c == CancelAllTimers(s.e)
           d == [c EXCEPT !.state = "TIME_WAIT", !.timewait = TRUE, !.closeNotified = TRUE]
           r == TimeWait(s)
<1>1. s.e \in Sockets
  BY DEF Handled
<1>2. c \in Sockets /\ c.retx = "none"
  BY <1>1, CancelKeeps
<1>3. r = [s EXCEPT !.e = d]
  BY <1>1 DEF TimeWait, Handled
<1> HIDE DEF c, r
<1>4. d \in Sockets /\ d.state = "TIME_WAIT" /\ d.timewait /\ d.retx = "none"
  BY <1>2 DEF Sockets, States
<1> HIDE DEF d
<1>5. r.e = d /\ r \in Handled
  BY <1>3, <1>4 DEF Handled
<1>6. Cared(d) /\ Pending(d)
  BY <1>4 DEF Cared, Minded, Closes, Repeats, Pending, ClosingStates
<1>7. QED BY <1>5, <1>6 DEF r

\* All but the state, and what does not matter for the timers, is the same.
LikeApart(e, f) ==
  /\ f.una = e.una /\ f.size = e.size /\ f.highTx = e.highTx
  /\ f.written = e.written /\ f.read = e.read /\ f.retx = e.retx
  /\ f.closeCalled = e.closeCalled /\ f.shutdownSend = e.shutdownSend
  /\ f.bound = e.bound /\ f.lastAck = e.lastAck
  /\ f.timewait = e.timewait /\ f.sendPending = e.sendPending
  /\ e.closeOnEmpty => f.closeOnEmpty

LEMMA StateIs ==
  ASSUME NEW s \in Handled, NEW to \in States
  PROVE  LET r == [s EXCEPT !.e.state = to]
         IN r \in Handled /\ r.e \in Sockets /\ r.e.state = to /\ LikeApart(s.e, r.e)
<1> DEFINE r == [s EXCEPT !.e.state = to]
<1>1. s.e \in Sockets
  BY DEF Handled
<1>2. r \in Handled /\ r.e \in Sockets
  BY <1>1 DEF Handled, Sockets
<1>3. r.e.state = to /\ LikeApart(s.e, r.e)
  BY <1>1 DEF Handled, Sockets, LikeApart
<1>4. QED BY <1>2, <1>3

\* DoClose and ShutdownSend send the FIN and change state.
FinSent(s, wanted, to) == [SendEmptyPacket(s, wanted) EXCEPT !.e.state = to]

\* An end that sends its FIN repeats it, or the data before it.
LEMMA FinAttends ==
  ASSUME NEW p \in Sockets, NEW s, Active(s, p), Minded(s.e),
         DoneWriting(s.e), AllSent(s.e), s.e.nextTx >= 1 + s.e.written,
         NEW wanted \in {{"FIN"}, {"FIN", "ACK"}}, NEW to \in {"FIN_WAIT_1", "LAST_ACK"},
         s.e.state \in {"SYN_RCVD", "ESTABLISHED", "CLOSE_WAIT"}
  PROVE  LET r == FinSent(s, wanted, to)
         IN /\ r.e \in Sockets /\ r.e.state = to /\ r.e.shutdownSend = s.e.shutdownSend
            /\ Minded(r.e) /\ Closes(r.e) /\ Pending(r.e)
            /\ (s.e.retx = "RTO" => s.e.size = 1) => Repeats(r.e)
<1> DEFINE t == SendEmptyPacket(s, wanted)
           r == [t EXCEPT !.e.state = to]
<1>1. s \in Handled /\ s.e \in Sockets /\ s.e.retx \in {"none", "FIN", "RTO"}
      /\ wanted \in {{"ACK"}, {"RST"}, {"FIN"}, {"FIN", "ACK"}} /\ "FIN" \in wanted
      /\ to \in States
  BY DEF Active, Handled, Grown, States
<1>2. /\ t.e \in Sockets /\ Like(s.e, t.e)
      /\ t.e.retx = s.e.retx \/ (t.e.retx = "FIN" /\ s.e.retx = "none")
      /\ s.e.bound => t.e.retx # "none"
  BY <1>1, SendEmptyIs
<1>3. t \in Handled
  BY SendEmptyKeeps DEF Active
<1> HIDE DEF t
<1>4. r.e \in Sockets /\ r.e.state = to /\ LikeApart(t.e, r.e)
  BY <1>1, <1>3, StateIs
<1> HIDE DEF r
<1>5. Minded(r.e)
  BY <1>1, <1>2, <1>4 DEF Minded, Like, LikeApart, DoneWriting
<1>6. Closes(r.e)
  BY <1>4 DEF Closes, ClosingStates
<1>7. Pending(r.e)
  BY <1>2, <1>4 DEF Pending, Like, LikeApart
<1>8. (s.e.retx = "RTO" => s.e.size = 1) => Repeats(r.e)
  BY <1>1, <1>2, <1>4 DEF Repeats, Like, LikeApart
<1>9. r.e.shutdownSend = s.e.shutdownSend
  BY <1>2, <1>4 DEF Like, LikeApart
<1>10. QED BY <1>4, <1>5, <1>6, <1>7, <1>8, <1>9 DEF r, t, FinSent

\* CloseSocket leaves it to the data that was not sent, or sends a FIN.
LEMMA CloseSocketAttends ==
  ASSUME NEW p \in Sockets, NEW s, Active(s, p), Minded(s.e), DoneWriting(s.e),
         s.e.state \in {"SYN_RCVD", "ESTABLISHED", "CLOSE_WAIT"}
  PROVE  LET r == CloseSocket(s)
         IN /\ r.e \in Sockets /\ Minded(r.e) /\ Closes(r.e)
            /\ Pending(s.e) => Pending(r.e)
            /\ (s.e.retx = "RTO" => s.e.size = 1) => Repeats(r.e)
            /\ r.e.state # "LAST_ACK" => Repeats(r.e)
            /\ r.e.shutdownSend = s.e.shutdownSend
            /\ \/ r.e.state = s.e.state
               \/ s.e.state = "CLOSE_WAIT" /\ r.e.state = "LAST_ACK"
               \/ s.e.state # "CLOSE_WAIT" /\ r.e.state = "FIN_WAIT_1"
<1> DEFINE r == CloseSocket(s)
<1>1. s \in Handled /\ s.e \in Sockets
  BY DEF Active, Handled
<1>2. CASE s.e.una + s.e.size > s.e.nextTx
  <2>1. r = [s EXCEPT !.e.closeOnEmpty = TRUE]
    BY <1>2 DEF CloseSocket
  <2>2. r.e \in Sockets /\ r.e.state = s.e.state /\ LikeApart(s.e, r.e)
    <3> HIDE DEF r
    <3>1. r.e \in Sockets /\ r.e.state = s.e.state
      BY <1>1, <2>1 DEF Handled, Sockets
    <3>2. LikeApart(s.e, r.e)
      BY <1>1, <2>1 DEF Handled, Sockets, LikeApart
    <3>3. QED BY <3>1, <3>2
  <2> HIDE DEF r
  <2>3. Minded(r.e) /\ (Pending(s.e) => Pending(r.e)) /\ Repeats(r.e)
    BY <2>2 DEF Minded, Pending, Repeats, LikeApart, DoneWriting
  <2>4. s.e.size = 1 /\ s.e.highTx = s.e.una
    BY <1>1, <1>2 DEF Active, Grown, Sockets
  <2>5. Closes(r.e)
    <3>1. r.e.closeOnEmpty
      BY <1>1, <2>1 DEF Handled, Sockets
    <3>2. QED BY <2>2, <2>4, <3>1 DEF Closes, HasMore, LikeApart
  <2>6. QED BY <2>2, <2>3, <2>5 DEF r, LikeApart
<1>3. CASE ~(s.e.una + s.e.size > s.e.nextTx)
  <2>1. s.e.nextTx >= 1 + s.e.written /\ AllSent(s.e)
    BY <1>1, <1>3 DEF Active, Whole, Grown, AllSent, Sockets
  <2>2. PICK wanted \in {{"FIN"}, {"FIN", "ACK"}}, to \in {"FIN_WAIT_1", "LAST_ACK"} :
          /\ r = [SendEmptyPacket(s, wanted) EXCEPT !.e.state = to]
          /\ (s.e.state = "CLOSE_WAIT") <=> (to = "LAST_ACK")
    BY <1>3 DEF CloseSocket, DoClose
  <2> HIDE DEF r
  <2>3. /\ r.e \in Sockets /\ r.e.state = to /\ r.e.shutdownSend = s.e.shutdownSend
        /\ Minded(r.e) /\ Closes(r.e) /\ Pending(r.e)
        /\ (s.e.retx = "RTO" => s.e.size = 1) => Repeats(r.e)
    <3> DEFINE t == FinSent(s, wanted, to)
    <3>1. /\ t.e \in Sockets /\ t.e.state = to /\ t.e.shutdownSend = s.e.shutdownSend
          /\ Minded(t.e) /\ Closes(t.e) /\ Pending(t.e)
          /\ (s.e.retx = "RTO" => s.e.size = 1) => Repeats(t.e)
      <4>1. wanted \in {{"FIN"}, {"FIN", "ACK"}} /\ to \in {"FIN_WAIT_1", "LAST_ACK"}
        OBVIOUS
      <4>2. s.e.nextTx >= 1 + s.e.written
        BY <2>1
      <4>3. AllSent(s.e) /\ DoneWriting(s.e) /\ Minded(s.e) /\ Active(s, p) /\ p \in Sockets
        BY <2>1
      <4>4. s.e.state \in {"SYN_RCVD", "ESTABLISHED", "CLOSE_WAIT"}
        OBVIOUS
      <4> HIDE DEF t
      <4>5. QED BY <4>1, <4>2, <4>3, <4>4, FinAttends DEF t
    <3>2. r = t
      BY <2>2 DEF FinSent
    <3> HIDE DEF t
    <3>3. QED BY <3>1, <3>2
  <2>4. r.e.state # "LAST_ACK" => Repeats(r.e)
    BY DEF Repeats
  <2>5. QED BY <2>2, <2>3, <2>4 DEF r
<1>4. QED BY <1>2, <1>3

\* So does a callback.
LEMMA NotifyAttends ==
  ASSUME NEW p \in Sockets, NEW s, Active(s, p), Cared(s.e), NEW callback
  PROVE  LET r == Notify(s, callback)
         IN /\ Cared(r.e)
            /\ Pending(s.e) => Pending(r.e)
            /\ r = s \/ r.e.shutdownSend = FALSE
            /\ \/ r.e.state = s.e.state
               \/ s.e.state = "CLOSE_WAIT" /\ r.e.state = "LAST_ACK"
               \/ s.e.state # "CLOSE_WAIT" /\ r.e.state = "FIN_WAIT_1"
<1> DEFINE r == Notify(s, callback)
           c == Closed(s)
           d == CloseSocket(c)
<1>1. s \in Handled /\ s.e \in Sockets
  BY DEF Active, Handled
<1>2. CASE r = s
  BY <1>2
<1>3. CASE r = d /\ ~DoneWriting(s.e)
  <2>1. /\ Active(c, p) /\ DoneWriting(c.e) /\ c.e = [s.e EXCEPT !.closeCalled = TRUE]
    BY ClosedIs
  <2> HIDE DEF c
  <2>2. /\ c.e.una = s.e.una /\ c.e.size = s.e.size /\ c.e.highTx = s.e.highTx
        /\ c.e.state = s.e.state /\ c.e.bound = s.e.bound /\ c.e.retx = s.e.retx
        /\ c.e.timewait = s.e.timewait /\ c.e.sendPending = s.e.sendPending
        /\ c.e.shutdownSend = s.e.shutdownSend
    BY <1>1, <2>1 DEF Sockets
  <2>3. Minded(c.e) /\ (Pending(s.e) => Pending(c.e))
    BY <2>1, <2>2 DEF Cared, Minded, Pending
  <2>4. /\ s.e.state \in {"SYN_RCVD", "ESTABLISHED", "CLOSE_WAIT", "CLOSED"}
        /\ s.e.state = "CLOSED" => ~s.e.bound
    BY <1>1, <1>3 DEF Active, Grown, FinFollowsData, ClosingStates, Sockets, States
  <2>5. s.e.shutdownSend = FALSE
    BY <1>1, <1>3 DEF DoneWriting, Sockets
  <2>6. CASE s.e.bound
    <3>1. s.e.retx = "RTO" => s.e.size = 1
      BY <1>1, <1>3, <2>6 DEF Cared, Minded, Sockets
    <3>2. /\ Minded(d.e) /\ Closes(d.e) /\ Repeats(d.e)
          /\ Pending(s.e) => Pending(d.e)
          /\ d.e.shutdownSend = FALSE
          /\ \/ d.e.state = s.e.state
             \/ s.e.state = "CLOSE_WAIT" /\ d.e.state = "LAST_ACK"
             \/ s.e.state # "CLOSE_WAIT" /\ d.e.state = "FIN_WAIT_1"
      <4>1. c.e.state \in {"SYN_RCVD", "ESTABLISHED", "CLOSE_WAIT"}
            /\ (c.e.retx = "RTO" => c.e.size = 1)
        BY <2>2, <2>4, <2>6, <3>1
      <4>2. /\ d.e \in Sockets /\ Minded(d.e) /\ Closes(d.e)
            /\ Pending(c.e) => Pending(d.e)
            /\ (c.e.retx = "RTO" => c.e.size = 1) => Repeats(d.e)
            /\ d.e.shutdownSend = c.e.shutdownSend
            /\ \/ d.e.state = c.e.state
               \/ c.e.state = "CLOSE_WAIT" /\ d.e.state = "LAST_ACK"
               \/ c.e.state # "CLOSE_WAIT" /\ d.e.state = "FIN_WAIT_1"
        BY <2>1, <2>3, <4>1, CloseSocketAttends
      <4> HIDE DEF d
      <4>3. QED BY <2>2, <2>3, <2>5, <4>1, <4>2
    <3> HIDE DEF d
    <3>3. QED BY <1>3, <3>2 DEF Cared
  <2>7. CASE ~s.e.bound
    <3>1. \A wanted : SendEmptyPacket(c, wanted) = c
      BY <2>2, <2>7 DEF SendEmptyPacket
    <3>2. \/ d \in {[c EXCEPT !.e.closeOnEmpty = TRUE], c}
          \/ d = [c EXCEPT !.e.state = "LAST_ACK"] /\ s.e.state = "CLOSE_WAIT"
          \/ d = [c EXCEPT !.e.state = "FIN_WAIT_1"] /\ s.e.state # "CLOSE_WAIT"
      BY <2>2, <2>4, <3>1 DEF CloseSocket, DoClose
    <3>3. c \in Handled /\ c.e \in Sockets
      BY <2>1 DEF Active, Handled
    <3> HIDE DEF d
    <3>4. /\ d.e.bound = c.e.bound /\ d.e.shutdownSend = c.e.shutdownSend
          /\ \/ d.e.state = c.e.state
             \/ s.e.state = "CLOSE_WAIT" /\ d.e.state = "LAST_ACK"
             \/ s.e.state # "CLOSE_WAIT" /\ d.e.state = "FIN_WAIT_1"
      BY <3>2, <3>3 DEF Handled, Sockets
    <3>5. QED BY <1>3, <2>2, <2>5, <2>7, <3>4, GoneIsAttended DEF Attended
  <2>8. QED BY <2>6, <2>7
<1>4. QED BY <1>2, <1>3, NotifyIs

\* The application is told that the peer has closed.
LEMMA CloseWaitAttends ==
  ASSUME NEW p \in Sockets, NEW s, Active(s, p), Cared(s.e), s.e.state # "TIME_WAIT",
         s.e.bound /\ s.e.closeCalled => HasMore(s.e)
  PROVE  LET w == CloseWait(s)
         IN /\ Cared(w.e)
            /\ Pending(s.e) => Pending(w.e)
            /\ w.e.shutdownSend => w.e.state = "CLOSE_WAIT"
<1> DEFINE v == [s EXCEPT !.e.state = "CLOSE_WAIT"]
           t == Notify(v, "NormalClose")
           n == IF s.e.closeNotified THEN v ELSE t
           w == [n EXCEPT !.e.closeNotified = TRUE]
<1>1. s \in Handled /\ s.e \in Sockets
  BY DEF Active, Handled
<1>2. Active(v, p) /\ v.e.state = "CLOSE_WAIT"
  <2>1. "CLOSE_WAIT" \in States \ {"LISTEN", "SYN_SENT", "SYN_RCVD", "CLOSED"}
        /\ "CLOSE_WAIT" \notin ClosingStates
    BY DEF States, ClosingStates
  <2>2. QED BY <2>1, StateKeeps
<1>3. LikeApart(s.e, v.e)
  BY <1>1 DEF Handled, Sockets, LikeApart
<1> HIDE DEF v
<1>4. Cared(v.e) /\ (Pending(s.e) => Pending(v.e))
  BY <1>2, <1>3 DEF Cared, Minded, Closes, HasMore, Repeats, Pending, LikeApart, DoneWriting
<1>5. /\ Active(t, p) /\ Cared(t.e)
      /\ Pending(v.e) => Pending(t.e)
      /\ t.e.shutdownSend => t.e.state = "CLOSE_WAIT"
  BY <1>2, <1>4, NotifyAttends, NotifyKeeps
<1> HIDE DEF t
<1>6. /\ Active(n, p) /\ Cared(n.e)
      /\ Pending(s.e) => Pending(n.e)
      /\ n.e.shutdownSend => n.e.state = "CLOSE_WAIT"
  BY <1>2, <1>4, <1>5
<1> HIDE DEF n
<1>7. n \in Handled /\ n.e \in Sockets
  BY <1>6 DEF Active, Handled
<1>8. w.e = [n.e EXCEPT !.closeNotified = TRUE]
  BY <1>7 DEF Handled
<1>9. CloseWait(s) = w
  BY DEF CloseWait, n, t, v
<1> HIDE DEF w
<1>10. Like(n.e, w.e) /\ w.e.retx = n.e.retx /\ w.e \in Sockets
  <2>1. w.e \in Sockets /\ n.e.read \in Nat
    BY <1>7, <1>8 DEF Sockets
  <2>2. /\ w.e.una = n.e.una /\ w.e.size = n.e.size /\ w.e.highTx = n.e.highTx
        /\ w.e.written = n.e.written /\ w.e.read = n.e.read /\ w.e.retx = n.e.retx
        /\ w.e.closeCalled = n.e.closeCalled /\ w.e.shutdownSend = n.e.shutdownSend
    BY <1>7, <1>8 DEF Sockets
  <2>3. /\ w.e.state = n.e.state /\ w.e.bound = n.e.bound /\ w.e.lastAck = n.e.lastAck
        /\ w.e.timewait = n.e.timewait /\ w.e.sendPending = n.e.sendPending
        /\ w.e.closeOnEmpty = n.e.closeOnEmpty
    BY <1>7, <1>8 DEF Sockets
  <2>4. QED BY <2>1, <2>2, <2>3 DEF Like
<1>11. Cared(w.e) /\ (Pending(n.e) => Pending(w.e))
  BY <1>6, <1>7, <1>10, LikeIsAttended
<1>12. QED BY <1>6, <1>9, <1>10, <1>11 DEF Like

\* The peer has closed: a FIN that DoPeerClose sends is repeated by its last-ACK timer.
LEMMA DoPeerCloseAttends ==
  ASSUME NEW p \in Sockets, NEW s, Active(s, p), Cared(s.e), s.e.state # "TIME_WAIT",
         s.e.bound /\ s.e.closeCalled => HasMore(s.e)
  PROVE  LET r == DoPeerClose(s)
         IN Cared(r.e) /\ (Pending(s.e) => Pending(r.e))
<1> DEFINE w == CloseWait(s)
           c == IF w.e.shutdownSend THEN CloseSocket(w) ELSE SendEmptyPacket(w, {"ACK"})
           r == [c EXCEPT !.e.dataRetrCount = DataRetries, !.e.lastAck = TRUE]
<1>1. s \in Handled /\ s.e \in Sockets
  BY DEF Active, Handled
<1>2. /\ Active(w, p) /\ Minded(w.e) /\ Closes(w.e) /\ Repeats(w.e)
      /\ Pending(s.e) => Pending(w.e)
      /\ w.e.shutdownSend => w.e.state = "CLOSE_WAIT"
  BY CloseWaitKeeps, CloseWaitAttends DEF Cared
<1>3. DoPeerClose(s) = IF c.e.state = "LAST_ACK" THEN r ELSE c
  BY DEF DoPeerClose
<1> HIDE DEF w
<1>4. /\ c \in Handled /\ Minded(c.e) /\ Closes(c.e)
      /\ Pending(s.e) => Pending(c.e)
      /\ c.e.state # "LAST_ACK" => Repeats(c.e)
  <2>1. CASE w.e.shutdownSend
    <3>1. DoneWriting(w.e)
      BY <1>2, <2>1 DEF DoneWriting
    <3>2. Active(CloseSocket(w), p)
      BY <1>2, <3>1, CloseSocketKeeps
    <3>3. QED BY <1>2, <2>1, <3>1, <3>2, CloseSocketAttends DEF Active
  <2>2. CASE ~w.e.shutdownSend
    <3>1. w \in Handled
      BY <1>2 DEF Active
    <3>2. Active(SendEmptyPacket(w, {"ACK"}), p)
      BY <1>2, SendEmptyKeeps
    <3>3. Cared(w.e)
      BY <1>2 DEF Cared
    <3> DEFINE t == SendEmptyPacket(w, {"ACK"})
    <3>4. Cared(t.e) /\ (Pending(w.e) => Pending(t.e))
      BY <3>1, <3>3, SendEmptyAttends
    <3>5. c = t
      BY <2>2
    <3> HIDE DEF t, c
    <3>6. QED BY <1>2, <3>2, <3>4, <3>5 DEF Active, Cared, t
  <2>3. QED BY <2>1, <2>2
<1> HIDE DEF c
<1>5. CASE c.e.state = "LAST_ACK"
  <2>1. c.e \in Sockets
    BY <1>4 DEF Handled
  <2>2. /\ r.e.state = c.e.state /\ r.e.retx = c.e.retx /\ r.e.lastAck
        /\ r.e.una = c.e.una /\ r.e.size = c.e.size /\ r.e.highTx = c.e.highTx
        /\ r.e.written = c.e.written /\ r.e.read = c.e.read
    BY <1>4, <2>1 DEF Handled, Sockets
  <2>3. /\ r.e.closeCalled = c.e.closeCalled /\ r.e.shutdownSend = c.e.shutdownSend
        /\ r.e.bound = c.e.bound /\ r.e.timewait = c.e.timewait
        /\ r.e.sendPending = c.e.sendPending /\ r.e.closeOnEmpty = c.e.closeOnEmpty
    BY <1>4, <2>1 DEF Handled, Sockets
  <2> HIDE DEF r
  <2>4. Minded(r.e) /\ Closes(r.e) /\ Repeats(r.e) /\ (Pending(s.e) => Pending(r.e))
    BY <1>4, <1>5, <2>2, <2>3 DEF Minded, Closes, HasMore, Repeats, Pending, DoneWriting
  <2>5. QED BY <1>3, <1>5, <2>4 DEF Cared
<1>6. CASE c.e.state # "LAST_ACK"
  BY <1>3, <1>4, <1>6 DEF Cared
<1>7. QED BY <1>5, <1>6

\* An end that writes no more keeps the retransmission event, the other ends need it
\* no longer.
LEMMA ProcessAckAttends ==
  ASSUME NEW p \in Sockets, NEW s, Active(s, p), Cared(s.e), NEW ack \in Nat,
         ack <= p.rxNext, s.e.state \notin {"LAST_ACK", "TIME_WAIT"}
  PROVE  LET r == [s EXCEPT !.e = ProcessAck(@, ack)]
         IN /\ Cared(r.e) /\ r.e.state = s.e.state
            /\ Pending(s.e) => Pending(r.e)
<1> DEFINE r == [s EXCEPT !.e = ProcessAck(@, ack)]
<1>1. s \in Handled /\ s.e \in Sockets
  BY DEF Active, Handled
<1>2. r.e = ProcessAck(s.e, ack)
  BY <1>1 DEF Handled
<1> HIDE DEF r
<1>3. CASE ack > s.e.una
  <2> DEFINE c == [s.e EXCEPT !.una = ack, !.size = 0]
             next == IF ack > c.nextTx THEN ack ELSE c.nextTx
             retx == IF c.state \notin {"FIN_WAIT_1", "CLOSING"} THEN "none" ELSE "RTO"
  <2>1. c \in Sockets /\ c.size = 0 /\ c.state = s.e.state
    BY <1>1 DEF Sockets
  <2>2. r.e = [c EXCEPT !.dataRetrCount = DataRetries, !.nextTx = next, !.retx = retx]
    BY <1>2, <1>3, <2>1 DEF ProcessAck, NewAck
  <2>3. /\ c.written = s.e.written /\ c.read = s.e.read
        /\ c.closeCalled = s.e.closeCalled /\ c.shutdownSend = s.e.shutdownSend
        /\ c.bound = s.e.bound /\ c.timewait = s.e.timewait
    BY <1>1 DEF Sockets
  <2> HIDE DEF c, next
  <2>4. /\ r.e.size = 0 /\ r.e.state = s.e.state /\ r.e.retx = retx
        /\ r.e.written = c.written /\ r.e.read = c.read
        /\ r.e.closeCalled = c.closeCalled /\ r.e.shutdownSend = c.shutdownSend
        /\ r.e.bound = c.bound /\ r.e.timewait = c.timewait
    BY <2>1, <2>2 DEF Sockets
  <2>5. s.e.state \in {"FIN_WAIT_1", "CLOSING"} => DoneWriting(s.e)
    BY DEF Active, Grown, FinFollowsData, ClosingStates
  <2>6. Minded(r.e)
    BY <2>1, <2>3, <2>4, <2>5 DEF Minded, DoneWriting
  <2>7. HasMore(s.e) => s.e.read >= 1
    <3>1. p.rxNext >= 2 /\ AllSent(s.e) /\ 1 <= s.e.una
      BY <1>1, <1>3 DEF Active, Grown, Fits, Sockets
    <3>2. s.e.size = 1 => s.e.highTx = 2 /\ s.e.una = 1
      BY <1>1, <3>1 DEF Active, Whole, Grown, AllSent, Sockets
    <3>3. QED BY <3>2 DEF HasMore
  <2>8. Closes(r.e) /\ Repeats(r.e) /\ Pending(r.e)
    BY <2>3, <2>4, <2>7 DEF Cared, Closes, HasMore, Repeats, Pending
  <2>9. QED BY <2>4, <2>6, <2>8 DEF Cared, r
<1>4. CASE ack = s.e.una /\ ack > s.e.highTx
  <2>1. r.e = [s.e EXCEPT !.nextTx = ack]
    BY <1>1, <1>2, <1>4 DEF ProcessAck, Sockets
  <2>2. r.e \in Sockets /\ r.e.retx = s.e.retx /\ r.e.state = s.e.state
    BY <1>1, <2>1 DEF Sockets
  <2>3. Like(s.e, r.e)
    BY <1>1, <2>1 DEF Sockets, Like
  <2>4. QED BY <1>1, <2>2, <2>3, LikeIsAttended DEF r
<1>5. CASE ~(ack > s.e.una) /\ ~(ack = s.e.una /\ ack > s.e.highTx)
  <2>1. r.e = s.e
    BY <1>2, <1>5 DEF ProcessAck
  <2>2. QED BY <2>1 DEF r
<1>6. QED BY <1>3, <1>4, <1>5

\* Data that is received does not take a timer away.
LEMMA ReceivedDataAttends ==
  ASSUME NEW p \in Sockets, NEW s, Active(s, p), Cared(s.e), NEW h \in Nat,
         h <= s.e.rxNext, NEW m, Meant(m, p, h), m.len > 0, s.e.state # "TIME_WAIT"
  PROVE  LET r == ReceivedData(s, m)
         IN /\ Cared(r.e)
            /\ Pending(s.e) => Pending(r.e)
            /\ "FIN" \in m.flags /\ s.e.state # "CLOSE_WAIT" =>
                 r.e.state \in {s.e.state, "FIN_WAIT_1"}
<1> DEFINE b == [s EXCEPT !.e = AddData(@, m)]
           a == Notify(b, "DataRecv")
           d == [a EXCEPT !.e.delAckCount = @ + 1, !.e.delAck = TRUE]
<1>1. s \in Handled /\ s.e \in Sockets /\ s.e.read \in Nat /\ s.e.rxNext \in Nat
  BY DEF Active, Handled, Sockets
<1>2. m.seq = 1 /\ p.highTx = 2 /\ p.written = 1 /\ m \in Messages
  BY DEF Meant, Messages
<1>3. CASE m.seq # s.e.rxNext
  <2>1. ReceivedData(s, m) = SendEmptyPacket(s, {"ACK"})
    BY <1>3 DEF ReceivedData
  <2>2. QED BY <1>1, <2>1, SendEmptyAttends
<1>4. CASE m.seq = s.e.rxNext
  <2>1. Active(b, p) /\ b.e.read = 1 /\ b.e = AddData(s.e, m)
    BY <1>1, <1>2, <1>4, AddDataKeeps DEF Handled
  <2>2. Like(s.e, b.e) /\ b.e.retx = s.e.retx
    <3> DEFINE next == IF s.e.gotFin /\ s.e.fin = s.e.rxNext + 1 THEN s.e.rxNext + 2
                       ELSE s.e.rxNext + 1
               read == s.e.read + 1
    <3>1. AddData(s.e, m) = [s.e EXCEPT !.rxNext = next, !.read = read]
      BY <1>1 DEF AddData, Sockets
    <3>2. read >= s.e.read
      BY <1>1
    <3> HIDE DEF b, next, read
    <3>3. QED BY <1>1, <2>1, <3>1, <3>2 DEF Sockets, Like
  <2> HIDE DEF b
  <2>3. Cared(b.e) /\ (Pending(s.e) => Pending(b.e)) /\ b.e.state = s.e.state
    BY <1>1, <2>1, <2>2, LikeIsAttended DEF Active, Handled, Like
  <2>4. /\ Active(a, p) /\ Later(b.e, a.e) /\ Cared(a.e)
        /\ Pending(s.e) => Pending(a.e)
        /\ s.e.state # "CLOSE_WAIT" => a.e.state \in {s.e.state, "FIN_WAIT_1"}
        /\ a.e.state # "TIME_WAIT"
    <3>1. Active(a, p) /\ Later(b.e, a.e)
      BY <2>1, NotifyKeeps
    <3>2. /\ Cared(a.e)
          /\ Pending(b.e) => Pending(a.e)
          /\ \/ a.e.state = b.e.state
             \/ b.e.state = "CLOSE_WAIT" /\ a.e.state = "LAST_ACK"
             \/ b.e.state # "CLOSE_WAIT" /\ a.e.state = "FIN_WAIT_1"
      BY <2>1, <2>3, NotifyAttends
    <3> HIDE DEF a
    <3>3. QED BY <2>3, <3>1, <3>2
  <2>5. a.e \in Sockets /\ a \in Handled /\ a.e.read >= 1
    BY <2>1, <2>4 DEF Active, Handled, Later
  <2>6. \/ ReceivedData(s, m) = DoPeerClose(a) /\ "FIN" \notin m.flags
        \/ ReceivedData(s, m) \in {SendEmptyPacket(a, {"ACK"}), d}
    BY <1>4 DEF ReceivedData, a, b
  <2> HIDE DEF a
  <2>7. Cared(DoPeerClose(a).e) /\ (Pending(a.e) => Pending(DoPeerClose(a).e))
    <3>1. HasMore(a.e)
      BY <2>5 DEF HasMore
    <3>2. QED BY <2>4, <3>1, DoPeerCloseAttends
  <2> DEFINE t == SendEmptyPacket(a, {"ACK"})
  <2>8. Cared(t.e) /\ (Pending(a.e) => Pending(t.e)) /\ t.e.state = a.e.state
    BY <2>4, <2>5, SendEmptyAttends
  <2>9. Cared(d.e) /\ (Pending(a.e) => Pending(d.e)) /\ d.e.state = a.e.state
    <3> DEFINE count == a.e.delAckCount + 1
               f == [a.e EXCEPT !.delAckCount = count, !.delAck = TRUE]
    <3>1. count \in Int
      BY <2>5 DEF Sockets
    <3>2. d.e = f
      BY <2>5 DEF Handled, Sockets
    <3> HIDE DEF count, d
    <3>3. f \in Sockets
      BY <2>5, <3>1, TimersTyped
    <3>4. f.retx = a.e.retx /\ f.state = a.e.state
      BY <2>5 DEF Sockets
    <3>5. Like(a.e, f)
      BY <2>5 DEF Sockets, Like
    <3> HIDE DEF f
    <3>6. QED BY <2>4, <2>5, <3>2, <3>3, <3>4, <3>5, LikeIsAttended
  <2> DEFINE r == ReceivedData(s, m)
  <2>10. (r = DoPeerClose(a) /\ "FIN" \notin m.flags) \/ r = t \/ r = d
    BY <2>6
  <2> HIDE DEF t, d, r
  <2>11. QED BY <2>4, <2>7, <2>8, <2>9, <2>10 DEF r
<1>5. QED BY <1>3, <1>4

LEMMA ReceivedAckAttends ==
  ASSUME NEW p \in Sockets, NEW s, Active(s, p), Cared(s.e), NEW h \in Nat,
         h <= s.e.rxNext, NEW m, Meant(m, p, h),
         m.flags \notin {{"RST"}, {"RST", "ACK"}},
         s.e.state \notin {"LAST_ACK", "TIME_WAIT", "SYN_RCVD"}
  PROVE  LET r == ReceivedAck(s, m) IN Cared(r.e) /\ Pending(r.e)
<1> DEFINE a == [s EXCEPT !.e = ProcessAck(@, m.ack)]
           d == IF m.len > 0 THEN ReceivedData(a, m) ELSE a
<1>1. m.ack \in Nat /\ m.ack <= p.rxNext
  BY DEF Meant, Messages
<1>2. Active(a, p) /\ a.e.rxNext = s.e.rxNext
  BY <1>1, ProcessAckKeeps
<1>3. Cared(a.e) /\ a.e.state = s.e.state
  BY <1>1, ProcessAckAttends
<1>4. ReceivedAck(s, m) = SendPendingData(d)
  BY DEF ReceivedAck
<1> HIDE DEF a
<1>5. Active(d, p) /\ Cared(d.e) /\ d.e.state # "SYN_RCVD"
  <2>1. CASE m.len > 0
    <3>1. h <= a.e.rxNext /\ a.e.state # "TIME_WAIT"
      BY <1>2, <1>3
    <3>2. Active(ReceivedData(a, m), p) /\ Later(a.e, ReceivedData(a, m).e)
      BY <1>2, <2>1, <3>1, ReceivedDataKeeps
    <3>3. Cared(ReceivedData(a, m).e)
      BY <1>2, <1>3, <2>1, <3>1, ReceivedDataAttends
    <3>4. ReceivedData(a, m).e.state # "SYN_RCVD"
      BY <1>2, <1>3, <3>2 DEF Active, Later
    <3>5. QED BY <2>1, <3>2, <3>3, <3>4
  <2>2. CASE ~(m.len > 0)
    BY <1>2, <1>3, <2>2
  <2>3. QED BY <2>1, <2>2
<1> HIDE DEF d
<1>6. QED BY <1>4, <1>5, SendPendingAttends

\* The FIN of the peer, in or out of order
LEMMA PeerCloseAttends ==
  ASSUME NEW p \in Sockets, NEW s, Active(s, p), Cared(s.e), NEW h \in Nat,
         h <= s.e.rxNext, NEW m, Meant(m, p, h), m.flags = {"FIN", "ACK"},
         s.e.state \in {"ESTABLISHED", "SYN_RCVD"}
  PROVE  LET r == PeerClose(s, m)
         IN Cared(r.e) /\ (Pending(s.e) => Pending(r.e))
<1> DEFINE seq == m.seq + m.len
           f == [s EXCEPT !.e = SetFinSequence(@, seq)]
           d == IF m.len > 0 THEN ReceivedData(f, m) ELSE f
           c == [d EXCEPT !.e.state = "CLOSING"]
           r == PeerClose(s, m)
           late == m.seq < s.e.rxNext \/ (s.e.gotFin /\ m.seq > s.e.fin)
           next == IF s.e.rxNext = seq THEN s.e.rxNext + 1 ELSE s.e.rxNext
<1>1. s \in Handled /\ s.e \in Sockets /\ m \in Messages /\ s.e.rxNext \in Nat
      /\ m.seq \in Nat /\ m.len \in {0, 1} /\ p.written \in {0, 1}
  BY DEF Active, Handled, Sockets, Meant, Messages
<1>2. seq \in Nat /\ seq >= 1 + p.written
      /\ (seq <= 1 + p.written \/ seq <= s.e.rxNext) /\ DoneWriting(p) /\ AllSent(p)
  BY <1>1 DEF Meant
<1>3. r = IF late THEN s ELSE IF ~Finished(d.e) THEN d
          ELSE IF d.e.state = "FIN_WAIT_1" THEN c ELSE DoPeerClose(d)
  BY DEF PeerClose
<1> HIDE DEF seq, late
<1>4. f.e = [s.e EXCEPT !.gotFin = TRUE, !.fin = seq, !.rxNext = next]
  BY <1>1 DEF Handled, Sockets, SetFinSequence
<1>5. Active(f, p) /\ Later(s.e, f.e)
  BY <1>2, SetFinKeeps
<1> HIDE DEF f, next
<1>6. f.e \in Sockets /\ f.e.rxNext \in Nat /\ h <= f.e.rxNext
  BY <1>1, <1>5 DEF Active, Handled, Sockets, Later
<1>7. Like(s.e, f.e) /\ f.e.retx = s.e.retx
  BY <1>1, <1>4 DEF Sockets, Like
<1>8. Cared(f.e) /\ (Pending(s.e) => Pending(f.e)) /\ f.e.state = s.e.state
  BY <1>1, <1>6, <1>7, LikeIsAttended DEF Like
<1>9. /\ Active(d, p) /\ Cared(d.e)
      /\ d.e.state \in {s.e.state, "FIN_WAIT_1"}
      /\ Pending(s.e) => Pending(d.e)
  <2>1. CASE m.len > 0
    <3>1. Active(ReceivedData(f, m), p)
      BY <1>5, <1>6, <2>1, ReceivedDataKeeps
    <3>2. "FIN" \in m.flags /\ f.e.state # "TIME_WAIT"
      BY <1>8
    <3>3. /\ Cared(ReceivedData(f, m).e)
          /\ Pending(f.e) => Pending(ReceivedData(f, m).e)
          /\ ReceivedData(f, m).e.state \in {f.e.state, "FIN_WAIT_1"}
      BY <1>5, <1>6, <1>8, <2>1, <3>2, ReceivedDataAttends
    <3>4. QED BY <1>8, <2>1, <3>1, <3>3
  <2>2. CASE ~(m.len > 0)
    BY <1>5, <1>8, <2>2
  <2>3. QED BY <2>1, <2>2
<1> HIDE DEF d
<1>10. d.e \in Sockets /\ d \in Handled
  BY <1>9 DEF Active, Handled
<1>11. CASE d.e.state = "FIN_WAIT_1"
  <2>1. c.e \in Sockets /\ c.e.state = "CLOSING" /\ LikeApart(d.e, c.e)
    BY <1>10, StateIs DEF States
  <2> HIDE DEF c
  <2>2. Cared(c.e) /\ (Pending(d.e) => Pending(c.e))
    BY <1>9, <1>11, <2>1 DEF Cared, Minded, Closes, ClosingStates, Repeats, Pending,
                             LikeApart, DoneWriting
  <2>3. QED BY <1>3, <1>9, <1>11, <2>2 DEF r, c
<1>12. CASE d.e.state # "FIN_WAIT_1"
  <2>1. d.e.bound /\ d.e.closeCalled => HasMore(d.e)
    BY <1>9, <1>12 DEF Cared, Closes, ClosingStates
  <2>2. Cared(DoPeerClose(d).e) /\ (Pending(d.e) => Pending(DoPeerClose(d).e))
    BY <1>9, <1>12, <2>1, DoPeerCloseAttends
  <2>3. QED BY <1>3, <1>9, <1>12, <2>2
<1>13. QED BY <1>11, <1>12

\* With the handshake over, this is all that Attended asks for.
LEMMA OpenIsAttended ==
  ASSUME NEW e, Cared(e), Pending(e), e.state \notin {"LISTEN", "SYN_SENT", "SYN_RCVD"}
  PROVE  Attended(e)
BY DEF Attended

LEMMA ProcessEstablishedAttends ==
  ASSUME NEW p \in Sockets, NEW s, Active(s, p), Cared(s.e), Pending(s.e), NEW h \in Nat,
         h <= s.e.rxNext, NEW m, Meant(m, p, h), s.e.state = "ESTABLISHED"
  PROVE  LET r == ProcessEstablished(s, m) IN Cared(r.e) /\ Pending(r.e)
<1>1. s \in Handled /\ m.flags \in FlagSets
  BY DEF Active, Meant, Messages
<1>2. CASE m.flags = {"ACK"}
  <2>1. ProcessEstablished(s, m) \in {s, SendEmptyPacket(s, {"ACK"}), ReceivedAck(s, m)}
    BY <1>2 DEF ProcessEstablished
  <2>2. m.flags \notin {{"RST"}, {"RST", "ACK"}}
    BY <1>2
  <2>3. Cared(ReceivedAck(s, m).e) /\ Pending(ReceivedAck(s, m).e)
    BY <2>2, ReceivedAckAttends
  <2>4. Cared(SendEmptyPacket(s, {"ACK"}).e) /\ Pending(SendEmptyPacket(s, {"ACK"}).e)
    BY <1>1, SendEmptyAttends
  <2>5. QED BY <2>1, <2>3, <2>4
<1>3. CASE m.flags \in {{"SYN"}, {"SYN", "ACK"}}
  <2>1. ProcessEstablished(s, m) = s
    BY <1>3 DEF ProcessEstablished
  <2>2. QED BY <2>1
<1>4. CASE m.flags = {"FIN", "ACK"}
  <2>1. ProcessEstablished(s, m) = PeerClose(s, m)
    BY <1>4 DEF ProcessEstablished
  <2>2. QED BY <1>4, <2>1, PeerCloseAttends
<1>5. CASE m.flags \in {{"RST"}, {"RST", "ACK"}}
  <2>1. ProcessEstablished(s, m) = Refuse(s, m)
    BY <1>5 DEF ProcessEstablished
  <2>2. ~Refuse(s, m).e.bound
    BY RefuseKeeps
  <2>3. QED BY <2>1, <2>2, GoneIsAttended DEF Attended
<1>6. QED BY <1>1, <1>2, <1>3, <1>4, <1>5 DEF FlagSets

LEMMA InOrderFinAttends ==
  ASSUME NEW p \in Sockets, NEW s, Active(s, p), Cared(s.e), Pending(s.e), NEW m
  PROVE  LET r == InOrderFin(s, m) IN Cared(r.e) /\ Pending(r.e)
<1> DEFINE acked == s.e.size = 0 /\ m.ack = s.e.highTx + 1
           c == [s EXCEPT !.e.state = "CLOSING"]
           next == IF s.e.state = "FIN_WAIT_2" THEN TimeWait(s)
                   ELSE IF acked THEN TimeWait(c) ELSE c
           inOrder == s.e.state \in {"FIN_WAIT_1", "FIN_WAIT_2"} /\ Finished(s.e)
<1>1. s \in Handled /\ s.e \in Sockets
  BY DEF Active, Handled
<1>2. InOrderFin(s, m) = IF inOrder THEN SendEmptyPacket(next, {"ACK"}) ELSE s
  BY DEF InOrderFin
<1>3. CASE inOrder
  <2>1. c \in Handled /\ c.e.state = "CLOSING" /\ LikeApart(s.e, c.e)
    BY <1>1, StateIs DEF States
  <2> HIDE DEF c
  <2>2. /\ Cared(TimeWait(s).e) /\ Pending(TimeWait(s).e)
        /\ Cared(TimeWait(c).e) /\ Pending(TimeWait(c).e)
        /\ TimeWait(s) \in Handled /\ TimeWait(c) \in Handled
    BY <1>1, <2>1, TimeWaitAttends
  <2>3. s.e.state # "FIN_WAIT_2" => Cared(c.e) /\ Pending(c.e)
    BY <1>3, <2>1
    DEF Cared, Minded, Closes, Repeats, Pending, LikeApart, DoneWriting, ClosingStates
  <2>4. next \in Handled /\ Cared(next.e) /\ Pending(next.e)
    BY <2>1, <2>2, <2>3
  <2> HIDE DEF next, inOrder
  <2>5. QED BY <1>2, <1>3, <2>4, SendEmptyAttends
<1>4. CASE ~inOrder
  BY <1>2, <1>4
<1>5. QED BY <1>3, <1>4

LEMMA ProcessWaitAttends ==
  ASSUME NEW p \in Sockets, NEW s, Active(s, p), Cared(s.e), Pending(s.e), NEW h \in Nat,
         h <= s.e.rxNext, NEW m, Meant(m, p, h),
         s.e.state \in {"FIN_WAIT_1", "FIN_WAIT_2", "CLOSE_WAIT"}
  PROVE  LET r == ProcessWait(s, m) IN Cared(r.e) /\ Pending(r.e)
<1> DEFINE r == ReceivedAck(s, m)
           finAcked == r.e.state = "FIN_WAIT_1" /\ r.e.size = 0 /\ m.ack = r.e.highTx + 1
           w == IF finAcked THEN [r EXCEPT !.e.state = "FIN_WAIT_2"] ELSE r
           f == [r EXCEPT !.e = SetFinSequence(@, m.seq)]
<1>1. s.e \in Sockets /\ m.flags \in FlagSets /\ m \in Messages
  BY DEF Active, Handled, Meant, Messages
<1>2. CASE m.flags \in {{"ACK"}, {"FIN", "ACK"}}
  <2>1. m.flags \notin {{"RST"}, {"RST", "ACK"}}
    BY <1>2
  <2>2. Active(r, p) /\ Later(s.e, r.e) /\ (m.len > 0 => r.e.read = 1)
    BY <2>1, ReceivedAckKeeps
  <2>3. Cared(r.e) /\ Pending(r.e)
    BY <2>1, ReceivedAckAttends
  <2>4. m.ack <= p.rxNext
    BY <2>1 DEF Meant
  <2> HIDE DEF r
  <2>5. r.e \in Sockets /\ r \in Handled
    BY <2>2 DEF Active, Handled
  <2>6. CASE m.flags = {"ACK"}
    <3>1. ProcessWait(s, m) = InOrderFin(w, m)
      BY <2>6 DEF ProcessWait, r
    <3>2. Active(w, p) /\ Cared(w.e) /\ Pending(w.e)
      <4>1. CASE finAcked
        <5>1. Finished(p)
          <6>1. AllSent(r.e) /\ r.e.highTx \in Nat /\ r.e.highTx >= 1
                /\ r.e.written \in {0, 1} /\ p.rxNext \in Nat
            BY <2>2, <2>5, <4>1 DEF Active, Grown, Sockets
          <6>2. r.e.highTx >= 1 + r.e.written
            BY <6>1 DEF AllSent
          <6>3. p.rxNext >= 2 + r.e.written
            BY <2>4, <4>1, <6>1, <6>2
          <6>4. QED BY <2>2, <6>3 DEF Active, Fits
        <5>2. DoneWriting(r.e) /\ AllSent(r.e) /\ r.e.nextTx >= 1 + r.e.written
          BY <2>2, <4>1 DEF Active, Grown, FinFollowsData, ClosingStates
        <5> DEFINE v == [r EXCEPT !.e.state = "FIN_WAIT_2"]
        <5>3. "FIN_WAIT_2" \in States \ {"LISTEN", "SYN_SENT", "SYN_RCVD", "CLOSED"}
          BY DEF States
        <5>4. Active(v, p)
          BY <2>2, <5>1, <5>2, <5>3, StateKeeps
        <5>5. v.e.state = "FIN_WAIT_2" /\ LikeApart(r.e, v.e)
          BY <2>5, <5>3, StateIs
        <5>6. w = v
          BY <4>1
        <5> HIDE DEF v, w
        <5>7. Cared(v.e) /\ Pending(v.e)
          BY <2>3, <4>1, <5>5
          DEF Cared, Minded, Closes, Repeats, Pending, LikeApart, DoneWriting,
              ClosingStates
        <5>8. QED BY <5>4, <5>6, <5>7
      <4>2. CASE ~finAcked
        BY <2>2, <2>3, <4>2
      <4>3. QED BY <4>1, <4>2
    <3> HIDE DEF w
    <3>3. QED BY <3>1, <3>2, InOrderFinAttends
  <2>7. CASE m.flags = {"FIN", "ACK"}
    <3>1. ProcessWait(s, m) = InOrderFin(f, m)
      BY <2>7 DEF ProcessWait, r
    <3>2. m.seq \in Nat /\ DoneWriting(p) /\ AllSent(p) /\ r.e.rxNext \in Nat
          /\ m.len \in {0, 1} /\ s.e.rxNext \in Nat
      BY <1>1, <2>5, <2>7 DEF Meant, Messages, Sockets
    <3>3. m.seq >= 1 + p.written \/ r.e.read = p.written
      BY <2>2, <2>7, <3>2 DEF Meant
    <3>4. m.seq <= 1 + p.written \/ m.seq <= r.e.rxNext
      BY <2>2, <2>7, <3>2 DEF Meant, Later, Sockets
    <3>5. Active(f, p)
      BY <2>2, <3>2, <3>3, <3>4, SetFinKeeps
    <3> DEFINE next == IF r.e.rxNext = m.seq THEN r.e.rxNext + 1 ELSE r.e.rxNext
    <3>6. f.e = [r.e EXCEPT !.gotFin = TRUE, !.fin = m.seq, !.rxNext = next]
      BY <2>5 DEF Handled, Sockets, SetFinSequence
    <3> HIDE DEF f, next
    <3>7. Like(r.e, f.e) /\ f.e.retx = r.e.retx
      BY <2>5, <3>6 DEF Sockets, Like
    <3>8. Cared(f.e) /\ Pending(f.e)
      <4>1. f.e \in Sockets
        BY <3>5 DEF Active, Handled
      <4>2. QED BY <2>3, <2>5, <3>7, <4>1, LikeIsAttended
    <3>9. QED BY <3>1, <3>5, <3>8, InOrderFinAttends
  <2>8. QED BY <1>2, <2>6, <2>7
<1>3. CASE m.flags \in {{"SYN"}, {"SYN", "ACK"}}
  <2>1. ProcessWait(s, m) = s
    BY <1>3 DEF ProcessWait
  <2>2. QED BY <2>1
<1>4. CASE m.flags \in {{"RST"}, {"RST", "ACK"}}
  <2>1. ProcessWait(s, m) = Refuse(s, m)
    BY <1>4 DEF ProcessWait
  <2>2. ~Refuse(s, m).e.bound
    BY RefuseKeeps
  <2>3. QED BY <2>1, <2>2, GoneIsAttended DEF Attended
<1>5. QED BY <1>1, <1>2, <1>3, <1>4 DEF FlagSets

LEMMA ProcessClosingAttends ==
  ASSUME NEW p \in Sockets, NEW s, Active(s, p), Cared(s.e), Pending(s.e), NEW m
  PROVE  /\ LET r == ProcessClosing(s, m) IN Cared(r.e) /\ Pending(r.e)
         /\ LET r == ProcessLastAck(s, m) IN Cared(r.e) /\ Pending(r.e)
<1> DEFINE t == SendEmptyPacket(s, {"ACK"})
<1>1. s \in Handled
  BY DEF Active
<1>2. Active(t, p)
  BY SendEmptyKeeps
<1> HIDE DEF t
<1>3. ~CloseAndNotify(t).e.bound /\ ~CloseAndNotify(s).e.bound /\ ~Refuse(s, m).e.bound
  BY <1>2, CloseAndNotifyKeeps, RefuseKeeps
<1>4. /\ Cared(CloseAndNotify(t).e) /\ Pending(CloseAndNotify(t).e)
      /\ Cared(CloseAndNotify(s).e) /\ Pending(CloseAndNotify(s).e)
      /\ Cared(Refuse(s, m).e) /\ Pending(Refuse(s, m).e)
  BY <1>3, GoneIsAttended DEF Attended
<1>5. Cared(TimeWait(s).e) /\ Pending(TimeWait(s).e)
  BY <1>1, TimeWaitAttends
<1>6. ProcessClosing(s, m) \in {TimeWait(s), s, CloseAndNotify(t), Refuse(s, m)}
  BY DEF ProcessClosing, t
<1>7. ProcessLastAck(s, m) \in {s, CloseAndNotify(s), Refuse(s, m)}
  BY DEF ProcessLastAck
<1>8. QED BY <1>4, <1>5, <1>6, <1>7

\* A segment for a socket that has been through the handshake
LEMMA ActiveForwardAttends ==
  ASSUME NEW p \in Sockets, NEW s, Active(s, p), s.e.state # "SYN_RCVD", Attended(s.e),
         NEW x \in Ends, NEW m, Meant(m, p, s.e.rxNext)
  PROVE  Attended(ForwardUp(s, x, m).e)
<1> DEFINE r == ForwardUp(s, x, m)
<1>1. s \in Handled /\ s.e \in Sockets /\ p.rxNext \in Nat /\ m \in Messages
      /\ s.e.rxNext \in Nat /\ s.e.rxNext <= s.e.rxNext
  BY DEF Active, Handled, Sockets, Meant, Messages
<1>2. Cared(s.e) /\ Pending(s.e)
  BY DEF Attended
<1>3. CASE ~s.e.bound
  <2>1. r = NoEndPointsFound(s, x, m)
    BY <1>3 DEF ForwardUp
  <2> HIDE DEF r
  <2>2. r.e = s.e
    BY <1>1, <2>1, NoEndPointsIs
  <2>3. QED BY <2>2 DEF r
<1>4. CASE s.e.bound
  <2>1. Cared(r.e) /\ Pending(r.e)
    <3>1. CASE OutOfRange(s.e, m)
      BY <1>1, <1>2, <1>4, <3>1, SendEmptyAttends DEF ForwardUp
    <3>2. CASE ~OutOfRange(s.e, m) /\ s.e.state = "ESTABLISHED"
      <4>1. r = ProcessEstablished(s, m)
        BY <1>4, <3>2 DEF ForwardUp
      <4> HIDE DEF r
      <4>2. QED BY <1>1, <1>2, <3>2, <4>1, ProcessEstablishedAttends
    <3>3. CASE ~OutOfRange(s.e, m) /\ s.e.state \in {"FIN_WAIT_1", "FIN_WAIT_2", "CLOSE_WAIT"}
      <4>1. r = ProcessWait(s, m)
        BY <1>4, <3>3 DEF ForwardUp
      <4> HIDE DEF r
      <4>2. QED BY <1>1, <1>2, <3>3, <4>1, ProcessWaitAttends
    <3>4. CASE ~OutOfRange(s.e, m) /\ s.e.state \in {"CLOSING", "LAST_ACK"}
      <4>1. r \in {ProcessClosing(s, m), ProcessLastAck(s, m)}
        BY <1>4, <3>4 DEF ForwardUp
      <4> HIDE DEF r
      <4>2. QED BY <1>2, <4>1, ProcessClosingAttends
    <3>5. CASE ~OutOfRange(s.e, m) /\ s.e.state \in {"CLOSED", "TIME_WAIT"}
      <4>1. r = s
        BY <1>4, <3>5 DEF ForwardUp
      <4> HIDE DEF r
      <4>2. QED BY <1>2, <4>1
    <3>6. s.e.state \in States \ {"LISTEN", "SYN_SENT", "SYN_RCVD"}
      BY <1>1 DEF Active, Sockets
    <3>7. QED BY <3>1, <3>2, <3>3, <3>4, <3>5, <3>6 DEF States
  <2>2. Active(r, p) /\ r.e.state # "SYN_RCVD"
    BY ActiveForwardRests
  <2> HIDE DEF r
  <2>3. QED BY <2>1, <2>2, OpenIsAttended DEF Active, r
<1>5. QED BY <1>1, <1>3, <1>4 DEF Sockets

\* A connection that is asked for has its SYN or SYN+ACK repeated.
LEMMA OpeningIsAttended ==
  ASSUME NEW e, Closes(e), e.state \in OpeningStates, e.retx \in {"SYN", "SYN+ACK"},
         e.state \in {"LISTEN", "SYN_RCVD"} => e.size = 0
  PROVE  Attended(e)
BY DEF Attended, Cared, Minded, Closes, Repeats, Pending, OpeningStates

LEMMA OpenedIsCared ==
  ASSUME NEW e, NEW f, Opened(e, f), Closes(e), e.state \in {"SYN_SENT", "SYN_RCVD"},
         f.state \in {"ESTABLISHED", "SYN_RCVD"}
  PROVE  Cared(f)
BY DEF Opened, Cared, Minded, Closes, HasMore, Repeats, ClosingStates

\* It has its SYN+ACK sent.
LEMMA SynAckAttends ==
  ASSUME NEW s \in Handled, s.e.state = "SYN_RCVD", s.e.size = 0, Closes(s.e),
         s.e.retx \in {"none", "SYN", "SYN+ACK"}
  PROVE  Attended(SendEmptyPacket(s, {"SYN", "ACK"}).e)
<1> DEFINE r == SendEmptyPacket(s, {"SYN", "ACK"})
<1>1. s.e \in Sockets
  BY DEF Handled
<1>2. /\ ~r.e.bound \/ r.e.retx # "none"
      /\ r.e \in Sockets
      /\ r.e.bound => Like(s.e, r.e)
      /\ r.e.retx \in {s.e.retx, "none", "SYN", "SYN+ACK"}
  BY SendSynIs
<1> HIDE DEF r
<1>3. CASE ~r.e.bound
  BY <1>3, GoneIsAttended DEF r
<1>4. CASE r.e.bound
  <2>1. Like(s.e, r.e) /\ r.e.retx \in {"SYN", "SYN+ACK"}
    BY <1>2, <1>4
  <2>2. s.e.read \in Nat /\ r.e.read \in Nat
    BY <1>1, <1>2 DEF Sockets
  <2>3. Closes(r.e)
    BY <2>1, <2>2 DEF Closes, HasMore, Like
  <2>4. r.e.state = "SYN_RCVD" /\ r.e.size = 0
    BY <2>1 DEF Like
  <2>5. QED BY <2>1, <2>3, <2>4, OpeningIsAttended DEF r, OpeningStates
<1>5. QED BY <1>2, <1>3, <1>4 DEF Sockets

LEMMA ProcessListenAttends ==
  ASSUME NEW p \in Sockets, NEW s, Fresh(s, p), s.e.state = "LISTEN", Attended(s.e),
         s.e.bound, NEW h, NEW m, Meant(m, p, h)
  PROVE  Attended(ProcessListen(s, m).e)
<1> DEFINE next == m.seq + 1
           w == [s EXCEPT !.e.state = "SYN_RCVD", !.e.rxNext = next]
<1>1. s \in Handled /\ s.e \in Sockets /\ Young(s.e)
  BY DEF Fresh, Handled
<1>2. CASE m.flags = {"SYN"}
  <2>1. next = 1
    BY <1>2 DEF Meant
  <2>2. ProcessListen(s, m) = SendEmptyPacket(w, {"SYN", "ACK"})
    BY <1>2 DEF ProcessListen
  <2> HIDE DEF next
  <2>3. w \in Handled
    BY <1>1, <2>1 DEF Handled, Sockets, States
  <2>4. LikeApart(s.e, w.e) /\ w.e.state = "SYN_RCVD"
    BY <1>1 DEF Handled, Sockets, LikeApart
  <2> HIDE DEF w
  <2>5. w.e.size = 0 /\ w.e.retx \in {"none", "SYN", "SYN+ACK"}
    BY <1>1, <2>4 DEF LikeApart, Attended, Young
  <2>6. Closes(w.e)
    BY <2>4 DEF LikeApart, Attended, Cared, Closes, HasMore, ClosingStates
  <2>7. QED BY <2>2, <2>3, <2>4, <2>5, <2>6, SynAckAttends
<1>3. CASE m.flags # {"SYN"}
  BY <1>3 DEF ProcessListen
<1>4. QED BY <1>2, <1>3

LEMMA ProcessSynSentAttends ==
  ASSUME NEW p \in Sockets, NEW s, Fresh(s, p), s.e.state = "SYN_SENT", Attended(s.e),
         NEW m, Meant(m, p, s.e.rxNext)
  PROVE  Attended(ProcessSynSent(s, m).e)
<1> DEFINE open == [s EXCEPT !.e = [Establish(@) EXCEPT !.state = "ESTABLISHED",
                                                        !.rxNext = m.seq + 1]]
           t == SendEmptyPacket(open, {"ACK"})
           u == SendPendingData(t)
           r == [u EXCEPT !.e.delAckCount = DelAckMaxCount]
<1>1. s \in Handled /\ m.flags \in FlagSets
  BY DEF Fresh, Handled, Meant, Messages
<1>2. CASE m.flags = {"SYN", "ACK"}
  <2>1. ProcessSynSent(s, m) = r
    BY <1>2 DEF ProcessSynSent
  <2>2. Active(open, p) /\ open.e.state = "ESTABLISHED" /\ Opened(s.e, open.e)
    BY <1>2, SynSentOpens
  <2> HIDE DEF open
  <2>3. Cared(open.e) /\ open \in Handled
    BY <2>2, OpenedIsCared DEF Attended, Cared, Active
  <2>4. Active(t, p) /\ Later(open.e, t.e) /\ t.e.state = "ESTABLISHED"
    BY <2>2, SendEmptyKeeps
  <2>5. Cared(t.e)
    BY <2>3, SendEmptyAttends
  <2> HIDE DEF t
  <2>6. Active(u, p) /\ Later(t.e, u.e)
    BY <2>4, SendPendingKeeps
  <2>7. Cared(u.e) /\ Pending(u.e)
    BY <2>4, <2>5, SendPendingAttends
  <2> HIDE DEF u
  <2>8. u \in Handled /\ u.e \in Sockets
    BY <2>6 DEF Active, Handled
  <2>9. u.e.state \notin {"LISTEN", "SYN_SENT", "SYN_RCVD"}
    BY <2>2, <2>4, <2>6 DEF Active, Later
  <2>10. r.e \in Sockets /\ r.e.retx = u.e.retx
    <3>1. DelAckMaxCount \in Int
      BY ConnectionAssumption DEF ConnectionAssumption
    <3>2. QED BY <2>8, <3>1 DEF Handled, Sockets
  <2>11. Like(u.e, r.e)
    BY <2>8 DEF Handled, Sockets, Like
  <2> HIDE DEF r
  <2>12. Attended(u.e)
    BY <2>7, <2>9, OpenIsAttended
  <2>13. QED BY <2>1, <2>8, <2>10, <2>11, <2>12, LikeIsAttended
<1>3. CASE m.flags \in {{"ACK"}, {"FIN", "ACK"}, {"RST", "ACK"}}
  <2>1. ProcessSynSent(s, m) = s
    BY <1>3 DEF ProcessSynSent
  <2>2. QED BY <2>1
<1>4. CASE m.flags \in {{"SYN"}, {"RST"}}
  <2>1. ProcessSynSent(s, m) = Refuse(s, m)
    BY <1>4 DEF ProcessSynSent
  <2>2. ~Refuse(s, m).e.bound
    BY RefuseStaysFresh
  <2>3. QED BY <2>1, <2>2, GoneIsAttended
<1>5. QED BY <1>1, <1>2, <1>3, <1>4 DEF FlagSets

LEMMA ProcessSynRcvdAttends ==
  ASSUME NEW p \in Sockets, NEW s, Fresh(s, p), s.e.state = "SYN_RCVD", Attended(s.e),
         s.e.bound, NEW m, Meant(m, p, s.e.rxNext)
  PROVE  Attended(ProcessSynRcvd(s, m).e)
<1> DEFINE open == [s EXCEPT !.e = [Establish(@) EXCEPT !.state = "ESTABLISHED",
                                                        !.delAckCount = DelAckMaxCount]]
           half == [s EXCEPT !.e = Establish(@)]
           w == [s EXCEPT !.e.rxNext = m.seq + 1]
<1>1. s \in Handled /\ s.e \in Sockets /\ Young(s.e) /\ p.rxNext \in Nat
      /\ m \in Messages /\ m.flags \in FlagSets
  BY DEF Fresh, Handled, Sockets, Meant, Messages
<1>2. s.e.rxNext = 1 /\ s.e.nextTx = 0 /\ s.e.size = 0 /\ Closes(s.e)
      /\ s.e.retx \in {"none", "SYN", "SYN+ACK"}
  BY <1>1 DEF Young, Attended, Cared
<1>3. p.rxNext >= 1 =>
        /\ Active(half, p) /\ half.e.rxNext = 1 /\ ~half.e.gotFin
        /\ half.e.state = "SYN_RCVD" /\ Opened(s.e, half.e)
        /\ Active(open, p) /\ open.e.rxNext = 1
        /\ open.e.state = "ESTABLISHED" /\ Opened(s.e, open.e)
  BY SynRcvdOpens
<1> DEFINE r == ProcessSynRcvd(s, m)
<1>4. CASE m.flags = {"ACK"} /\ m.ack = s.e.nextTx + 1
  <2>1. p.rxNext >= 1
    BY <1>1, <1>2, <1>4 DEF Meant, Messages
  <2>2. r = ReceivedAck(open, m)
    BY <1>1, <1>4 DEF ProcessSynRcvd
  <2> HIDE DEF open, half, r
  <2>3. Meant(m, p, 1) /\ m.flags \notin {{"RST"}, {"RST", "ACK"}} /\ 1 <= open.e.rxNext
    BY <1>2, <1>3, <1>4, <2>1
  <2>4. Cared(open.e) /\ open.e.state \notin {"LAST_ACK", "TIME_WAIT"}
    BY <1>2, <1>3, <2>1, OpenedIsCared
  <2>5. Active(r, p) /\ Later(open.e, r.e)
    BY <1>3, <2>1, <2>2, <2>3, ReceivedAckKeeps
  <2>6. Cared(r.e) /\ Pending(r.e)
    BY <1>3, <2>1, <2>2, <2>3, <2>4, ReceivedAckAttends
  <2>7. r.e.state \notin {"LISTEN", "SYN_SENT", "SYN_RCVD"}
    BY <1>3, <2>1, <2>5 DEF Active, Later
  <2>8. QED BY <2>6, <2>7, OpenIsAttended DEF r
<1>5. CASE m.flags = {"SYN"}
  <2>1. m.seq + 1 = 1
    BY <1>5 DEF Meant
  <2>2. w \in Handled
    BY <1>1, <2>1 DEF Handled, Sockets
  <2>3. LikeApart(s.e, w.e) /\ w.e.state = s.e.state
    BY <1>1 DEF Handled, Sockets, LikeApart
  <2>4. r = SendEmptyPacket(w, {"SYN", "ACK"})
    BY <1>5 DEF ProcessSynRcvd
  <2> HIDE DEF w, r
  <2>5. Closes(w.e) /\ w.e.size = 0 /\ w.e.retx \in {"none", "SYN", "SYN+ACK"}
    BY <1>2, <2>3 DEF LikeApart, Closes, HasMore
  <2>6. QED BY <2>2, <2>3, <2>4, <2>5, SynAckAttends DEF r
<1>6. CASE m.flags = {"FIN", "ACK"} /\ m.seq = s.e.rxNext
  <2>1. p.rxNext >= 1
    BY <1>1, <1>6 DEF Meant, Messages
  <2>2. r = PeerClose(half, m)
    BY <1>6 DEF ProcessSynRcvd
  <2> HIDE DEF half, open, r
  <2>3. Meant(m, p, 1) /\ 1 <= half.e.rxNext /\ m.seq = half.e.rxNext /\ ~half.e.gotFin
    BY <1>2, <1>3, <1>6, <2>1
  <2>4. Cared(half.e) /\ Pending(half.e)
    <3>1. Cared(half.e)
      BY <1>2, <1>3, <2>1, OpenedIsCared
    <3>2. half.e.size = 0
      BY <1>2, <1>3, <2>1 DEF Opened
    <3>3. QED BY <3>1, <3>2 DEF Pending
  <2>5. Active(r, p) /\ r.e.state # "SYN_RCVD"
    BY <1>3, <1>6, <2>1, <2>2, <2>3, PeerCloseKeeps
  <2>6. Cared(r.e) /\ Pending(r.e)
    BY <1>3, <1>6, <2>1, <2>2, <2>3, <2>4, PeerCloseAttends
  <2>7. QED BY <2>5, <2>6, OpenIsAttended DEF r, Active
<1>7. CASE m.flags = {"FIN", "ACK"} /\ m.seq # s.e.rxNext
  <2>1. r = s
    BY <1>7 DEF ProcessSynRcvd
  <2>2. QED BY <2>1
<1>8. CASE /\ ~(m.flags = {"ACK"} /\ m.ack = s.e.nextTx + 1)
           /\ m.flags \notin {{"SYN"}, {"FIN", "ACK"}}
  <2>1. r = Refuse(s, m)
    BY <1>8 DEF ProcessSynRcvd
  <2>2. ~Refuse(s, m).e.bound
    BY RefuseStaysFresh
  <2> HIDE DEF r
  <2>3. QED BY <2>1, <2>2, GoneIsAttended DEF r
<1>9. QED BY <1>4, <1>5, <1>6, <1>7, <1>8

\* A segment for a socket whose connection is not open yet
LEMMA FreshForwardAttends ==
  ASSUME NEW p \in Sockets, NEW s, Fresh(s, p), Attended(s.e), NEW x \in Ends,
         NEW m, Meant(m, p, s.e.rxNext)
  PROVE  Attended(ForwardUp(s, x, m).e)
<1> DEFINE r == ForwardUp(s, x, m)
<1>1. s \in Handled /\ s.e \in Sockets /\ m \in Messages /\ s.e.state \in OpeningStates
  BY DEF Fresh, Handled, Meant, Messages
<1>2. CASE ~s.e.bound
  <2>1. r = NoEndPointsFound(s, x, m)
    BY <1>2 DEF ForwardUp
  <2> HIDE DEF r
  <2>2. r.e = s.e
    BY <1>1, <2>1, NoEndPointsIs
  <2>3. QED BY <2>2 DEF r
<1>3. CASE s.e.bound /\ OutOfRange(s.e, m)
  BY <1>1, <1>3, SendEmptyAttends DEF ForwardUp
<1>4. CASE s.e.bound /\ ~OutOfRange(s.e, m)
  <2>1. CASE s.e.state = "LISTEN"
    BY <1>4, <2>1, ProcessListenAttends DEF ForwardUp
  <2>2. CASE s.e.state = "SYN_SENT"
    BY <1>4, <2>2, ProcessSynSentAttends DEF ForwardUp
  <2>3. CASE s.e.state = "SYN_RCVD"
    BY <1>4, <2>3, ProcessSynRcvdAttends DEF ForwardUp
  <2>4. CASE s.e.state = "CLOSED"
    <3>1. r = s
      BY <1>4, <2>4 DEF ForwardUp
    <3>2. QED BY <3>1
  <2>5. QED BY <1>1, <2>1, <2>2, <2>3, <2>4 DEF OpeningStates
<1>5. QED BY <1>1, <1>2, <1>3, <1>4 DEF Sockets

(***************************************************************************)
(* Every event leaves its end with a timer                                 *)
(***************************************************************************)
\* An event at x that leaves it attended
Attends(x) == \E r : EndsIn(x, r) /\ Attended(r.e)

LEMMA ArriveAttends ==
  ASSUME ConnInv, NEW x \in Ends, Attended(end[x]), NEW m \in sent[x], Arrive(x, m)
  PROVE  Attends(x)
<1> DEFINE p == end[Peer(x)]
<1>0. PICK c \in SUBSET CallbackCloses : EndsIn(x, ForwardUp(Begun(x, c), x, m))
  BY DEF Arrive, Begun
<1> DEFINE h == Begun(x, c)
           r == ForwardUp(h, x, m)
<1>1. /\ p \in Sockets /\ h.e = end[x]
      /\ Fresh(h, p) \/ (Active(h, p) /\ end[x].state # "SYN_RCVD")
  BY ArriveBegins
<1>2. Meant(m, p, end[x].rxNext)
  BY DEF ConnInv
<1>3. EndsIn(x, r)
  BY <1>0
<1> HIDE DEF h, p
<1>4. Attended(r.e)
  BY <1>1, <1>2, FreshForwardAttends, ActiveForwardAttends
<1>5. QED BY <1>3, <1>4 DEF Attends

LEMMA ConnectAttends ==
  ASSUME ConnInv, Attended(end["A"]), Connect
  PROVE  Attends("A")
<1> DEFINE s == Handle("A")
           p == end[Peer("A")]
           t == SendEmptyPacket(s, {"SYN"})
           r == [t EXCEPT !.e.state = "SYN_SENT"]
<1>1. /\ p \in Sockets /\ s.e = end["A"] /\ s \in Handled
      /\ Fresh(s, p) \/ (Active(s, p) /\ end["A"].state # "SYN_RCVD")
  BY Begins DEF Ends
<1>2. Fresh(s, p) /\ s.e.state = "CLOSED"
  BY <1>1 DEF Connect, Active
<1>3. EndsIn("A", r)
  BY DEF Connect
<1> HIDE DEF s, p
<1>4. t \in Handled
  BY <1>1, <1>2, SendSynStaysFresh DEF Fresh
<1>5. /\ ~t.e.bound \/ t.e.retx # "none"
      /\ t.e.bound => Like(s.e, t.e)
      /\ t.e.retx \in {s.e.retx, "none", "SYN", "SYN+ACK"}
  BY <1>1, SendSynIs
<1> HIDE DEF t
<1>6. r.e \in Sockets /\ LikeApart(t.e, r.e) /\ r.e.state = "SYN_SENT"
  BY <1>4, StateIs DEF States
<1> HIDE DEF r
<1>7. CASE ~t.e.bound
  BY <1>3, <1>6, <1>7, GoneIsAttended DEF LikeApart, Attends
<1>8. CASE t.e.bound
  <2>1. r.e.retx \in {"SYN", "SYN+ACK"}
    BY <1>2, <1>5, <1>6, <1>8 DEF LikeApart, Fresh, Young
  <2>2. s.e.closeCalled /\ s.e.bound => s.e.size = 1 /\ s.e.closeOnEmpty
    BY <1>1, <1>2 DEF Attended, Cared, Closes, HasMore, ClosingStates, Fresh, Young
  <2>3. Closes(r.e)
    <3>1. /\ s.e.bound /\ r.e.closeCalled = s.e.closeCalled /\ r.e.size = s.e.size
          /\ s.e.closeOnEmpty => r.e.closeOnEmpty
          /\ r.e.highTx = s.e.highTx /\ r.e.una = s.e.una
      BY <1>5, <1>6, <1>8 DEF Like, LikeApart
    <3>2. QED BY <1>2, <2>2, <3>1 DEF Closes, HasMore, Fresh, Young
  <2>4. QED BY <1>3, <1>6, <2>1, <2>3, OpeningIsAttended DEF OpeningStates, Attends
<1>9. QED BY <1>4, <1>7, <1>8 DEF Handled, Sockets

\* Send schedules SendPendingDataEvent, or the handshake does it.
LEMMA WriteAttends ==
  ASSUME ConnInv, NEW x \in Ends, Attended(end[x]), Write(x)
  PROVE  Attends(x)
<1> DEFINE e == end[x]
           p == end[Peer(x)]
           pending == e.state # "SYN_SENT"
           f == [e EXCEPT !.size = 1, !.written = 1, !.sendPending = pending]
           r == [e |-> f, out |-> {}, closes |-> {}]
<1>1. e \in Sockets /\ p \in Sockets /\ Kept(e, p) /\ Kept(p, e)
  BY DEF ConnInv, Ends, Peer
<1>2. /\ e.state \in {"SYN_SENT", "ESTABLISHED", "CLOSE_WAIT"} /\ ~DoneWriting(e)
      /\ e.written = 0
  BY <1>1 DEF Write, Unclosed, DoneWriting
<1>3. EndsIn(x, r)
  BY DEF Write
<1>4. Attended(e)
  OBVIOUS
<1> HIDE DEF e, p, pending
<1>5. f \in Sockets /\ f.size = 1 /\ f.written = 1 /\ f.sendPending = pending
  BY <1>1, ZenonT(60) DEF Sockets, pending
<1>6. /\ f.una = e.una /\ f.highTx = e.highTx /\ f.state = e.state /\ f.retx = e.retx
      /\ f.bound = e.bound /\ f.closeCalled = e.closeCalled
  BY <1>1 DEF Sockets
<1> HIDE DEF f
<1>7. e.una = e.highTx
  <2>1. /\ p.rxNext <= 1 /\ p.rxNext \in Nat /\ e.una \in Nat /\ e.highTx \in Nat
        /\ e.nextTx \in Nat
    BY <1>1, <1>2 DEF Kept, Whole, Received, Finished, DoneWriting, Sockets
  <2>2. QED BY <1>1, <1>2, <2>1 DEF Kept, Young, Whole, Grown
<1>8. Minded(f) /\ Closes(f) /\ Repeats(f)
  BY <1>2, <1>5, <1>6, <1>7 DEF Minded, Closes, Repeats, DoneWriting
<1>9. Pending(f) /\ (f.bound /\ f.state \in {"SYN_SENT", "SYN_RCVD"} => f.retx # "none")
  BY <1>2, <1>4, <1>5, <1>6 DEF Attended, Pending, pending
<1>10. Attended(f)
  BY <1>2, <1>6, <1>8, <1>9 DEF Attended, Cared
<1>11. QED BY <1>3, <1>10 DEF Attends

\* The application closes: what it wrote still has its timer, or a FIN gets one.
LEMMA CloseAttends ==
  ASSUME ConnInv, NEW x \in Ends, Attended(end[x]), Close(x)
  PROVE  Attends(x)
<1> DEFINE p == end[Peer(x)]
           h == Handle(x)
           s == [h EXCEPT !.e.closeCalled = TRUE]
           r == CloseSocket(s)
<1>1. /\ p \in Sockets /\ h.e = end[x] /\ h \in Handled /\ h.e \in Sockets
      /\ Fresh(h, p) \/ (Active(h, p) /\ end[x].state # "SYN_RCVD")
  BY Begins
<1>2. /\ EndsIn(x, r) /\ h.e.state \notin {"LISTEN", "SYN_RCVD", "CLOSED"}
      /\ h.e.bound /\ ~DoneWriting(h.e) /\ Attended(h.e)
  BY <1>1 DEF Close, MayClose, Unclosed, DoneWriting
<1> HIDE DEF h
<1>3. s \in Handled /\ s.out = h.out /\ DoneWriting(s.e)
  BY <1>1 DEF Handled, Sockets, DoneWriting
<1>4. /\ s.e.una = h.e.una /\ s.e.nextTx = h.e.nextTx /\ s.e.highTx = h.e.highTx
      /\ s.e.size = h.e.size /\ s.e.written = h.e.written /\ s.e.rxNext = h.e.rxNext
      /\ s.e.read = h.e.read /\ s.e.gotFin = h.e.gotFin /\ s.e.fin = h.e.fin
  BY <1>1 DEF Handled, Sockets
<1>5. /\ s.e.state = h.e.state /\ s.e.bound = h.e.bound /\ s.e.retx = h.e.retx
      /\ s.e.lastAck = h.e.lastAck /\ s.e.sendPending = h.e.sendPending
      /\ s.e.delAck = h.e.delAck /\ s.e.timewait = h.e.timewait
  BY <1>1 DEF Handled, Sockets
<1>6. s.e \in Sockets
  BY <1>3 DEF Handled
<1> HIDE DEF s, p
<1>7. CASE Active(h, p) /\ end[x].state # "SYN_RCVD"
  <2>1. Active(s, p)
    BY <1>1, <1>3, <1>4, <1>5, <1>7, ClosedKeeps
  <2>2. s.e.state \in {"ESTABLISHED", "CLOSE_WAIT"}
    BY <1>1, <1>2, <1>5, <1>6, <1>7
    DEF Active, Grown, FinFollowsData, ClosingStates, Sockets, States
  <2>3. Minded(s.e) /\ Pending(s.e) /\ (s.e.retx = "RTO" => s.e.size = 1)
    BY <1>2, <1>3, <1>4, <1>5, <1>6
    DEF Attended, Cared, Minded, Pending, Sockets
  <2>4. /\ r.e \in Sockets /\ Minded(r.e) /\ Closes(r.e) /\ Pending(r.e) /\ Repeats(r.e)
    BY <1>1, <1>3, <2>1, <2>2, <2>3, CloseSocketAttends
  <2>5. Active(r, p) /\ Later(s.e, r.e)
    BY <1>1, <1>3, <2>1, CloseSocketKeeps
  <2> HIDE DEF r
  <2>6. r.e.state \notin {"LISTEN", "SYN_SENT", "SYN_RCVD"}
    BY <2>2, <2>5 DEF Active, Later
  <2>7. Attended(r.e)
    BY <2>4, <2>6, OpenIsAttended DEF Cared
  <2>8. QED BY <1>2, <2>7 DEF Attends
<1>8. CASE Fresh(h, p)
  <2>1. Fresh(s, p)
    BY <1>1, <1>3, <1>4, <1>5, <1>8, ClosedKeeps
  <2>2. s.e.state = "SYN_SENT" /\ s.e.size = s.e.written /\ s.e.una = 0 /\ s.e.nextTx = 0
    BY <1>2, <1>5, <2>1 DEF Fresh, Young, OpeningStates
  <2>3. CASE s.e.size = 1
    <3>1. r = [s EXCEPT !.e.closeOnEmpty = TRUE]
      BY <2>2, <2>3 DEF CloseSocket
    <3> HIDE DEF r
    <3>2. r.e.state = s.e.state /\ LikeApart(s.e, r.e)
      <4>1. r.e.state = s.e.state
        BY <1>3, <1>6, <3>1 DEF Handled, Sockets
      <4>2. LikeApart(s.e, r.e)
        BY <1>3, <1>6, <3>1 DEF Handled, Sockets, LikeApart
      <4>3. QED BY <4>1, <4>2
    <3>3. r.e.retx \in {"SYN", "SYN+ACK"}
      BY <1>2, <1>5, <2>1, <2>2, <3>2 DEF Attended, Fresh, Young, LikeApart
    <3>4. Closes(r.e) /\ r.e.state \in OpeningStates
      <4>1. r.e.closeOnEmpty
        BY <1>3, <1>6, <3>1 DEF Handled, Sockets
      <4>2. s.e.highTx = s.e.una
        BY <2>1, <2>2 DEF Fresh, Young
      <4>3. QED BY <2>2, <2>3, <3>2, <4>1, <4>2 DEF Closes, HasMore, LikeApart, OpeningStates
    <3>5. Attended(r.e)
      BY <2>2, <3>2, <3>3, <3>4, OpeningIsAttended
    <3>6. QED BY <1>2, <3>5 DEF Attends
  <2>4. CASE s.e.size # 1
    <3>1. s.e.size = 0
      BY <1>6, <2>4 DEF Sockets
    <3>2. r = CloseAndNotify(SendRST(s))
      BY <2>2, <3>1 DEF CloseSocket, DoClose
    <3> HIDE DEF r
    <3>3. ~r.e.bound
      BY <1>1, <2>1, <3>2, RefuseStaysFresh
    <3>4. QED BY <1>2, <3>3, GoneIsAttended DEF Attends
  <2>5. QED BY <2>3, <2>4
<1>9. QED BY <1>1, <1>7, <1>8

\* ShutdownSend without data sends a FIN; with data it changes no timer.
LEMMA ShutdownSendAttends ==
  ASSUME ConnInv, NEW x \in Ends, Attended(end[x]), ShutdownSend(x)
  PROVE  Attends(x)
<1> DEFINE p == end[Peer(x)]
           h == Handle(x)
           g == [h.e EXCEPT !.shutdownSend = TRUE, !.closeOnEmpty = TRUE]
           s == [h EXCEPT !.e.shutdownSend = TRUE, !.e.closeOnEmpty = TRUE]
           f == SendEmptyPacket(s, {"FIN"})
           a == [f EXCEPT !.e.state = "FIN_WAIT_1"]
           b == [f EXCEPT !.e.state = "LAST_ACK"]
           r == CASE s.e.size = 0 /\ s.e.state = "ESTABLISHED" -> a
                  [] s.e.size = 0 /\ s.e.state = "CLOSE_WAIT" -> b
                  [] OTHER -> s
<1>1. /\ p \in Sockets /\ h.e = end[x] /\ h \in Handled /\ h.e \in Sockets
      /\ Fresh(h, p) \/ (Active(h, p) /\ end[x].state # "SYN_RCVD")
  BY Begins
<1>2. /\ EndsIn(x, r) /\ Attended(h.e) /\ ~DoneWriting(h.e) /\ h.e.bound
  BY <1>1 DEF ShutdownSend, MayClose, Unclosed, DoneWriting
<1> HIDE DEF h
<1>3. s = [h EXCEPT !.e = g]
  BY <1>1 DEF Handled
<1>4. g \in Sockets /\ DoneWriting(g) /\ g.state = h.e.state
  BY <1>1 DEF Sockets, DoneWriting
<1>5. /\ g.una = h.e.una /\ g.nextTx = h.e.nextTx /\ g.highTx = h.e.highTx
      /\ g.size = h.e.size /\ g.written = h.e.written /\ g.rxNext = h.e.rxNext
      /\ g.read = h.e.read /\ g.gotFin = h.e.gotFin /\ g.fin = h.e.fin
  BY <1>1 DEF Sockets
<1>6. /\ g.bound = h.e.bound /\ g.retx = h.e.retx
      /\ g.lastAck = h.e.lastAck /\ g.sendPending = h.e.sendPending
      /\ g.delAck = h.e.delAck /\ g.timewait = h.e.timewait
      /\ g.closeCalled = h.e.closeCalled /\ g.closeOnEmpty
  BY <1>1 DEF Sockets
<1> HIDE DEF g, s, p
<1>7. s \in Handled /\ s.out = h.out /\ s.e = g
  BY <1>1, <1>3, <1>4 DEF Handled
<1>8. Attended(g) /\ (g.retx = "RTO" => g.size = 1)
  BY <1>2, <1>4, <1>5, <1>6
  DEF Attended, Cared, Minded, Closes, HasMore, Repeats, Pending, Sockets
<1>9. CASE s.e.size = 0 /\ s.e.state \in {"ESTABLISHED", "CLOSE_WAIT"}
  <2>1. Active(h, p)
    BY <1>1, <1>4, <1>7, <1>9 DEF Fresh, OpeningStates
  <2>2. Active(s, p)
    BY <1>1, <1>4, <1>5, <1>6, <1>7, <2>1, ClosedKeeps
  <2>3. AllSent(s.e) /\ s.e.nextTx >= 1 + s.e.written
    BY <1>4, <1>7, <1>9, <2>2 DEF Active, Grown, Sockets
  <2>4. /\ Minded(a.e) /\ Closes(a.e) /\ Pending(a.e) /\ Repeats(a.e)
        /\ a.e.state = "FIN_WAIT_1"
        /\ Minded(b.e) /\ Closes(b.e) /\ Pending(b.e) /\ Repeats(b.e)
        /\ b.e.state = "LAST_ACK"
    <3>1. a = FinSent(s, {"FIN"}, "FIN_WAIT_1") /\ b = FinSent(s, {"FIN"}, "LAST_ACK")
      BY DEF FinSent
    <3> HIDE DEF a, b
    <3>2. QED
      BY <1>1, <1>4, <1>7, <1>8, <1>9, <2>2, <2>3, <3>1, FinAttends DEF Attended, Cared
  <2>5. r = a \/ r = b
    BY <1>9
  <2> HIDE DEF a, b, r
  <2>6. Attended(r.e)
    BY <2>4, <2>5, OpenIsAttended DEF Cared
  <2>7. QED BY <1>2, <2>6 DEF Attends
<1>10. CASE ~(s.e.size = 0 /\ s.e.state \in {"ESTABLISHED", "CLOSE_WAIT"})
  <2>1. r = s
    BY <1>10
  <2> HIDE DEF r
  <2>2. QED BY <1>2, <1>7, <1>8, <2>1 DEF Attends
<1>11. QED BY <1>9, <1>10

(***************************************************************************)
(* Timers that expire                                                      *)
(***************************************************************************)
\* The FIN or the data is sent again and has its timer again.
LEMMA RepeatIsAttended ==
  ASSUME NEW e \in Sockets, NEW f \in Sockets, Attended(e),
         f.retx = "FIN" \/ (f.retx = "RTO" /\ f.size = 1),
         f.size = e.size, f.written = e.written, f.read >= e.read,
         f.closeCalled = e.closeCalled, f.bound = e.bound, f.timewait = e.timewait,
         e.state \notin {"LISTEN", "SYN_SENT", "SYN_RCVD"},
         \/ f.state = e.state
         \/ e.state = "ESTABLISHED" /\ f.state = "FIN_WAIT_1"
         \/ e.state = "CLOSE_WAIT" /\ f.state = "LAST_ACK",
         e.bound /\ HasMore(e) => HasMore(f) \/ f.state \in ClosingStates
  PROVE  Attended(f)
<1>1. e.read \in Nat /\ f.read \in Nat
  BY DEF Sockets
<1>2. Minded(f)
  BY DEF Attended, Cared, Minded
<1>3. Closes(f)
  BY <1>1 DEF Attended, Cared, Closes, ClosingStates
<1>4. Repeats(f) /\ Pending(f)
  BY DEF Repeats, Pending
<1>5. QED BY <1>2, <1>3, <1>4, OpenIsAttended DEF Cared

LEMMA SendPendingEventAttends ==
  ASSUME ConnInv, NEW x \in Ends, Attended(end[x]), SendPendingEvent(x)
  PROVE  Attends(x)
<1> DEFINE p == end[Peer(x)]
           h == Handle(x)
           s == [h EXCEPT !.e.sendPending = FALSE]
           r == SendPendingData(s)
<1>1. /\ p \in Sockets /\ h.e = end[x] /\ h \in Handled /\ h.e \in Sockets
      /\ Fresh(h, p) \/ (Active(h, p) /\ end[x].state # "SYN_RCVD")
  BY Begins
<1>2. EndsIn(x, r) /\ h.e.sendPending /\ Attended(h.e)
  BY <1>1 DEF SendPendingEvent
<1> HIDE DEF h
<1>3. Active(h, p) /\ h.e.state # "SYN_RCVD"
  BY <1>1, <1>2 DEF Fresh, Young
<1>4. s \in Handled /\ s.out = h.out
  BY <1>1, ZenonT(60) DEF Handled, Sockets
<1>5. /\ SameNumbers(h.e, s.e) /\ s.e.state = h.e.state /\ s.e.bound = h.e.bound
      /\ s.e.retx = h.e.retx /\ s.e.lastAck = h.e.lastAck
  BY <1>1 DEF Handled, Sockets, SameNumbers
<1>6. s.e.timewait = h.e.timewait
  BY <1>1 DEF Handled, Sockets
<1> HIDE DEF s, p
<1>7. Active(s, p)
  BY <1>1, <1>3, <1>4, <1>5, EventKeeps
<1>8. Cared(s.e)
  BY <1>2, <1>5, <1>6
  DEF Attended, Cared, Minded, Closes, HasMore, Repeats, SameNumbers, DoneWriting
<1>9. Cared(r.e) /\ Pending(r.e)
  BY <1>1, <1>3, <1>5, <1>7, <1>8, SendPendingAttends
<1>10. /\ Active(r, p)
       /\ r.e.state = s.e.state \/ r.e.state \in {"FIN_WAIT_1", "LAST_ACK"}
  BY <1>1, <1>7, SendPendingKeeps
<1> HIDE DEF r
<1>11. Attended(r.e)
  BY <1>3, <1>5, <1>9, <1>10, OpenIsAttended DEF Active
<1>12. QED BY <1>2, <1>11 DEF Attends

LEMMA RetxAttends ==
  ASSUME ConnInv, NEW x \in Ends, Attended(end[x]), RetxEvent(x)
  PROVE  Attends(x)
<1> DEFINE p == end[Peer(x)]
           h == Handle(x)
           s == [h EXCEPT !.e.retx = "none"]
<1>1. /\ p \in Sockets /\ h.e = end[x] /\ h \in Handled /\ h.e \in Sockets
      /\ Fresh(h, p) \/ (Active(h, p) /\ end[x].state # "SYN_RCVD")
  BY Begins
<1>2. /\ h.e.retx \in {"RTO", "SYN", "SYN+ACK", "FIN"} /\ Attended(h.e)
      /\ h.e.retx = "RTO" => EndsIn(x, ReTxTimeout(s))
      /\ h.e.retx = "SYN" => EndsIn(x, SendEmptyPacket(s, {"SYN"}))
      /\ h.e.retx = "SYN+ACK" => EndsIn(x, SendEmptyPacket(s, {"SYN", "ACK"}))
      /\ h.e.retx = "FIN" => EndsIn(x, SendEmptyPacket(s, {"FIN"}))
  BY <1>1 DEF RetxEvent
<1> HIDE DEF h
<1>3. s \in Handled /\ s.out = h.out
  BY <1>1 DEF Handled, Sockets
<1>4. /\ SameNumbers(h.e, s.e) /\ s.e.state = h.e.state /\ s.e.bound = h.e.bound
      /\ s.e.retx = "none" /\ s.e.lastAck = h.e.lastAck
  BY <1>1 DEF Handled, Sockets, SameNumbers
<1>5. s.e.sendPending = h.e.sendPending /\ s.e.timewait = h.e.timewait
  BY <1>1 DEF Handled, Sockets
<1>6. s.e.dataRetrCount \in Nat /\ s.e \in Sockets /\ s.e.size \in {0, 1}
  BY <1>3 DEF Handled, Sockets
<1> HIDE DEF s, p
<1>7. CASE Active(h, p) /\ h.e.state # "SYN_RCVD" /\ h.e.bound
  <2>1. Active(s, p)
    BY <1>1, <1>3, <1>4, <1>7, EventKeeps
  <2>2. h.e.state \notin {"LISTEN", "SYN_SENT", "SYN_RCVD"}
    BY <1>7 DEF Active
  <2>3. CASE \/ h.e.retx = "FIN"
             \/ h.e.retx = "RTO" /\ s.e.size = 0 /\ s.e.state \in {"FIN_WAIT_1", "CLOSING"}
    <3> DEFINE r == SendEmptyPacket(s, {"FIN"})
    <3>1. EndsIn(x, r)
      BY <1>2, <2>3 DEF ReTxTimeout
    <3>2. /\ r.e \in Sockets /\ Like(s.e, r.e)
          /\ r.e.retx = s.e.retx \/ r.e.retx = "FIN"
          /\ s.e.bound => r.e.retx # "none"
      BY <1>3, SendEmptyIs
    <3> HIDE DEF r
    <3>3. r.e.retx = "FIN"
      BY <1>4, <1>7, <3>2
    <3>4. /\ r.e.size = h.e.size /\ r.e.written = h.e.written /\ r.e.read >= h.e.read
          /\ r.e.closeCalled = h.e.closeCalled /\ r.e.bound = h.e.bound
          /\ r.e.timewait = h.e.timewait /\ r.e.state = h.e.state
      BY <1>4, <1>5, <3>2 DEF SameNumbers, Like
    <3>5. HasMore(h.e) => HasMore(r.e)
      BY <1>1, <1>4, <3>2, <3>4 DEF HasMore, Like, SameNumbers, Sockets
    <3>6. Attended(r.e)
      BY <1>1, <1>2, <2>2, <3>2, <3>3, <3>4, <3>5, RepeatIsAttended
    <3>7. QED BY <3>1, <3>6 DEF Attends
  <2>4. CASE h.e.retx = "RTO" /\ s.e.size = 0 /\ s.e.state \notin {"FIN_WAIT_1", "CLOSING"}
    <3>1. EndsIn(x, s)
      BY <1>2, <2>4 DEF ReTxTimeout
    <3>2. Attended(s.e)
      BY <1>2, <1>4, <1>5, <2>2, <2>4
      DEF Attended, Cared, Minded, Closes, HasMore, Repeats, Pending, SameNumbers
    <3>3. QED BY <3>1, <3>2 DEF Attends
  <2>5. CASE h.e.retx = "RTO" /\ s.e.size = 1 /\ s.e.dataRetrCount = 0
    <3> DEFINE r == [s EXCEPT !.e = DeallocateEndPoint([@ EXCEPT !.failed = TRUE])]
    <3>1. EndsIn(x, r)
      BY <1>2, <2>5 DEF ReTxTimeout
    <3>2. ~r.e.bound
      BY <1>1, <2>1, DropKeeps
    <3> HIDE DEF r
    <3>3. QED BY <3>1, <3>2, GoneIsAttended DEF Attends
  <2>6. CASE h.e.retx = "RTO" /\ s.e.size = 1 /\ s.e.dataRetrCount # 0
    <3> DEFINE c == [s EXCEPT !.e.dataRetrCount = @ - 1]
               r == SendDataPacket(c)
    <3>1. EndsIn(x, r) /\ s.e.dataRetrCount > 0
      BY <1>2, <1>6, <2>6 DEF ReTxTimeout
    <3>2. /\ Active(c, p) /\ SameNumbers(s.e, c.e) /\ c.e.state = s.e.state
      BY <1>1, <2>1, <3>1, CountKeeps
    <3>3. c.e.bound = s.e.bound /\ c.e.timewait = s.e.timewait /\ c.e.retx = s.e.retx
      BY <1>3, <1>6 DEF Handled, Sockets
    <3>4. c \in Handled /\ c.e.size > 0
      BY <2>6, <3>2 DEF Active, SameNumbers
    <3> HIDE DEF c
    <3>5. /\ r.e.size = c.e.size /\ r.e.written = c.e.written
          /\ r.e.read = c.e.read /\ r.e.closeCalled = c.e.closeCalled
          /\ r.e.bound = c.e.bound /\ r.e.timewait = c.e.timewait
          /\ r.e.retx = IF c.e.retx = "none" THEN "RTO" ELSE c.e.retx
          /\ \/ r.e.state = c.e.state
             \/ c.e.state = "ESTABLISHED" /\ r.e.state = "FIN_WAIT_1"
             \/ c.e.state = "CLOSE_WAIT" /\ r.e.state = "LAST_ACK"
          /\ c.e.closeOnEmpty /\ c.e.state \in {"ESTABLISHED", "CLOSE_WAIT"} =>
               r.e.state \in ClosingStates
      BY <3>4, SendDataIs
    <3>6. r.e \in Sockets
      BY <1>1, <3>2, <3>4, SendDataKeeps DEF Active, Handled
    <3> HIDE DEF r
    <3>7. r.e.retx = "RTO" /\ r.e.size = 1 /\ h.e.size = 1 /\ h.e.read \in Nat
      BY <1>1, <1>4, <2>6, <3>2, <3>3, <3>5 DEF SameNumbers, Sockets
    <3>8. /\ r.e.size = h.e.size /\ r.e.written = h.e.written /\ r.e.read = h.e.read
          /\ r.e.closeCalled = h.e.closeCalled /\ r.e.bound = h.e.bound
          /\ r.e.timewait = h.e.timewait
          /\ \/ r.e.state = h.e.state
             \/ h.e.state = "ESTABLISHED" /\ r.e.state = "FIN_WAIT_1"
             \/ h.e.state = "CLOSE_WAIT" /\ r.e.state = "LAST_ACK"
      BY <1>4, <1>5, <3>2, <3>3, <3>5 DEF SameNumbers
    <3>9. r.e.read >= h.e.read
      BY <3>7, <3>8
    <3>10. HasMore(h.e) => HasMore(r.e) \/ r.e.state \in ClosingStates
      <4>1. h.e.state \in {"ESTABLISHED", "CLOSE_WAIT"} \cup ClosingStates
        BY <1>1, <1>7, <2>2 DEF Active, Sockets, States, ClosingStates
      <4>2. c.e.closeOnEmpty = h.e.closeOnEmpty /\ c.e.state = h.e.state
        BY <1>4, <3>2 DEF SameNumbers
      <4>3. QED BY <3>5, <3>8, <4>1, <4>2 DEF HasMore, ClosingStates
    <3>11. Attended(r.e)
      BY <1>1, <1>2, <2>2, <3>6, <3>7, <3>8, <3>9, <3>10, RepeatIsAttended
    <3>12. QED BY <3>1, <3>11 DEF Attends
  <2>7. h.e.retx \in {"FIN", "RTO"}
    BY <1>2, <1>7 DEF Active, Grown
  <2>8. QED BY <1>6, <2>3, <2>4, <2>5, <2>6, <2>7
<1>8. CASE Active(h, p) /\ h.e.state # "SYN_RCVD" /\ ~h.e.bound
  <2>1. h.e.retx \in {"FIN", "RTO"}
    BY <1>2, <1>8 DEF Active, Grown
  <2>2. Active(s, p)
    BY <1>1, <1>3, <1>4, <1>8, EventKeeps
  <2>3. CASE h.e.retx = "FIN"
    <3>1. SendEmptyPacket(s, {"FIN"}) = s
      BY <1>4, <1>8 DEF SendEmptyPacket
    <3>2. QED BY <1>2, <1>4, <1>8, <2>3, <3>1, GoneIsAttended DEF Attends
  <2>4. CASE h.e.retx = "RTO"
    <3> DEFINE c == [s EXCEPT !.e.dataRetrCount = @ - 1]
               d == [s EXCEPT !.e = DeallocateEndPoint([@ EXCEPT !.failed = TRUE])]
               r == ReTxTimeout(s)
    <3>1. EndsIn(x, r)
      BY <1>2, <2>4
    <3>2. CASE s.e.size = 0
      <4>1. r = s
        BY <1>4, <1>8, <3>2 DEF ReTxTimeout, SendEmptyPacket
      <4>2. QED BY <1>4, <1>8, <3>1, <4>1, GoneIsAttended DEF Attends
    <3>3. CASE s.e.size = 1 /\ s.e.dataRetrCount = 0
      <4>1. r = d
        BY <3>3 DEF ReTxTimeout
      <4>2. ~d.e.bound
        BY <1>1, <2>2, DropKeeps
      <4> HIDE DEF r, d
      <4>3. QED BY <3>1, <4>1, <4>2, GoneIsAttended DEF Attends
    <3>4. CASE s.e.size = 1 /\ s.e.dataRetrCount # 0
      <4>1. r = SendDataPacket(c) /\ s.e.dataRetrCount > 0
        BY <1>6, <3>4 DEF ReTxTimeout
      <4>2. Active(c, p) /\ c.e.size > 0
        BY <1>1, <2>2, <3>4, <4>1, CountKeeps DEF SameNumbers
      <4>3. c.e.bound = s.e.bound
        BY <1>3, <1>6 DEF Handled, Sockets
      <4> HIDE DEF c, r
      <4>4. r.e.bound = c.e.bound
        BY <1>1, <4>1, <4>2, SendDataKeeps
      <4>5. QED BY <1>4, <1>8, <3>1, <4>3, <4>4, GoneIsAttended DEF Attends
    <3>5. QED BY <1>6, <3>2, <3>3, <3>4
  <2>5. QED BY <2>1, <2>3, <2>4
<1>9. CASE Fresh(h, p)
  <2>1. PICK wanted \in {{"SYN"}, {"SYN", "ACK"}} : EndsIn(x, SendEmptyPacket(s, wanted))
    BY <1>2, <1>9 DEF Fresh, Young
  <2> DEFINE r == SendEmptyPacket(s, wanted)
  <2>2. /\ ~r.e.bound \/ r.e.retx # "none"
        /\ r.e \in Sockets
        /\ r.e.bound => Like(s.e, r.e)
        /\ r.e.retx \in {s.e.retx, "none", "SYN", "SYN+ACK"}
    BY <1>3, SendSynIs
  <2>3. EndsIn(x, r)
    BY <2>1
  <2> HIDE DEF r
  <2>4. CASE ~r.e.bound
    BY <2>3, <2>4, GoneIsAttended DEF Attends
  <2>5. CASE r.e.bound
    <3>1. r.e.retx \in {"SYN", "SYN+ACK"}
      BY <1>4, <2>2, <2>5
    <3>2. /\ h.e.bound /\ r.e.state = h.e.state /\ r.e.size = h.e.size
          /\ r.e.written = h.e.written /\ r.e.closeCalled = h.e.closeCalled
          /\ r.e.closeOnEmpty = h.e.closeOnEmpty /\ r.e.highTx = h.e.highTx
          /\ r.e.una = h.e.una
      BY <1>4, <2>2, <2>5 DEF Like, SameNumbers
    <3>3. h.e.state \in OpeningStates /\ h.e.read = 0
      BY <1>9 DEF Fresh, Young
    <3>4. Closes(r.e)
      BY <1>2, <3>2, <3>3 DEF Attended, Cared, Closes, HasMore, OpeningStates, ClosingStates
    <3>5. r.e.state \in {"LISTEN", "SYN_RCVD"} => r.e.size = 0
      BY <1>2, <3>2 DEF Attended
    <3>6. Attended(r.e)
      BY <3>1, <3>2, <3>3, <3>4, <3>5, OpeningIsAttended
    <3>7. QED BY <2>3, <3>6 DEF Attends
  <2>6. QED BY <2>2, <2>4, <2>5 DEF Sockets
<1>10. QED BY <1>1, <1>7, <1>8, <1>9 DEF Sockets

\* The last-ACK timer repeats the FIN and sets itself again, or gives up.
LEMMA LastAckAttends ==
  ASSUME ConnInv, NEW x \in Ends, Attended(end[x]), LastAckTimeout(x)
  PROVE  Attends(x)
<1> DEFINE p == end[Peer(x)]
           h == Handle(x)
           s == [h EXCEPT !.e.lastAck = FALSE]
           c == [s EXCEPT !.e.dataRetrCount = @ - 1]
           again == SendEmptyPacket(c, {"FIN", "ACK"})
           a == [again EXCEPT !.e.lastAck = TRUE]
           d == [s EXCEPT !.e = DeallocateEndPoint([@ EXCEPT !.failed = TRUE])]
           r == CASE s.e.state # "LAST_ACK" -> s
                  [] s.e.state = "LAST_ACK" /\ s.e.dataRetrCount = 0 -> d
                  [] OTHER -> a
<1>1. /\ p \in Sockets /\ h.e = end[x] /\ h \in Handled /\ h.e \in Sockets
      /\ Fresh(h, p) \/ (Active(h, p) /\ end[x].state # "SYN_RCVD")
  BY Begins
<1>2. EndsIn(x, r) /\ h.e.lastAck /\ Attended(h.e)
  BY <1>1 DEF LastAckTimeout
<1> HIDE DEF h
<1>3. Active(h, p) /\ h.e.state # "SYN_RCVD"
  BY <1>1, <1>2 DEF Fresh, Young
<1>4. s \in Handled /\ s.out = h.out
  BY <1>1 DEF Handled, Sockets
<1>5. /\ SameNumbers(h.e, s.e) /\ s.e.state = h.e.state /\ s.e.bound = h.e.bound
      /\ s.e.retx = h.e.retx /\ ~s.e.lastAck
  BY <1>1 DEF Handled, Sockets, SameNumbers
<1>6. s.e.timewait = h.e.timewait /\ s.e.sendPending = h.e.sendPending
  BY <1>1 DEF Handled, Sockets
<1> HIDE DEF s, p
<1>7. Active(s, p) /\ s.e \in Sockets
  BY <1>1, <1>3, <1>4, <1>5, EventKeeps DEF Handled
<1>8. /\ Minded(s.e) /\ Closes(s.e) /\ Pending(s.e)
      /\ s.e.state # "LAST_ACK" => Repeats(s.e)
  BY <1>2, <1>5, <1>6
  DEF Attended, Cared, Minded, Closes, HasMore, Repeats, Pending, SameNumbers, DoneWriting
<1>9. s.e.state \notin {"LISTEN", "SYN_SENT", "SYN_RCVD"}
  BY <1>3, <1>5 DEF Active
<1>10. CASE s.e.state # "LAST_ACK"
  <2>1. r = s
    BY <1>10
  <2> HIDE DEF r
  <2>2. QED BY <1>2, <1>8, <1>9, <1>10, <2>1, OpenIsAttended DEF Cared, Attends
<1>11. CASE s.e.state = "LAST_ACK" /\ s.e.dataRetrCount = 0
  <2>1. r = d /\ ~d.e.bound
    BY <1>1, <1>7, <1>11, DropKeeps
  <2> HIDE DEF r, d
  <2>2. QED BY <1>2, <2>1, GoneIsAttended DEF Attends
<1>12. CASE s.e.state = "LAST_ACK" /\ s.e.dataRetrCount # 0
  <2>1. r = a /\ s.e.dataRetrCount > 0
    BY <1>7, <1>12 DEF Sockets
  <2> HIDE DEF r
  <2>2. Active(c, p) /\ SameNumbers(s.e, c.e) /\ c.e.state = s.e.state
    BY <1>1, <1>7, <2>1, CountKeeps
  <2>3. /\ c.e.bound = s.e.bound /\ c.e.retx = s.e.retx /\ c.e.timewait = s.e.timewait
        /\ c.e.sendPending = s.e.sendPending
    BY <1>4, <1>7 DEF Handled, Sockets
  <2> HIDE DEF c
  <2>4. c \in Handled /\ c.e \in Sockets
    BY <2>2 DEF Active, Handled
  <2>5. Minded(c.e) /\ Closes(c.e) /\ Pending(c.e)
    BY <1>8, <2>2, <2>3 DEF Minded, Closes, HasMore, Pending, SameNumbers, DoneWriting
  <2>6. /\ again.e \in Sockets /\ Like(c.e, again.e)
        /\ again.e.retx = c.e.retx \/ again.e.retx = "FIN"
    BY <2>4, SendEmptyIs
  <2>7. DoneWriting(c.e) /\ AllSent(c.e) /\ c.e.nextTx >= 1 + c.e.written
    BY <1>12, <2>2 DEF Active, Grown, FinFollowsData, ClosingStates
  <2>8. again \in Handled
    BY <1>1, <2>2, <2>7, SendEmptyKeeps DEF Active
  <2> HIDE DEF again
  <2>9. Minded(again.e)
    BY <2>4, <2>5, <2>6, LikeIsAttended
  <2>10. Pending(again.e)
    BY <2>4, <2>5, <2>6, LikeIsAttended
  <2>11. again.e.state = "LAST_ACK"
    BY <1>12, <2>2, <2>6 DEF Like
  <2>12. a.e.lastAck /\ a.e.state = again.e.state /\ SameNumbers(again.e, a.e)
    BY <2>6, <2>8 DEF Handled, Sockets, SameNumbers
  <2>13. /\ a.e.bound = again.e.bound /\ a.e.retx = again.e.retx
         /\ a.e.timewait = again.e.timewait /\ a.e.sendPending = again.e.sendPending
    BY <2>6, <2>8 DEF Handled, Sockets
  <2> HIDE DEF a
  <2>14. Attended(a.e)
    BY <2>9, <2>10, <2>11, <2>12, <2>13
    DEF Attended, Cared, Minded, Closes, Repeats, Pending, SameNumbers, DoneWriting,
        ClosingStates
  <2>15. QED BY <1>2, <2>1, <2>14 DEF Attends
<1>13. QED BY <1>10, <1>11, <1>12

LEMMA DelAckAttends ==
  ASSUME ConnInv, NEW x \in Ends, Attended(end[x]), DelAckTimeout(x)
  PROVE  Attends(x)
<1> DEFINE h == Handle(x)
           g == [h.e EXCEPT !.delAck = FALSE, !.delAckCount = 0]
           s == [h EXCEPT !.e.delAck = FALSE, !.e.delAckCount = 0]
           r == SendEmptyPacket(s, {"ACK"})
<1>1. h.e = end[x] /\ h \in Handled /\ h.e \in Sockets
  BY Begins
<1>2. EndsIn(x, r) /\ Attended(h.e)
  BY <1>1 DEF DelAckTimeout
<1> HIDE DEF h
<1>3. s = [h EXCEPT !.e = g]
  BY <1>1 DEF Handled
<1>4. g \in Sockets
  <2>1. 0 \in Int
    OBVIOUS
  <2>2. QED BY <1>1, <2>1, DelAckTyped
<1>5. Like(h.e, g) /\ g.retx = h.e.retx
  BY <1>1 DEF Sockets, Like
<1> HIDE DEF g, s
<1>6. s \in Handled /\ s.e = g
  BY <1>1, <1>3, <1>4 DEF Handled
<1>7. Attended(s.e)
  BY <1>1, <1>2, <1>4, <1>5, <1>6, LikeIsAttended
<1>8. Attended(r.e)
  BY <1>6, <1>7, SendEmptyAttends
<1> HIDE DEF r
<1>9. QED BY <1>2, <1>8 DEF Attends

LEMMA TimeWaitEndAttends ==
  ASSUME ConnInv, NEW x \in Ends, TimeWaitEnds(x)
  PROVE  Attends(x)
<1> DEFINE r == CloseAndNotify(Handle(x))
<1>1. EndsIn(x, r) /\ ~r.e.bound
  BY Begins, CloseAndNotifyGone DEF TimeWaitEnds
<1> HIDE DEF r
<1>2. QED BY <1>1, GoneIsAttended DEF Attends

(***************************************************************************)
(* The theorem                                                             *)
(***************************************************************************)
AllAttended == \A x \in Ends : Attended(end[x])

LEMMA AttendedInit == Init => AllAttended
<1> SUFFICES ASSUME Init, NEW x \in Ends PROVE Attended(end[x])
  BY DEF AllAttended
<1>1. PICK st \in {"CLOSED", "LISTEN"} : end[x] = InitialSocket(st)
  BY DEF Init
<1>2. QED BY <1>1 DEF InitialSocket, Attended, Cared, Minded, Closes, Repeats, Pending

LEMMA AttendedNext == ConnInv /\ AllAttended /\ [Next]_vars => AllAttended'
<1> SUFFICES ASSUME ConnInv, AllAttended, [Next]_vars PROVE AllAttended'
  OBVIOUS
<1>1. ASSUME NEW x \in Ends, Attends(x) PROVE AllAttended'
  BY <1>1 DEF Attends, EndsIn, AllAttended, ConnInv
<1>2. \A x \in Ends : Attended(end[x])
  BY DEF AllAttended
<1>3. CASE Connect
  <2>1. "A" \in Ends
    BY DEF Ends
  <2>2. QED BY <1>1, <1>2, <1>3, <2>1, ConnectAttends
<1>4. ASSUME NEW x \in Ends, NEW m \in sent[x], Arrive(x, m) PROVE AllAttended'
  BY <1>1, <1>2, <1>4, ArriveAttends
<1>5. ASSUME NEW x \in Ends, Write(x) PROVE AllAttended'
  BY <1>1, <1>2, <1>5, WriteAttends
<1>6. ASSUME NEW x \in Ends, Close(x) PROVE AllAttended'
  BY <1>1, <1>2, <1>6, CloseAttends
<1>7. ASSUME NEW x \in Ends, ShutdownSend(x) PROVE AllAttended'
  BY <1>1, <1>2, <1>7, ShutdownSendAttends
<1>8. ASSUME NEW x \in Ends, Timer(x) PROVE AllAttended'
  BY <1>1, <1>2, <1>8, SendPendingEventAttends, RetxAttends, LastAckAttends,
     DelAckAttends, TimeWaitEndAttends DEF Timer
<1>9. CASE UNCHANGED vars
  BY <1>9 DEF vars, AllAttended
<1>10. QED BY <1>3, <1>4, <1>5, <1>6, <1>7, <1>8, <1>9 DEF Next

\* NoStuckEnd: an end that opens, closes or has data that is not acknowledged has an
\* event scheduled, and so has every end that has closed, except in FIN_WAIT_2 and if
\* the other one writes (SendEmptyPacket, SendDataPacket, NewAck, TimeWait, DoPeerClose).
THEOREM NobodyIsStuck == Spec => []NoStuckEnd
<1>1. ConnInv /\ AllAttended => NoStuckEnd
  <2> SUFFICES ASSUME ConnInv, AllAttended, NEW x \in Ends, end[x].bound,
                      \/ end[x].state \in TimedStates \/ end[x].size > 0
                      \/ /\ Peer(x) \notin writers /\ end[x].closeCalled
                         /\ end[x].state # "FIN_WAIT_2"
               PROVE  HasTimer(end[x])
    BY DEF NoStuckEnd
  <2> DEFINE e == end[x]
             p == end[Peer(x)]
  <2>1. /\ e \in Sockets /\ p \in Sockets /\ Peer(x) \in Ends /\ Attended(e) /\ Kept(e, p)
        /\ Peer(x) \notin writers => p.written = 0
    BY DEF ConnInv, AllAttended, Ends, Peer
  <2>2. /\ e.bound
        /\ \/ e.state \in TimedStates \/ e.size > 0
           \/ Peer(x) \notin writers /\ e.closeCalled /\ e.state # "FIN_WAIT_2"
    OBVIOUS
  <2> SUFFICES HasTimer(e)
    OBVIOUS
  <2> HIDE DEF e, p
  <2>3. CASE e.state \in TimedStates
    BY <2>1, <2>2, <2>3
    DEF TimedStates, HasTimer, Attended, Cared, Minded, Repeats
  <2>4. CASE e.size > 0
    <3>1. e.size = 1
      BY <2>1, <2>4 DEF Sockets
    <3>2. QED BY <2>1, <2>2, <3>1 DEF HasTimer, Attended, Cared, Minded, Pending
  <2>5. CASE Peer(x) \notin writers /\ e.closeCalled /\ e.state # "FIN_WAIT_2"
    <3>1. ~(e.read >= 1)
      BY <2>1, <2>5 DEF Kept, Whole, Received, Sockets
    <3>2. e.state \in TimedStates \/ e.size > 0
      BY <2>1, <2>2, <2>5, <3>1
      DEF Attended, Cared, Closes, HasMore, ClosingStates, TimedStates
    <3>3. QED BY <2>3, <2>4, <3>2
  <2>6. QED BY <2>2, <2>3, <2>4, <2>5
<1>2. Spec => []AllAttended
  <2>1. ConnInv /\ ConnInv' /\ AllAttended /\ [Next]_vars => AllAttended'
    BY AttendedNext
  <2>2. QED BY <2>1, AttendedInit, ConnKept, PTL DEF Spec
<1>3. QED BY <1>1, <1>2, ConnKept, PTL

(***************************************************************************)
(* The end of the stream is passed once                                    *)
(***************************************************************************)
\* An end that takes no FIN any more, one that has nothing left to send but the FIN
\* of its LAST_ACK, and one that has handled the FIN of the other end
Settled(e) == ~e.bound \/ e.state \in {"LAST_ACK", "CLOSING", "TIME_WAIT"}
Gone(e) == ~e.bound \/ e.state = "LAST_ACK"
Heeds(e) == ~e.bound \/ e.state \in {"CLOSE_WAIT", "LAST_ACK", "CLOSING", "TIME_WAIT"}

\* Only such an end sends a FIN while its data is not received.
Excused(e) == e.closeCalled \/ Gone(e)

\* SND.NXT is past the FIN: a FIN sent now has a wrong number.
Over(e) == e.nextTx > 1 + e.written

\* e is in a state it can be in once it has sent a FIN to p.
FinOut(e, p) ==
  e.bound => \/ e.state \in ClosingStates
             \/ e.state = "CLOSE_WAIT" /\ Excused(p)

\* The counters are never moved past their limits.
Counted(e) == /\ e.synCount \in 0..SynRetries /\ e.dataRetrCount \in 0..DataRetries
              /\ e.delAckCount \in 0..DelAckMaxCount

\* The segment with this ACK takes e from FIN_WAIT_1 on.
Acked(e, ack) == e.size = 0 /\ ack = e.highTx + 1

\* A FIN with a wrong number goes only to an end that takes no FIN.
PastEnd(e, p, ack) ==
  /\ e.bound /\ Over(e)
  /\ \/ e.retx = "FIN" \/ e.lastAck \/ e.state \in {"CLOSING", "LAST_ACK"}
     \/ e.state = "FIN_WAIT_1" /\ ~Acked(e, ack)
  => Settled(p)

\* The part that the calls of a handler keep, ack being that of its segment
Core(e, p, ack) ==
  /\ Counted(e)
  /\ e.rxNext <= 2 + p.written /\ e.fin <= 1 + p.written /\ e.nextTx <= 3
  /\ ~(e.closeCalled /\ e.shutdownSend)
  /\ e.bound /\ e.size = 1 => e.retx # "FIN"
  /\ e.bound /\ e.lastAck => e.state = "LAST_ACK"
  /\ p.gotFin \/ e.retx = "FIN" => FinOut(e, p)
  /\ PastEnd(e, p, ack)
  /\ e.gotFin /\ ~Finished(e) => Excused(p)

\* Data on its way is repeated as data, not as a FIN.
Repeating(e) ==
  e.bound /\ e.size = 1 /\ e.state # "TIME_WAIT" /\ e.highTx = 2 => e.retx = "RTO"

\* A socket e between two events, whose peer is p
Proper(e, p) == Core(e, p, 0) /\ Repeating(e) /\ (Finished(e) => Heeds(e))

\* A segment m that e sent to p
Fine(m, e, p) ==
  /\ m.seq <= 4 /\ m.ack <= 3
  /\ "FIN" \in m.flags =>
       /\ FinOut(e, p)
       /\ m.seq + m.len <= 1 + e.written \/ Settled(p)
       /\ m.len = 0 /\ p.read < e.written => Excused(e)
       /\ m.len = 0 /\ m.ack >= 2 + p.written => p.read = e.written \/ Settled(e)

AllProper ==
  \A x \in Ends : /\ Proper(end[x], end[Peer(x)])
                  /\ \A m \in sent[Peer(x)] : Fine(m, end[x], end[Peer(x)])

\* In the middle of a handler: the socket, its peer p, and the segments sent so far
Sound(s, p, ack) ==
  /\ Core(s.e, p, ack)
  /\ Kept(p, s.e) /\ Proper(p, s.e)
  /\ \A m \in s.out : Fine(m, s.e, p)

\* What a handler never takes back here
Firm(e, f, p) ==
  /\ e.closeCalled => f.closeCalled
  /\ Gone(e) => Gone(f)
  /\ Settled(e) => Settled(f)
  /\ Heeds(e) => Heeds(f)
  /\ FinOut(e, p) => FinOut(f, p)
  /\ Repeating(e) => Repeating(f)

LEMMA FirmFirm ==
  ASSUME NEW e, NEW f, NEW g, NEW p, Firm(e, f, p), Firm(f, g, p)
  PROVE  Firm(e, g, p)
BY DEF Firm

LEMMA FirmSelf ==
  ASSUME NEW e, NEW p
  PROVE  Firm(e, e, p)
BY DEF Firm

\* The segments of either end stay what they were.
LEMMA FirmFine ==
  ASSUME NEW e \in Sockets, NEW f \in Sockets, NEW p \in Sockets, Later(e, f),
         Firm(e, f, p), NEW m \in Messages
  PROVE  /\ Fine(m, e, p) => Fine(m, f, p)
         /\ f.read <= p.written /\ Fine(m, p, e) => Fine(m, p, f)
<1>1. /\ f.written = e.written /\ f.read >= e.read /\ e.read \in Nat /\ f.read \in Nat
      /\ p.written \in {0, 1} /\ e.written \in {0, 1} /\ p.read \in Nat
      /\ m.seq \in Nat /\ m.len \in {0, 1} /\ m.ack \in Nat
  BY DEF Later, Sockets, Messages
<1>2. /\ Excused(e) => Excused(f)
      /\ Settled(e) => Settled(f)
      /\ FinOut(e, p) => FinOut(f, p)
      /\ FinOut(p, e) => FinOut(p, f)
  BY DEF Firm, Excused, FinOut
<1>3. Fine(m, e, p) => Fine(m, f, p)
  BY <1>1, <1>2 DEF Fine
<1>4. f.read <= p.written /\ Fine(m, p, e) => Fine(m, p, f)
  BY <1>1, <1>2 DEF Fine
<1> QED
  BY <1>3, <1>4

\* What the peer is believed to be holds on.
LEMMA FirmProper ==
  ASSUME NEW e \in Sockets, NEW f \in Sockets, NEW p \in Sockets, Later(e, f),
         Firm(e, f, p), Proper(p, e), f.gotFin => e.gotFin \/ FinOut(p, f)
  PROVE  Proper(p, f)
<1>1. f.written = e.written
  BY DEF Later
<1>2. /\ Excused(e) => Excused(f)
      /\ Settled(e) => Settled(f)
      /\ FinOut(p, e) => FinOut(p, f)
  BY DEF Firm, Excused, FinOut
<1>3. PastEnd(p, f, 0)
  BY <1>2, p.highTx \in Nat DEF Proper, Core, PastEnd, Acked, Sockets
<1>4. f.gotFin \/ p.retx = "FIN" => FinOut(p, f)
  BY <1>2 DEF Proper, Core
<1>5. p.gotFin /\ ~Finished(p) => Excused(f)
  BY <1>2 DEF Proper, Core
<1> QED
  BY <1>1, <1>3, <1>4, <1>5 DEF Proper, Core

\* A call has changed the socket and sent segments.
LEMMA SoundMoves ==
  ASSUME NEW p \in Sockets, NEW s \in Handled, NEW r \in Handled, NEW a \in Nat,
         NEW b \in Nat, Sound(s, p, a), Later(s.e, r.e), Firm(s.e, r.e, p),
         Core(r.e, p, b), r.e.gotFin => s.e.gotFin \/ FinOut(p, r.e),
         \A m \in r.out \ s.out : Fine(m, r.e, p)
  PROVE  Sound(r, p, b)
<1>1. s.e \in Sockets /\ r.e \in Sockets /\ s.out \subseteq Messages
  BY DEF Handled
<1>2. Kept(p, r.e)
  BY <1>1, LaterKept DEF Sound
<1>3. Proper(p, r.e)
  BY <1>1, FirmProper DEF Sound
<1>4. \A m \in s.out : Fine(m, r.e, p)
  BY <1>1, FirmFine DEF Sound
<1> QED
  BY <1>2, <1>3, <1>4 DEF Sound

(***************************************************************************)
(* The calls of the handlers leave the end sound                           *)
(***************************************************************************)
\* The counters are left alone.
SameCounts(e, f) == /\ f.synCount = e.synCount /\ f.dataRetrCount = e.dataRetrCount
                    /\ f.delAckCount = e.delAckCount

LEMMA DeallocateCounts ==
  ASSUME NEW e \in Sockets
  PROVE  SameCounts(e, DeallocateEndPoint(e))
<1>1. CASE ~e.bound
  BY <1>1 DEF DeallocateEndPoint, SameCounts
<1>2. CASE e.bound
  <2> DEFINE c == CancelAllTimers(e)
  <2>1. DeallocateEndPoint(e) = [c EXCEPT !.bound = FALSE]
    BY <1>2 DEF DeallocateEndPoint
  <2>2. c \in Sockets
    BY CancelKeeps
  <2>3. SameCounts(e, c)
    BY DEF CancelAllTimers, SameCounts, Sockets
  <2> HIDE DEF c
  <2> QED
    BY <2>1, <2>2, <2>3 DEF SameCounts, Sockets
<1> QED
  BY <1>1, <1>2 DEF Sockets

\* A socket without an endpoint has nothing more to answer for.
LEMMA GoneSound ==
  ASSUME NEW p \in Sockets, NEW s \in Handled, NEW r \in Handled, NEW a \in Nat,
         NEW b \in Nat, Sound(s, p, a), SameNumbers(s.e, r.e), Later(s.e, r.e),
         SameCounts(s.e, r.e), ~r.e.bound, r.out = s.out
  PROVE  Sound(r, p, b) /\ Firm(s.e, r.e, p) /\ Proper(r.e, p)
<1>1. Firm(s.e, r.e, p)
  BY DEF Firm, Gone, Settled, Heeds, FinOut, Repeating, SameNumbers
<1>2. \A c \in Nat : Core(r.e, p, c)
  BY DEF Core, Sound, Counted, SameCounts, SameNumbers, FinOut, PastEnd, Finished
<1>3. Proper(r.e, p)
  BY <1>2 DEF Proper, Repeating, Heeds
<1> QED
  BY <1>1, <1>2, <1>3, SoundMoves DEF SameNumbers

LEMMA CloseAndNotifySound ==
  ASSUME NEW p \in Sockets, NEW s \in Handled, NEW a \in Nat, NEW b \in Nat, Sound(s, p, a)
  PROVE  LET r == CloseAndNotify(s)
         IN r \in Handled /\ Sound(r, p, b) /\ Firm(s.e, r.e, p) /\ Proper(r.e, p)
<1> DEFINE g == [s.e EXCEPT !.closeNotified = TRUE, !.lastAck = FALSE, !.state = "CLOSED"]
           r == CloseAndNotify(s)
<1>1. s.e \in Sockets
  BY DEF Handled
<1>2. g \in Sockets /\ SameNumbers(s.e, g) /\ g.state = "CLOSED" /\ SameCounts(s.e, g)
  BY <1>1, ZenonT(60) DEF Sockets, SameNumbers, States, SameCounts
<1>3. r = [s EXCEPT !.e = DeallocateEndPoint(g)]
  BY DEF CloseAndNotify
<1> HIDE DEF g, r
<1>4. DeallocateEndPoint(g) \in Sockets /\ SameNumbers(g, DeallocateEndPoint(g))
      /\ DeallocateEndPoint(g).state = "CLOSED" /\ ~DeallocateEndPoint(g).bound
      /\ SameCounts(g, DeallocateEndPoint(g))
  BY <1>2, DeallocateIs, DeallocateCounts
<1>5. r \in Handled /\ r.out = s.out /\ r.e = DeallocateEndPoint(g)
  BY <1>3, <1>4 DEF Handled
<1>6. SameNumbers(s.e, r.e) /\ SameCounts(s.e, r.e) /\ r.e.state = "CLOSED" /\ ~r.e.bound
  BY <1>2, <1>4, <1>5 DEF SameNumbers, SameCounts
<1>7. Later(s.e, r.e)
  BY <1>1, <1>4, <1>5, <1>6, SameIsLater
<1>8. Sound(r, p, b) /\ Firm(s.e, r.e, p) /\ Proper(r.e, p)
  BY <1>5, <1>6, <1>7, GoneSound
<1> QED
  BY <1>5, <1>8 DEF r

\* The socket fails and gives its endpoint up.
LEMMA DropSound ==
  ASSUME NEW p \in Sockets, NEW s \in Handled, NEW a \in Nat, NEW b \in Nat, Sound(s, p, a)
  PROVE  LET r == [s EXCEPT !.e = DeallocateEndPoint([@ EXCEPT !.failed = TRUE])]
         IN r \in Handled /\ Sound(r, p, b) /\ Firm(s.e, r.e, p) /\ Proper(r.e, p)
<1> DEFINE g == [s.e EXCEPT !.failed = TRUE]
           r == [s EXCEPT !.e = DeallocateEndPoint(g)]
<1>1. s.e \in Sockets
  BY DEF Handled
<1>2. g \in Sockets /\ SameNumbers(s.e, g) /\ g.state = s.e.state /\ SameCounts(s.e, g)
  BY <1>1 DEF Sockets, SameNumbers, SameCounts
<1> HIDE DEF g
<1>4. DeallocateEndPoint(g) \in Sockets /\ SameNumbers(g, DeallocateEndPoint(g))
      /\ DeallocateEndPoint(g).state = g.state /\ ~DeallocateEndPoint(g).bound
      /\ SameCounts(g, DeallocateEndPoint(g))
  BY <1>2, DeallocateIs, DeallocateCounts
<1>5. r \in Handled /\ r.out = s.out /\ r.e = DeallocateEndPoint(g)
  BY <1>4 DEF Handled
<1> HIDE DEF r
<1>6. SameNumbers(s.e, r.e) /\ SameCounts(s.e, r.e) /\ r.e.state = s.e.state /\ ~r.e.bound
  BY <1>2, <1>4, <1>5 DEF SameNumbers, SameCounts
<1>7. Later(s.e, r.e)
  BY <1>1, <1>4, <1>5, <1>6, SameIsLater
<1>8. Sound(r, p, b) /\ Firm(s.e, r.e, p) /\ Proper(r.e, p)
  BY <1>5, <1>6, <1>7, GoneSound
<1> QED
  BY <1>5, <1>8 DEF r, g

\* What SendEmptyPacket does without a SYN
SentEmpty(s, wanted, r) ==
  /\ r \in Handled /\ r.e \in Sockets /\ SameNumbers(s.e, r.e)
  /\ r.e.state = s.e.state /\ r.e.bound = s.e.bound /\ r.e.lastAck = s.e.lastAck
  /\ Counted(s.e) => Counted(r.e)
  /\ r.e.retx = s.e.retx
     \/ ("FIN" \in wanted /\ r.e.retx = "FIN" /\ s.e.retx = "none" /\ s.e.bound)
  /\ \A m \in r.out \ s.out :
       /\ m.ack = s.e.rxNext /\ m.len = 0 /\ s.e.bound
       /\ m.seq \in {s.e.nextTx, s.e.nextTx + 1}
       /\ "FIN" \in m.flags => "FIN" \in wanted /\ m.seq = s.e.nextTx

LEMMA SendEmptyExact ==
  ASSUME NEW s \in Handled, NEW wanted \in {{"ACK"}, {"RST"}, {"FIN"}, {"FIN", "ACK"}}
  PROVE  SentEmpty(s, wanted, SendEmptyPacket(s, wanted))
<1> DEFINE flags == IF "FIN" \in wanted THEN wanted \cup {"ACK"} ELSE wanted
           seq == IF "FIN" \notin wanted /\ s.e.state \in {"FIN_WAIT_1", "LAST_ACK", "CLOSING"}
                  THEN s.e.nextTx + 1 ELSE s.e.nextTx
           acks == "ACK" \in flags
           again == IF "FIN" \in flags THEN "FIN" ELSE IF acks THEN "SYN+ACK" ELSE "SYN"
           due == s.e.delAck /\ ~acks
           count == IF acks THEN 0 ELSE s.e.delAckCount
           retx == IF s.e.retx = "none" /\ "FIN" \in flags THEN again ELSE s.e.retx
           c == [s EXCEPT !.e.synCount = @, !.e.delAck = due, !.e.delAckCount = count,
                          !.e.retx = retx]
           m == [flags |-> flags, seq |-> seq, ack |-> s.e.rxNext, len |-> 0]
<1>1. s.e \in Sockets
  BY DEF Handled
<1>2. "SYN" \notin flags /\ flags \in FlagSets /\ ("FIN" \in flags <=> "FIN" \in wanted)
  BY DEF FlagSets
<1>3. CASE ~s.e.bound
  <2>1. SendEmptyPacket(s, wanted) = s
    BY <1>3 DEF SendEmptyPacket
  <2> QED
    BY <1>1, <2>1 DEF SentEmpty, SameNumbers
<1>4. CASE s.e.bound
  <2>1. SendEmptyPacket(s, wanted) = Emit(c, flags, seq, 0)
    BY <1>2, <1>4 DEF SendEmptyPacket
  <2>2. /\ due \in BOOLEAN /\ count \in Int
        /\ retx \in {"none", "SYN", "SYN+ACK", "FIN", "RTO"}
        /\ retx = s.e.retx \/ ("FIN" \in wanted /\ retx = "FIN" /\ s.e.retx = "none")
        /\ count \in {0, s.e.delAckCount}
        /\ seq \in Nat /\ seq \in {s.e.nextTx, s.e.nextTx + 1}
        /\ "FIN" \in wanted => seq = s.e.nextTx
    BY <1>1, <1>2 DEF Sockets
  <2> HIDE DEF due, count, retx, flags, seq
  <2>3. c \in Handled /\ c.out = s.out
    BY <1>1, <2>2, ZenonT(60) DEF Handled, Sockets
  <2>4. SameNumbers(s.e, c.e) /\ c.e.state = s.e.state /\ c.e.bound = s.e.bound
        /\ c.e.retx = retx /\ c.e.lastAck = s.e.lastAck
    BY <1>1 DEF Handled, Sockets, SameNumbers
  <2>5. c.e.synCount = s.e.synCount /\ c.e.dataRetrCount = s.e.dataRetrCount
        /\ c.e.delAckCount = count
    BY <1>1 DEF Handled, Sockets
  <2> HIDE DEF c
  <2>6. Counted(s.e) => Counted(c.e)
    BY <2>2, <2>5, ConnectionAssumption DEF Counted
  <2>7. Emit(c, flags, seq, 0) = [c EXCEPT !.out = c.out \cup {m}]
    BY <2>4 DEF Emit, SameNumbers
  <2>8. m \in Messages /\ m.flags = flags /\ m.seq = seq /\ m.ack = s.e.rxNext /\ m.len = 0
    BY <1>1, <1>2, <2>2 DEF Messages, Sockets
  <2> HIDE DEF m
  <2>9. Emit(c, flags, seq, 0) \in Handled /\ Emit(c, flags, seq, 0).e = c.e
        /\ Emit(c, flags, seq, 0).out = s.out \cup {m}
    BY <2>3, <2>7, <2>8 DEF Handled
  <2>10. c.e \in Sockets
    BY <2>3 DEF Handled
  <2> HIDE DEF flags
  <2> QED
    BY <1>2, <1>4, <2>1, <2>2, <2>4, <2>6, <2>8, <2>9, <2>10 DEF SentEmpty
<1> QED
  BY <1>1, <1>3, <1>4 DEF Sockets

\* A call that leaves the numbers, the state and the timers of FIN and data alone
LEMMA SameSound ==
  ASSUME NEW p \in Sockets, NEW s \in Handled, NEW r \in Handled, NEW a \in Nat,
         Sound(s, p, a), SameNumbers(s.e, r.e), r.e.state = s.e.state,
         r.e.bound = s.e.bound, r.e.lastAck = s.e.lastAck, r.e.retx = s.e.retx,
         Counted(s.e) => Counted(r.e),
         \A m \in r.out \ s.out : Fine(m, r.e, p)
  PROVE  Sound(r, p, a) /\ Firm(s.e, r.e, p)
<1>1. Firm(s.e, r.e, p)
  BY DEF Firm, Gone, Settled, Heeds, FinOut, Repeating, SameNumbers
<1>2. Core(r.e, p, a)
  BY DEF Core, Sound, SameNumbers, FinOut, PastEnd, Finished, Over, Acked
<1>3. Later(s.e, r.e)
  BY SameIsLater DEF Handled
<1> QED
  BY <1>1, <1>2, <1>3, SoundMoves DEF SameNumbers

\* An acknowledgment or a reset
LEMMA SendEmptySound ==
  ASSUME NEW p \in Sockets, NEW s \in Handled, NEW a \in Nat, Sound(s, p, a),
         NEW wanted \in {{"ACK"}, {"RST"}}
  PROVE  LET r == SendEmptyPacket(s, wanted)
         IN /\ r \in Handled /\ Sound(r, p, a) /\ Firm(s.e, r.e, p) /\ SameNumbers(s.e, r.e)
            /\ r.e.state = s.e.state /\ r.e.bound = s.e.bound
            /\ r.e.retx = s.e.retx /\ r.e.lastAck = s.e.lastAck
<1> DEFINE r == SendEmptyPacket(s, wanted)
<1>1. wanted \in {{"ACK"}, {"RST"}, {"FIN"}, {"FIN", "ACK"}} /\ "FIN" \notin wanted
  OBVIOUS
<1>2. SentEmpty(s, wanted, r)
  BY <1>1, SendEmptyExact
<1>3. \A m \in r.out \ s.out : /\ m.ack = s.e.rxNext /\ "FIN" \notin m.flags
                               /\ m.seq \in {s.e.nextTx, s.e.nextTx + 1}
  BY <1>1, <1>2 DEF SentEmpty
<1>4. s.e.nextTx <= 3 /\ s.e.rxNext <= 3 /\ s.e.nextTx \in Nat /\ s.e.rxNext \in Nat
  BY DEF Sound, Core, Handled, Sockets
<1> HIDE DEF r
<1>5. \A m \in r.out \ s.out : Fine(m, r.e, p)
  BY <1>3, <1>4 DEF Fine
<1>6. Sound(r, p, a) /\ Firm(s.e, r.e, p)
  BY <1>1, <1>2, <1>5, SameSound DEF SentEmpty
<1> QED
  BY <1>1, <1>2, <1>6 DEF r, SentEmpty

LEMMA SendRSTSound ==
  ASSUME NEW p \in Sockets, NEW s \in Handled, NEW a \in Nat, NEW b \in Nat, Sound(s, p, a)
  PROVE  LET r == SendRST(s)
         IN r \in Handled /\ Sound(r, p, b) /\ Firm(s.e, r.e, p) /\ Proper(r.e, p)
<1> DEFINE t == SendEmptyPacket(s, {"RST"})
<1>1. t \in Handled /\ Sound(t, p, a) /\ Firm(s.e, t.e, p)
  BY SendEmptySound
<1>2. SendRST(s) = [t EXCEPT !.e = DeallocateEndPoint([@ EXCEPT !.failed = TRUE])]
  BY DEF SendRST
<1> HIDE DEF t
<1>3. /\ SendRST(s) \in Handled /\ Sound(SendRST(s), p, b) /\ Firm(t.e, SendRST(s).e, p)
      /\ Proper(SendRST(s).e, p)
  BY <1>1, <1>2, DropSound
<1> QED
  BY <1>1, <1>3, FirmFirm

LEMMA RefuseSound ==
  ASSUME NEW p \in Sockets, NEW s \in Handled, NEW a \in Nat, NEW b \in Nat, Sound(s, p, a),
         NEW m
  PROVE  LET r == Refuse(s, m)
             q == CloseAndNotify(SendRST(s))
         IN /\ r \in Handled /\ Sound(r, p, b) /\ Firm(s.e, r.e, p) /\ Proper(r.e, p)
            /\ q \in Handled /\ Sound(q, p, b) /\ Firm(s.e, q.e, p) /\ Proper(q.e, p)
<1> DEFINE t == SendRST(s)
           q == CloseAndNotify(t)
<1>1. t \in Handled /\ Sound(t, p, a) /\ Firm(s.e, t.e, p)
  BY SendRSTSound
<1> HIDE DEF t
<1>2. q \in Handled /\ Sound(q, p, b) /\ Firm(s.e, q.e, p) /\ Proper(q.e, p)
  BY <1>1, CloseAndNotifySound, FirmFirm
<1>3. CASE m.flags = {"RST"}
  <2>1. Refuse(s, m) = CloseAndNotify(s)
    BY <1>3 DEF Refuse
  <2> QED
    BY <1>2, <2>1, CloseAndNotifySound DEF t
<1>4. CASE m.flags # {"RST"}
  <2>1. Refuse(s, m) = q
    BY <1>4 DEF Refuse, t
  <2> QED
    BY <1>2, <2>1 DEF t
<1> QED
  BY <1>3, <1>4

\* All but the state is the same.
StateOnly(s, to, r) ==
  /\ r \in Handled /\ r.e \in Sockets /\ r.out = s.out /\ r.e.state = to
  /\ SameNumbers(s.e, r.e) /\ SameCounts(s.e, r.e)
  /\ r.e.bound = s.e.bound /\ r.e.lastAck = s.e.lastAck /\ r.e.retx = s.e.retx

LEMMA StateExact ==
  ASSUME NEW s \in Handled, NEW to \in States
  PROVE  StateOnly(s, to, [s EXCEPT !.e.state = to])
<1> DEFINE r == [s EXCEPT !.e.state = to]
<1>1. s.e \in Sockets
  BY DEF Handled
<1>2. r \in Handled /\ r.e \in Sockets
  BY StateIs
<1>3. r.out = s.out /\ r.e.state = to /\ SameNumbers(s.e, r.e) /\ SameCounts(s.e, r.e)
  BY <1>1 DEF Handled, Sockets, SameNumbers, SameCounts
<1>4. r.e.bound = s.e.bound /\ r.e.lastAck = s.e.lastAck /\ r.e.retx = s.e.retx
  BY <1>1 DEF Handled, Sockets
<1> QED
  BY <1>2, <1>3, <1>4 DEF StateOnly

\* Once its data is acknowledged, the peer has read it.
LEMMA AckedIsRead ==
  ASSUME NEW e \in Sockets, NEW p \in Sockets, Kept(p, e), Whole(e, p),
         Grown(e, p.rxNext), e.size = 0
  PROVE  p.read = e.written
<1>1. e.una <= p.rxNext /\ e.una >= 1 + e.written /\ e.una \in Nat /\ e.written \in {0, 1}
      /\ p.rxNext \in Nat /\ p.read \in Nat
  BY DEF Whole, Grown, Sockets
<1>2. /\ p.read <= e.written
      /\ ~Finished(p) => p.rxNext <= 1 + p.read
      /\ Finished(p) => p.read = e.written
  BY DEF Kept, Whole, Received
<1> QED
  BY <1>1, <1>2

\* An end that has the FIN of p is past the end of the stream, and only such an end.
LEMMA PastIsFinished ==
  ASSUME NEW e \in Sockets, NEW p \in Sockets, Whole(e, p), e.rxNext >= 2 + p.written
  PROVE  Finished(e)
BY DEF Whole, Received, Sockets

\* p has received the FIN that e is past.
LEMMA OverIsFinished ==
  ASSUME NEW e \in Sockets, NEW p \in Sockets, Kept(p, e), Grown(e, p.rxNext), Over(e)
  PROVE  Finished(p) /\ p.rxNext >= 2 + e.written
<1>1. p.rxNext >= 2 + e.written
  BY DEF Grown, Over, Sockets
<1> QED
  BY <1>1, PastIsFinished DEF Kept

\* What a FIN may do to the state of its sender
Moves(from, to) == \/ to = from
                   \/ from = "ESTABLISHED" /\ to = "FIN_WAIT_1"
                   \/ from = "CLOSE_WAIT" /\ to = "LAST_ACK"

\* A FIN without data
LEMMA FinSound ==
  ASSUME NEW p \in Sockets, NEW s, Active(s, p), NEW a \in Nat, Sound(s, p, a),
         NEW wanted \in {{"FIN"}, {"FIN", "ACK"}}, NEW to \in States,
         Moves(s.e.state, to),
         to = s.e.state => FinOut(s.e, p),
         s.e.bound /\ Over(s.e) => Settled(p),
         s.e.bound => s.e.size = 0 \/ (s.e.retx = "RTO" /\ (to = "LAST_ACK" \/ s.e.closeCalled)),
         s.e.bound => s.e.size = 0 \/ to = "LAST_ACK" \/ ~Finished(s.e)
  PROVE  LET r == [SendEmptyPacket(s, wanted) EXCEPT !.e.state = to]
         IN /\ r \in Handled /\ Sound(r, p, a) /\ Firm(s.e, r.e, p)
            /\ SameNumbers(s.e, r.e) /\ r.e.state = to /\ r.e.bound = s.e.bound
<1> DEFINE t == SendEmptyPacket(s, wanted)
           r == [t EXCEPT !.e.state = to]
<1>1. s \in Handled /\ s.e \in Sockets /\ s.e.nextTx \in Nat /\ s.e.rxNext \in Nat
      /\ s.e.size \in {0, 1} /\ p.written \in {0, 1} /\ s.e.written \in {0, 1}
  BY DEF Active, Handled, Sockets
<1>2. SentEmpty(s, wanted, t)
  BY <1>1, SendEmptyExact
<1> HIDE DEF t
<1>3. StateOnly(t, to, r)
  BY <1>2, StateExact DEF SentEmpty
<1> HIDE DEF r
<1>4. /\ r \in Handled /\ r.e \in Sockets /\ r.e.state = to
      /\ SameNumbers(s.e, r.e) /\ r.e.bound = s.e.bound /\ r.e.lastAck = s.e.lastAck
      /\ Counted(s.e) => Counted(r.e)
      /\ r.e.retx = s.e.retx \/ (r.e.retx = "FIN" /\ s.e.retx = "none" /\ s.e.bound)
  BY <1>2, <1>3 DEF SentEmpty, StateOnly, SameNumbers, SameCounts, Counted
<1>5. \A m \in r.out \ s.out :
        /\ m.ack = s.e.rxNext /\ m.len = 0 /\ s.e.bound
        /\ m.seq \in {s.e.nextTx, s.e.nextTx + 1}
        /\ "FIN" \in m.flags => m.seq = s.e.nextTx
  BY <1>2, <1>3 DEF SentEmpty, StateOnly
<1>6. Later(s.e, r.e)
  BY <1>1, <1>4, SameIsLater DEF Moves
<1>7. FinOut(r.e, p)
  BY <1>4 DEF FinOut, Moves, ClosingStates
<1>8. Firm(s.e, r.e, p)
  <2>1. s.e.closeCalled => r.e.closeCalled
    BY <1>4 DEF SameNumbers
  <2>2. /\ Gone(s.e) => Gone(r.e)
        /\ Settled(s.e) => Settled(r.e)
        /\ Heeds(s.e) => Heeds(r.e)
    BY <1>4 DEF Moves, Gone, Settled, Heeds
  <2>3. Repeating(s.e) => Repeating(r.e)
    BY <1>1, <1>4 DEF Repeating, SameNumbers, Moves
  <2> QED
    BY <1>7, <2>1, <2>2, <2>3 DEF Firm
<1>9. s.e.size = 0 => p.read = s.e.written
  BY <1>1, AckedIsRead DEF Active, Sound
<1>10. s.e.rxNext >= 2 + p.written => Finished(s.e)
  BY <1>1, PastIsFinished DEF Active
<1>11. s.e.nextTx <= 3 /\ s.e.rxNext <= 3
  BY <1>1 DEF Sound, Core
<1>12. \A m \in r.out \ s.out : Fine(m, r.e, p)
  <2> SUFFICES ASSUME NEW m \in r.out \ s.out
               PROVE  Fine(m, r.e, p)
    OBVIOUS
  <2>1. m.ack = s.e.rxNext /\ m.len = 0 /\ s.e.bound /\ m.seq <= 4 /\ m.ack <= 3
        /\ ("FIN" \in m.flags => m.seq = s.e.nextTx)
    BY <1>1, <1>5, <1>11
  <2>2. "FIN" \in m.flags => m.seq + m.len <= 1 + r.e.written \/ Settled(p)
    BY <1>1, <1>4, <2>1 DEF Over, SameNumbers
  <2>3. p.read < r.e.written => Excused(r.e)
    BY <1>1, <1>4, <1>9, <2>1, p.read \in Nat DEF SameNumbers, Excused, Gone, Sockets
  <2>4. m.ack >= 2 + p.written => p.read = r.e.written \/ Settled(r.e)
    BY <1>4, <1>9, <1>10, <2>1 DEF SameNumbers, Settled
  <2> QED
    BY <1>7, <2>1, <2>2, <2>3, <2>4 DEF Fine
<1>13. Core(r.e, p, a)
  <2>1. PastEnd(r.e, p, a)
    BY <1>4 DEF PastEnd, Over, SameNumbers
  <2>2. r.e.bound /\ r.e.size = 1 => r.e.retx # "FIN"
    BY <1>1, <1>4 DEF SameNumbers
  <2>3. r.e.bound /\ r.e.lastAck => r.e.state = "LAST_ACK"
    BY <1>4 DEF Sound, Core, Moves
  <2>4. r.e.gotFin /\ ~Finished(r.e) => Excused(p)
    BY <1>4 DEF Sound, Core, SameNumbers, Finished
  <2>5. Counted(r.e) /\ r.e.rxNext <= 2 + p.written /\ r.e.fin <= 1 + p.written
        /\ r.e.nextTx <= 3 /\ ~(r.e.closeCalled /\ r.e.shutdownSend)
    BY <1>4 DEF Sound, Core, SameNumbers
  <2> QED
    BY <1>7, <2>1, <2>2, <2>3, <2>4, <2>5 DEF Core
<1>14. Sound(r, p, a)
  BY <1>1, <1>4, <1>6, <1>8, <1>12, <1>13, SoundMoves DEF SameNumbers
<1> QED
  BY <1>4, <1>8, <1>14 DEF r, t

\* What SendDataPacket does
SentData(s, r) ==
  /\ r \in Handled /\ r.e \in Sockets
  /\ r.e.una = s.e.una /\ r.e.nextTx = s.e.una + 1 /\ r.e.highTx = s.e.una + 1
  /\ r.e.size = s.e.size /\ r.e.written = s.e.written /\ r.e.rxNext = s.e.rxNext
  /\ r.e.read = s.e.read /\ r.e.gotFin = s.e.gotFin /\ r.e.fin = s.e.fin
  /\ r.e.closeCalled = s.e.closeCalled /\ r.e.shutdownSend = s.e.shutdownSend
  /\ r.e.bound = s.e.bound /\ r.e.lastAck = s.e.lastAck
  /\ r.e.retx = IF s.e.retx = "none" THEN "RTO" ELSE s.e.retx
  /\ Moves(s.e.state, r.e.state)
  /\ s.e.closeOnEmpty => r.e.state \notin {"ESTABLISHED", "CLOSE_WAIT"}
  /\ Counted(s.e) => Counted(r.e)
  /\ \A m \in r.out \ s.out : /\ m.len = 1 /\ m.seq = s.e.una /\ m.ack = s.e.rxNext
                              /\ "FIN" \in m.flags => s.e.closeOnEmpty

LEMMA SendDataExact ==
  ASSUME NEW s \in Handled
  PROVE  SentData(s, SendDataPacket(s))
<1> DEFINE fin == s.e.closeOnEmpty
           next == CASE fin /\ s.e.state = "ESTABLISHED" -> "FIN_WAIT_1"
                     [] fin /\ s.e.state = "CLOSE_WAIT" -> "LAST_ACK"
                     [] OTHER -> s.e.state
           retx == IF s.e.retx = "none" THEN "RTO" ELSE s.e.retx
           past == s.e.una + 1
           d == [s.e EXCEPT !.state = next, !.delAck = FALSE, !.delAckCount = 0,
                            !.retx = retx, !.highTx = past, !.nextTx = past]
           c == [s EXCEPT !.e.state = next, !.e.delAck = FALSE, !.e.delAckCount = 0,
                          !.e.retx = retx, !.e.highTx = past, !.e.nextTx = past]
           flags == IF fin THEN {"FIN", "ACK"} ELSE {"ACK"}
           m == [flags |-> flags, seq |-> s.e.una, ack |-> c.e.rxNext, len |-> 1]
           r == SendDataPacket(s)
<1>1. s.e \in Sockets /\ fin \in BOOLEAN /\ s.e.una \in Nat /\ s.e.rxNext \in Nat
  BY DEF Handled, Sockets
<1>2. /\ next \in States /\ Moves(s.e.state, next) /\ past \in Nat
      /\ fin => next \notin {"ESTABLISHED", "CLOSE_WAIT"}
      /\ retx \in {"none", "SYN", "SYN+ACK", "FIN", "RTO"}
      /\ flags \in FlagSets /\ ("FIN" \in flags => fin)
  BY <1>1 DEF Sockets, States, Moves, FlagSets
<1>3. r = Emit(c, flags, s.e.una, 1)
  BY DEF SendDataPacket
<1> HIDE DEF next, retx, flags
<1>4. d \in Sockets
  <2>1. 0 \in Int
    OBVIOUS
  <2> HIDE DEF past
  <2> QED
    BY <1>1, <1>2, <2>1, DataSocketTyped, Zenon
<1>5. c = [s EXCEPT !.e = d]
  BY <1>1 DEF Handled
<1>6. /\ d.una = s.e.una /\ d.nextTx = s.e.una + 1 /\ d.highTx = s.e.una + 1
      /\ d.size = s.e.size /\ d.written = s.e.written /\ d.rxNext = s.e.rxNext
      /\ d.read = s.e.read /\ d.gotFin = s.e.gotFin /\ d.fin = s.e.fin
  BY <1>1, ZenonT(60) DEF Sockets
<1>7. /\ d.closeCalled = s.e.closeCalled /\ d.shutdownSend = s.e.shutdownSend
      /\ d.bound = s.e.bound /\ d.lastAck = s.e.lastAck /\ d.retx = retx /\ d.state = next
  BY <1>1, ZenonT(60) DEF Sockets
<1>8. /\ d.synCount = s.e.synCount /\ d.dataRetrCount = s.e.dataRetrCount
      /\ d.delAckCount = 0
  BY <1>1, ZenonT(60) DEF Sockets
<1>9. Counted(s.e) => Counted(d)
  BY <1>8, ConnectionAssumption DEF Counted
<1> HIDE DEF d, c, r
<1>10. c \in Handled /\ c.e = d /\ c.out = s.out
  BY <1>4, <1>5 DEF Handled
<1>11. r = [c EXCEPT !.out = c.out \cup {m}]
  BY <1>3 DEF Emit
<1>12. m \in Messages /\ m.flags = flags /\ m.seq = s.e.una /\ m.ack = s.e.rxNext /\ m.len = 1
  BY <1>1, <1>2, <1>6, <1>10 DEF Messages
<1> HIDE DEF m
<1>13. r \in Handled /\ r.e = d /\ r.out = s.out \cup {m}
  BY <1>10, <1>11, <1>12 DEF Handled
<1>14. \A k \in r.out \ s.out : /\ k.len = 1 /\ k.seq = s.e.una /\ k.ack = s.e.rxNext
                                /\ "FIN" \in k.flags => s.e.closeOnEmpty
  BY <1>2, <1>12, <1>13
<1> HIDE DEF past
<1> QED
  BY <1>2, <1>4, <1>6, <1>7, <1>9, <1>13, <1>14 DEF SentData, r, retx

\* Data goes out with the right number, and so does the FIN that goes with it.
LEMMA SentDataSound ==
  ASSUME NEW p \in Sockets, NEW s, Active(s, p), NEW a \in Nat, Sound(s, p, a),
         s.e.size > 0, s.e.state # "SYN_RCVD", NEW r, SentData(s, r), Later(s.e, r.e)
  PROVE  /\ r \in Handled /\ Sound(r, p, a) /\ Firm(s.e, r.e, p) /\ Repeating(r.e)
         /\ r.e.rxNext = s.e.rxNext /\ r.e.gotFin = s.e.gotFin /\ r.e.fin = s.e.fin
         /\ Moves(s.e.state, r.e.state)
<1>1. s \in Handled /\ s.e \in Sockets
  BY DEF Active, Handled
<1>2. s.e.una = 1 /\ s.e.written = 1 /\ s.e.size = 1 /\ s.e.retx \in {"none", "FIN", "RTO"}
  BY <1>1 DEF Active, Whole, Grown, Sockets
<1>3. SentData(s, r)
  OBVIOUS
<1>4. Later(s.e, r.e)
  OBVIOUS
<1>5. s.e.bound => r.e.retx = "RTO"
  BY <1>2, <1>3 DEF SentData, Sound, Core
<1>6. s.e.bound => s.e.state \in {"ESTABLISHED", "CLOSE_WAIT"} \cup ClosingStates
  BY <1>1 DEF Active, Sockets, States, ClosingStates
<1>7. s.e.closeOnEmpty => FinOut(r.e, p)
  BY <1>3, <1>6 DEF SentData, Moves, FinOut, ClosingStates
<1>8. FinOut(s.e, p) => FinOut(r.e, p)
  BY <1>3 DEF SentData, Moves, FinOut, ClosingStates
<1>9. Repeating(r.e)
  BY <1>3, <1>5 DEF SentData, Repeating
<1>10. Firm(s.e, r.e, p)
  BY <1>3, <1>8, <1>9 DEF SentData, Moves, Firm, Gone, Settled, Heeds
<1>11. s.e.rxNext <= 3 /\ s.e.rxNext \in Nat
  BY <1>1 DEF Sound, Core, Sockets
<1>12. \A m \in r.out \ s.out : Fine(m, r.e, p)
  BY <1>2, <1>3, <1>7, <1>11 DEF SentData, Fine
<1>13. Core(r.e, p, a)
  <2>1. ~Over(r.e)
    BY <1>2, <1>3 DEF SentData, Over
  <2>2. PastEnd(r.e, p, a)
    BY <2>1 DEF PastEnd
  <2>3. p.gotFin \/ r.e.retx = "FIN" => FinOut(r.e, p)
    BY <1>3, <1>5, <1>8 DEF SentData, Sound, Core, FinOut
  <2>4. r.e.bound /\ r.e.lastAck => r.e.state = "LAST_ACK"
    BY <1>3 DEF SentData, Sound, Core, Moves
  <2>5. r.e.gotFin /\ ~Finished(r.e) => Excused(p)
    BY <1>3 DEF SentData, Sound, Core, Finished
  <2>6. /\ Counted(r.e) /\ r.e.rxNext <= 2 + p.written /\ r.e.fin <= 1 + p.written
        /\ ~(r.e.closeCalled /\ r.e.shutdownSend) /\ r.e.nextTx <= 3
        /\ r.e.bound => r.e.retx # "FIN"
    BY <1>2, <1>3, <1>5 DEF SentData, Sound, Core
  <2> QED
    BY <2>2, <2>3, <2>4, <2>5, <2>6 DEF Core
<1>14. Sound(r, p, a)
  BY <1>1, <1>3, <1>4, <1>10, <1>12, <1>13, SoundMoves DEF SentData
<1> QED
  BY <1>3, <1>9, <1>10, <1>14 DEF SentData

LEMMA SendDataSound ==
  ASSUME NEW p \in Sockets, NEW s, Active(s, p), NEW a \in Nat, Sound(s, p, a),
         s.e.size > 0, s.e.state # "SYN_RCVD"
  PROVE  LET r == SendDataPacket(s)
         IN /\ r \in Handled /\ Sound(r, p, a) /\ Firm(s.e, r.e, p) /\ Repeating(r.e)
            /\ r.e.rxNext = s.e.rxNext /\ r.e.gotFin = s.e.gotFin /\ r.e.fin = s.e.fin
            /\ Moves(s.e.state, r.e.state)
<1>1. SentData(s, SendDataPacket(s))
  BY SendDataExact DEF Active
<1>2. Later(s.e, SendDataPacket(s).e)
  BY SendDataKeeps
<1> QED
  BY <1>1, <1>2, SentDataSound

LEMMA SendPendingSound ==
  ASSUME NEW p \in Sockets, NEW s, Active(s, p), NEW a \in Nat, Sound(s, p, a),
         s.e.state # "SYN_RCVD"
  PROVE  LET r == SendPendingData(s)
         IN /\ r \in Handled /\ Sound(r, p, a) /\ Firm(s.e, r.e, p)
            /\ r.e.rxNext = s.e.rxNext /\ r.e.gotFin = s.e.gotFin /\ r.e.fin = s.e.fin
            /\ Moves(s.e.state, r.e.state)
<1>1. CASE s.e.size > 0 /\ s.e.bound /\ s.e.highTx = s.e.una
  BY <1>1, SendDataSound DEF SendPendingData
<1>2. CASE ~(s.e.size > 0 /\ s.e.bound /\ s.e.highTx = s.e.una)
  <2>1. SendPendingData(s) = s
    BY <1>2 DEF SendPendingData
  <2> QED
    BY <2>1, FirmSelf DEF Active, Moves
<1> QED
  BY <1>1, <1>2

\* TimeWait stops all other timers.
LEMMA TimeWaitExact ==
  ASSUME NEW s \in Handled
  PROVE  LET r == TimeWait(s)
         IN /\ r \in Handled /\ r.out = s.out /\ r.e.state = "TIME_WAIT"
            /\ SameNumbers(s.e, r.e) /\ SameCounts(s.e, r.e)
            /\ r.e.bound = s.e.bound /\ ~r.e.lastAck /\ r.e.retx = "none"
<1> DEFINE c == CancelAllTimers(s.e)
           d == [c EXCEPT !.state = "TIME_WAIT", !.timewait = TRUE, !.closeNotified = TRUE]
           r == TimeWait(s)
<1>1. s.e \in Sockets
  BY DEF Handled
<1>2. c \in Sockets /\ SameNumbers(s.e, c) /\ c.retx = "none" /\ ~c.lastAck
  BY <1>1, CancelKeeps
<1>3. SameCounts(s.e, c) /\ c.bound = s.e.bound
  BY <1>1 DEF CancelAllTimers, SameCounts, Sockets
<1>4. r = [s EXCEPT !.e = d]
  BY <1>1 DEF TimeWait, Handled
<1> HIDE DEF c, r
<1>5. d \in Sockets /\ SameNumbers(c, d) /\ d.state = "TIME_WAIT" /\ d.retx = c.retx
      /\ d.lastAck = c.lastAck /\ d.bound = c.bound /\ SameCounts(c, d)
  BY <1>2 DEF Sockets, SameNumbers, SameCounts, States
<1> HIDE DEF d
<1>6. r \in Handled /\ r.out = s.out /\ r.e = d
  BY <1>4, <1>5 DEF Handled
<1>7. SameNumbers(s.e, r.e) /\ SameCounts(s.e, r.e)
  BY <1>2, <1>3, <1>5, <1>6 DEF SameNumbers, SameCounts
<1> QED
  BY <1>2, <1>3, <1>5, <1>6, <1>7 DEF r

\* Without timers, and with its own FIN heard, nothing is left that could go wrong.
LEMMA TimedSound ==
  ASSUME NEW p \in Sockets, NEW s \in Handled, NEW r \in Handled, NEW a \in Nat,
         NEW b \in Nat, Sound(s, p, a), s.e.state # "LAST_ACK",
         r.out = s.out, r.e.state = "TIME_WAIT", SameNumbers(s.e, r.e),
         SameCounts(s.e, r.e), r.e.bound = s.e.bound, ~r.e.lastAck, r.e.retx = "none"
  PROVE  Sound(r, p, b) /\ Firm(s.e, r.e, p)
<1>1. Later(s.e, r.e)
  BY SameIsLater DEF Handled
<1>2. Firm(s.e, r.e, p)
  BY DEF Firm, Gone, Settled, Heeds, FinOut, Repeating, SameNumbers, ClosingStates
<1>3. Core(r.e, p, b)
  BY DEF Core, Sound, Counted, SameCounts, SameNumbers, FinOut, PastEnd, Finished,
         ClosingStates
<1> QED
  BY <1>1, <1>2, <1>3, SoundMoves DEF SameNumbers

LEMMA TimeWaitSound ==
  ASSUME NEW p \in Sockets, NEW s \in Handled, NEW a \in Nat, NEW b \in Nat, Sound(s, p, a),
         s.e.state # "LAST_ACK"
  PROVE  LET r == TimeWait(s)
         IN /\ r \in Handled /\ Sound(r, p, b) /\ Firm(s.e, r.e, p)
            /\ SameNumbers(s.e, r.e) /\ r.e.state = "TIME_WAIT" /\ r.e.bound = s.e.bound
<1> DEFINE r == TimeWait(s)
<1>1. /\ r \in Handled /\ r.out = s.out /\ r.e.state = "TIME_WAIT"
      /\ SameNumbers(s.e, r.e) /\ SameCounts(s.e, r.e)
      /\ r.e.bound = s.e.bound /\ ~r.e.lastAck /\ r.e.retx = "none"
  BY TimeWaitExact
<1> HIDE DEF r
<1>2. Sound(r, p, b) /\ Firm(s.e, r.e, p)
  BY <1>1, TimedSound
<1> QED
  BY <1>1, <1>2 DEF r

\* The sequence numbers and what was received are the same.
SameStream(e, f) ==
  /\ f.una = e.una /\ f.nextTx = e.nextTx /\ f.highTx = e.highTx /\ f.size = e.size
  /\ f.written = e.written /\ f.rxNext = e.rxNext /\ f.read = e.read
  /\ f.gotFin = e.gotFin /\ f.fin = e.fin

\* The application closes, or a counter changes.
LEMMA AlikeSound ==
  ASSUME NEW p \in Sockets, NEW s \in Handled, NEW r \in Handled, NEW a \in Nat,
         Sound(s, p, a), SameStream(s.e, r.e), r.out = s.out, r.e.state = s.e.state,
         r.e.bound = s.e.bound, r.e.retx = s.e.retx,
         r.e.lastAck => s.e.lastAck \/ s.e.state = "LAST_ACK",
         s.e.closeCalled => r.e.closeCalled, ~(r.e.closeCalled /\ r.e.shutdownSend),
         Counted(s.e) => Counted(r.e), Later(s.e, r.e)
  PROVE  Sound(r, p, a) /\ Firm(s.e, r.e, p)
<1>1. Firm(s.e, r.e, p)
  BY DEF Firm, Gone, Settled, Heeds, FinOut, Repeating, SameStream
<1>2. PastEnd(r.e, p, a)
  BY DEF Sound, Core, PastEnd, Over, Acked, SameStream
<1>3. Core(r.e, p, a)
  BY <1>2 DEF Core, Sound, SameStream, FinOut, Finished
<1> QED
  BY <1>1, <1>3, SoundMoves DEF SameStream

\* The state of the receiving side is the same.
SameRx(e, f) == f.rxNext = e.rxNext /\ f.gotFin = e.gotFin /\ f.fin = e.fin

LEMMA DoCloseSound ==
  ASSUME NEW p \in Sockets, NEW s, Active(s, p), NEW a \in Nat, Sound(s, p, a),
         s.e.state # "SYN_RCVD",
         s.e.state \in {"ESTABLISHED", "CLOSE_WAIT"} /\ s.e.bound /\ Over(s.e) => Settled(p),
         s.e.state \in {"ESTABLISHED", "CLOSE_WAIT"} /\ s.e.bound =>
           s.e.size = 0 \/ s.e.retx = "RTO",
         s.e.state = "ESTABLISHED" /\ s.e.bound => s.e.closeCalled /\ ~Finished(s.e)
  PROVE  LET r == DoClose(s)
         IN /\ r \in Handled /\ Sound(r, p, a) /\ Firm(s.e, r.e, p)
            /\ r.e.bound => SameRx(s.e, r.e) /\ Moves(s.e.state, r.e.state)
<1> DEFINE r == DoClose(s)
<1>1. s \in Handled /\ s.e \in Sockets
  BY DEF Active, Handled
<1>2. CASE s.e.state = "ESTABLISHED"
  <2>1. r = [SendEmptyPacket(s, {"FIN"}) EXCEPT !.e.state = "FIN_WAIT_1"]
    BY <1>2 DEF DoClose
  <2>2. Moves(s.e.state, "FIN_WAIT_1") /\ "FIN_WAIT_1" \in States
    BY <1>2 DEF Moves, States
  <2> HIDE DEF r
  <2>3. /\ r \in Handled /\ Sound(r, p, a) /\ Firm(s.e, r.e, p)
        /\ SameNumbers(s.e, r.e) /\ r.e.state = "FIN_WAIT_1" /\ r.e.bound = s.e.bound
    BY <1>2, <2>1, <2>2, FinSound
  <2> QED
    BY <2>2, <2>3 DEF SameNumbers, SameRx, r
<1>3. CASE s.e.state = "CLOSE_WAIT"
  <2>1. r = [SendEmptyPacket(s, {"FIN", "ACK"}) EXCEPT !.e.state = "LAST_ACK"]
    BY <1>3 DEF DoClose
  <2>2. Moves(s.e.state, "LAST_ACK") /\ "LAST_ACK" \in States
    BY <1>3 DEF Moves, States
  <2> HIDE DEF r
  <2>3. /\ r \in Handled /\ Sound(r, p, a) /\ Firm(s.e, r.e, p)
        /\ SameNumbers(s.e, r.e) /\ r.e.state = "LAST_ACK" /\ r.e.bound = s.e.bound
    BY <1>3, <2>1, <2>2, FinSound
  <2> QED
    BY <2>2, <2>3 DEF SameNumbers, SameRx, r
<1>4. CASE s.e.state = "CLOSING"
  <2>1. r = CloseAndNotify(SendRST(s))
    BY <1>4 DEF DoClose
  <2>2. Active(SendRST(s), p)
    BY SendRSTKeeps
  <2>3. ~r.e.bound
    BY <2>1, <2>2, CloseAndNotifyKeeps
  <2> QED
    BY <1>1, <2>1, <2>3, RefuseSound
<1>5. CASE s.e.state \notin {"ESTABLISHED", "CLOSE_WAIT", "CLOSING"}
  <2>1. r = s
    BY <1>5 DEF DoClose, Active
  <2> QED
    BY <1>1, <2>1, FirmSelf DEF SameRx, Moves
<1> QED
  BY <1>2, <1>3, <1>4, <1>5

LEMMA CloseSocketSound ==
  ASSUME NEW p \in Sockets, NEW s, Active(s, p), NEW a \in Nat, Sound(s, p, a),
         DoneWriting(s.e), Repeating(s.e), s.e.state # "SYN_RCVD",
         s.e.state \in {"ESTABLISHED", "CLOSE_WAIT"} /\ s.e.bound /\ Over(s.e) => Settled(p),
         s.e.state = "ESTABLISHED" /\ s.e.bound => s.e.closeCalled /\ ~Finished(s.e)
  PROVE  LET r == CloseSocket(s)
         IN /\ r \in Handled /\ Sound(r, p, a) /\ Firm(s.e, r.e, p)
            /\ r.e.bound => SameRx(s.e, r.e) /\ Moves(s.e.state, r.e.state)
<1> DEFINE r == CloseSocket(s)
<1>1. s \in Handled /\ s.e \in Sockets
  BY DEF Active, Handled
<1>2. CASE s.e.una + s.e.size > s.e.nextTx
  <2>1. r = [s EXCEPT !.e.closeOnEmpty = TRUE]
    BY <1>2 DEF CloseSocket
  <2>2. Later(s.e, r.e)
    BY CloseSocketKeeps
  <2> HIDE DEF r
  <2>3. r \in Handled /\ r.out = s.out
    BY <1>1, <2>1 DEF Handled, Sockets
  <2>4. /\ SameStream(s.e, r.e) /\ r.e.state = s.e.state /\ r.e.bound = s.e.bound
        /\ r.e.retx = s.e.retx /\ r.e.lastAck = s.e.lastAck
    BY <1>1, <2>1 DEF Handled, Sockets, SameStream
  <2>5. /\ r.e.closeCalled = s.e.closeCalled /\ r.e.shutdownSend = s.e.shutdownSend
        /\ SameCounts(s.e, r.e)
    BY <1>1, <2>1 DEF Handled, Sockets, SameCounts
  <2>6. Sound(r, p, a) /\ Firm(s.e, r.e, p)
    BY <1>1, <2>2, <2>3, <2>4, <2>5, AlikeSound DEF Sound, Core, Counted, SameCounts
  <2> QED
    BY <2>3, <2>4, <2>6 DEF SameStream, SameRx, Moves, r
<1>3. CASE ~(s.e.una + s.e.size > s.e.nextTx)
  <2>1. s.e.size = 0 \/ (s.e.size = 1 /\ s.e.highTx = 2)
    BY <1>1, <1>3 DEF Active, Grown, Sockets
  <2>2. s.e.state \in {"ESTABLISHED", "CLOSE_WAIT"} /\ s.e.bound =>
          s.e.size = 0 \/ s.e.retx = "RTO"
    BY <2>1 DEF Repeating
  <2>3. r = DoClose(s)
    BY <1>3 DEF CloseSocket
  <2> QED
    BY <2>2, <2>3, DoCloseSound
<1> QED
  BY <1>2, <1>3

\* An application that closes in no callback
LEMMA NotifyDoesNothing ==
  ASSUME CallbackCloses = {}, NEW s \in Handled, NEW callback
  PROVE  Notify(s, callback) = s
<1>1. s.closes = {}
  BY DEF Handled
<1> QED
  BY <1>1 DEF Notify

\* The end that is told of the end of the stream may close in turn: SND.NXT can only be
\* past its FIN when the other end takes no FIN any more.
LEMMA DoPeerCloseSound ==
  ASSUME CallbackCloses = {}, NEW p \in Sockets, NEW s, Active(s, p), NEW a \in Nat, Sound(s, p, a),
         Repeating(s.e), Finished(s.e), s.e.state \notin {"LAST_ACK", "CLOSING", "TIME_WAIT"},
         s.e.bound /\ FinOut(s.e, p) => Excused(p)
  PROVE  LET r == DoPeerClose(s)
         IN r \in Handled /\ Sound(r, p, a) /\ Firm(s.e, r.e, p) /\ Heeds(r.e)
<1> DEFINE w == [s EXCEPT !.e.state = "CLOSE_WAIT", !.e.closeNotified = TRUE]
           c == IF s.e.shutdownSend THEN CloseSocket(w) ELSE SendEmptyPacket(w, {"ACK"})
           r == [c EXCEPT !.e.dataRetrCount = DataRetries, !.e.lastAck = TRUE]
<1>1. s \in Handled /\ s.e \in Sockets
  BY DEF Active, Handled
<1>2. w \in Handled /\ w.out = s.out
  BY <1>1 DEF Handled, Sockets, States
<1>3. SameNumbers(s.e, w.e) /\ w.e.state = "CLOSE_WAIT" /\ w.e.retx = s.e.retx
      /\ w.e.lastAck = s.e.lastAck /\ w.e.bound = s.e.bound /\ SameCounts(s.e, w.e)
  BY <1>1 DEF Handled, Sockets, SameNumbers, SameCounts
<1>4. DoPeerClose(s) = IF c.e.state = "LAST_ACK" THEN r ELSE c
  <2> DEFINE v == [s EXCEPT !.e.state = "CLOSE_WAIT"]
  <2>1. v \in Handled
    BY <1>1 DEF Handled, Sockets, States
  <2>2. Notify(v, "NormalClose") = v
    BY <2>1, NotifyDoesNothing
  <2>3. CloseWait(s) = w
    BY <1>1, <2>2 DEF CloseWait, Handled, Sockets
  <2>4. w.e.shutdownSend = s.e.shutdownSend
    BY <1>3 DEF SameNumbers
  <2> HIDE DEF w
  <2> QED
    BY <2>3, <2>4 DEF DoPeerClose
<1> HIDE DEF w
<1>5. Active(w, p) /\ Later(s.e, w.e)
  <2>1. FinFollowsData(w.e)
    BY <1>3 DEF Active, Grown, FinFollowsData, SameNumbers, DoneWriting, AllSent,
                ClosingStates
  <2> QED
    BY <1>2, <1>3, <2>1, SameKeeps DEF Active, Grown
<1>6. Firm(s.e, w.e, p)
  BY <1>3 DEF Firm, Gone, Settled, Heeds, FinOut, Repeating, SameNumbers
<1>7. Sound(w, p, a)
  <2>1. PastEnd(w.e, p, a)
    BY <1>3 DEF Sound, Core, PastEnd, Over, SameNumbers
  <2>2. p.gotFin \/ w.e.retx = "FIN" => FinOut(w.e, p)
    BY <1>3, <1>6 DEF Sound, Core, Firm
  <2>3. Core(w.e, p, a)
    BY <1>3, <2>1, <2>2 DEF Sound, Core, Counted, SameCounts, SameNumbers, Finished
  <2> QED
    BY <1>1, <1>2, <1>3, <1>5, <1>6, <2>3, SoundMoves DEF SameNumbers
<1>8. /\ c \in Handled /\ Sound(c, p, a) /\ Firm(w.e, c.e, p)
      /\ c.e.bound => c.e.state \in {"CLOSE_WAIT", "LAST_ACK"}
  <2>1. CASE s.e.shutdownSend
    <3>1. DoneWriting(w.e)
      BY <1>3, <2>1 DEF DoneWriting, SameNumbers
    <3>2. w.e.bound /\ Over(w.e) => Settled(p)
      <4> SUFFICES ASSUME w.e.bound, Over(w.e)
                   PROVE  Settled(p)
        OBVIOUS
      <4>1. Finished(p)
        BY <1>2, <1>5, <1>7, OverIsFinished DEF Active, Sound, Handled
      <4>2. Heeds(p)
        BY <1>7, <4>1 DEF Sound, Proper
      <4>3. w.e.gotFin /\ ~w.e.closeCalled /\ ~Gone(w.e)
        BY <1>3, <1>7, <2>1 DEF Finished, SameNumbers, Gone, Sound, Core
      <4>4. FinOut(p, w.e)
        BY <1>7, <4>3 DEF Sound, Proper, Core
      <4> QED
        BY <4>2, <4>3, <4>4 DEF Heeds, FinOut, Settled, Excused, ClosingStates
    <3>3. Repeating(w.e)
      BY <1>6 DEF Firm
    <3> DEFINE q == CloseSocket(w)
    <3>4. /\ q \in Handled /\ Sound(q, p, a) /\ Firm(w.e, q.e, p)
          /\ q.e.bound => SameRx(w.e, q.e) /\ Moves(w.e.state, q.e.state)
      BY <1>3, <1>5, <1>7, <3>1, <3>2, <3>3, CloseSocketSound
    <3> HIDE DEF q
    <3>5. c = q
      BY <2>1 DEF q
    <3> HIDE DEF c
    <3> QED
      BY <1>3, <3>4, <3>5 DEF Moves
  <2>2. CASE ~s.e.shutdownSend
    BY <1>2, <1>3, <1>7, <2>2, SendEmptySound
  <2> QED
    BY <2>1, <2>2
<1>9. Active(c, p)
  <2>1. CASE s.e.shutdownSend
    BY <1>3, <1>5, <2>1, CloseSocketKeeps DEF DoneWriting, SameNumbers
  <2>2. CASE ~s.e.shutdownSend
    BY <1>5, <2>2, SendEmptyKeeps
  <2> QED
    BY <2>1, <2>2
<1> HIDE DEF c
<1>10. Firm(s.e, c.e, p)
  BY <1>6, <1>8, FirmFirm
<1>11. CASE c.e.state = "LAST_ACK"
  <2>1. c.e \in Sockets /\ DataRetries \in Nat
    BY <1>8, ConnectionAssumption DEF Handled
  <2>2. r \in Handled /\ r.out = c.out
    <3>1. [c.e EXCEPT !.dataRetrCount = DataRetries, !.lastAck = TRUE] \in Sockets
      BY <2>1 DEF Sockets
    <3>2. r = [c EXCEPT !.e = [c.e EXCEPT !.dataRetrCount = DataRetries, !.lastAck = TRUE]]
      BY <1>8 DEF Handled
    <3> QED
      BY <1>8, <3>1, <3>2 DEF Handled
  <2>3. SameNumbers(c.e, r.e) /\ r.e.state = c.e.state /\ r.e.retx = c.e.retx
        /\ r.e.bound = c.e.bound
    BY <1>8, <2>1 DEF Handled, Sockets, SameNumbers
  <2>4. r.e.synCount = c.e.synCount /\ r.e.delAckCount = c.e.delAckCount
        /\ r.e.dataRetrCount = DataRetries
    BY <1>8, <2>1 DEF Handled, Sockets
  <2> HIDE DEF r
  <2>5. Later(c.e, r.e) /\ SameStream(c.e, r.e) /\ (Counted(c.e) => Counted(r.e))
    BY <2>1, <2>2, <2>3, <2>4, SameIsLater DEF SameNumbers, SameStream, Counted, Handled
  <2>6. Sound(r, p, a) /\ Firm(c.e, r.e, p)
    BY <1>8, <1>11, <2>2, <2>3, <2>5, AlikeSound DEF SameNumbers, Sound, Core
  <2>7. Firm(s.e, r.e, p)
    BY <1>10, <2>6, FirmFirm
  <2> QED
    BY <1>4, <1>11, <2>2, <2>3, <2>6, <2>7 DEF Heeds
<1>12. CASE c.e.state # "LAST_ACK"
  BY <1>4, <1>8, <1>10, <1>12 DEF Heeds
<1> QED
  BY <1>11, <1>12

\* Only what was received differs.
SameSent(e, f) ==
  /\ f.una = e.una /\ f.nextTx = e.nextTx /\ f.highTx = e.highTx /\ f.size = e.size
  /\ f.written = e.written /\ f.closeCalled = e.closeCalled
  /\ f.shutdownSend = e.shutdownSend /\ f.state = e.state /\ f.bound = e.bound
  /\ f.lastAck = e.lastAck /\ f.retx = e.retx /\ SameCounts(e, f)

LEMMA SetFinExact ==
  ASSUME NEW e \in Sockets, NEW seq \in Nat
  PROVE  LET f == SetFinSequence(e, seq)
         IN /\ f \in Sockets /\ SameSent(e, f) /\ f.read = e.read /\ f.gotFin /\ f.fin = seq
            /\ f.rxNext = IF e.rxNext = seq THEN e.rxNext + 1 ELSE e.rxNext
<1> DEFINE next == IF e.rxNext = seq THEN e.rxNext + 1 ELSE e.rxNext
           f == SetFinSequence(e, seq)
<1>1. f = [e EXCEPT !.gotFin = TRUE, !.fin = seq, !.rxNext = next]
  BY DEF SetFinSequence, Sockets
<1>2. next \in Nat
  BY DEF Sockets
<1> HIDE DEF next, f
<1>3. f \in Sockets
  BY <1>1, <1>2, RxTyped
<1>4. f.read = e.read /\ f.gotFin /\ f.fin = seq /\ f.rxNext = next
  BY <1>1 DEF Sockets
<1>5. SameCounts(e, f)
  BY <1>1 DEF Sockets, SameCounts
<1>6. SameSent(e, f)
  BY <1>1, <1>5 DEF Sockets, SameSent
<1> QED
  BY <1>3, <1>4, <1>6 DEF next, f

LEMMA AddDataExact ==
  ASSUME NEW e \in Sockets, NEW m
  PROVE  LET f == AddData(e, m)
         IN /\ f \in Sockets /\ SameSent(e, f) /\ f.read = e.read + 1
            /\ f.gotFin = e.gotFin /\ f.fin = e.fin
            /\ f.rxNext = IF e.gotFin /\ e.fin = e.rxNext + 1 THEN e.rxNext + 2
                          ELSE e.rxNext + 1
<1> DEFINE next == IF e.gotFin /\ e.fin = e.rxNext + 1 THEN e.rxNext + 2 ELSE e.rxNext + 1
           read == e.read + 1
           f == AddData(e, m)
<1>1. f = [e EXCEPT !.rxNext = next, !.read = read]
  BY DEF AddData, Sockets
<1>2. next \in Nat /\ read \in Nat
  BY DEF Sockets
<1> HIDE DEF next, read, f
<1>3. f \in Sockets
  BY <1>1, <1>2, RxTyped
<1>4. f.read = read /\ f.gotFin = e.gotFin /\ f.fin = e.fin /\ f.rxNext = next
  BY <1>1 DEF Sockets
<1>5. SameCounts(e, f)
  BY <1>1 DEF Sockets, SameCounts
<1>6. SameSent(e, f)
  BY <1>1, <1>5 DEF Sockets, SameSent
<1> QED
  BY <1>3, <1>4, <1>6 DEF next, read, f

\* Data or a FIN with the right number is received.
LEMMA RxSound ==
  ASSUME NEW p \in Sockets, NEW s \in Handled, NEW r \in Handled, NEW a \in Nat,
         Sound(s, p, a), SameSent(s.e, r.e), r.out = s.out, Later(s.e, r.e),
         r.e.rxNext <= 2 + p.written, r.e.fin <= 1 + p.written,
         r.e.gotFin => s.e.gotFin \/ FinOut(p, r.e),
         r.e.gotFin /\ ~Finished(r.e) => Excused(p)
  PROVE  Sound(r, p, a) /\ Firm(s.e, r.e, p)
<1>1. Firm(s.e, r.e, p)
  BY DEF Firm, Gone, Settled, Heeds, FinOut, Repeating, SameSent
<1>2. PastEnd(r.e, p, a)
  BY DEF Sound, Core, PastEnd, Over, Acked, SameSent
<1>3. Counted(r.e)
  BY DEF Sound, Core, Counted, SameSent, SameCounts
<1>4. p.gotFin \/ r.e.retx = "FIN" => FinOut(r.e, p)
  BY <1>1 DEF Sound, Core, Firm, SameSent
<1>5. Core(r.e, p, a)
  BY <1>2, <1>3, <1>4 DEF Core, Sound, SameSent
<1> QED
  BY <1>1, <1>5, SoundMoves

\* The answer to data that was taken: an ACK now, or later
LEMMA TakenSound ==
  ASSUME NEW p \in Sockets, NEW s \in Handled, NEW a \in Nat, Sound(s, p, a),
         NEW now \in BOOLEAN, ~now => s.e.delAckCount + 1 < DelAckMaxCount
  PROVE  LET r == IF now THEN SendEmptyPacket(s, {"ACK"})
                  ELSE [s EXCEPT !.e.delAckCount = @ + 1, !.e.delAck = TRUE]
         IN /\ r \in Handled /\ Sound(r, p, a) /\ Firm(s.e, r.e, p) /\ SameNumbers(s.e, r.e)
            /\ r.e.state = s.e.state /\ r.e.bound = s.e.bound
<1>1. CASE now
  BY <1>1, SendEmptySound
<1>2. CASE ~now
  <2> DEFINE count == s.e.delAckCount + 1
             f == [s.e EXCEPT !.delAckCount = count, !.delAck = TRUE]
             r == [s EXCEPT !.e.delAckCount = @ + 1, !.e.delAck = TRUE]
  <2>1. s.e \in Sockets /\ count \in Int
    BY DEF Handled, Sockets
  <2>2. r = [s EXCEPT !.e = f]
    BY <2>1 DEF Handled, Sockets
  <2>3. Counted(s.e) => count \in 0..DelAckMaxCount
    BY <1>2, <2>1, ConnectionAssumption DEF Counted
  <2> HIDE DEF count, r
  <2>4. f \in Sockets
    BY <2>1, TimersTyped
  <2>5. SameNumbers(s.e, f) /\ f.state = s.e.state /\ f.bound = s.e.bound
        /\ f.retx = s.e.retx /\ f.lastAck = s.e.lastAck
    BY <2>1 DEF Sockets, SameNumbers
  <2>6. f.synCount = s.e.synCount /\ f.dataRetrCount = s.e.dataRetrCount
        /\ f.delAckCount = count
    BY <2>1 DEF Sockets
  <2> HIDE DEF f
  <2>7. r \in Handled /\ r.e = f /\ r.out = s.out
    BY <2>2, <2>4 DEF Handled
  <2>8. Counted(s.e) => Counted(r.e)
    BY <2>3, <2>6, <2>7 DEF Counted
  <2>9. Sound(r, p, a) /\ Firm(s.e, r.e, p)
    BY <2>5, <2>7, <2>8, SameSound
  <2> QED
    BY <1>2, <2>5, <2>7, <2>9 DEF r
<1> QED
  BY <1>1, <1>2

\* Nothing is unfinished when data is awaited.
LEMMA AwaitsData ==
  ASSUME NEW e \in Sockets, NEW p, Whole(e, p), Grown(e, p.rxNext), e.rxNext = 1,
         p.written = 1
  PROVE  ~Finished(e) /\ e.read = 0 /\ (e.gotFin => e.fin >= 2)
BY DEF Whole, Received, Grown, Finished, Sockets

LEMMA ReceivedDataSound ==
  ASSUME CallbackCloses = {}, NEW p \in Sockets, NEW s, Active(s, p), NEW a \in Nat, Sound(s, p, a),
         Repeating(s.e), NEW h \in Nat, h <= s.e.rxNext, NEW m, Meant(m, p, h), m.len > 0,
         s.e.state \notin {"LAST_ACK", "CLOSING", "TIME_WAIT"}
  PROVE  LET r == ReceivedData(s, m)
         IN /\ r \in Handled /\ Sound(r, p, a) /\ Firm(s.e, r.e, p)
            /\ r.e.state = s.e.state \/ Heeds(r.e)
            /\ "FIN" \notin m.flags /\ (Finished(s.e) => Heeds(s.e)) =>
                 (Finished(r.e) => Heeds(r.e))
<1> DEFINE d == [s EXCEPT !.e = AddData(@, m)]
           filled == d.e.rxNext > s.e.rxNext + 1
           now == filled \/ d.e.delAckCount + 1 >= DelAckMaxCount
           t == IF now THEN SendEmptyPacket(d, {"ACK"})
                ELSE [d EXCEPT !.e.delAckCount = @ + 1, !.e.delAck = TRUE]
           r == ReceivedData(s, m)
<1>1. s \in Handled /\ s.e \in Sockets /\ s.e.rxNext \in Nat
  BY DEF Active, Handled, Sockets
<1>2. m.seq = 1 /\ p.highTx = 2 /\ p.written = 1
  BY DEF Meant, Messages
<1>3. CASE m.seq # s.e.rxNext
  <2>1. r = SendEmptyPacket(s, {"ACK"})
    BY <1>3 DEF ReceivedData
  <2>2. /\ r \in Handled /\ Sound(r, p, a) /\ Firm(s.e, r.e, p) /\ SameNumbers(s.e, r.e)
        /\ r.e.state = s.e.state
    BY <1>1, <2>1, SendEmptySound
  <2> HIDE DEF r
  <2>3. (Finished(s.e) => Heeds(s.e)) => (Finished(r.e) => Heeds(r.e))
    BY <2>2 DEF Firm, Finished, SameNumbers
  <2> QED
    BY <2>2, <2>3 DEF r
<1>4. CASE m.seq = s.e.rxNext
  <2>1. Active(d, p) /\ Later(s.e, d.e) /\ d.e = AddData(s.e, m)
    BY <1>1, <1>2, <1>4, AddDataKeeps DEF Handled
  <2>2. /\ SameSent(s.e, d.e) /\ d.e.gotFin = s.e.gotFin /\ d.e.fin = s.e.fin
        /\ d.e.rxNext = IF s.e.gotFin /\ s.e.fin = s.e.rxNext + 1 THEN s.e.rxNext + 2
                        ELSE s.e.rxNext + 1
    BY <1>1, <2>1, AddDataExact
  <2>3. ~Finished(s.e) /\ (s.e.gotFin => s.e.fin >= 2)
    BY <1>1, <1>2, <1>4, AwaitsData DEF Active
  <2>4. s.e.gotFin => Excused(p)
    BY <2>3 DEF Sound, Core
  <2>5. d \in Handled /\ d.out = s.out /\ d.e \in Sockets
    BY <1>1, <2>1 DEF Active, Handled
  <2>6. d.e.rxNext <= 2 + p.written /\ d.e.fin <= 1 + p.written
    BY <1>2, <1>4, <2>2 DEF Sound, Core
  <2> HIDE DEF d
  <2>0. Notify(d, "DataRecv") = d
    BY <2>5, NotifyDoesNothing
  <2>7. Sound(d, p, a) /\ Firm(s.e, d.e, p)
    BY <1>1, <2>1, <2>2, <2>4, <2>5, <2>6, RxSound
  <2>8. CASE Finished(d.e) /\ "FIN" \notin m.flags
    <3>1. r = DoPeerClose(d)
      BY <1>4, <2>0, <2>8 DEF ReceivedData, d
    <3>2. Excused(p) /\ Repeating(d.e)
      BY <2>2, <2>4, <2>7, <2>8 DEF Finished, Firm
    <3>3. d.e.state \notin {"LAST_ACK", "CLOSING", "TIME_WAIT"}
      BY <2>2 DEF SameSent
    <3>4. r \in Handled /\ Sound(r, p, a) /\ Firm(d.e, r.e, p) /\ Heeds(r.e)
      BY <2>1, <2>7, <2>8, <3>1, <3>2, <3>3, DoPeerCloseSound
    <3> QED
      BY <2>7, <3>4, FirmFirm
  <2>9. CASE ~(Finished(d.e) /\ "FIN" \notin m.flags)
    <3>1. r = t
      BY <1>4, <2>0, <2>9 DEF ReceivedData, d
    <3>2. ~now => d.e.delAckCount + 1 < DelAckMaxCount
      BY <2>5, ConnectionAssumption DEF Sockets
    <3>3. now \in BOOLEAN
      OBVIOUS
    <3> HIDE DEF now
    <3>4. /\ t \in Handled /\ Sound(t, p, a) /\ Firm(d.e, t.e, p) /\ SameNumbers(d.e, t.e)
          /\ t.e.state = d.e.state
      BY <2>5, <2>7, <3>2, <3>3, TakenSound
    <3> HIDE DEF t, r
    <3>5. Firm(s.e, t.e, p) /\ t.e.state = s.e.state
      BY <2>2, <2>7, <3>4, FirmFirm DEF SameSent
    <3>6. "FIN" \notin m.flags => ~Finished(t.e)
      BY <2>9, <3>4 DEF Finished, SameNumbers
    <3> QED
      BY <3>1, <3>4, <3>5, <3>6 DEF r
  <2> QED
    BY <2>8, <2>9
<1> QED
  BY <1>3, <1>4

\* What ProcessAck may change
Acknowledged(e, f, ack) ==
  /\ f.highTx = e.highTx /\ f.written = e.written /\ f.closeCalled = e.closeCalled
  /\ f.shutdownSend = e.shutdownSend /\ f.state = e.state /\ f.bound = e.bound
  /\ f.lastAck = e.lastAck /\ SameRx(e, f)
  /\ f.synCount = e.synCount /\ f.delAckCount = e.delAckCount
  /\ f.dataRetrCount \in {e.dataRetrCount, DataRetries}
  /\ \/ /\ ack > e.una /\ f.size = 0 /\ f.retx \in {"none", "RTO"}
        /\ f.nextTx = IF ack > e.nextTx THEN ack ELSE e.nextTx
     \/ /\ f.size = e.size /\ f.retx = e.retx
        /\ f.nextTx = e.nextTx \/ (f.nextTx = ack /\ ack = e.una)

LEMMA ProcessAckExact ==
  ASSUME NEW e \in Sockets, NEW ack \in Nat
  PROVE  Acknowledged(e, ProcessAck(e, ack), ack)
<1> DEFINE f == ProcessAck(e, ack)
<1>1. CASE ack > e.una
  <2> DEFINE c == [e EXCEPT !.una = ack, !.size = 0]
             idle == c.size = 0 /\ c.state \notin {"FIN_WAIT_1", "CLOSING"}
             next == IF ack > c.nextTx THEN ack ELSE c.nextTx
             retx == IF idle THEN "none" ELSE "RTO"
  <2>1. f = [c EXCEPT !.dataRetrCount = DataRetries, !.nextTx = next, !.retx = retx]
    BY <1>1 DEF ProcessAck, NewAck
  <2>2. c \in Sockets
    BY DEF Sockets
  <2>3. /\ c.highTx = e.highTx /\ c.written = e.written /\ c.closeCalled = e.closeCalled
        /\ c.shutdownSend = e.shutdownSend /\ c.state = e.state /\ c.bound = e.bound
        /\ c.lastAck = e.lastAck /\ SameRx(e, c)
        /\ c.synCount = e.synCount /\ c.delAckCount = e.delAckCount
        /\ c.size = 0 /\ c.nextTx = e.nextTx
    BY DEF Sockets, SameRx
  <2>4. retx \in {"none", "RTO"} /\ next = IF ack > e.nextTx THEN ack ELSE e.nextTx
    BY <2>3
  <2> HIDE DEF c, f, retx, next
  <2>5. /\ f.highTx = c.highTx /\ f.written = c.written /\ f.closeCalled = c.closeCalled
        /\ f.shutdownSend = c.shutdownSend /\ f.state = c.state /\ f.bound = c.bound
        /\ f.lastAck = c.lastAck /\ SameRx(c, f)
        /\ f.synCount = c.synCount /\ f.delAckCount = c.delAckCount
        /\ f.size = c.size /\ f.nextTx = next /\ f.retx = retx
        /\ f.dataRetrCount = DataRetries
    BY <2>1, <2>2 DEF Sockets, SameRx
  <2> QED
    BY <1>1, <2>3, <2>4, <2>5 DEF Acknowledged, SameRx, f
<1>2. CASE ack = e.una /\ ack > e.highTx
  <2>1. f = [e EXCEPT !.nextTx = ack]
    BY <1>2 DEF ProcessAck, Sockets
  <2> HIDE DEF f
  <2>2. /\ f.highTx = e.highTx /\ f.written = e.written /\ f.closeCalled = e.closeCalled
        /\ f.shutdownSend = e.shutdownSend /\ f.state = e.state /\ f.bound = e.bound
        /\ f.lastAck = e.lastAck /\ SameRx(e, f)
        /\ f.synCount = e.synCount /\ f.delAckCount = e.delAckCount
        /\ f.size = e.size /\ f.nextTx = ack /\ f.retx = e.retx
        /\ f.dataRetrCount = e.dataRetrCount
    BY <2>1 DEF Sockets, SameRx
  <2> QED
    BY <1>2, <2>2 DEF Acknowledged, f
<1>3. CASE ~(ack > e.una) /\ ~(ack = e.una /\ ack > e.highTx)
  <2>1. f = e
    BY <1>3 DEF ProcessAck
  <2> QED
    BY <2>1 DEF Acknowledged, SameRx
<1> QED
  BY <1>1, <1>2, <1>3

\* Only the segment that acknowledges the FIN moves SND.NXT past it.
LEMMA ProcessAckSound ==
  ASSUME NEW p \in Sockets, NEW s, Active(s, p), Sound(s, p, 0), NEW ack \in Nat,
         ack <= p.rxNext, NEW b \in Nat, ack <= 1 + s.e.written \/ b = ack,
         s.e.state \notin {"LAST_ACK", "CLOSING"}
  PROVE  LET r == [s EXCEPT !.e = ProcessAck(@, ack)]
         IN /\ r \in Handled /\ Sound(r, p, b) /\ Firm(s.e, r.e, p)
            /\ SameRx(s.e, r.e) /\ r.e.state = s.e.state
<1> DEFINE r == [s EXCEPT !.e = ProcessAck(@, ack)]
<1>1. s \in Handled /\ s.e \in Sockets
  BY DEF Active, Handled
<1>2. Active(r, p) /\ Later(s.e, r.e)
  BY ProcessAckKeeps
<1>3. r.e = ProcessAck(s.e, ack) /\ r.out = s.out
  BY <1>1 DEF Handled
<1>4. Acknowledged(s.e, r.e, ack)
  BY <1>1, <1>3, ProcessAckExact
<1> HIDE DEF r
<1>5. r \in Handled /\ r.e \in Sockets
  BY <1>2 DEF Active, Handled
<1>6. /\ s.e.una \in Nat /\ s.e.nextTx \in Nat /\ s.e.highTx \in Nat /\ s.e.written \in {0, 1}
      /\ p.rxNext \in Nat /\ s.e.size \in {0, 1}
      /\ s.e.una <= s.e.nextTx /\ s.e.highTx <= 1 + s.e.written /\ s.e.highTx >= 1
      /\ p.rxNext <= 2 + s.e.written
      /\ p.rxNext >= 2 => AllSent(s.e)
  BY <1>1 DEF Active, Grown, Fits, Sound, Proper, Core, Sockets
<1>7. Over(r.e) => Over(s.e) \/ (Acked(r.e, b) /\ r.e.retx \in {"none", "RTO"})
  <2> SUFFICES ASSUME Over(r.e), ~Over(s.e)
               PROVE  Acked(r.e, b) /\ r.e.retx \in {"none", "RTO"}
    OBVIOUS
  <2>1. r.e.nextTx > 1 + s.e.written /\ ~(s.e.nextTx > 1 + s.e.written)
    BY <1>4 DEF Over, Acknowledged
  <2>2. ack > s.e.nextTx /\ r.e.nextTx = ack /\ r.e.size = 0 /\ r.e.retx \in {"none", "RTO"}
    BY <1>4, <1>6, <2>1 DEF Acknowledged
  <2>3. ack = 2 + s.e.written /\ b = ack
    BY <1>6, <2>1, <2>2
  <2>4. r.e.highTx = 1 + s.e.written
    BY <1>4, <1>6, <2>3 DEF Acknowledged, AllSent
  <2> QED
    BY <1>6, <2>2, <2>3, <2>4 DEF Acked
<1>8. Firm(s.e, r.e, p)
  BY <1>4, <1>6 DEF Acknowledged, Firm, Gone, Settled, Heeds, FinOut, Repeating
<1>9. PastEnd(r.e, p, b)
  <2> SUFFICES ASSUME r.e.bound, Over(r.e),
                      \/ r.e.retx = "FIN" \/ r.e.lastAck \/ r.e.state \in {"CLOSING", "LAST_ACK"}
                      \/ r.e.state = "FIN_WAIT_1" /\ ~Acked(r.e, b)
               PROVE  Settled(p)
    BY DEF PastEnd
  <2>1. ~s.e.lastAck
    BY <1>4 DEF Sound, Core, Acknowledged
  <2>2. Over(s.e)
    BY <1>4, <1>7, <2>1 DEF Acknowledged
  <2>3. s.e.bound /\ (s.e.retx = "FIN" \/ s.e.state = "FIN_WAIT_1")
    BY <1>4, <2>1 DEF Acknowledged
  <2>4. ~Acked(s.e, 0)
    BY <1>6 DEF Acked
  <2> QED
    BY <2>2, <2>3, <2>4 DEF Sound, Core, PastEnd
<1>10. Counted(r.e)
  BY <1>4, ConnectionAssumption DEF Acknowledged, Counted, Sound, Core
<1>11. r.e.nextTx <= 3
  BY <1>4, <1>6 DEF Acknowledged, Sound, Core
<1>12. p.gotFin \/ r.e.retx = "FIN" => FinOut(r.e, p)
  BY <1>4, <1>8 DEF Acknowledged, Sound, Core, Firm
<1>13. Core(r.e, p, b)
  BY <1>4, <1>9, <1>10, <1>11, <1>12
  DEF Acknowledged, SameRx, Sound, Core, Finished
<1>14. Sound(r, p, b)
  BY <1>1, <1>2, <1>3, <1>4, <1>5, <1>8, <1>13, SoundMoves DEF Acknowledged, SameRx
<1> QED
  BY <1>4, <1>5, <1>8, <1>14 DEF Acknowledged, r

LEMMA ReceivedAckSound ==
  ASSUME CallbackCloses = {}, NEW p \in Sockets, NEW s, Active(s, p), Sound(s, p, 0), Repeating(s.e),
         NEW h \in Nat, h <= s.e.rxNext, NEW m, Meant(m, p, h),
         m.flags \notin {{"RST"}, {"RST", "ACK"}},
         s.e.state \notin {"LAST_ACK", "CLOSING", "TIME_WAIT", "SYN_RCVD"},
         NEW b \in Nat, m.ack <= 1 + s.e.written \/ b = m.ack
  PROVE  LET r == ReceivedAck(s, m)
         IN /\ r \in Handled /\ Sound(r, p, b) /\ Firm(s.e, r.e, p)
            /\ Moves(s.e.state, r.e.state) \/ Heeds(r.e)
            /\ "FIN" \notin m.flags /\ (Finished(s.e) => Heeds(s.e)) =>
                 (Finished(r.e) => Heeds(r.e))
<1> DEFINE a == [s EXCEPT !.e = ProcessAck(@, m.ack)]
           d == IF m.len > 0 THEN ReceivedData(a, m) ELSE a
<1>1. s.e \in Sockets /\ m.ack \in Nat /\ m.ack <= p.rxNext
  BY DEF Active, Handled, Meant, Messages
<1>2. Active(a, p) /\ a.e.rxNext = s.e.rxNext /\ Later(s.e, a.e)
  BY <1>1, ProcessAckKeeps
<1>3. /\ a \in Handled /\ Sound(a, p, b) /\ Firm(s.e, a.e, p)
      /\ SameRx(s.e, a.e) /\ a.e.state = s.e.state
  BY <1>1, ProcessAckSound
<1>4. ReceivedAck(s, m) = SendPendingData(d)
  BY DEF ReceivedAck
<1> HIDE DEF a
<1>5. Repeating(a.e) /\ ((Finished(s.e) => Heeds(s.e)) => (Finished(a.e) => Heeds(a.e)))
  BY <1>3 DEF Firm, SameRx, Finished
<1>6. /\ d \in Handled /\ Sound(d, p, b) /\ Firm(a.e, d.e, p) /\ Active(d, p)
      /\ Later(a.e, d.e)
      /\ d.e.state = a.e.state \/ Heeds(d.e)
      /\ "FIN" \notin m.flags /\ (Finished(a.e) => Heeds(a.e)) =>
           (Finished(d.e) => Heeds(d.e))
  <2>1. CASE m.len > 0
    <3>1. a.e.state \notin {"LAST_ACK", "CLOSING", "TIME_WAIT"}
      BY <1>3
    <3>2. Active(ReceivedData(a, m), p) /\ Later(a.e, ReceivedData(a, m).e)
      BY <1>2, <2>1, ReceivedDataKeeps
    <3> DEFINE q == ReceivedData(a, m)
    <3>3. /\ q \in Handled /\ Sound(q, p, b) /\ Firm(a.e, q.e, p)
          /\ q.e.state = a.e.state \/ Heeds(q.e)
          /\ "FIN" \notin m.flags /\ (Finished(a.e) => Heeds(a.e)) =>
               (Finished(q.e) => Heeds(q.e))
      BY <1>2, <1>3, <1>5, <2>1, <3>1, ReceivedDataSound
    <3>4. d = q
      BY <2>1
    <3> HIDE DEF d, q
    <3> QED
      BY <3>2, <3>3, <3>4 DEF q
  <2>2. CASE ~(m.len > 0)
    <3>1. Later(a.e, a.e)
      BY <1>3, SameIsLater DEF Handled, SameNumbers
    <3> QED
      BY <1>2, <1>3, <2>2, <3>1, FirmSelf
  <2> QED
    BY <2>1, <2>2
<1> HIDE DEF d
<1> DEFINE r == SendPendingData(d)
<1>7. d.e.state # "SYN_RCVD"
  BY <1>3, <1>6 DEF Later, Active
<1>8. /\ r \in Handled /\ Sound(r, p, b) /\ Firm(d.e, r.e, p)
      /\ r.e.rxNext = d.e.rxNext /\ r.e.gotFin = d.e.gotFin /\ r.e.fin = d.e.fin
      /\ Moves(d.e.state, r.e.state)
  BY <1>6, <1>7, SendPendingSound
<1> HIDE DEF r
<1>9. Firm(s.e, r.e, p)
  BY <1>3, <1>6, <1>8, FirmFirm
<1>10. Moves(s.e.state, r.e.state) \/ Heeds(r.e)
  BY <1>3, <1>6, <1>8 DEF Firm
<1>11. "FIN" \notin m.flags /\ (Finished(s.e) => Heeds(s.e)) => (Finished(r.e) => Heeds(r.e))
  BY <1>5, <1>6, <1>8 DEF Finished, Firm
<1> QED
  BY <1>4, <1>8, <1>9, <1>10, <1>11 DEF r

LEMMA SameSentSame ==
  ASSUME NEW e, NEW f, NEW g, SameSent(e, f), SameSent(f, g)
  PROVE  SameSent(e, g)
BY DEF SameSent, SameCounts

\* The FIN of the peer is told to the application at once, or waits for data that the
\* peer has not kept.
LEMMA PeerCloseSound ==
  ASSUME CallbackCloses = {}, NEW p \in Sockets, NEW s, Active(s, p), NEW a \in Nat, Sound(s, p, a),
         Repeating(s.e), Finished(s.e) => Heeds(s.e), s.e.bound,
         s.e.state \in {"ESTABLISHED", "SYN_RCVD"}, NEW h \in Nat, h <= s.e.rxNext,
         NEW m, Meant(m, p, h), m.flags = {"FIN", "ACK"}, Fine(m, p, s.e)
  PROVE  LET r == PeerClose(s, m)
         IN /\ r \in Handled /\ Sound(r, p, a) /\ Firm(s.e, r.e, p)
            /\ Finished(r.e) => Heeds(r.e)
<1> DEFINE seq == m.seq + m.len
           f == [s EXCEPT !.e = SetFinSequence(@, seq)]
           d == IF m.len > 0 THEN ReceivedData(f, m) ELSE f
           late == m.seq < s.e.rxNext \/ (s.e.gotFin /\ m.seq > s.e.fin)
           r == PeerClose(s, m)
<1>1. /\ s \in Handled /\ s.e \in Sockets /\ s.e.rxNext \in Nat /\ p.written \in {0, 1}
      /\ m.seq \in Nat /\ m.len \in {0, 1} /\ s.e.read \in Nat
  BY DEF Active, Handled, Sockets, Meant, Messages
<1>2. ~Heeds(s.e) /\ ~Settled(s.e) /\ ~FinOut(s.e, p) /\ ~Finished(s.e)
  BY DEF Heeds, Settled, FinOut, ClosingStates
<1>3. /\ seq \in Nat /\ seq = 1 + p.written /\ DoneWriting(p) /\ AllSent(p)
      /\ (m.len = 1 => m.seq = 1 /\ p.highTx = 2 /\ p.written = 1)
      /\ (m.len = 0 /\ s.e.read < p.written => Excused(p)) /\ FinOut(p, s.e)
  BY <1>1, <1>2 DEF Meant, Fine
<1>4. d.e.state # "FIN_WAIT_1" =>
        r = IF late THEN s ELSE IF Finished(d.e) THEN DoPeerClose(d) ELSE d
  BY DEF PeerClose
<1>5. Active(f, p) /\ Later(s.e, f.e)
  BY <1>3, SetFinKeeps
<1>6. f.e = SetFinSequence(s.e, seq) /\ f.out = s.out
  BY <1>1 DEF Handled
<1> HIDE DEF seq, f
<1>7. /\ f.e \in Sockets /\ SameSent(s.e, f.e) /\ f.e.read = s.e.read /\ f.e.gotFin
      /\ f.e.fin = seq
      /\ f.e.rxNext = IF s.e.rxNext = seq THEN s.e.rxNext + 1 ELSE s.e.rxNext
  <2> DEFINE g == SetFinSequence(s.e, seq)
  <2>1. /\ g \in Sockets /\ SameSent(s.e, g) /\ g.read = s.e.read /\ g.gotFin
        /\ g.fin = seq
        /\ g.rxNext = IF s.e.rxNext = seq THEN s.e.rxNext + 1 ELSE s.e.rxNext
    <3>1. s.e \in Sockets /\ seq \in Nat
      BY <1>1, <1>3
    <3> QED
      BY <3>1, SetFinExact
  <2> HIDE DEF g
  <2> QED
    BY <1>6, <2>1 DEF g
<1>8. s.e.rxNext = 1 + s.e.read /\ s.e.read <= p.written
  BY <1>1, <1>2 DEF Active, Whole, Received, Grown
<1>9. ASSUME ~late
      PROVE  /\ d \in Handled /\ Sound(d, p, a) /\ Firm(s.e, d.e, p) /\ Active(d, p)
             /\ d.e.state = s.e.state
  <2>1. CASE m.len = 0
    <3>1. d = f
      BY <2>1
    <3>2. f \in Handled
      BY <1>5 DEF Active
    <3>3. f.e.gotFin /\ ~Finished(f.e) => Excused(p)
      BY <1>1, <1>3, <1>7, <1>8, <2>1 DEF Finished
    <3>4. FinOut(p, f.e)
      BY <1>3, <1>7 DEF FinOut, Excused, Gone, SameSent
    <3>5. f.e.rxNext <= 2 + p.written /\ f.e.fin <= 1 + p.written
      BY <1>1, <1>3, <1>7, <1>8
    <3>6. Sound(f, p, a) /\ Firm(s.e, f.e, p)
      BY <1>1, <1>5, <1>6, <1>7, <3>2, <3>3, <3>4, <3>5, RxSound
    <3> QED
      BY <1>5, <1>7, <3>1, <3>2, <3>6 DEF SameSent
  <2>2. CASE m.len = 1
    <3> DEFINE b == [f EXCEPT !.e = AddData(@, m)]
    <3>1. s.e.rxNext = 1 /\ p.written = 1 /\ seq = 2
      BY <1>1, <1>3, <1>8, <1>9, <2>2
    <3>2. f.e.rxNext = 1 /\ f.e.fin = 2 /\ m.seq = 1
      BY <1>3, <1>7, <2>2, <3>1
    <3>3. Active(b, p) /\ Later(f.e, b.e)
      BY <1>3, <1>5, <2>2, <3>1, <3>2, AddDataKeeps
    <3>4. b.e = AddData(f.e, m) /\ b.out = s.out
      BY <1>5, <1>6 DEF Active, Handled
    <3>5. ReceivedData(f, m) = SendEmptyPacket(b, {"ACK"}) \/ ~(b.e.rxNext > f.e.rxNext + 1)
      <4>1. Notify(b, "DataRecv") = b
        BY <3>3, NotifyDoesNothing DEF Active
      <4> QED
        BY <3>2, <4>1 DEF ReceivedData
    <3> HIDE DEF b
    <3>6. /\ b.e \in Sockets /\ SameSent(f.e, b.e) /\ b.e.gotFin /\ b.e.fin = 2
          /\ b.e.rxNext = 3
      BY <1>7, <3>2, <3>4, AddDataExact
    <3>7. d = SendEmptyPacket(b, {"ACK"})
      BY <2>2, <3>2, <3>5, <3>6
    <3>8. b \in Handled /\ SameSent(s.e, b.e) /\ Later(s.e, b.e)
      BY <1>1, <1>5, <1>7, <3>3, <3>6, SameSentSame, LaterLater DEF Active
    <3>9. Finished(b.e)
      BY <3>6 DEF Finished
    <3>10. FinOut(p, b.e)
      BY <1>3, <3>8 DEF FinOut, Excused, Gone, SameSent
    <3>11. Sound(b, p, a) /\ Firm(s.e, b.e, p)
      BY <1>1, <3>1, <3>4, <3>6, <3>8, <3>9, <3>10, RxSound
    <3>12. /\ d \in Handled /\ Sound(d, p, a) /\ Firm(b.e, d.e, p) /\ d.e.state = b.e.state
      BY <3>7, <3>8, <3>11, SendEmptySound
    <3>13. Active(d, p)
      BY <3>3, <3>7, SendEmptyKeeps
    <3> QED
      BY <3>8, <3>11, <3>12, <3>13, FirmFirm DEF SameSent
  <2> QED
    BY <1>1, <2>1, <2>2
<1> HIDE DEF d, late, r
<1>10. CASE late
  BY <1>1, <1>10, FirmSelf DEF r, late, PeerClose
<1>11. CASE ~late /\ ~Finished(d.e)
  BY <1>4, <1>9, <1>11 DEF r
<1>12. CASE ~late /\ Finished(d.e)
  <2>1. r = DoPeerClose(d)
    BY <1>4, <1>9, <1>12
  <2>2. Repeating(d.e) /\ d.e.state \notin {"LAST_ACK", "CLOSING", "TIME_WAIT"}
    BY <1>9, <1>12 DEF Firm
  <2>3. ~(d.e.bound /\ FinOut(d.e, p))
    BY <1>9, <1>12 DEF FinOut, ClosingStates
  <2>4. r \in Handled /\ Sound(r, p, a) /\ Firm(d.e, r.e, p) /\ Heeds(r.e)
    BY <1>9, <1>12, <2>1, <2>2, <2>3, DoPeerCloseSound
  <2> QED
    BY <1>9, <1>12, <2>4, FirmFirm DEF r
<1> QED
  BY <1>10, <1>11, <1>12

(***************************************************************************)
(* The handlers of a segment                                               *)
(***************************************************************************)
\* A handler that began with s may end with r.
Passes(s, r, p) ==
  /\ r \in Handled /\ Sound(r, p, 0) /\ Firm(s.e, r.e, p)
  /\ Finished(r.e) => Heeds(r.e)

LEMMA SamePasses ==
  ASSUME NEW p \in Sockets, NEW s \in Handled, Sound(s, p, 0),
         Finished(s.e) => Heeds(s.e)
  PROVE  Passes(s, s, p)
BY FirmSelf DEF Passes

LEMMA AcksPasses ==
  ASSUME NEW p \in Sockets, NEW s \in Handled, Sound(s, p, 0),
         Finished(s.e) => Heeds(s.e)
  PROVE  Passes(s, SendEmptyPacket(s, {"ACK"}), p)
<1> DEFINE r == SendEmptyPacket(s, {"ACK"})
<1>1. r \in Handled /\ Sound(r, p, 0) /\ Firm(s.e, r.e, p) /\ SameNumbers(s.e, r.e)
  BY SendEmptySound
<1> HIDE DEF r
<1>2. Passes(s, r, p)
  BY <1>1 DEF Passes, Firm, SameNumbers, Finished
<1> QED
  BY <1>2 DEF r

LEMMA RefusePasses ==
  ASSUME NEW p \in Sockets, NEW s \in Handled, NEW a \in Nat, Sound(s, p, a), NEW m
  PROVE  /\ Passes(s, Refuse(s, m), p)
         /\ Passes(s, CloseAndNotify(s), p)
         /\ Passes(s, CloseAndNotify(SendRST(s)), p)
<1>1. Passes(s, Refuse(s, m), p) /\ Passes(s, CloseAndNotify(SendRST(s)), p)
  BY RefuseSound DEF Passes, Proper
<1>2. Passes(s, CloseAndNotify(s), p)
  BY CloseAndNotifySound DEF Passes, Proper
<1> QED
  BY <1>1, <1>2

LEMMA PassesOn ==
  ASSUME NEW p \in Sockets, NEW s, NEW t, NEW r, Firm(s.e, t.e, p), Passes(t, r, p)
  PROVE  Passes(s, r, p)
BY FirmFirm DEF Passes

LEMMA ProcessEstablishedSound ==
  ASSUME CallbackCloses = {}, NEW p \in Sockets, NEW s, Active(s, p), Sound(s, p, 0), Repeating(s.e),
         Finished(s.e) => Heeds(s.e), s.e.bound, s.e.state = "ESTABLISHED",
         NEW h \in Nat, h <= s.e.rxNext, NEW m, Meant(m, p, h), Fine(m, p, s.e)
  PROVE  Passes(s, ProcessEstablished(s, m), p)
<1>1. s \in Handled /\ s.e \in Sockets /\ m.flags \in FlagSets
  BY DEF Active, Handled, Meant, Messages
<1>2. Passes(s, s, p)
  BY <1>1, SamePasses
<1>3. CASE m.flags = {"ACK"}
  <2>1. CASE m.ack > s.e.highTx /\ ~(m.ack < s.e.una)
    <3>1. ProcessEstablished(s, m) = SendEmptyPacket(s, {"ACK"})
      BY <1>3, <2>1 DEF ProcessEstablished
    <3> QED
      BY <1>1, <3>1, AcksPasses
  <2>2. CASE ~(m.ack > s.e.highTx) /\ ~(m.ack < s.e.una)
    <3> DEFINE r == ReceivedAck(s, m)
    <3>1. ProcessEstablished(s, m) = r
      BY <1>3, <2>2 DEF ProcessEstablished
    <3>2. m.ack <= 1 + s.e.written /\ 0 \in Nat
      BY <1>1, <2>2 DEF Active, Grown, Meant, Messages, Sockets
    <3>3. m.flags \notin {{"RST"}, {"RST", "ACK"}} /\ "FIN" \notin m.flags
      BY <1>3
    <3>4. s.e.state \notin {"LAST_ACK", "CLOSING", "TIME_WAIT", "SYN_RCVD"}
      OBVIOUS
    <3>5. /\ r \in Handled /\ Sound(r, p, 0) /\ Firm(s.e, r.e, p)
          /\ Finished(r.e) => Heeds(r.e)
      BY <3>2, <3>3, <3>4, ReceivedAckSound
    <3> QED
      BY <3>1, <3>5 DEF Passes
  <2>3. CASE m.ack < s.e.una
    BY <1>2, <1>3, <2>3 DEF ProcessEstablished
  <2> QED
    BY <2>1, <2>2, <2>3
<1>4. CASE m.flags \in {{"SYN"}, {"SYN", "ACK"}}
  <2>1. ProcessEstablished(s, m) = s
    BY <1>4 DEF ProcessEstablished
  <2> QED
    BY <1>2, <2>1
<1>5. CASE m.flags = {"FIN", "ACK"}
  <2>1. ProcessEstablished(s, m) = PeerClose(s, m)
    BY <1>5 DEF ProcessEstablished
  <2> DEFINE r == PeerClose(s, m)
  <2>2. /\ r \in Handled /\ Sound(r, p, 0) /\ Firm(s.e, r.e, p)
        /\ Finished(r.e) => Heeds(r.e)
    BY <1>5, PeerCloseSound
  <2> QED
    BY <2>1, <2>2 DEF Passes
<1>6. CASE m.flags \in {{"RST"}, {"RST", "ACK"}}
  <2>1. ProcessEstablished(s, m) = Refuse(s, m)
    BY <1>6 DEF ProcessEstablished
  <2> QED
    BY <1>1, <2>1, RefusePasses
<1> QED
  BY <1>1, <1>3, <1>4, <1>5, <1>6 DEF FlagSets

\* The acknowledgment of the FIN has done what it could.
LEMMA AckIsOver ==
  ASSUME NEW p \in Sockets, NEW s \in Handled, NEW a \in Nat, Sound(s, p, a),
         s.e.bound /\ s.e.state = "FIN_WAIT_1" /\ Over(s.e) /\ Acked(s.e, a) => Settled(p)
  PROVE  Sound(s, p, 0)
<1>1. PastEnd(s.e, p, 0)
  BY DEF Sound, Core, PastEnd
<1> QED
  BY <1>1 DEF Sound, Core

LEMMA InOrderFinSound ==
  ASSUME NEW p \in Sockets, NEW s, Active(s, p), NEW m, m.ack \in Nat, Sound(s, p, m.ack),
         s.e.bound /\ s.e.state = "FIN_WAIT_1" /\ Over(s.e) /\ Acked(s.e, m.ack)
           /\ ~Finished(s.e) => Settled(p),
         Finished(s.e) => Heeds(s.e) \/ s.e.state \in {"FIN_WAIT_1", "FIN_WAIT_2"}
  PROVE  Passes(s, InOrderFin(s, m), p)
<1> DEFINE acked == s.e.size = 0 /\ m.ack = s.e.highTx + 1
           c == [s EXCEPT !.e.state = "CLOSING"]
           next == IF s.e.state = "FIN_WAIT_2" THEN TimeWait(s)
                   ELSE IF acked THEN TimeWait(c) ELSE c
           inOrder == s.e.state \in {"FIN_WAIT_1", "FIN_WAIT_2"} /\ Finished(s.e)
<1>1. s \in Handled /\ s.e \in Sockets
  BY DEF Active, Handled
<1>2. InOrderFin(s, m) = IF inOrder THEN SendEmptyPacket(next, {"ACK"}) ELSE s
  BY DEF InOrderFin
<1>3. CASE inOrder
  <2>1. "CLOSING" \in States
    BY DEF States
  <2>2. StateOnly(s, "CLOSING", c)
    BY <1>1, <2>1, StateExact
  <2> HIDE DEF c
  <2>3. next \in Handled /\ Sound(next, p, 0) /\ Firm(s.e, next.e, p) /\ Heeds(next.e)
    <3>1. CASE s.e.state = "FIN_WAIT_2"
      <4> DEFINE t == TimeWait(s)
      <4>1. t \in Handled /\ Sound(t, p, 0) /\ Firm(s.e, t.e, p) /\ t.e.state = "TIME_WAIT"
        BY <1>1, <3>1, TimeWaitSound
      <4>2. next = t
        BY <3>1
      <4> QED
        BY <4>1, <4>2 DEF Heeds
    <3>2. CASE s.e.state = "FIN_WAIT_1" /\ acked
      <4> DEFINE t == TimeWait(c)
      <4>1. /\ t \in Handled /\ t.out = c.out /\ t.e.state = "TIME_WAIT"
            /\ SameNumbers(c.e, t.e) /\ SameCounts(c.e, t.e)
            /\ t.e.bound = c.e.bound /\ ~t.e.lastAck /\ t.e.retx = "none"
        BY <2>2, TimeWaitExact DEF StateOnly
      <4>2. next = t
        BY <3>2
      <4> HIDE DEF t
      <4>3. /\ t.out = s.out /\ SameNumbers(s.e, t.e) /\ SameCounts(s.e, t.e)
            /\ t.e.bound = s.e.bound
        BY <2>2, <4>1 DEF StateOnly, SameNumbers, SameCounts
      <4>4. Sound(t, p, 0) /\ Firm(s.e, t.e, p)
        BY <1>1, <3>2, <4>1, <4>3, TimedSound
      <4> QED
        BY <4>1, <4>2, <4>4 DEF Heeds
    <3>3. CASE s.e.state = "FIN_WAIT_1" /\ ~acked
      <4>1. next = c
        BY <3>3
      <4>2. Firm(s.e, c.e, p)
        BY <2>2, <3>3
        DEF StateOnly, Firm, Gone, Settled, Heeds, FinOut, Repeating, SameNumbers,
            ClosingStates
      <4>3. PastEnd(c.e, p, 0)
        BY <2>2, <3>3 DEF StateOnly, Sound, Core, PastEnd, Over, Acked, SameNumbers
      <4>4. Core(c.e, p, 0)
        BY <2>2, <3>3, <4>3
        DEF StateOnly, Sound, Core, Counted, SameCounts, SameNumbers, FinOut, Finished,
            ClosingStates
      <4>5. Later(s.e, c.e)
        BY <1>1, <2>2, SameIsLater DEF StateOnly
      <4>6. Sound(c, p, 0)
        BY <1>1, <2>2, <4>2, <4>4, <4>5, SoundMoves DEF StateOnly, SameNumbers
      <4> QED
        BY <2>2, <4>1, <4>2, <4>6 DEF StateOnly, Heeds
    <3> QED
      BY <1>3, <3>1, <3>2, <3>3
  <2> HIDE DEF next
  <2>4. Passes(next, SendEmptyPacket(next, {"ACK"}), p)
    BY <2>3, AcksPasses
  <2> QED
    BY <1>2, <1>3, <2>3, <2>4, PassesOn
<1>4. CASE ~inOrder
  <2>1. Sound(s, p, 0)
    BY <1>1, <1>4, AckIsOver
  <2>2. Finished(s.e) => Heeds(s.e)
    BY <1>4
  <2> QED
    BY <1>1, <1>2, <1>4, <2>1, <2>2, SamePasses
<1> QED
  BY <1>3, <1>4

\* The FIN of the peer, at the place its segment says, after the segment's ACK and data
LEMMA WaitFinSound ==
  ASSUME NEW p \in Sockets, NEW s, Active(s, p), s.e.bound,
         s.e.state \in {"FIN_WAIT_1", "FIN_WAIT_2", "CLOSE_WAIT"},
         NEW h \in Nat, h <= s.e.rxNext, NEW m, Meant(m, p, h), Fine(m, p, s.e),
         m.flags = {"FIN", "ACK"},
         NEW r, Active(r, p), Sound(r, p, m.ack), Firm(s.e, r.e, p), Later(s.e, r.e),
         m.len > 0 => r.e.read = 1,
         Moves(s.e.state, r.e.state) \/ Heeds(r.e)
  PROVE  Passes(r, InOrderFin([r EXCEPT !.e = SetFinSequence(@, m.seq)], m), p)
<1> DEFINE f == [r EXCEPT !.e = SetFinSequence(@, m.seq)]
<1>1. /\ s.e \in Sockets /\ r \in Handled /\ r.e \in Sockets /\ m.seq \in Nat
      /\ m.len \in {0, 1} /\ m.ack \in Nat /\ p.written \in {0, 1} /\ p \in Sockets
      /\ r.e.read \in Nat /\ r.e.rxNext \in Nat /\ s.e.read \in Nat
  BY DEF Active, Handled, Sockets, Meant, Messages
<1>2. ~Settled(s.e)
  BY DEF Settled
<1>3. /\ DoneWriting(p) /\ AllSent(p) /\ (m.len = 1 => m.seq = 1 /\ p.written = 1)
      /\ (m.len = 0 => m.seq = 1 + p.written) /\ FinOut(p, s.e)
      /\ (m.len = 0 /\ s.e.read < p.written => Excused(p))
      /\ (m.len = 0 /\ m.ack >= 2 + s.e.written => s.e.read = p.written \/ Settled(p))
  <2>1. "FIN" \in m.flags
    OBVIOUS
  <2>2. /\ DoneWriting(p) /\ AllSent(p) /\ m.seq + m.len >= 1 + p.written
        /\ m.len = 1 => m.seq = 1 /\ p.written = 1
    BY <2>1 DEF Meant
  <2>3. /\ FinOut(p, s.e)
        /\ m.seq + m.len <= 1 + p.written
        /\ m.len = 0 /\ s.e.read < p.written => Excused(p)
        /\ m.len = 0 /\ m.ack >= 2 + s.e.written => s.e.read = p.written \/ Settled(p)
    BY <1>2, <2>1 DEF Fine
  <2> QED
    BY <1>1, <2>2, <2>3
<1>4. m.seq >= 1 + p.written \/ r.e.read = p.written
  BY <1>1, <1>3
<1>5. m.seq <= 1 + p.written
  BY <1>1, <1>3
<1>6. Active(f, p) /\ Later(r.e, f.e)
  BY <1>1, <1>3, <1>4, <1>5, SetFinKeeps
<1>7. f.e = SetFinSequence(r.e, m.seq) /\ f.out = r.out
  BY <1>1 DEF Handled
<1> HIDE DEF f
<1>8. /\ f.e \in Sockets /\ SameSent(r.e, f.e) /\ f.e.read = r.e.read /\ f.e.gotFin
      /\ f.e.fin = m.seq
      /\ f.e.rxNext = IF r.e.rxNext = m.seq THEN r.e.rxNext + 1 ELSE r.e.rxNext
  <2> DEFINE g == SetFinSequence(r.e, m.seq)
  <2>1. /\ g \in Sockets /\ SameSent(r.e, g) /\ g.read = r.e.read /\ g.gotFin
        /\ g.fin = m.seq
        /\ g.rxNext = IF r.e.rxNext = m.seq THEN r.e.rxNext + 1 ELSE r.e.rxNext
    <3>1. r.e \in Sockets /\ m.seq \in Nat
      BY <1>1
    <3> QED
      BY <3>1, SetFinExact
  <2> HIDE DEF g
  <2> QED
    BY <1>7, <2>1 DEF g
<1>9. /\ r.e.rxNext >= 1 + r.e.read /\ r.e.read <= p.written /\ s.e.read <= r.e.read
      /\ (~Finished(r.e) => r.e.rxNext <= 1 + r.e.read)
      /\ (Finished(r.e) => Finished(f.e))
  BY <1>6 DEF Active, Whole, Received, Grown, Later
<1>10. ~Finished(f.e) => m.len = 0 /\ s.e.read < p.written
  <2>1. ~Finished(f.e) => f.e.rxNext <= m.seq /\ r.e.rxNext # m.seq /\ r.e.rxNext < m.seq
    BY <1>1, <1>8 DEF Finished
  <2> QED
    BY <1>1, <1>3, <1>9, <2>1
<1>11. FinOut(p, f.e)
  BY <1>3, <1>8 DEF Firm, FinOut, Excused, Gone, SameSent
<1>12. f.e.gotFin /\ ~Finished(f.e) => Excused(p)
  BY <1>3, <1>10
<1>13. f.e.rxNext <= 2 + p.written /\ f.e.fin <= 1 + p.written
  BY <1>1, <1>5, <1>8 DEF Sound, Core
<1>14. f \in Handled /\ Sound(f, p, m.ack) /\ Firm(r.e, f.e, p)
  <2>1. f \in Handled
    BY <1>6 DEF Active
  <2> QED
    BY <1>1, <1>6, <1>7, <1>8, <1>11, <1>12, <1>13, <2>1, RxSound
<1>15. f.e.bound /\ f.e.state = "FIN_WAIT_1" /\ Over(f.e) /\ Acked(f.e, m.ack)
         /\ ~Finished(f.e) => Settled(p)
  <2> SUFFICES ASSUME f.e.state = "FIN_WAIT_1", Acked(f.e, m.ack), ~Finished(f.e)
               PROVE  Settled(p)
    OBVIOUS
  <2>1. f.e.highTx >= 1 + f.e.written /\ f.e.highTx \in Nat /\ f.e.written \in {0, 1}
    BY <1>6, <1>8 DEF Active, Grown, FinFollowsData, ClosingStates, AllSent, Sockets
  <2>2. f.e.written = s.e.written
    BY <1>8 DEF Later, SameSent
  <2>3. m.ack >= 2 + s.e.written
    BY <1>1, <2>1, <2>2 DEF Acked
  <2> QED
    BY <1>1, <1>2, <1>3, <1>10, <2>3
<1>16. Finished(f.e) => Heeds(f.e) \/ f.e.state \in {"FIN_WAIT_1", "FIN_WAIT_2"}
  BY <1>8 DEF SameSent, Heeds, Moves
<1>17. Passes(f, InOrderFin(f, m), p)
  BY <1>1, <1>6, <1>14, <1>15, <1>16, InOrderFinSound
<1>18. Passes(r, InOrderFin(f, m), p)
  BY <1>14, <1>17, PassesOn
<1> QED
  BY <1>18 DEF f

LEMMA WaitAckSound ==
  ASSUME NEW p \in Sockets, NEW r, Active(r, p), NEW m, m.ack \in Nat, m.ack <= p.rxNext,
         Sound(r, p, m.ack), Finished(r.e) => Heeds(r.e)
  PROVE  LET finAcked == /\ r.e.state = "FIN_WAIT_1" /\ r.e.size = 0
                         /\ m.ack = r.e.highTx + 1
             w == IF finAcked THEN [r EXCEPT !.e.state = "FIN_WAIT_2"] ELSE r
         IN Passes(r, InOrderFin(w, m), p)
<1> DEFINE finAcked == r.e.state = "FIN_WAIT_1" /\ r.e.size = 0 /\ m.ack = r.e.highTx + 1
           w == IF finAcked THEN [r EXCEPT !.e.state = "FIN_WAIT_2"] ELSE r
<1>1. r \in Handled /\ r.e \in Sockets
  BY DEF Active, Handled
<1>2. CASE finAcked
  <2>1. StateOnly(r, "FIN_WAIT_2", w)
    BY <1>1, <1>2, StateExact DEF States
  <2>2. /\ DoneWriting(r.e) /\ AllSent(r.e) /\ r.e.nextTx >= 1 + r.e.written
        /\ r.e.highTx >= 1 + r.e.written
    BY <1>1, <1>2 DEF Active, Grown, FinFollowsData, ClosingStates, AllSent, Sockets
  <2>3. Finished(p)
    BY <1>1, <1>2, <2>2 DEF Active, Fits, Sockets
  <2>4. "FIN_WAIT_2" \in States \ {"LISTEN", "SYN_SENT", "SYN_RCVD", "CLOSED"}
    BY DEF States
  <2>5. Active(w, p) /\ Later(r.e, w.e)
    BY <1>2, <2>2, <2>3, <2>4, StateKeeps
  <2> HIDE DEF w
  <2>6. Firm(r.e, w.e, p)
    BY <1>2, <2>1
    DEF StateOnly, Firm, Gone, Settled, Heeds, FinOut, Repeating, SameNumbers,
        ClosingStates
  <2>7. PastEnd(w.e, p, m.ack)
    BY <2>1 DEF StateOnly, Sound, Core, PastEnd, Over, Acked, SameNumbers
  <2>8. Core(w.e, p, m.ack)
    BY <1>2, <2>1, <2>7
    DEF StateOnly, Sound, Core, Counted, SameCounts, SameNumbers, FinOut, Finished,
        ClosingStates
  <2>9. w \in Handled /\ Sound(w, p, m.ack)
    BY <1>1, <2>1, <2>5, <2>6, <2>8, SoundMoves DEF StateOnly, SameNumbers
  <2>10. w.e.state = "FIN_WAIT_2"
    BY <2>1 DEF StateOnly
  <2>11. Passes(w, InOrderFin(w, m), p)
    BY <2>5, <2>9, <2>10, InOrderFinSound
  <2> QED
    BY <2>6, <2>11, PassesOn DEF w
<1>3. CASE ~finAcked
  <2>1. w = r
    BY <1>3
  <2>2. ~(r.e.state = "FIN_WAIT_1" /\ Acked(r.e, m.ack))
    BY <1>3 DEF Acked
  <2>3. Passes(r, InOrderFin(r, m), p)
    BY <2>2, InOrderFinSound
  <2> QED
    BY <2>1, <2>3
<1> QED
  BY <1>2, <1>3

LEMMA ProcessWaitSound ==
  ASSUME CallbackCloses = {}, NEW p \in Sockets, NEW s, Active(s, p), Sound(s, p, 0), Repeating(s.e),
         Finished(s.e) => Heeds(s.e), s.e.bound,
         s.e.state \in {"FIN_WAIT_1", "FIN_WAIT_2", "CLOSE_WAIT"},
         NEW h \in Nat, h <= s.e.rxNext, NEW m, Meant(m, p, h), Fine(m, p, s.e)
  PROVE  Passes(s, ProcessWait(s, m), p)
<1> DEFINE r == ReceivedAck(s, m)
           finAcked == r.e.state = "FIN_WAIT_1" /\ r.e.size = 0 /\ m.ack = r.e.highTx + 1
           w == IF finAcked THEN [r EXCEPT !.e.state = "FIN_WAIT_2"] ELSE r
           f == [r EXCEPT !.e = SetFinSequence(@, m.seq)]
<1>1. s \in Handled /\ s.e \in Sockets /\ m.flags \in FlagSets /\ m.ack \in Nat
  BY DEF Active, Handled, Meant, Messages
<1>2. CASE m.flags \in {{"ACK"}, {"FIN", "ACK"}}
  <2>1. m.flags \notin {{"RST"}, {"RST", "ACK"}}
    BY <1>2
  <2>2. Active(r, p) /\ Later(s.e, r.e) /\ (m.len > 0 => r.e.read = 1)
    BY <2>1, ReceivedAckKeeps
  <2>3. m.ack <= p.rxNext
    BY <2>1 DEF Meant
  <2>4. s.e.state \notin {"LAST_ACK", "CLOSING", "TIME_WAIT", "SYN_RCVD"}
    OBVIOUS
  <2>5. /\ r \in Handled /\ Sound(r, p, m.ack) /\ Firm(s.e, r.e, p)
        /\ Moves(s.e.state, r.e.state) \/ Heeds(r.e)
        /\ "FIN" \notin m.flags /\ (Finished(s.e) => Heeds(s.e)) =>
             (Finished(r.e) => Heeds(r.e))
    BY <1>1, <2>1, <2>4, ReceivedAckSound
  <2>6. CASE m.flags = {"ACK"}
    <3>1. ProcessWait(s, m) = InOrderFin(w, m)
      BY <2>6 DEF ProcessWait
    <3>2. Finished(r.e) => Heeds(r.e)
      BY <2>5, <2>6
    <3> HIDE DEF r
    <3>3. Passes(r, InOrderFin(w, m), p)
      BY <1>1, <2>2, <2>3, <2>5, <3>2, WaitAckSound
    <3> QED
      BY <2>5, <3>1, <3>3, PassesOn
  <2>7. CASE m.flags = {"FIN", "ACK"}
    <3>1. ProcessWait(s, m) = InOrderFin(f, m)
      BY <2>7 DEF ProcessWait
    <3> HIDE DEF r
    <3>2. Passes(r, InOrderFin(f, m), p)
      BY <2>2, <2>5, <2>7, WaitFinSound
    <3> QED
      BY <2>5, <3>1, <3>2, PassesOn
  <2> QED
    BY <1>2, <2>6, <2>7
<1>3. CASE m.flags \in {{"SYN"}, {"SYN", "ACK"}}
  <2>1. ProcessWait(s, m) = s
    BY <1>3 DEF ProcessWait
  <2> QED
    BY <1>1, <2>1, SamePasses
<1>4. CASE m.flags \in {{"RST"}, {"RST", "ACK"}}
  <2>1. ProcessWait(s, m) = Refuse(s, m)
    BY <1>4 DEF ProcessWait
  <2> QED
    BY <1>1, <2>1, RefusePasses
<1> QED
  BY <1>1, <1>2, <1>3, <1>4 DEF FlagSets

LEMMA ProcessClosingSound ==
  ASSUME NEW p \in Sockets, NEW s \in Handled, Sound(s, p, 0),
         Finished(s.e) => Heeds(s.e), NEW m, m.flags \in FlagSets
  PROVE  /\ s.e.state = "CLOSING" => Passes(s, ProcessClosing(s, m), p)
         /\ Passes(s, ProcessLastAck(s, m), p)
<1> DEFINE t == TimeWait(s)
           k == SendEmptyPacket(s, {"ACK"})
<1>1. Passes(s, s, p)
  BY SamePasses
<1>2. Passes(s, CloseAndNotify(s), p) /\ Passes(s, Refuse(s, m), p)
  BY RefusePasses
<1>3. s.e.state = "CLOSING" => Passes(s, t, p)
  BY TimeWaitSound DEF Passes, Heeds
<1>4. k \in Handled /\ Sound(k, p, 0) /\ Firm(s.e, k.e, p)
  BY SendEmptySound
<1> HIDE DEF t, k
<1>5. Passes(s, CloseAndNotify(k), p)
  <2>1. Passes(k, CloseAndNotify(k), p)
    BY <1>4, RefusePasses
  <2> QED
    BY <1>4, <2>1, PassesOn
<1>6. ProcessClosing(s, m) \in {s, t, CloseAndNotify(k), Refuse(s, m)}
  BY DEF ProcessClosing, t, k
<1>7. ProcessLastAck(s, m) \in {s, CloseAndNotify(s), Refuse(s, m)}
  BY DEF ProcessLastAck
<1> QED
  BY <1>1, <1>2, <1>3, <1>5, <1>6, <1>7

\* The host answers for a socket that is gone.
LEMMA NoEndPointsSound ==
  ASSUME NEW p \in Sockets, NEW s \in Handled, Sound(s, p, 0),
         Finished(s.e) => Heeds(s.e), NEW x \in Ends, NEW h, NEW m, Meant(m, p, h),
         Fine(m, p, s.e)
  PROVE  Passes(s, NoEndPointsFound(s, x, m), p)
<1> DEFINE k == IF "ACK" \in m.flags
                THEN [flags |-> {"RST"}, seq |-> m.ack, ack |-> 0, len |-> 0]
                ELSE [flags |-> {"RST", "ACK"}, seq |-> 0, ack |-> m.seq + 1, len |-> 0]
           r == NoEndPointsFound(s, x, m)
<1>1. m \in Messages /\ m.ack <= 3 /\ ("SYN" \in m.flags => m.seq = 0)
  BY DEF Meant, Fine
<1>2. r = s \/ (r = [s EXCEPT !.out = s.out \cup {k}] /\ "RST" \notin m.flags)
  BY DEF NoEndPointsFound
<1>3. "RST" \notin m.flags => "FIN" \notin k.flags /\ k.seq <= 4 /\ k.ack <= 3
  BY <1>1 DEF Messages, FlagSets
<1>4. "RST" \notin m.flags => Fine(k, s.e, p)
  BY <1>3 DEF Fine
<1> HIDE DEF k, r
<1>5. r \in Handled /\ r.e = s.e
  BY <1>1, NoEndPointsIs DEF r
<1>6. \A j \in r.out \ s.out : Fine(j, r.e, p)
  BY <1>2, <1>4, <1>5 DEF Handled
<1>7. Sound(r, p, 0) /\ Firm(s.e, r.e, p)
  BY <1>5, <1>6, SameSound DEF SameNumbers
<1> QED
  BY <1>5, <1>7 DEF Passes, r

LEMMA ActiveForwardSound ==
  ASSUME CallbackCloses = {}, NEW p \in Sockets, NEW s, Active(s, p), s.e.state # "SYN_RCVD", Sound(s, p, 0),
         Repeating(s.e), Finished(s.e) => Heeds(s.e), NEW x \in Ends,
         NEW m, Meant(m, p, s.e.rxNext), Fine(m, p, s.e)
  PROVE  Passes(s, ForwardUp(s, x, m), p)
<1> DEFINE r == ForwardUp(s, x, m)
<1>1. s \in Handled /\ s.e \in Sockets /\ p.rxNext \in Nat /\ m.flags \in FlagSets
      /\ s.e.rxNext \in Nat /\ s.e.rxNext <= s.e.rxNext
  BY DEF Active, Handled, Sockets, Meant, Messages
<1>2. CASE ~s.e.bound
  <2>1. r = NoEndPointsFound(s, x, m)
    BY <1>2 DEF ForwardUp
  <2> QED
    BY <1>1, <2>1, NoEndPointsSound
<1>3. CASE s.e.bound /\ OutOfRange(s.e, m)
  <2>1. r = SendEmptyPacket(s, {"ACK"})
    BY <1>3 DEF ForwardUp
  <2> QED
    BY <1>1, <2>1, AcksPasses
<1>4. CASE s.e.bound /\ ~OutOfRange(s.e, m)
  <2>1. CASE s.e.state = "ESTABLISHED"
    <3>1. r = ProcessEstablished(s, m)
      BY <1>4, <2>1 DEF ForwardUp
    <3> QED
      BY <1>1, <1>4, <2>1, <3>1, ProcessEstablishedSound
  <2>2. CASE s.e.state \in {"FIN_WAIT_1", "FIN_WAIT_2", "CLOSE_WAIT"}
    <3>1. r = ProcessWait(s, m)
      BY <1>4, <2>2 DEF ForwardUp
    <3> QED
      BY <1>1, <1>4, <2>2, <3>1, ProcessWaitSound
  <2>3. CASE s.e.state = "CLOSING"
    <3>1. r = ProcessClosing(s, m)
      BY <1>4, <2>3 DEF ForwardUp
    <3> QED
      BY <1>1, <2>3, <3>1, ProcessClosingSound
  <2>4. CASE s.e.state = "LAST_ACK"
    <3>1. r = ProcessLastAck(s, m)
      BY <1>4, <2>4 DEF ForwardUp
    <3> QED
      BY <1>1, <3>1, ProcessClosingSound
  <2>5. CASE s.e.state \in {"CLOSED", "TIME_WAIT"}
    <3>1. r = s
      BY <1>4, <2>5 DEF ForwardUp
    <3> QED
      BY <1>1, <3>1, SamePasses
  <2>6. s.e.state \in States \ {"LISTEN", "SYN_SENT", "SYN_RCVD"}
    BY <1>1 DEF Active, Sockets
  <2> QED
    BY <2>1, <2>2, <2>3, <2>4, <2>5, <2>6 DEF States
<1> QED
  BY <1>1, <1>2, <1>3, <1>4 DEF Sockets

\* A SYN or a SYN+ACK is sent while an attempt is left.
LEMMA SendSynSound ==
  ASSUME NEW p \in Sockets, NEW s \in Handled, Sound(s, p, 0), Young(s.e),
         s.e.state \in OpeningStates, NEW wanted \in {{"SYN"}, {"SYN", "ACK"}}
  PROVE  LET r == SendEmptyPacket(s, wanted)
         IN /\ r \in Handled /\ Sound(r, p, 0) /\ Firm(s.e, r.e, p) /\ SameNumbers(s.e, r.e)
            /\ r.e.bound => r.e.state = s.e.state
<1> DEFINE acks == "ACK" \in wanted
           again == IF "FIN" \in wanted THEN "FIN" ELSE IF acks THEN "SYN+ACK" ELSE "SYN"
           tries == s.e.synCount - 1
           due == s.e.delAck /\ ~acks
           count == IF acks THEN 0 ELSE s.e.delAckCount
           retx == IF s.e.retx = "none" THEN again ELSE s.e.retx
           c == [s EXCEPT !.e.synCount = tries, !.e.delAck = due, !.e.delAckCount = count,
                          !.e.retx = retx]
           g == [s.e EXCEPT !.failed = TRUE, !.state = "CLOSED"]
           m == [flags |-> wanted, seq |-> 0, ack |-> s.e.rxNext, len |-> 0]
           r == SendEmptyPacket(s, wanted)
<1>1. s.e \in Sockets /\ "SYN" \in wanted /\ "FIN" \notin wanted
  BY DEF Handled
<1>2. CASE ~s.e.bound
  <2>1. r = s
    BY <1>2 DEF SendEmptyPacket
  <2> QED
    BY <1>2, <2>1, FirmSelf DEF SameNumbers
<1>3. CASE s.e.bound /\ s.e.synCount = 0
  <2>1. r = [s EXCEPT !.e = DeallocateEndPoint(g)]
    BY <1>1, <1>3 DEF SendEmptyPacket
  <2>2. g \in Sockets /\ SameNumbers(s.e, g) /\ g.state = "CLOSED" /\ SameCounts(s.e, g)
    BY <1>1 DEF Sockets, SameNumbers, States, SameCounts
  <2> HIDE DEF g, r
  <2>3. DeallocateEndPoint(g) \in Sockets /\ SameNumbers(g, DeallocateEndPoint(g))
        /\ DeallocateEndPoint(g).state = g.state /\ ~DeallocateEndPoint(g).bound
        /\ SameCounts(g, DeallocateEndPoint(g))
    BY <2>2, DeallocateIs, DeallocateCounts
  <2>4. r \in Handled /\ r.out = s.out /\ r.e = DeallocateEndPoint(g)
    BY <2>1, <2>3 DEF Handled
  <2>5. SameNumbers(s.e, r.e) /\ SameCounts(s.e, r.e) /\ r.e.state = "CLOSED" /\ ~r.e.bound
    BY <2>2, <2>3, <2>4 DEF SameNumbers, SameCounts
  <2>6. Later(s.e, r.e)
    BY <1>1, <2>3, <2>4, <2>5, SameIsLater
  <2>7. Sound(r, p, 0) /\ Firm(s.e, r.e, p)
    BY <2>4, <2>5, <2>6, GoneSound
  <2> QED
    BY <2>4, <2>5, <2>7 DEF r
<1>4. CASE s.e.bound /\ s.e.synCount # 0
  <2>1. s.e.nextTx = 0 /\ s.e.state \notin {"FIN_WAIT_1", "LAST_ACK", "CLOSING"}
        /\ s.e.highTx = 0
    BY DEF Young, OpeningStates
  <2>2. r = Emit(c, wanted, 0, 0)
    BY <1>1, <1>4, <2>1 DEF SendEmptyPacket
  <2>3. /\ tries \in Int /\ due \in BOOLEAN /\ count \in Int
        /\ s.e.synCount \in 0..SynRetries => tries \in 0..SynRetries
        /\ count \in {0, s.e.delAckCount}
        /\ retx \in {"none", "SYN", "SYN+ACK", "FIN", "RTO"}
        /\ retx \in {s.e.retx, "SYN", "SYN+ACK"}
    BY <1>1, <1>4, ConnectionAssumption DEF Sockets
  <2> HIDE DEF tries, due, count, retx
  <2>4. c \in Handled /\ c.out = s.out
    <3> DEFINE d == [s.e EXCEPT !.synCount = tries, !.delAck = due, !.delAckCount = count,
                                !.retx = retx]
    <3>1. d \in Sockets
      BY <1>1, <2>3 DEF Sockets
    <3>2. c = [s EXCEPT !.e = d]
      BY <1>1 DEF Handled
    <3> HIDE DEF c, d
    <3> QED
      BY <3>1, <3>2 DEF Handled
  <2>5. SameNumbers(s.e, c.e) /\ c.e.state = s.e.state /\ c.e.bound = s.e.bound
        /\ c.e.retx = retx /\ c.e.lastAck = s.e.lastAck
    BY <1>1 DEF Handled, Sockets, SameNumbers
  <2>6. c.e.synCount = tries /\ c.e.dataRetrCount = s.e.dataRetrCount
        /\ c.e.delAckCount = count
    BY <1>1 DEF Handled, Sockets
  <2> HIDE DEF c
  <2>7. Emit(c, wanted, 0, 0) = [c EXCEPT !.out = c.out \cup {m}]
    BY <2>5 DEF Emit, SameNumbers
  <2>8. m \in Messages /\ m.flags = wanted /\ m.seq = 0 /\ m.ack = s.e.rxNext
    BY <1>1 DEF Messages, FlagSets, Sockets
  <2>9. s.e.rxNext <= 3
    BY <1>1 DEF Sound, Core, Sockets
  <2>10. \A e \in Sockets : Fine(m, e, p)
    BY <1>1, <2>8, <2>9 DEF Fine
  <2> HIDE DEF m, r
  <2>11. r \in Handled /\ r.e = c.e /\ r.out = s.out \cup {m} /\ r.e \in Sockets
    BY <2>2, <2>4, <2>7, <2>8 DEF Handled
  <2>12. Firm(s.e, r.e, p)
    BY <2>1, <2>5, <2>11
    DEF Firm, Gone, Settled, Heeds, FinOut, Repeating, SameNumbers
  <2>13. Counted(r.e)
    BY <2>3, <2>6, <2>11, ConnectionAssumption DEF Sound, Core, Counted
  <2>14. PastEnd(r.e, p, 0)
    BY <2>1, <2>5, <2>11, <1>1 DEF PastEnd, Over, SameNumbers, Sockets
  <2>15. Core(r.e, p, 0)
    BY <2>3, <2>5, <2>11, <2>13, <2>14
    DEF Core, Sound, SameNumbers, FinOut, Finished
  <2>16. Later(s.e, r.e)
    BY <1>1, <2>5, <2>11, SameIsLater
  <2>17. Sound(r, p, 0)
    BY <2>5, <2>10, <2>11, <2>12, <2>15, <2>16, SoundMoves DEF SameNumbers
  <2> QED
    BY <2>5, <2>11, <2>12, <2>17 DEF r
<1> QED
  BY <1>1, <1>2, <1>3, <1>4 DEF Sockets

LEMMA ProcessListenSound ==
  ASSUME NEW p \in Sockets, NEW s, Fresh(s, p), Sound(s, p, 0), s.e.state = "LISTEN",
         NEW h, NEW m, Meant(m, p, h)
  PROVE  Passes(s, ProcessListen(s, m), p)
<1> DEFINE next == m.seq + 1
           w == [s EXCEPT !.e.state = "SYN_RCVD", !.e.rxNext = next]
<1>1. s \in Handled /\ s.e \in Sockets /\ Young(s.e)
  BY DEF Fresh, Handled
<1>2. CASE m.flags = {"SYN"}
  <2>1. next = 1
    BY <1>2 DEF Meant
  <2>2. ProcessListen(s, m) = SendEmptyPacket(w, {"SYN", "ACK"})
    BY <1>2 DEF ProcessListen
  <2> HIDE DEF next
  <2>3. w \in Handled /\ w.out = s.out
    BY <1>1, <2>1 DEF Handled, Sockets, States
  <2>4. /\ w.e.una = s.e.una /\ w.e.nextTx = s.e.nextTx /\ w.e.highTx = s.e.highTx
        /\ w.e.size = s.e.size /\ w.e.written = s.e.written /\ w.e.rxNext = 1
        /\ w.e.read = s.e.read /\ w.e.gotFin = s.e.gotFin /\ w.e.fin = s.e.fin
        /\ w.e.bound = s.e.bound
    BY <1>1, <2>1 DEF Handled, Sockets
  <2>5. /\ w.e.closeCalled = s.e.closeCalled /\ w.e.shutdownSend = s.e.shutdownSend
        /\ w.e.state = "SYN_RCVD" /\ w.e.retx = s.e.retx /\ w.e.lastAck = s.e.lastAck
        /\ w.e.sendPending = s.e.sendPending /\ w.e.delAck = s.e.delAck
        /\ w.e.timewait = s.e.timewait
    BY <1>1 DEF Handled, Sockets
  <2>6. SameCounts(s.e, w.e)
    BY <1>1 DEF Handled, Sockets, SameCounts
  <2> HIDE DEF w
  <2>7. w.e \in Sockets
    BY <2>3 DEF Handled
  <2>8. Later(s.e, w.e)
    BY <1>1, <2>4, <2>5 DEF Later, Young, DoneWriting, Finished
  <2>9. Firm(s.e, w.e, p)
    BY <2>4, <2>5 DEF Firm, Gone, Settled, Heeds, FinOut, Repeating, ClosingStates
  <2>10. Counted(w.e)
    BY <2>6 DEF Sound, Core, Counted, SameCounts
  <2>11. PastEnd(w.e, p, 0)
    BY <1>1, <2>4 DEF PastEnd, Over, Young, Sockets
  <2>12. Core(w.e, p, 0)
    <3>1. w.e.rxNext <= 2 + p.written
      BY <2>4 DEF Sockets
    <3>2. p.gotFin \/ w.e.retx = "FIN" => FinOut(w.e, p)
      BY <2>5, <2>9 DEF Sound, Core, Firm
    <3> QED
      BY <1>1, <2>4, <2>5, <2>10, <2>11, <3>1, <3>2 DEF Core, Sound, Young
  <2>13. Sound(w, p, 0)
    BY <1>1, <2>3, <2>4, <2>8, <2>9, <2>12, SoundMoves
  <2>14. Young(w.e) /\ w.e.state \in OpeningStates
    BY <1>1, <2>4, <2>5 DEF Young, OpeningStates
  <2> DEFINE t == SendEmptyPacket(w, {"SYN", "ACK"})
  <2>15. t \in Handled /\ Sound(t, p, 0) /\ Firm(w.e, t.e, p) /\ SameNumbers(w.e, t.e)
    BY <2>3, <2>13, <2>14, SendSynSound
  <2> HIDE DEF t
  <2>16. ~Finished(t.e)
    BY <2>14, <2>15 DEF Young, SameNumbers, Finished
  <2>17. Passes(s, t, p)
    BY <2>9, <2>15, <2>16, FirmFirm DEF Passes
  <2> QED
    BY <2>2, <2>17 DEF t
<1>3. CASE m.flags # {"SYN"}
  <2>1. ProcessListen(s, m) = s
    BY <1>3 DEF ProcessListen
  <2> QED
    BY <1>1, <2>1, SamePasses DEF Young, Finished
<1> QED
  BY <1>2, <1>3

\* The rest of what Establish leaves alone
LEMMA EstablishCounts ==
  ASSUME NEW e \in Sockets
  PROVE  SameCounts(e, Establish(e))
BY DEF Establish, SameCounts, Sockets

\* The connection opens: nothing is past its end.
OpenedWith(s, r) ==
  /\ r.out = s.out /\ Opened(s.e, r.e) /\ r.e.nextTx = 1 /\ r.e.rxNext = 1
  /\ r.e.gotFin = s.e.gotFin /\ r.e.fin = s.e.fin
  /\ r.e.shutdownSend = s.e.shutdownSend /\ r.e.lastAck = s.e.lastAck
  /\ r.e.state \in {"ESTABLISHED", "SYN_RCVD"}
  /\ Counted(s.e) => Counted(r.e)

LEMMA OpenSound ==
  ASSUME NEW p \in Sockets, NEW s, Fresh(s, p), Sound(s, p, 0),
         s.e.state \in {"SYN_SENT", "SYN_RCVD"}, NEW r \in Handled, OpenedWith(s, r),
         Later(s.e, r.e)
  PROVE  Sound(r, p, 0) /\ Firm(s.e, r.e, p) /\ Repeating(r.e) /\ ~Finished(r.e)
<1>1. s \in Handled /\ s.e \in Sockets /\ Young(s.e) /\ r.e \in Sockets
  BY DEF Fresh, Handled
<1>2. Firm(s.e, r.e, p)
  BY DEF OpenedWith, Opened, Firm, Gone, Settled, Heeds, FinOut, Repeating, ClosingStates
<1>3. PastEnd(r.e, p, 0)
  BY <1>1 DEF OpenedWith, PastEnd, Over, Sockets
<1>4. p.gotFin \/ r.e.retx = "FIN" => FinOut(r.e, p)
  BY <1>2 DEF OpenedWith, Opened, Sound, Core, Firm
<1>5. r.e.rxNext <= 2 + p.written
  BY DEF OpenedWith, Sockets
<1>6. Core(r.e, p, 0)
  BY <1>1, <1>3, <1>4, <1>5 DEF OpenedWith, Opened, Sound, Core, Young
<1>7. Sound(r, p, 0)
  BY <1>1, <1>2, <1>6, SoundMoves DEF OpenedWith
<1> QED
  BY <1>1, <1>2, <1>7 DEF OpenedWith, Opened, Repeating, Finished, Young

LEMMA SynSentOpensSound ==
  ASSUME NEW p \in Sockets, NEW s, Fresh(s, p), Sound(s, p, 0), s.e.state = "SYN_SENT",
         NEW m, Meant(m, p, s.e.rxNext), m.flags = {"SYN", "ACK"}
  PROVE  LET open == [s EXCEPT !.e = [Establish(@) EXCEPT !.state = "ESTABLISHED",
                                                          !.rxNext = m.seq + 1]]
         IN open \in Handled /\ OpenedWith(s, open)
<1> DEFINE next == m.seq + 1
           f == Establish(s.e)
           g == [f EXCEPT !.state = "ESTABLISHED", !.rxNext = next]
           open == [s EXCEPT !.e = [Establish(@) EXCEPT !.state = "ESTABLISHED",
                                                        !.rxNext = m.seq + 1]]
<1>1. s \in Handled /\ s.e \in Sockets /\ Young(s.e)
  BY DEF Fresh, Handled
<1>2. next = 1
  BY DEF Meant
<1>3. open = [s EXCEPT !.e = g]
  BY <1>1 DEF Handled
<1>4. open \in Handled /\ Opened(s.e, open.e) /\ open.e.state = "ESTABLISHED"
  BY SynSentOpens DEF Active
<1> HIDE DEF next, open
<1>5. /\ f \in Sockets /\ f.nextTx = 1
      /\ f.gotFin = s.e.gotFin /\ f.fin = s.e.fin
      /\ f.shutdownSend = s.e.shutdownSend /\ f.lastAck = s.e.lastAck
  BY <1>1, EstablishIs
<1>6. SameCounts(s.e, f)
  BY <1>1, EstablishCounts
<1> HIDE DEF f
<1>7. /\ g.nextTx = 1 /\ g.rxNext = next /\ g.gotFin = f.gotFin /\ g.fin = f.fin
      /\ g.shutdownSend = f.shutdownSend /\ g.lastAck = f.lastAck /\ SameCounts(f, g)
  BY <1>5 DEF Sockets, SameCounts
<1> HIDE DEF g
<1>8. open.e = g /\ open.out = s.out
  BY <1>1, <1>3 DEF Handled
<1>9. Counted(s.e) => Counted(open.e)
  BY <1>6, <1>7, <1>8 DEF Counted, SameCounts
<1> QED
  BY <1>2, <1>4, <1>5, <1>7, <1>8, <1>9 DEF OpenedWith, open

LEMMA SynRcvdOpensSound ==
  ASSUME NEW p \in Sockets, NEW s, Fresh(s, p), Sound(s, p, 0), s.e.state = "SYN_RCVD",
         p.rxNext >= 1
  PROVE  LET half == [s EXCEPT !.e = Establish(@)]
             open == [s EXCEPT !.e = [Establish(@) EXCEPT !.state = "ESTABLISHED",
                                                          !.delAckCount = DelAckMaxCount]]
         IN /\ half \in Handled /\ OpenedWith(s, half)
            /\ open \in Handled /\ OpenedWith(s, open)
<1> DEFINE f == Establish(s.e)
           g == [f EXCEPT !.state = "ESTABLISHED", !.delAckCount = DelAckMaxCount]
           half == [s EXCEPT !.e = Establish(@)]
           open == [s EXCEPT !.e = [Establish(@) EXCEPT !.state = "ESTABLISHED",
                                                        !.delAckCount = DelAckMaxCount]]
<1>1. s \in Handled /\ s.e \in Sockets /\ Young(s.e)
  BY DEF Fresh, Handled
<1>2. open = [s EXCEPT !.e = g] /\ half = [s EXCEPT !.e = f]
  BY <1>1 DEF Handled
<1>3. /\ half \in Handled /\ half.e.state = "SYN_RCVD" /\ Opened(s.e, half.e)
      /\ half.e.rxNext = 1
      /\ open \in Handled /\ open.e.state = "ESTABLISHED" /\ Opened(s.e, open.e)
      /\ open.e.rxNext = 1
  BY SynRcvdOpens DEF Active
<1> HIDE DEF half, open
<1>4. /\ f \in Sockets /\ f.nextTx = 1
      /\ f.gotFin = s.e.gotFin /\ f.fin = s.e.fin
      /\ f.shutdownSend = s.e.shutdownSend /\ f.lastAck = s.e.lastAck
  BY <1>1, EstablishIs
<1>5. SameCounts(s.e, f)
  BY <1>1, EstablishCounts
<1> HIDE DEF f
<1>6. /\ g.nextTx = 1 /\ g.gotFin = f.gotFin /\ g.fin = f.fin
      /\ g.shutdownSend = f.shutdownSend /\ g.lastAck = f.lastAck
      /\ g.synCount = f.synCount /\ g.dataRetrCount = f.dataRetrCount
      /\ g.delAckCount = DelAckMaxCount
  BY <1>4 DEF Sockets
<1> HIDE DEF g
<1>7. half.e = f /\ half.out = s.out /\ open.e = g /\ open.out = s.out
  BY <1>1, <1>2 DEF Handled
<1>8. Counted(s.e) => Counted(half.e) /\ Counted(open.e)
  BY <1>5, <1>6, <1>7, ConnectionAssumption DEF Counted, SameCounts
<1> QED
  BY <1>3, <1>4, <1>6, <1>7, <1>8 DEF OpenedWith, half, open

LEMMA ProcessSynSentSound ==
  ASSUME NEW p \in Sockets, NEW s, Fresh(s, p), Sound(s, p, 0), s.e.state = "SYN_SENT",
         NEW m, Meant(m, p, s.e.rxNext)
  PROVE  Passes(s, ProcessSynSent(s, m), p)
<1> DEFINE open == [s EXCEPT !.e = [Establish(@) EXCEPT !.state = "ESTABLISHED",
                                                        !.rxNext = m.seq + 1]]
           t == SendEmptyPacket(open, {"ACK"})
           u == SendPendingData(t)
           r == [u EXCEPT !.e.delAckCount = DelAckMaxCount]
<1>1. s \in Handled /\ s.e \in Sockets /\ Young(s.e) /\ m.flags \in FlagSets
  BY DEF Fresh, Handled, Meant, Messages
<1>2. CASE m.flags = {"SYN", "ACK"}
  <2>1. ProcessSynSent(s, m) = r
    BY <1>2 DEF ProcessSynSent
  <2>2. Active(open, p) /\ Later(s.e, open.e) /\ open.e.state = "ESTABLISHED"
    BY <1>2, SynSentOpens
  <2>3. open \in Handled /\ OpenedWith(s, open)
    BY <1>2, SynSentOpensSound
  <2> HIDE DEF open
  <2>4. Sound(open, p, 0) /\ Firm(s.e, open.e, p) /\ ~Finished(open.e)
    BY <2>2, <2>3, OpenSound
  <2>5. Active(t, p) /\ t \in Handled /\ Sound(t, p, 0) /\ Firm(open.e, t.e, p)
        /\ SameNumbers(open.e, t.e) /\ t.e.state = "ESTABLISHED"
    BY <2>2, <2>3, <2>4, SendEmptyKeeps, SendEmptySound
  <2> HIDE DEF t
  <2>6. u \in Handled /\ Sound(u, p, 0) /\ Firm(t.e, u.e, p) /\ u.e.rxNext = t.e.rxNext
        /\ u.e.gotFin = t.e.gotFin /\ u.e.fin = t.e.fin
    BY <2>5, SendPendingSound
  <2> HIDE DEF u
  <2>7. u.e \in Sockets /\ DelAckMaxCount \in Int
    BY <2>6, ConnectionAssumption DEF Handled
  <2>8. r \in Handled /\ r.out = u.out
    BY <2>6, <2>7 DEF Handled, Sockets
  <2>9. SameNumbers(u.e, r.e) /\ r.e.state = u.e.state /\ r.e.bound = u.e.bound
        /\ r.e.retx = u.e.retx /\ r.e.lastAck = u.e.lastAck
    BY <2>6 DEF Handled, Sockets, SameNumbers
  <2>10. r.e.synCount = u.e.synCount /\ r.e.dataRetrCount = u.e.dataRetrCount
         /\ r.e.delAckCount = DelAckMaxCount
    BY <2>6 DEF Handled, Sockets
  <2> HIDE DEF r
  <2>11. Counted(u.e) => Counted(r.e)
    BY <2>10, ConnectionAssumption DEF Counted
  <2>12. Sound(r, p, 0) /\ Firm(u.e, r.e, p)
    BY <2>6, <2>8, <2>9, <2>11, SameSound
  <2>13. ~Finished(r.e)
    BY <2>4, <2>5, <2>6, <2>9 DEF Finished, SameNumbers
  <2>14. Firm(s.e, r.e, p)
    BY <2>4, <2>5, <2>6, <2>12, FirmFirm
  <2> QED
    BY <2>1, <2>8, <2>12, <2>13, <2>14 DEF Passes
<1>3. CASE m.flags \in {{"ACK"}, {"FIN", "ACK"}, {"RST", "ACK"}}
  <2>1. ProcessSynSent(s, m) = s
    BY <1>3 DEF ProcessSynSent
  <2> QED
    BY <1>1, <2>1, SamePasses DEF Young, Finished
<1>4. CASE m.flags \in {{"SYN"}, {"RST"}}
  <2>1. ProcessSynSent(s, m) = Refuse(s, m)
    BY <1>4 DEF ProcessSynSent
  <2> QED
    BY <1>1, <2>1, RefusePasses
<1> QED
  BY <1>1, <1>2, <1>3, <1>4 DEF FlagSets

LEMMA ProcessSynRcvdSound ==
  ASSUME CallbackCloses = {}, NEW p \in Sockets, NEW s, Fresh(s, p), Sound(s, p, 0), s.e.state = "SYN_RCVD",
         s.e.bound, NEW m, Meant(m, p, s.e.rxNext), Fine(m, p, s.e)
  PROVE  Passes(s, ProcessSynRcvd(s, m), p)
<1> DEFINE open == [s EXCEPT !.e = [Establish(@) EXCEPT !.state = "ESTABLISHED",
                                                        !.delAckCount = DelAckMaxCount]]
           half == [s EXCEPT !.e = Establish(@)]
           w == [s EXCEPT !.e.rxNext = m.seq + 1]
<1>1. s \in Handled /\ s.e \in Sockets /\ Young(s.e) /\ p.rxNext \in Nat
      /\ m \in Messages /\ m.flags \in FlagSets /\ m.ack \in Nat /\ m.seq \in Nat
  BY DEF Fresh, Handled, Sockets, Meant, Messages
<1>2. s.e.rxNext = 1 /\ s.e.nextTx = 0 /\ ~s.e.gotFin
  BY <1>1 DEF Young
<1>3. p.rxNext >= 1 =>
        /\ Active(half, p) /\ Later(s.e, half.e) /\ half.e.rxNext = 1 /\ ~half.e.gotFin
        /\ half.e.state = "SYN_RCVD" /\ half.e.bound = s.e.bound
        /\ Active(open, p) /\ Later(s.e, open.e) /\ open.e.rxNext = 1
        /\ open.e.state = "ESTABLISHED"
  BY SynRcvdOpens DEF Opened
<1>4. p.rxNext >= 1 =>
        /\ half \in Handled /\ OpenedWith(s, half)
        /\ open \in Handled /\ OpenedWith(s, open)
  BY SynRcvdOpensSound
<1>5. CASE m.flags = {"ACK"} /\ m.ack = s.e.nextTx + 1
  <2>1. p.rxNext >= 1 /\ m.ack = 1
    BY <1>1, <1>2, <1>5 DEF Meant
  <2>2. ProcessSynRcvd(s, m) = ReceivedAck(open, m)
    BY <1>1, <1>5 DEF ProcessSynRcvd
  <2> HIDE DEF open
  <2>3. Meant(m, p, 1) /\ m.flags \notin {{"RST"}, {"RST", "ACK"}} /\ 1 <= open.e.rxNext
        /\ "FIN" \notin m.flags
    <3>1. open.e.rxNext = 1
      BY <1>3, <2>1
    <3>2. Meant(m, p, 1)
      BY <1>2
    <3> QED
      BY <1>5, <3>1, <3>2
  <2>4. Sound(open, p, 0) /\ Firm(s.e, open.e, p) /\ Repeating(open.e) /\ ~Finished(open.e)
    BY <1>3, <1>4, <2>1, OpenSound
  <2>5. m.ack <= 1 + open.e.written
    BY <1>3, <2>1 DEF Active, Handled, Sockets
  <2> DEFINE r == ReceivedAck(open, m)
  <2>6. /\ r \in Handled /\ Sound(r, p, 0) /\ Firm(open.e, r.e, p)
        /\ Finished(r.e) => Heeds(r.e)
    BY <1>3, <2>1, <2>3, <2>4, <2>5, ReceivedAckSound
  <2> HIDE DEF r
  <2>7. Passes(s, r, p)
    BY <2>4, <2>6, FirmFirm DEF Passes
  <2> QED
    BY <2>2, <2>7 DEF r
<1>6. CASE m.flags = {"SYN"}
  <2>1. m.seq + 1 = 1
    BY <1>6 DEF Meant
  <2>2. w \in Handled /\ w.out = s.out
    BY <1>1, <2>1 DEF Handled, Sockets
  <2>3. SameNumbers(s.e, w.e) /\ w.e.state = s.e.state /\ w.e.retx = s.e.retx
        /\ w.e.bound = s.e.bound
    BY <1>1, <1>2, <2>1 DEF Handled, Sockets, SameNumbers
  <2>4. w.e.sendPending = s.e.sendPending /\ w.e.lastAck = s.e.lastAck
        /\ w.e.delAck = s.e.delAck /\ w.e.timewait = s.e.timewait /\ SameCounts(s.e, w.e)
    BY <1>1 DEF Handled, Sockets, SameCounts
  <2> HIDE DEF w
  <2>5. Counted(s.e) => Counted(w.e)
    BY <2>4 DEF Counted, SameCounts
  <2>6. Sound(w, p, 0) /\ Firm(s.e, w.e, p)
    BY <1>1, <2>2, <2>3, <2>4, <2>5, SameSound
  <2>7. Young(w.e) /\ w.e.state \in OpeningStates
    BY <1>1, <2>3, <2>4 DEF Young, SameNumbers, OpeningStates
  <2> DEFINE t == SendEmptyPacket(w, {"SYN", "ACK"})
  <2>8. t \in Handled /\ Sound(t, p, 0) /\ Firm(w.e, t.e, p) /\ SameNumbers(w.e, t.e)
    BY <2>2, <2>6, <2>7, SendSynSound
  <2>9. ProcessSynRcvd(s, m) = t
    BY <1>6 DEF ProcessSynRcvd, w
  <2> HIDE DEF t
  <2>10. ~Finished(t.e)
    BY <2>7, <2>8 DEF Young, SameNumbers, Finished
  <2> QED
    BY <2>6, <2>8, <2>9, <2>10, FirmFirm DEF Passes
<1>7. CASE m.flags = {"FIN", "ACK"} /\ m.seq = s.e.rxNext
  <2>1. p.rxNext >= 1
    BY <1>1, <1>7 DEF Meant
  <2>2. ProcessSynRcvd(s, m) = PeerClose(half, m)
    BY <1>7 DEF ProcessSynRcvd
  <2> HIDE DEF half
  <2>3. Meant(m, p, 1) /\ 1 <= half.e.rxNext
    <3>1. half.e.rxNext = 1
      BY <1>3, <2>1
    <3>2. Meant(m, p, 1)
      BY <1>2
    <3> QED
      BY <3>1, <3>2
  <2>4. Sound(half, p, 0) /\ Firm(s.e, half.e, p) /\ Repeating(half.e)
        /\ ~Finished(half.e) /\ half.e \in Sockets
    BY <1>3, <1>4, <2>1, OpenSound DEF Handled
  <2>5. half.e.read <= p.written
    BY <1>3, <2>1 DEF Active, Whole, Received
  <2>6. Fine(m, p, half.e)
    BY <1>1, <1>3, <2>1, <2>4, <2>5, FirmFine
  <2> DEFINE r == PeerClose(half, m)
  <2>7. /\ r \in Handled /\ Sound(r, p, 0) /\ Firm(half.e, r.e, p)
        /\ Finished(r.e) => Heeds(r.e)
    BY <1>3, <1>7, <2>1, <2>3, <2>4, <2>6, PeerCloseSound
  <2> HIDE DEF r
  <2>8. Passes(s, r, p)
    BY <2>4, <2>7, FirmFirm DEF Passes
  <2> QED
    BY <2>2, <2>8 DEF r
<1>8. CASE m.flags = {"FIN", "ACK"} /\ m.seq # s.e.rxNext
  <2>1. ProcessSynRcvd(s, m) = s
    BY <1>8 DEF ProcessSynRcvd
  <2> QED
    BY <1>1, <1>2, <2>1, SamePasses DEF Finished
<1>9. CASE /\ ~(m.flags = {"ACK"} /\ m.ack = s.e.nextTx + 1)
           /\ m.flags \notin {{"SYN"}, {"FIN", "ACK"}}
  <2>1. ProcessSynRcvd(s, m) = Refuse(s, m)
    BY <1>9 DEF ProcessSynRcvd
  <2> QED
    BY <1>1, <2>1, RefusePasses
<1> QED
  BY <1>5, <1>6, <1>7, <1>8, <1>9

LEMMA FreshForwardSound ==
  ASSUME CallbackCloses = {}, NEW p \in Sockets, NEW s, Fresh(s, p), Sound(s, p, 0), NEW x \in Ends,
         NEW m, Meant(m, p, s.e.rxNext), Fine(m, p, s.e)
  PROVE  Passes(s, ForwardUp(s, x, m), p)
<1>1. s \in Handled /\ s.e \in Sockets /\ Young(s.e) /\ p.rxNext \in Nat /\ m \in Messages
      /\ s.e.rxNext \in Nat /\ s.e.state \in OpeningStates
  BY DEF Fresh, Handled, Sockets, Meant, Messages
<1>2. ~Finished(s.e)
  BY <1>1 DEF Young, Finished
<1>3. CASE ~s.e.bound
  <2>1. ForwardUp(s, x, m) = NoEndPointsFound(s, x, m)
    BY <1>3 DEF ForwardUp
  <2> QED
    BY <1>1, <1>2, <2>1, NoEndPointsSound
<1>4. CASE s.e.bound
  <2>1. ~OutOfRange(s.e, m)
    <3>1. m.seq \in Nat /\ m.len \in {0, 1} /\ (m.len = 1 => m.seq = 1)
      BY <1>1 DEF Meant, Messages
    <3> QED
      BY <1>1, <3>1 DEF OutOfRange, Young, OpeningStates
  <2>2. CASE s.e.state = "CLOSED"
    <3>1. ForwardUp(s, x, m) = s
      BY <1>4, <2>1, <2>2 DEF ForwardUp
    <3> QED
      BY <1>1, <1>2, <3>1, SamePasses
  <2>3. CASE s.e.state = "LISTEN"
    <3>1. ForwardUp(s, x, m) = ProcessListen(s, m)
      BY <1>4, <2>1, <2>3 DEF ForwardUp
    <3> QED
      BY <2>3, <3>1, ProcessListenSound
  <2>4. CASE s.e.state = "SYN_SENT"
    <3>1. ForwardUp(s, x, m) = ProcessSynSent(s, m)
      BY <1>4, <2>1, <2>4 DEF ForwardUp
    <3> QED
      BY <2>4, <3>1, ProcessSynSentSound
  <2>5. CASE s.e.state = "SYN_RCVD"
    <3>1. ForwardUp(s, x, m) = ProcessSynRcvd(s, m)
      BY <1>4, <2>1, <2>5 DEF ForwardUp
    <3> QED
      BY <1>4, <2>5, <3>1, ProcessSynRcvdSound
  <2> QED
    BY <1>1, <2>2, <2>3, <2>4, <2>5 DEF OpeningStates
<1> QED
  BY <1>1, <1>3, <1>4 DEF Sockets

(***************************************************************************)
(* The events of the connection                                            *)
(***************************************************************************)
\* The event at x ends with a socket and segments that are as they should be.
PassesAt(x) == \E r : /\ EndsIn(x, r) /\ Passes(Handle(x), r, end[Peer(x)])
                      /\ Later(end[x], r.e)

LEMMA SoundBegins ==
  ASSUME ConnInv, AllProper, NEW x \in Ends
  PROVE  /\ Sound(Handle(x), end[Peer(x)], 0) /\ Repeating(end[x])
         /\ Finished(end[x]) => Heeds(end[x])
         /\ Kept(end[x], end[Peer(x)]) /\ Kept(end[Peer(x)], end[x])
         /\ \A m \in sent[x] : Fine(m, end[Peer(x)], end[x])
<1>1. Peer(x) \in Ends /\ Peer(Peer(x)) = x
  BY DEF Ends, Peer
<1>2. /\ Proper(end[x], end[Peer(x)]) /\ Proper(end[Peer(x)], end[x])
      /\ \A m \in sent[x] : Fine(m, end[Peer(x)], end[x])
  BY <1>1 DEF AllProper
<1>3. Kept(end[x], end[Peer(x)]) /\ Kept(end[Peer(x)], end[x])
  BY <1>1 DEF ConnInv
<1>4. Handle(x).e = end[x] /\ Handle(x).out = {}
  BY DEF Handle
<1>5. Sound(Handle(x), end[Peer(x)], 0)
  BY <1>2, <1>3, <1>4 DEF Sound, Proper
<1> QED
  BY <1>2, <1>3, <1>5 DEF Proper

\* What the other end is believed to be, and all segments, old and new, are so again.
LEMMA PassStep ==
  ASSUME ConnInv, AllProper, ConnInv', NEW x \in Ends, PassesAt(x)
  PROVE  AllProper'
<1> DEFINE y == Peer(x)
           e == end[x]
           p == end[y]
<1>1. y \in Ends /\ y # x /\ Peer(y) = x /\ \A z \in Ends : z \in {x, y}
  BY DEF Ends, Peer
<1>2. PICK r : EndsIn(x, r) /\ Passes(Handle(x), r, p) /\ Later(e, r.e)
  BY DEF PassesAt
<1> HIDE DEF y
<1>3. /\ end \in [Ends -> Sockets] /\ sent \in [Ends -> SUBSET Messages]
      /\ e \in Sockets /\ p \in Sockets
  BY <1>1 DEF ConnInv
<1>4. r \in Handled /\ r.e \in Sockets
  BY <1>2 DEF Passes, Handled
<1>5. /\ end'[x] = r.e /\ end'[y] = p
      /\ sent'[x] = sent[x] /\ sent'[y] = sent[y] \cup r.out
  BY <1>1, <1>2, <1>3 DEF EndsIn, y
<1>6. Kept(r.e, p)
  <2>1. Kept(end'[x], end'[Peer(x)])
    BY DEF ConnInv
  <2> QED
    BY <1>5, <2>1 DEF y
<1>7. r.e.read <= p.written
  BY <1>6 DEF Kept, Whole, Received
<1>8. Sound(r, p, 0) /\ Firm(e, r.e, p) /\ (Finished(r.e) => Heeds(r.e))
  BY <1>2 DEF Passes, Handle
<1>9. /\ Repeating(e) /\ \A m \in sent[x] : Fine(m, p, e)
      /\ \A m \in sent[y] : Fine(m, e, p)
  BY SoundBegins DEF AllProper, y
<1>10. Proper(r.e, p) /\ Proper(p, r.e)
  BY <1>8, <1>9 DEF Sound, Proper, Firm
<1>11. \A m \in sent[y] \cup r.out : Fine(m, r.e, p)
  <2>1. ASSUME NEW m \in sent[y] PROVE Fine(m, r.e, p)
    <3>1. m \in Messages /\ Fine(m, e, p)
      BY <1>1, <1>3, <1>9
    <3> QED
      BY <1>2, <1>3, <1>4, <1>8, <3>1, FirmFine
  <2> QED
    BY <1>8, <2>1 DEF Sound
<1>12. \A m \in sent[x] : Fine(m, p, r.e)
  <2> TAKE m \in sent[x]
  <2>1. m \in Messages /\ Fine(m, p, e)
    BY <1>3, <1>9
  <2> QED
    BY <1>2, <1>3, <1>4, <1>7, <1>8, <2>1, FirmFine
<1>13. /\ Proper(end'[x], end'[y]) /\ \A m \in sent'[y] : Fine(m, end'[x], end'[y])
       /\ Proper(end'[y], end'[x]) /\ \A m \in sent'[x] : Fine(m, end'[y], end'[x])
  BY <1>5, <1>10, <1>11, <1>12
<1>14. \A z \in Ends : /\ Proper(end'[z], end'[Peer(z)])
                       /\ \A m \in sent'[Peer(z)] : Fine(m, end'[z], end'[Peer(z)])
  BY <1>1, <1>13 DEF y
<1> QED
  BY <1>14 DEF AllProper

LEMMA ArrivePasses ==
  ASSUME CallbackCloses = {}, ConnInv, AllProper, NEW x \in Ends, NEW m \in sent[x], Arrive(x, m)
  PROVE  PassesAt(x)
<1> DEFINE p == end[Peer(x)]
<1>0. PICK c \in SUBSET CallbackCloses : EndsIn(x, ForwardUp(Begun(x, c), x, m))
  BY DEF Arrive, Begun
<1> DEFINE s == Begun(x, c)
           r == ForwardUp(s, x, m)
<1>1. /\ p \in Sockets /\ s.e = end[x] /\ s.out = {}
      /\ Fresh(s, p) \/ (Active(s, p) /\ end[x].state # "SYN_RCVD")
  BY ArriveBegins
<1> HIDE DEF s
<1>2. Meant(m, p, end[x].rxNext)
  BY DEF ConnInv
<1>3. Later(end[x], r.e)
  BY <1>1, <1>2, FreshForwardRests, ActiveForwardRests
<1>4. /\ Sound(s, p, 0) /\ Repeating(end[x]) /\ Fine(m, p, end[x])
      /\ Finished(end[x]) => Heeds(end[x])
  <2>1. Handle(x).e = s.e /\ Handle(x).out = s.out
    BY <1>1 DEF Handle
  <2> QED
    BY <2>1, SoundBegins DEF Sound
<1>5. Passes(s, r, p)
  BY <1>1, <1>2, <1>4, FreshForwardSound, ActiveForwardSound
<1>6. EndsIn(x, r)
  BY <1>0 DEF s
<1>7. Passes(Handle(x), r, p)
  BY <1>1, <1>5 DEF Passes, Handle
<1> QED
  BY <1>3, <1>6, <1>7 DEF PassesAt

LEMMA ConnectPasses ==
  ASSUME ConnInv, AllProper, Connect
  PROVE  PassesAt("A")
<1> DEFINE x == "A"
           h == Handle("A")
           p == end[Peer("A")]
           t == SendEmptyPacket(h, {"SYN"})
           r == [t EXCEPT !.e.state = "SYN_SENT"]
<1>1. /\ p \in Sockets /\ h.e = end[x] /\ h \in Handled /\ h.e \in Sockets /\ x \in Ends
      /\ Fresh(h, p) \/ (Active(h, p) /\ end[x].state # "SYN_RCVD")
  BY Begins DEF Ends
<1>2. Fresh(h, p) /\ Young(h.e) /\ h.e.state \in OpeningStates /\ h.e.state = "CLOSED"
  BY <1>1 DEF Connect, Active, Fresh
<1>3. Sound(h, p, 0)
  BY <1>1, SoundBegins
<1>4. EndsIn(x, r)
  BY DEF Connect
<1> HIDE DEF h, p
<1>5. Later(h.e, t.e)
  BY <1>1, <1>2, SendSynStaysFresh
<1>6. /\ t \in Handled /\ Sound(t, p, 0) /\ Firm(h.e, t.e, p) /\ SameNumbers(h.e, t.e)
      /\ t.e.bound => t.e.state = "CLOSED"
  BY <1>1, <1>2, <1>3, SendSynSound
<1> HIDE DEF t
<1>7. t.e \in Sockets /\ "SYN_SENT" \in States
  BY <1>6 DEF Handled, States
<1>8. /\ r \in Handled /\ r.e \in Sockets /\ r.out = t.out /\ r.e.state = "SYN_SENT"
      /\ SameNumbers(t.e, r.e) /\ SameCounts(t.e, r.e)
      /\ r.e.bound = t.e.bound /\ r.e.lastAck = t.e.lastAck /\ r.e.retx = t.e.retx
  BY <1>6, <1>7, StateExact DEF StateOnly
<1> HIDE DEF r
<1>9. Later(t.e, r.e)
  BY <1>7, <1>8, SameIsLater
<1>10. t.e.nextTx = 0 /\ t.e.highTx = 0 /\ ~t.e.gotFin
  BY <1>2, <1>6 DEF Young, SameNumbers
<1>11. Firm(t.e, r.e, p)
  BY <1>6, <1>8, <1>10
  DEF Firm, Gone, Settled, Heeds, FinOut, Repeating, SameNumbers, ClosingStates
<1>12. PastEnd(r.e, p, 0)
  BY <1>7, <1>8, <1>10 DEF PastEnd, Over, SameNumbers, Sockets
<1>13. Core(r.e, p, 0)
  BY <1>6, <1>8, <1>10, <1>11, <1>12
  DEF Core, Sound, SameNumbers, SameCounts, Counted, Firm
<1>14. Sound(r, p, 0)
  BY <1>1, <1>6, <1>8, <1>9, <1>10, <1>11, <1>13, SoundMoves DEF SameNumbers
<1>15. Firm(h.e, r.e, p) /\ ~Finished(r.e)
  BY <1>6, <1>8, <1>10, <1>11, FirmFirm DEF Finished, SameNumbers
<1>16. Later(end[x], r.e)
  BY <1>1, <1>5, <1>7, <1>8, <1>9, LaterLater
<1> QED
  BY <1>4, <1>8, <1>14, <1>15, <1>16 DEF PassesAt, Passes, h, p

\* An end that may still write has not been told that its stream is over.
LEMMA WriterIsNotOver ==
  ASSUME NEW e \in Sockets, NEW p \in Sockets, Kept(p, e), Grown(e, p.rxNext),
         ~DoneWriting(e)
  PROVE  ~Over(e)
<1>1. Over(e) => Finished(p)
  BY OverIsFinished
<1> QED
  BY <1>1 DEF Kept, Whole, Received, Finished

\* The state of the FIN's sender is not changed when it is sent again.
LEMMA FinAgainSound ==
  ASSUME NEW p \in Sockets, NEW s, Active(s, p), Sound(s, p, 0),
         NEW wanted \in {{"FIN"}, {"FIN", "ACK"}}, FinOut(s.e, p),
         s.e.bound /\ Over(s.e) => Settled(p),
         s.e.bound => s.e.size = 0 \/ (s.e.retx = "RTO" /\ s.e.state = "LAST_ACK"),
         Finished(s.e) => Heeds(s.e)
  PROVE  LET r == SendEmptyPacket(s, wanted)
         IN /\ Passes(s, r, p) /\ r.e \in Sockets /\ SameNumbers(s.e, r.e)
            /\ r.e.state = s.e.state /\ r.e.bound = s.e.bound
<1> DEFINE st == s.e.state
           t == SendEmptyPacket(s, wanted)
           r == [t EXCEPT !.e.state = st]
<1>1. s \in Handled /\ s.e \in Sockets /\ st \in States
  BY DEF Active, Handled, Sockets
<1>2. /\ Moves(s.e.state, st) /\ FinOut(s.e, p)
      /\ s.e.bound => s.e.size = 0 \/ (s.e.retx = "RTO" /\ (st = "LAST_ACK" \/ s.e.closeCalled))
      /\ s.e.bound => s.e.size = 0 \/ st = "LAST_ACK" \/ ~Finished(s.e)
      /\ wanted \in {{"ACK"}, {"RST"}, {"FIN"}, {"FIN", "ACK"}}
  BY DEF Moves
<1> HIDE DEF st
<1>3. /\ r \in Handled /\ Sound(r, p, 0) /\ Firm(s.e, r.e, p)
      /\ SameNumbers(s.e, r.e) /\ r.e.state = st /\ r.e.bound = s.e.bound
  <2>1. CASE wanted = {"FIN"}
    BY <1>1, <1>2, <2>1, FinSound
  <2>2. CASE wanted = {"FIN", "ACK"}
    BY <1>1, <1>2, <2>2, FinSound
  <2> QED
    BY <2>1, <2>2
<1>4. t \in Handled /\ t.e \in Sockets /\ t.e.state = st
  <2>1. SentEmpty(s, wanted, t)
    BY <1>1, <1>2, SendEmptyExact
  <2> QED
    BY <2>1 DEF SentEmpty, st
<1> HIDE DEF t
<1>5. r = t
  BY <1>4 DEF Handled, Sockets
<1> HIDE DEF r
<1>6. Finished(r.e) => Heeds(r.e)
  BY <1>3 DEF Firm, Finished, SameNumbers
<1> QED
  BY <1>3, <1>4, <1>5, <1>6 DEF Passes, t, st

LEMMA ClosePasses ==
  ASSUME ConnInv, AllProper, NEW x \in Ends, Close(x)
  PROVE  PassesAt(x)
<1> DEFINE p == end[Peer(x)]
           h == Handle(x)
           s == [h EXCEPT !.e.closeCalled = TRUE]
           r == CloseSocket(s)
<1>1. /\ p \in Sockets /\ h.e = end[x] /\ h \in Handled /\ h.e \in Sockets
      /\ Fresh(h, p) \/ (Active(h, p) /\ end[x].state # "SYN_RCVD")
  BY Begins
<1>2. EndsIn(x, r) /\ h.e.state \notin {"LISTEN", "SYN_RCVD", "CLOSED"} /\ ~DoneWriting(h.e)
  BY <1>1 DEF Close, MayClose, Unclosed, DoneWriting
<1>3. /\ Sound(h, p, 0) /\ Repeating(h.e) /\ (Finished(h.e) => Heeds(h.e)) /\ Kept(p, h.e)
  BY <1>1, SoundBegins
<1> HIDE DEF h
<1>4. s \in Handled /\ s.out = h.out /\ s.e.closeCalled
  BY <1>1 DEF Handled, Sockets
<1>5. /\ s.e.una = h.e.una /\ s.e.nextTx = h.e.nextTx /\ s.e.highTx = h.e.highTx
      /\ s.e.size = h.e.size /\ s.e.written = h.e.written /\ s.e.rxNext = h.e.rxNext
      /\ s.e.read = h.e.read /\ s.e.gotFin = h.e.gotFin /\ s.e.fin = h.e.fin
  BY <1>1 DEF Handled, Sockets
<1>6. /\ s.e.state = h.e.state /\ s.e.bound = h.e.bound /\ s.e.retx = h.e.retx
      /\ s.e.lastAck = h.e.lastAck /\ s.e.sendPending = h.e.sendPending
      /\ s.e.delAck = h.e.delAck /\ s.e.timewait = h.e.timewait
  BY <1>1 DEF Handled, Sockets
<1>7. SameCounts(h.e, s.e) /\ s.e.shutdownSend = h.e.shutdownSend
  BY <1>1 DEF Handled, Sockets, SameCounts
<1> HIDE DEF s, p
<1>8. /\ Fresh(h, p) => Fresh(s, p)
      /\ Active(h, p) => Active(s, p)
      /\ Later(h.e, s.e)
  BY <1>1, <1>4, <1>5, <1>6, ClosedKeeps DEF DoneWriting
<1>9. s.e \in Sockets /\ SameStream(h.e, s.e) /\ (Counted(h.e) => Counted(s.e))
  BY <1>4, <1>5, <1>7 DEF Handled, SameStream, SameCounts, Counted
<1>10. Sound(s, p, 0) /\ Firm(h.e, s.e, p)
  BY <1>1, <1>2, <1>3, <1>4, <1>6, <1>7, <1>8, <1>9, AlikeSound DEF DoneWriting
<1>11. Repeating(s.e) /\ (Finished(s.e) => Heeds(s.e))
  BY <1>3, <1>5, <1>10 DEF Firm, Finished
<1>12. Passes(h, r, p) /\ Later(s.e, r.e) /\ r.e \in Sockets
  <2>1. CASE Active(s, p) /\ s.e.state # "SYN_RCVD"
    <3>1. DoneWriting(s.e)
      BY <1>4 DEF DoneWriting
    <3>2. Active(r, p) /\ Later(s.e, r.e)
      BY <1>1, <2>1, <3>1, CloseSocketKeeps
    <3>3. ~Over(s.e)
      <4>1. Grown(h.e, p.rxNext)
        BY <1>1, <1>2, <1>6, <2>1 DEF Fresh, Active, OpeningStates
      <4>2. ~Over(h.e)
        BY <1>1, <1>2, <1>3, <4>1, WriterIsNotOver
      <4> QED
        BY <1>5, <4>2 DEF Over
    <3>4. s.e.state = "ESTABLISHED" /\ s.e.bound => s.e.closeCalled /\ ~Finished(s.e)
      BY <1>4, <1>11 DEF Heeds
    <3>5. /\ r \in Handled /\ Sound(r, p, 0) /\ Firm(s.e, r.e, p)
          /\ r.e.bound => SameRx(s.e, r.e) /\ Moves(s.e.state, r.e.state)
      BY <1>1, <1>10, <1>11, <2>1, <3>1, <3>3, <3>4, CloseSocketSound
    <3> HIDE DEF r
    <3>6. Finished(r.e) => Heeds(r.e)
      BY <1>11, <3>5 DEF Firm, Heeds, SameRx, Finished
    <3>7. Firm(h.e, r.e, p)
      BY <1>10, <3>5, FirmFirm
    <3> QED
      BY <3>2, <3>5, <3>6, <3>7 DEF Passes, Handled
  <2>2. CASE Fresh(s, p)
    <3>1. s.e.state = "SYN_SENT"
      BY <1>2, <1>6, <2>2 DEF Fresh, OpeningStates
    <3> DEFINE o == [s EXCEPT !.e.closeOnEmpty = TRUE]
    <3>2. r \in {o, CloseAndNotify(SendRST(s))}
      BY <3>1 DEF CloseSocket, DoClose
    <3>3. o \in Handled /\ o.out = s.out
      BY <1>4, <1>9 DEF Handled, Sockets
    <3>4. /\ o.e.una = s.e.una /\ o.e.nextTx = s.e.nextTx /\ o.e.highTx = s.e.highTx
          /\ o.e.size = s.e.size /\ o.e.written = s.e.written /\ o.e.rxNext = s.e.rxNext
          /\ o.e.read = s.e.read /\ o.e.gotFin = s.e.gotFin /\ o.e.fin = s.e.fin
      BY <1>4, <1>9 DEF Handled, Sockets
    <3>5. /\ o.e.state = s.e.state /\ o.e.bound = s.e.bound /\ o.e.retx = s.e.retx
          /\ o.e.lastAck = s.e.lastAck /\ o.e.sendPending = s.e.sendPending
          /\ o.e.delAck = s.e.delAck /\ o.e.timewait = s.e.timewait
      BY <1>4, <1>9 DEF Handled, Sockets
    <3>6. /\ SameCounts(s.e, o.e) /\ o.e.closeCalled = s.e.closeCalled
          /\ o.e.shutdownSend = s.e.shutdownSend
      BY <1>4, <1>9 DEF Handled, Sockets, SameCounts
    <3> HIDE DEF o, r
    <3>7. Later(s.e, o.e)
      BY <1>1, <1>4, <2>2, <3>3, <3>4, <3>5, <3>6, ClosedKeeps DEF DoneWriting
    <3>8. SameStream(s.e, o.e) /\ (Counted(s.e) => Counted(o.e)) /\ o.e \in Sockets
      BY <3>3, <3>4, <3>6 DEF SameStream, SameCounts, Counted, Handled
    <3>9. ~(o.e.closeCalled /\ o.e.shutdownSend)
      BY <1>10, <3>6 DEF Sound, Core
    <3>10. Sound(o, p, 0) /\ Firm(s.e, o.e, p)
      BY <1>1, <1>4, <1>10, <3>3, <3>5, <3>6, <3>7, <3>8, <3>9, AlikeSound
    <3>11. Passes(h, o, p)
      BY <1>10, <1>11, <3>3, <3>4, <3>10, FirmFirm DEF Passes, Firm, Finished
    <3>12. Passes(h, CloseAndNotify(SendRST(s)), p)
      BY <1>1, <1>4, <1>10, RefusePasses, PassesOn
    <3>13. Later(s.e, CloseAndNotify(SendRST(s)).e)
      BY <1>1, <2>2, RefuseStaysFresh
    <3> QED
      BY <3>2, <3>7, <3>11, <3>12, <3>13 DEF Passes, Handled
  <2> QED
    BY <1>1, <1>6, <1>8, <2>1, <2>2
<1> HIDE DEF r
<1>13. Later(end[x], r.e)
  BY <1>1, <1>8, <1>9, <1>12, LaterLater
<1> QED
  BY <1>2, <1>12, <1>13 DEF PassesAt, p, h

LEMMA ShutdownSendPasses ==
  ASSUME ConnInv, AllProper, NEW x \in Ends, ShutdownSend(x)
  PROVE  PassesAt(x)
<1> DEFINE p == end[Peer(x)]
           h == Handle(x)
           s == [h EXCEPT !.e.shutdownSend = TRUE, !.e.closeOnEmpty = TRUE]
           f == SendEmptyPacket(s, {"FIN"})
           a == [f EXCEPT !.e.state = "FIN_WAIT_1"]
           b == [f EXCEPT !.e.state = "LAST_ACK"]
           r == CASE s.e.size = 0 /\ s.e.state = "ESTABLISHED" -> a
                  [] s.e.size = 0 /\ s.e.state = "CLOSE_WAIT" -> b
                  [] OTHER -> s
<1>1. /\ p \in Sockets /\ h.e = end[x] /\ h \in Handled /\ h.e \in Sockets
      /\ Fresh(h, p) \/ (Active(h, p) /\ end[x].state # "SYN_RCVD")
  BY Begins
<1>2. EndsIn(x, r) /\ ~DoneWriting(h.e)
  BY <1>1 DEF ShutdownSend, MayClose, Unclosed, DoneWriting
<1>3. /\ Sound(h, p, 0) /\ Repeating(h.e) /\ (Finished(h.e) => Heeds(h.e)) /\ Kept(p, h.e)
  BY <1>1, SoundBegins
<1> HIDE DEF h
<1>4. s \in Handled /\ s.out = h.out /\ s.e.shutdownSend
  <2>1. [h.e EXCEPT !.shutdownSend = TRUE, !.closeOnEmpty = TRUE] \in Sockets
    BY <1>1 DEF Sockets
  <2>2. s = [h EXCEPT !.e = [h.e EXCEPT !.shutdownSend = TRUE, !.closeOnEmpty = TRUE]]
    BY <1>1 DEF Handled
  <2>3. s.e.shutdownSend
    BY <1>1 DEF Handled, Sockets
  <2> QED
    BY <1>1, <2>1, <2>2, <2>3 DEF Handled
<1>5. /\ s.e.una = h.e.una /\ s.e.nextTx = h.e.nextTx /\ s.e.highTx = h.e.highTx
      /\ s.e.size = h.e.size /\ s.e.written = h.e.written /\ s.e.rxNext = h.e.rxNext
      /\ s.e.read = h.e.read /\ s.e.gotFin = h.e.gotFin /\ s.e.fin = h.e.fin
  BY <1>1 DEF Handled, Sockets
<1>6. /\ s.e.state = h.e.state /\ s.e.bound = h.e.bound /\ s.e.retx = h.e.retx
      /\ s.e.lastAck = h.e.lastAck /\ s.e.sendPending = h.e.sendPending
      /\ s.e.delAck = h.e.delAck /\ s.e.timewait = h.e.timewait
  BY <1>1 DEF Handled, Sockets
<1>7. SameCounts(h.e, s.e) /\ s.e.closeCalled = h.e.closeCalled
  BY <1>1 DEF Handled, Sockets, SameCounts
<1> HIDE DEF s, p
<1>8. /\ Fresh(h, p) => Fresh(s, p)
      /\ Active(h, p) => Active(s, p)
      /\ Later(h.e, s.e)
  BY <1>1, <1>4, <1>5, <1>6, ClosedKeeps DEF DoneWriting
<1>9. s.e \in Sockets /\ SameStream(h.e, s.e) /\ (Counted(h.e) => Counted(s.e))
  BY <1>4, <1>5, <1>7 DEF Handled, SameStream, SameCounts, Counted
<1>10. Sound(s, p, 0) /\ Firm(h.e, s.e, p)
  BY <1>1, <1>2, <1>3, <1>4, <1>6, <1>7, <1>8, <1>9, AlikeSound DEF DoneWriting
<1>11. Finished(s.e) => Heeds(s.e)
  BY <1>3, <1>5, <1>10 DEF Firm, Finished
<1>12. Passes(s, r, p) /\ Later(s.e, r.e)
  <2>1. CASE s.e.size = 0 /\ s.e.state \in {"ESTABLISHED", "CLOSE_WAIT"}
    <3>1. Active(s, p)
      BY <1>1, <1>6, <1>8, <2>1 DEF Fresh, OpeningStates
    <3>2. ~Over(s.e)
      <4>1. Grown(h.e, p.rxNext)
        BY <1>1, <1>6, <2>1 DEF Fresh, Active, OpeningStates
      <4>2. ~Over(h.e)
        BY <1>1, <1>2, <1>3, <4>1, WriterIsNotOver
      <4> QED
        BY <1>5, <4>2 DEF Over
    <3>3. /\ s.e.state = "ESTABLISHED" => Moves(s.e.state, "FIN_WAIT_1")
          /\ s.e.state = "CLOSE_WAIT" => Moves(s.e.state, "LAST_ACK")
          /\ "FIN_WAIT_1" \in States /\ "LAST_ACK" \in States
      BY DEF Moves, States
    <3> HIDE DEF f
    <3>4. CASE s.e.state = "ESTABLISHED"
      <4>1. /\ a \in Handled /\ Sound(a, p, 0) /\ Firm(s.e, a.e, p)
            /\ SameNumbers(s.e, a.e) /\ a.e.state = "FIN_WAIT_1"
        BY <1>1, <1>10, <2>1, <3>1, <3>2, <3>3, <3>4, FinSound DEF f
      <4>2. r = a
        BY <2>1, <3>4
      <4> HIDE DEF a, r
      <4>3. Later(s.e, a.e)
        BY <1>9, <4>1, SameIsLater DEF Handled
      <4> QED
        BY <1>11, <4>1, <4>2, <4>3 DEF Passes, Firm, Finished, SameNumbers
    <3>5. CASE s.e.state = "CLOSE_WAIT"
      <4>1. /\ b \in Handled /\ Sound(b, p, 0) /\ Firm(s.e, b.e, p)
            /\ SameNumbers(s.e, b.e) /\ b.e.state = "LAST_ACK"
        BY <1>1, <1>10, <2>1, <3>1, <3>2, <3>3, <3>5, FinSound DEF f
      <4>2. r = b
        BY <2>1, <3>5
      <4> HIDE DEF b, r
      <4>3. Later(s.e, b.e)
        BY <1>9, <4>1, SameIsLater DEF Handled
      <4> QED
        BY <1>11, <4>1, <4>2, <4>3 DEF Passes, Firm, Finished, SameNumbers
    <3> QED
      BY <2>1, <3>4, <3>5
  <2>2. CASE ~(s.e.size = 0 /\ s.e.state \in {"ESTABLISHED", "CLOSE_WAIT"})
    <3>1. r = s
      BY <2>2
    <3>2. Later(s.e, s.e)
      BY <1>9, SameIsLater DEF SameNumbers
    <3> QED
      BY <1>1, <1>4, <1>10, <1>11, <3>1, <3>2, SamePasses
  <2> QED
    BY <2>1, <2>2
<1> HIDE DEF r
<1>13. Later(end[x], r.e)
  BY <1>1, <1>8, <1>9, <1>12, LaterLater DEF Passes, Handled
<1>14. Passes(h, r, p)
  BY <1>1, <1>10, <1>12, PassesOn
<1> QED
  BY <1>2, <1>13, <1>14 DEF PassesAt, p, h

LEMMA SendPendingPasses ==
  ASSUME ConnInv, AllProper, NEW x \in Ends, SendPendingEvent(x)
  PROVE  PassesAt(x)
<1> DEFINE p == end[Peer(x)]
           h == Handle(x)
           s == [h EXCEPT !.e.sendPending = FALSE]
           r == SendPendingData(s)
<1>1. /\ p \in Sockets /\ h.e = end[x] /\ h \in Handled /\ h.e \in Sockets
      /\ Fresh(h, p) \/ (Active(h, p) /\ end[x].state # "SYN_RCVD")
  BY Begins
<1>2. EndsIn(x, r) /\ h.e.sendPending
  BY <1>1 DEF SendPendingEvent
<1>3. Sound(h, p, 0) /\ (Finished(h.e) => Heeds(h.e))
  BY <1>1, SoundBegins
<1> HIDE DEF h
<1>4. Active(h, p) /\ h.e.state # "SYN_RCVD"
  BY <1>1, <1>2 DEF Fresh, Young
<1>5. s \in Handled /\ s.out = h.out
  BY <1>1, ZenonT(60) DEF Handled, Sockets
<1>6. /\ SameNumbers(h.e, s.e) /\ s.e.state = h.e.state /\ s.e.bound = h.e.bound
      /\ s.e.retx = h.e.retx /\ s.e.lastAck = h.e.lastAck
  BY <1>1 DEF Handled, Sockets, SameNumbers
<1>7. SameCounts(h.e, s.e)
  BY <1>1 DEF Handled, Sockets, SameCounts
<1> HIDE DEF s, p
<1>8. Active(s, p) /\ Later(h.e, s.e) /\ s.e \in Sockets
  BY <1>1, <1>4, <1>5, <1>6, EventKeeps DEF Handled
<1>9. Counted(h.e) => Counted(s.e)
  BY <1>7 DEF Counted, SameCounts
<1>10. Sound(s, p, 0) /\ Firm(h.e, s.e, p)
  BY <1>1, <1>3, <1>5, <1>6, <1>9, SameSound
<1>11. Later(s.e, r.e)
  BY <1>1, <1>8, SendPendingKeeps
<1>12. /\ r \in Handled /\ Sound(r, p, 0) /\ Firm(s.e, r.e, p)
       /\ r.e.rxNext = s.e.rxNext /\ r.e.gotFin = s.e.gotFin /\ r.e.fin = s.e.fin
  BY <1>1, <1>4, <1>6, <1>8, <1>10, SendPendingSound
<1> HIDE DEF r
<1>13. Firm(h.e, r.e, p)
  BY <1>10, <1>12, FirmFirm
<1>14. Passes(h, r, p)
  BY <1>3, <1>6, <1>12, <1>13 DEF Passes, Firm, Finished, SameNumbers
<1>15. Later(end[x], r.e)
  BY <1>1, <1>8, <1>11, <1>12, LaterLater DEF Handled
<1> QED
  BY <1>2, <1>14, <1>15 DEF PassesAt, p, h

LEMMA DelAckPasses ==
  ASSUME ConnInv, AllProper, NEW x \in Ends, DelAckTimeout(x)
  PROVE  PassesAt(x)
<1> DEFINE p == end[Peer(x)]
           h == Handle(x)
           s == [h EXCEPT !.e.delAck = FALSE, !.e.delAckCount = 0]
           r == SendEmptyPacket(s, {"ACK"})
<1>1. /\ p \in Sockets /\ h.e = end[x] /\ h \in Handled /\ h.e \in Sockets
      /\ Fresh(h, p) \/ (Active(h, p) /\ end[x].state # "SYN_RCVD")
  BY Begins
<1>2. EndsIn(x, r) /\ h.e.delAck
  BY <1>1 DEF DelAckTimeout
<1>3. Sound(h, p, 0) /\ (Finished(h.e) => Heeds(h.e))
  BY <1>1, SoundBegins
<1> HIDE DEF h
<1>4. Active(h, p) /\ h.e.state # "SYN_RCVD"
  BY <1>1, <1>2 DEF Fresh, Young
<1>5. s \in Handled /\ s.out = h.out
  <2>1. [h.e EXCEPT !.delAck = FALSE, !.delAckCount = 0] \in Sockets
    <3>1. 0 \in Int
      OBVIOUS
    <3> QED
      BY <1>1, <3>1, DelAckTyped
  <2>2. s = [h EXCEPT !.e = [h.e EXCEPT !.delAck = FALSE, !.delAckCount = 0]]
    BY <1>1 DEF Handled
  <2> QED
    BY <1>1, <2>1, <2>2 DEF Handled
<1>6. /\ SameNumbers(h.e, s.e) /\ s.e.state = h.e.state /\ s.e.bound = h.e.bound
      /\ s.e.retx = h.e.retx /\ s.e.lastAck = h.e.lastAck
  BY <1>1 DEF Handled, Sockets, SameNumbers
<1>7. /\ s.e.synCount = h.e.synCount /\ s.e.dataRetrCount = h.e.dataRetrCount
      /\ s.e.delAckCount = 0
  BY <1>1 DEF Handled, Sockets
<1> HIDE DEF s, p
<1>8. Active(s, p) /\ Later(h.e, s.e) /\ s.e \in Sockets
  BY <1>1, <1>4, <1>5, <1>6, EventKeeps DEF Handled
<1>9. Counted(h.e) => Counted(s.e)
  BY <1>7, ConnectionAssumption DEF Counted
<1>10. Sound(s, p, 0) /\ Firm(h.e, s.e, p)
  BY <1>1, <1>3, <1>5, <1>6, <1>9, SameSound
<1>11. Later(s.e, r.e)
  BY <1>1, <1>8, SendEmptyKeeps
<1>12. Finished(s.e) => Heeds(s.e)
  BY <1>3, <1>6, <1>10 DEF Firm, Finished, SameNumbers
<1>13. Passes(s, r, p)
  BY <1>1, <1>5, <1>10, <1>12, AcksPasses
<1> HIDE DEF r
<1>14. Passes(h, r, p)
  BY <1>1, <1>10, <1>13, PassesOn
<1>15. Later(end[x], r.e)
  BY <1>1, <1>8, <1>11, <1>13, LaterLater DEF Passes, Handled
<1> QED
  BY <1>2, <1>14, <1>15 DEF PassesAt, p, h

LEMMA TimeWaitPasses ==
  ASSUME ConnInv, AllProper, NEW x \in Ends, TimeWaitEnds(x)
  PROVE  PassesAt(x)
<1> DEFINE p == end[Peer(x)]
           h == Handle(x)
           r == CloseAndNotify(h)
<1>1. /\ p \in Sockets /\ h.e = end[x] /\ h \in Handled /\ h.e \in Sockets
      /\ Fresh(h, p) \/ (Active(h, p) /\ end[x].state # "SYN_RCVD")
  BY Begins
<1>2. EndsIn(x, r) /\ h.e.timewait
  BY <1>1 DEF TimeWaitEnds
<1>3. Sound(h, p, 0)
  BY <1>1, SoundBegins
<1> HIDE DEF h
<1>4. Active(h, p)
  BY <1>1, <1>2 DEF Fresh, Young
<1>5. Later(end[x], r.e)
  BY <1>1, <1>4, CloseAndNotifyKeeps
<1>6. Passes(h, r, p)
  BY <1>1, <1>3, RefusePasses
<1> QED
  BY <1>2, <1>5, <1>6 DEF PassesAt, p, h

\* One attempt less
LEMMA CountSound ==
  ASSUME NEW p \in Sockets, NEW s, Active(s, p), Sound(s, p, 0), s.e.dataRetrCount > 0
  PROVE  LET r == [s EXCEPT !.e.dataRetrCount = @ - 1]
         IN /\ Active(r, p) /\ Later(s.e, r.e) /\ Sound(r, p, 0) /\ Firm(s.e, r.e, p)
            /\ SameNumbers(s.e, r.e) /\ r.e.state = s.e.state /\ r.e.bound = s.e.bound
            /\ r.e.retx = s.e.retx
<1> DEFINE n == s.e.dataRetrCount - 1
           f == [s.e EXCEPT !.dataRetrCount = n]
           r == [s EXCEPT !.e.dataRetrCount = @ - 1]
<1>1. s \in Handled /\ s.e \in Sockets /\ n \in Nat
  BY DEF Active, Handled, Sockets
<1>2. r = [s EXCEPT !.e = f]
  BY <1>1 DEF Handled, Sockets
<1>3. n \in Nat /\ (s.e.dataRetrCount \in 0..DataRetries => n \in 0..DataRetries)
  BY <1>1, ConnectionAssumption DEF Sockets
<1>4. Active(r, p) /\ Later(s.e, r.e) /\ SameNumbers(s.e, r.e) /\ r.e.state = s.e.state
  BY CountKeeps
<1> HIDE DEF n, r
<1>5. /\ f \in Sockets /\ f.bound = s.e.bound /\ f.retx = s.e.retx /\ f.lastAck = s.e.lastAck
  BY <1>1, CountTyped
<1>6. f.synCount = s.e.synCount /\ f.dataRetrCount = n /\ f.delAckCount = s.e.delAckCount
  BY <1>1 DEF Sockets
<1> HIDE DEF f
<1>7. r \in Handled /\ r.out = s.out /\ r.e = f
  BY <1>1, <1>2, <1>5 DEF Handled
<1>8. Counted(s.e) => Counted(r.e)
  BY <1>3, <1>6, <1>7 DEF Counted
<1>9. Sound(r, p, 0) /\ Firm(s.e, r.e, p)
  BY <1>1, <1>4, <1>5, <1>7, <1>8, SameSound
<1> QED
  BY <1>4, <1>5, <1>7, <1>9 DEF r

LEMMA LastAckPasses ==
  ASSUME ConnInv, AllProper, NEW x \in Ends, LastAckTimeout(x)
  PROVE  PassesAt(x)
<1> DEFINE p == end[Peer(x)]
           h == Handle(x)
           s == [h EXCEPT !.e.lastAck = FALSE]
           c == [s EXCEPT !.e.dataRetrCount = @ - 1]
           again == SendEmptyPacket(c, {"FIN", "ACK"})
           a == [again EXCEPT !.e.lastAck = TRUE]
           d == [s EXCEPT !.e = DeallocateEndPoint([@ EXCEPT !.failed = TRUE])]
           r == CASE s.e.state # "LAST_ACK" -> s
                  [] s.e.state = "LAST_ACK" /\ s.e.dataRetrCount = 0 -> d
                  [] OTHER -> a
<1>1. /\ p \in Sockets /\ h.e = end[x] /\ h \in Handled /\ h.e \in Sockets
      /\ Fresh(h, p) \/ (Active(h, p) /\ end[x].state # "SYN_RCVD")
  BY Begins
<1>2. EndsIn(x, r) /\ h.e.lastAck
  BY <1>1 DEF LastAckTimeout
<1>3. Sound(h, p, 0) /\ Repeating(h.e) /\ (Finished(h.e) => Heeds(h.e))
  BY <1>1, SoundBegins
<1> HIDE DEF h
<1>4. Active(h, p)
  BY <1>1, <1>2 DEF Fresh, Young
<1>5. s \in Handled /\ s.out = h.out
  BY <1>1 DEF Handled, Sockets
<1>6. /\ SameNumbers(h.e, s.e) /\ s.e.state = h.e.state /\ s.e.bound = h.e.bound
      /\ s.e.retx = h.e.retx /\ ~s.e.lastAck
  BY <1>1 DEF Handled, Sockets, SameNumbers
<1>7. SameCounts(h.e, s.e)
  BY <1>1 DEF Handled, Sockets, SameCounts
<1> HIDE DEF s, p
<1>8. Active(s, p) /\ Later(h.e, s.e) /\ s.e \in Sockets
  BY <1>1, <1>4, <1>5, <1>6, EventKeeps DEF Handled
<1>9. SameStream(h.e, s.e) /\ (Counted(h.e) => Counted(s.e))
      /\ (h.e.closeCalled => s.e.closeCalled) /\ ~(s.e.closeCalled /\ s.e.shutdownSend)
  BY <1>3, <1>6, <1>7 DEF SameNumbers, SameStream, Counted, SameCounts, Sound, Core
<1>10. Sound(s, p, 0) /\ Firm(h.e, s.e, p)
  BY <1>1, <1>3, <1>5, <1>6, <1>8, <1>9, AlikeSound
<1>11. Repeating(s.e) /\ (Finished(s.e) => Heeds(s.e))
  BY <1>3, <1>6, <1>10 DEF Firm, Finished, SameNumbers
<1>12. Passes(s, r, p) /\ Later(s.e, r.e)
  <2>1. CASE s.e.state # "LAST_ACK"
    <3>1. r = s
      BY <2>1
    <3>2. Later(s.e, s.e)
      BY <1>8, SameIsLater DEF SameNumbers
    <3> QED
      BY <1>1, <1>5, <1>10, <1>11, <3>1, <3>2, SamePasses
  <2>2. CASE s.e.state = "LAST_ACK" /\ s.e.dataRetrCount = 0
    <3>1. r = d
      BY <2>2
    <3>2. Later(s.e, d.e)
      BY <1>1, <1>8, DropKeeps
    <3>3. d \in Handled /\ Sound(d, p, 0) /\ Firm(s.e, d.e, p) /\ Proper(d.e, p)
      BY <1>1, <1>5, <1>10, DropSound
    <3> HIDE DEF d, r
    <3> QED
      BY <3>1, <3>2, <3>3 DEF Passes, Proper
  <2>3. CASE s.e.state = "LAST_ACK" /\ s.e.dataRetrCount # 0
    <3>1. r = a
      BY <2>3
    <3>2. s.e.dataRetrCount > 0
      BY <1>8, <2>3 DEF Sockets
    <3>3. /\ Active(c, p) /\ Later(s.e, c.e) /\ Sound(c, p, 0) /\ Firm(s.e, c.e, p)
          /\ SameNumbers(s.e, c.e) /\ c.e.state = "LAST_ACK" /\ c.e.retx = s.e.retx
      BY <1>1, <1>8, <1>10, <2>3, <3>2, CountSound
    <3> HIDE DEF c
    <3>4. DoneWriting(c.e) /\ AllSent(c.e) /\ c.e.nextTx >= 1 + c.e.written
      BY <3>3 DEF Active, Grown, FinFollowsData, ClosingStates
    <3>5. Active(again, p) /\ Later(c.e, again.e)
      BY <1>1, <3>3, <3>4, SendEmptyKeeps
    <3>6. /\ FinOut(c.e, p) /\ Repeating(c.e)
          /\ c.e.bound /\ Over(c.e) => Settled(p)
          /\ Finished(c.e) => Heeds(c.e)
      BY <1>11, <3>3
      DEF FinOut, ClosingStates, Firm, Finished, SameNumbers, Sound, Core, PastEnd
    <3>7. c.e.bound => c.e.size = 0 \/ (c.e.retx = "RTO" /\ c.e.state = "LAST_ACK")
      <4>1. c.e.size \in {0, 1} /\ c.e.written \in {0, 1} /\ c.e.size <= c.e.written
        BY <3>3 DEF Active, Handled, Sockets, Whole
      <4> QED
        BY <3>3, <3>4, <3>6, <4>1 DEF Repeating, AllSent
    <3>8. /\ Passes(c, again, p) /\ again.e \in Sockets /\ SameNumbers(c.e, again.e)
          /\ again.e.state = c.e.state
      BY <1>1, <3>3, <3>6, <3>7, FinAgainSound
    <3> HIDE DEF again
    <3>9. again \in Handled /\ c.e \in Sockets
      BY <3>3, <3>5 DEF Active, Handled
    <3>10. a \in Handled /\ a.out = again.out
      BY <3>8, <3>9 DEF Handled, Sockets
    <3>11. SameNumbers(again.e, a.e) /\ a.e.state = again.e.state
           /\ a.e.bound = again.e.bound /\ a.e.retx = again.e.retx
      BY <3>8, <3>9 DEF Handled, Sockets, SameNumbers
    <3>12. SameCounts(again.e, a.e)
      BY <3>8, <3>9 DEF Handled, Sockets, SameCounts
    <3> HIDE DEF a, r
    <3>13. Active(a, p) /\ Later(again.e, a.e) /\ a.e \in Sockets
      BY <1>1, <3>3, <3>5, <3>8, <3>10, <3>11, EventKeeps DEF Handled
    <3>14. SameStream(again.e, a.e) /\ (Counted(again.e) => Counted(a.e))
           /\ (again.e.closeCalled => a.e.closeCalled)
           /\ ~(a.e.closeCalled /\ a.e.shutdownSend)
      BY <3>8, <3>11, <3>12
      DEF SameNumbers, SameStream, Counted, SameCounts, Passes, Sound, Core
    <3>15. Sound(again, p, 0)
      BY <3>8 DEF Passes
    <3>16. Sound(a, p, 0) /\ Firm(again.e, a.e, p)
      BY <1>1, <3>3, <3>8, <3>9, <3>10, <3>11, <3>13, <3>14, <3>15, AlikeSound
    <3>17. Passes(c, a, p)
      BY <3>8, <3>10, <3>11, <3>16, FirmFirm DEF Passes, Firm, Finished, SameNumbers
    <3>18. Passes(s, a, p)
      BY <1>1, <3>3, <3>17, PassesOn
    <3>19. Later(s.e, again.e)
      BY <1>8, <3>3, <3>5, <3>8, <3>9, LaterLater
    <3>20. Later(s.e, a.e)
      BY <1>8, <3>8, <3>13, <3>19, LaterLater
    <3> QED
      BY <3>1, <3>18, <3>20
  <2> QED
    BY <2>1, <2>2, <2>3
<1> HIDE DEF r
<1>13. Passes(h, r, p)
  BY <1>1, <1>10, <1>12, PassesOn
<1>14. Later(end[x], r.e)
  BY <1>1, <1>8, <1>12, LaterLater DEF Passes, Handled
<1> QED
  BY <1>2, <1>13, <1>14 DEF PassesAt, p, h

\* An event is over.
LEMMA EventOverSound ==
  ASSUME NEW p \in Sockets, NEW s \in Handled, NEW r \in Handled, Sound(s, p, 0),
         SameNumbers(s.e, r.e), SameCounts(s.e, r.e), r.out = s.out,
         r.e.state = s.e.state, r.e.bound = s.e.bound, r.e.retx = "none",
         r.e.lastAck = s.e.lastAck, Repeating(r.e)
  PROVE  Sound(r, p, 0) /\ Firm(s.e, r.e, p)
<1>1. s.e \in Sockets /\ r.e \in Sockets
  BY DEF Handled
<1>2. Firm(s.e, r.e, p)
  BY DEF Firm, Gone, Settled, Heeds, FinOut, SameNumbers
<1>3. PastEnd(r.e, p, 0)
  BY DEF Sound, Core, PastEnd, Over, Acked, SameNumbers
<1>4. Core(r.e, p, 0)
  BY <1>2, <1>3 DEF Core, Sound, SameNumbers, SameCounts, Counted, Finished, Firm
<1>5. Later(s.e, r.e)
  BY <1>1, SameIsLater
<1> QED
  BY <1>2, <1>4, <1>5, SoundMoves DEF SameNumbers

\* The retransmission timeout with data: it is sent again, or the socket gives up.
LEMMA DataTimeoutSound ==
  ASSUME NEW p \in Sockets, NEW h, Active(h, p), h.e.state # "SYN_RCVD", Sound(h, p, 0),
         h.e.retx = "RTO", h.e.size > 0, Finished(h.e) => Heeds(h.e),
         NEW s, Active(s, p), SameNumbers(h.e, s.e), SameCounts(h.e, s.e), s.out = h.out,
         s.e.state = h.e.state, s.e.bound = h.e.bound, s.e.lastAck = h.e.lastAck,
         s.e.retx = "none"
  PROVE  Passes(h, ReTxTimeout(s), p)
<1>1. /\ s \in Handled /\ s.e \in Sockets /\ h \in Handled /\ h.e \in Sockets
      /\ s.e.size > 0 /\ s.e.dataRetrCount \in Nat /\ s.e.dataRetrCount = h.e.dataRetrCount
  BY DEF Active, Handled, Sockets, SameNumbers, SameCounts
<1>2. CASE s.e.dataRetrCount = 0
  <2> DEFINE g == [s.e EXCEPT !.failed = TRUE]
             f == DeallocateEndPoint(g)
             r == [s EXCEPT !.e = f]
  <2>1. ReTxTimeout(s) = r
    BY <1>1, <1>2 DEF ReTxTimeout
  <2>2. g \in Sockets /\ SameNumbers(s.e, g) /\ g.state = s.e.state /\ SameCounts(s.e, g)
    BY <1>1 DEF Sockets, SameNumbers, SameCounts
  <2> HIDE DEF g
  <2>3. f \in Sockets /\ SameNumbers(g, f) /\ f.state = g.state /\ ~f.bound
        /\ SameCounts(g, f)
    BY <2>2, DeallocateIs, DeallocateCounts
  <2> HIDE DEF f
  <2>4. r \in Handled /\ r.out = h.out /\ r.e = f
    BY <1>1, <2>3 DEF Handled
  <2> HIDE DEF r
  <2>5. SameNumbers(h.e, r.e) /\ SameCounts(h.e, r.e) /\ r.e.state = h.e.state
        /\ ~r.e.bound
    BY <2>2, <2>3, <2>4 DEF SameNumbers, SameCounts
  <2>6. Later(h.e, r.e)
    BY <1>1, <2>3, <2>4, <2>5, SameIsLater
  <2>7. Sound(r, p, 0) /\ Firm(h.e, r.e, p) /\ Proper(r.e, p)
    BY <1>1, <2>4, <2>5, <2>6, GoneSound
  <2> QED
    BY <2>1, <2>4, <2>7 DEF Passes, Proper
<1>3. CASE s.e.dataRetrCount > 0
  <2> DEFINE a == [h EXCEPT !.e.dataRetrCount = @ - 1]
             c == [s EXCEPT !.e.dataRetrCount = @ - 1]
             r == SendDataPacket(c)
  <2>1. ReTxTimeout(s) = r
    BY <1>1, <1>3 DEF ReTxTimeout
  <2>2. /\ Active(a, p) /\ Sound(a, p, 0) /\ Firm(h.e, a.e, p) /\ SameNumbers(h.e, a.e)
        /\ a.e.state = h.e.state /\ a.e.bound = h.e.bound /\ a.e.retx = "RTO"
    BY <1>1, <1>3, CountSound
  <2>3. /\ Active(c, p) /\ SameNumbers(s.e, c.e) /\ c.e.state = s.e.state
    BY <1>3, CountKeeps
  <2>4. /\ a.out = h.out /\ c.out = s.out /\ c.e.bound = s.e.bound
        /\ a.e.lastAck = h.e.lastAck /\ c.e.lastAck = s.e.lastAck
        /\ a.e.synCount = h.e.synCount /\ c.e.synCount = s.e.synCount
        /\ a.e.dataRetrCount = h.e.dataRetrCount - 1
        /\ c.e.dataRetrCount = s.e.dataRetrCount - 1
        /\ a.e.delAckCount = h.e.delAckCount /\ c.e.delAckCount = s.e.delAckCount
        /\ c.e.retx = s.e.retx
    BY <1>1 DEF Handled, Sockets
  <2> HIDE DEF a, c
  <2>5. /\ SameNumbers(a.e, c.e) /\ SameCounts(a.e, c.e) /\ a.out = c.out
        /\ c.e.state = a.e.state /\ c.e.bound = a.e.bound /\ c.e.lastAck = a.e.lastAck
    BY <2>2, <2>3, <2>4 DEF SameNumbers, SameCounts
  <2>6. /\ a.e \in Sockets /\ c.e \in Sockets /\ c \in Handled /\ a.e.size > 0
        /\ c.e.size > 0 /\ c.e.retx = "none"
    BY <1>1, <2>2, <2>3, <2>4 DEF Active, Handled, SameNumbers
  <2>7. Active(r, p) /\ Later(c.e, r.e)
    BY <2>3, <2>6, SendDataKeeps
  <2>8. SentData(c, r)
    BY <2>6, SendDataExact
  <2> HIDE DEF r
  <2>9. r.e \in Sockets /\ Later(a.e, c.e)
    BY <2>5, <2>6, <2>8, SameIsLater DEF SentData
  <2>10. Later(a.e, r.e)
    BY <2>6, <2>7, <2>9, LaterLater
  <2>11. SentData(a, r)
    BY <2>2, <2>5, <2>6, <2>8 DEF SentData, SameNumbers, SameCounts, Counted
  <2>12. /\ r \in Handled /\ Sound(r, p, 0) /\ Firm(a.e, r.e, p)
         /\ r.e.rxNext = a.e.rxNext /\ r.e.gotFin = a.e.gotFin /\ r.e.fin = a.e.fin
    BY <2>2, <2>6, <2>10, <2>11, SentDataSound
  <2>13. Firm(h.e, r.e, p)
    BY <2>2, <2>12, FirmFirm
  <2>14. Passes(h, r, p)
    BY <2>2, <2>12, <2>13 DEF Passes, Firm, Finished, SameNumbers
  <2> QED
    BY <2>1, <2>14 DEF r
<1> QED
  BY <1>1, <1>2, <1>3

LEMMA RetxPasses ==
  ASSUME ConnInv, AllProper, NEW x \in Ends, RetxEvent(x)
  PROVE  PassesAt(x)
<1> DEFINE p == end[Peer(x)]
           h == Handle(x)
           s == [h EXCEPT !.e.retx = "none"]
<1>1. /\ p \in Sockets /\ h.e = end[x] /\ h \in Handled /\ h.e \in Sockets
      /\ Fresh(h, p) \/ (Active(h, p) /\ end[x].state # "SYN_RCVD")
  BY Begins
<1>2. /\ h.e.retx \in {"RTO", "SYN", "SYN+ACK", "FIN"}
      /\ h.e.retx = "RTO" => EndsIn(x, ReTxTimeout(s))
      /\ h.e.retx = "SYN" => EndsIn(x, SendEmptyPacket(s, {"SYN"}))
      /\ h.e.retx = "SYN+ACK" => EndsIn(x, SendEmptyPacket(s, {"SYN", "ACK"}))
      /\ h.e.retx = "FIN" => EndsIn(x, SendEmptyPacket(s, {"FIN"}))
  BY <1>1 DEF RetxEvent
<1>3. Sound(h, p, 0) /\ (Finished(h.e) => Heeds(h.e))
  BY <1>1, SoundBegins
<1> HIDE DEF h
<1>4. s \in Handled /\ s.out = h.out
  BY <1>1 DEF Handled, Sockets
<1>5. /\ SameNumbers(h.e, s.e) /\ s.e.state = h.e.state /\ s.e.bound = h.e.bound
      /\ s.e.retx = "none" /\ s.e.lastAck = h.e.lastAck
      /\ s.e.sendPending = h.e.sendPending /\ s.e.delAck = h.e.delAck
      /\ s.e.timewait = h.e.timewait
  BY <1>1 DEF Handled, Sockets, SameNumbers
<1>6. SameCounts(h.e, s.e)
  BY <1>1 DEF Handled, Sockets, SameCounts
<1> HIDE DEF s, p
<1>7. s.e \in Sockets
  BY <1>4 DEF Handled
<1>8. Finished(s.e) => Heeds(s.e)
  BY <1>3, <1>5 DEF Finished, Heeds, SameNumbers
<1>9. \E r : EndsIn(x, r) /\ Passes(h, r, p) /\ Later(s.e, r.e) /\ Later(h.e, s.e)
  <2>1. CASE Active(h, p) /\ h.e.state # "SYN_RCVD"
    <3>1. Active(s, p) /\ Later(h.e, s.e)
      BY <1>1, <1>4, <1>5, <2>1, EventKeeps
    <3>2. h.e.retx \in {"FIN", "RTO"}
      BY <1>2, <2>1 DEF Active, Grown
    <3>3. CASE h.e.retx = "RTO" /\ h.e.size > 0
      <4>1. Passes(h, ReTxTimeout(s), p)
        BY <1>1, <1>3, <1>4, <1>5, <1>6, <2>1, <3>1, <3>3, DataTimeoutSound
      <4>2. Later(s.e, ReTxTimeout(s).e)
        BY <1>1, <3>1, ReTxTimeoutKeeps
      <4> QED
        BY <1>2, <3>1, <3>3, <4>1, <4>2
    <3>4. CASE ~(h.e.retx = "RTO" /\ h.e.size > 0)
      <4>1. s.e.bound => s.e.size = 0
        BY <1>1, <1>3, <1>5, <3>2, <3>4 DEF Sound, Core, SameNumbers, Sockets
      <4>2. Sound(s, p, 0) /\ Firm(h.e, s.e, p)
        <5>1. Repeating(s.e)
          BY <4>1 DEF Repeating
        <5> QED
          BY <1>1, <1>3, <1>4, <1>5, <1>6, <5>1, EventOverSound
      <4> DEFINE r == SendEmptyPacket(s, {"FIN"})
      <4>3. CASE h.e.retx = "FIN" \/ s.e.state \in {"FIN_WAIT_1", "CLOSING"}
        <5>1. FinOut(s.e, p) /\ (s.e.bound /\ Over(s.e) => Settled(p))
          <6>1. FinOut(h.e, p)
            BY <1>3, <1>5, <4>3 DEF Sound, Core, FinOut, ClosingStates
          <6>2. FinOut(s.e, p)
            BY <4>2, <6>1 DEF Firm
          <6>3. ~Acked(h.e, 0)
            BY <1>1 DEF Acked, Sockets
          <6>4. h.e.bound /\ Over(h.e) => Settled(p)
            BY <1>3, <1>5, <4>3, <6>3 DEF Sound, Core, PastEnd
          <6> QED
            BY <1>5, <6>2, <6>4 DEF Over, SameNumbers
        <5>2. Passes(s, r, p)
          BY <1>1, <1>8, <3>1, <4>1, <4>2, <5>1, FinAgainSound
        <5>3. Passes(h, r, p)
          BY <1>1, <4>2, <5>2, PassesOn
        <5>4. DoneWriting(s.e) /\ AllSent(s.e) /\ s.e.nextTx >= 1 + s.e.written
          BY <1>5, <2>1, <4>3 DEF Active, Grown, FinFollowsData, SameNumbers, DoneWriting,
                                  AllSent, ClosingStates
        <5>5. Later(s.e, r.e)
          BY <1>1, <3>1, <5>4, SendEmptyKeeps
        <5>6. EndsIn(x, r) \/ (h.e.retx = "RTO" /\ EndsIn(x, ReTxTimeout(s)))
          BY <1>2, <3>2
        <5>7. h.e.retx = "RTO" => ReTxTimeout(s) = r
          BY <1>7, <3>4, <4>3, <1>5 DEF ReTxTimeout, SameNumbers, Sockets
        <5> HIDE DEF r
        <5> QED
          BY <3>1, <5>3, <5>5, <5>6, <5>7
      <4>4. CASE h.e.retx # "FIN" /\ s.e.state \notin {"FIN_WAIT_1", "CLOSING"}
        <5>1. s.e.size = 0 /\ h.e.retx = "RTO"
          BY <1>1, <1>5, <3>2, <3>4, <4>4 DEF SameNumbers, Sockets
        <5>2. ReTxTimeout(s) = s
          BY <4>4, <5>1 DEF ReTxTimeout
        <5>3. EndsIn(x, s)
          BY <1>2, <5>1, <5>2
        <5>4. Passes(h, s, p)
          BY <1>4, <1>8, <4>2 DEF Passes
        <5>5. Later(s.e, s.e)
          BY <1>7, SameIsLater DEF SameNumbers
        <5> QED
          BY <3>1, <5>3, <5>4, <5>5
      <4> QED
        BY <4>3, <4>4
    <3> QED
      BY <3>3, <3>4
  <2>2. CASE Fresh(h, p)
    <3>1. Fresh(s, p) /\ Later(h.e, s.e)
      BY <1>1, <1>4, <1>5, <2>2, SameStaysFresh
    <3>2. PICK flags \in {{"SYN"}, {"SYN", "ACK"}} :
             /\ EndsIn(x, SendEmptyPacket(s, flags))
             /\ flags = {"SYN", "ACK"} => s.e.rxNext = 1
      BY <1>2, <1>5, <2>2 DEF Fresh, Young, SameNumbers
    <3> DEFINE r == SendEmptyPacket(s, flags)
    <3>3. Later(s.e, r.e)
      BY <1>1, <3>1, <3>2, SendSynStaysFresh
    <3>4. Young(s.e) /\ s.e.state \in OpeningStates
      BY <3>1 DEF Fresh
    <3>5. Repeating(s.e)
      BY <3>4 DEF Repeating, Young
    <3>6. Sound(s, p, 0) /\ Firm(h.e, s.e, p)
      BY <1>1, <1>3, <1>4, <1>5, <1>6, <3>5, EventOverSound
    <3>7. r \in Handled /\ Sound(r, p, 0) /\ Firm(s.e, r.e, p) /\ SameNumbers(s.e, r.e)
      BY <1>1, <1>4, <3>2, <3>4, <3>6, SendSynSound
    <3>8. EndsIn(x, r)
      BY <3>2
    <3> HIDE DEF r
    <3>9. Passes(h, r, p)
      BY <3>4, <3>6, <3>7, FirmFirm DEF Passes, Young, Finished, SameNumbers
    <3> QED
      BY <3>1, <3>3, <3>8, <3>9
  <2> QED
    BY <1>1, <2>1, <2>2
<1>10. PICK r : EndsIn(x, r) /\ Passes(h, r, p) /\ Later(s.e, r.e) /\ Later(h.e, s.e)
  BY <1>9
<1>11. Later(end[x], r.e)
  BY <1>1, <1>7, <1>10, LaterLater DEF Passes, Handled
<1> QED
  BY <1>10, <1>11 DEF PassesAt, p, h

\* Nobody has heard of the end of a stream that is written to.
LEMMA WriteProper ==
  ASSUME ConnInv, AllProper, NEW x \in Ends, Write(x)
  PROVE  AllProper'
<1> DEFINE y == Peer(x)
           e == end[x]
           p == end[y]
           pending == e.state # "SYN_SENT"
           f == [e EXCEPT !.size = 1, !.written = 1, !.sendPending = pending]
           r == [e |-> f, out |-> {}, closes |-> {}]
<1>1. y \in Ends /\ y # x /\ Peer(y) = x /\ \A z \in Ends : z \in {x, y}
  BY DEF Ends, Peer
<1>2. /\ end \in [Ends -> Sockets] /\ sent \in [Ends -> SUBSET Messages]
      /\ e \in Sockets /\ p \in Sockets /\ Kept(e, p) /\ Kept(p, e)
      /\ \A m \in sent[y] : Meant(m, e, p.rxNext)
  BY <1>1 DEF ConnInv
<1>3. /\ e.state \in {"SYN_SENT", "ESTABLISHED", "CLOSE_WAIT"} /\ ~DoneWriting(e)
      /\ e.written = 0 /\ EndsIn(x, r)
  BY DEF Write, Unclosed, DoneWriting
<1>4. /\ Proper(e, p) /\ Proper(p, e)
      /\ \A m \in sent[y] : Fine(m, e, p)
      /\ \A m \in sent[x] : Fine(m, p, e)
  BY <1>1 DEF AllProper
<1> HIDE DEF y, e, p, pending
<1>5. f.written = 1 /\ f.size = 1
  BY <1>2, ZenonT(60) DEF Sockets
<1>6. /\ f.una = e.una /\ f.nextTx = e.nextTx /\ f.highTx = e.highTx
      /\ f.rxNext = e.rxNext /\ f.read = e.read /\ f.gotFin = e.gotFin /\ f.fin = e.fin
  BY <1>2 DEF Sockets
<1>7. /\ f.closeCalled = e.closeCalled /\ f.shutdownSend = e.shutdownSend
      /\ f.state = e.state /\ f.bound = e.bound /\ f.retx = e.retx
      /\ f.lastAck = e.lastAck /\ SameCounts(e, f)
  BY <1>2 DEF Sockets, SameCounts
<1> HIDE DEF f
<1>8. /\ end'[x] = f /\ end'[y] = p /\ sent'[x] = sent[x] /\ sent'[y] = sent[y]
  <2>1. r.e = f /\ r.out = {}
    OBVIOUS
  <2> HIDE DEF r
  <2>2. end' = [end EXCEPT ![x] = f] /\ sent' = [sent EXCEPT ![y] = sent[y]]
    BY <1>3, <2>1 DEF EndsIn, y
  <2> QED
    BY <1>1, <1>2, <2>2 DEF p
<1>9. /\ ~p.gotFin /\ p.rxNext <= 1 /\ p.rxNext \in Nat /\ p.fin \in Nat
      /\ p.written \in {0, 1} /\ p.highTx \in Nat
  BY <1>2, <1>3 DEF Kept, Whole, Received, Finished, Sockets
<1>10. e.highTx <= 1 /\ e.nextTx <= 1 /\ e.highTx \in Nat /\ e.nextTx \in Nat
       /\ e.retx # "FIN"
  <2>1. CASE Young(e)
    BY <1>2, <2>1 DEF Young, Sockets
  <2>2. CASE Grown(e, p.rxNext)
    BY <1>2, <1>3, <1>9, <2>2 DEF Grown, FinFollowsData, Sockets
  <2> QED
    BY <1>2, <2>1, <2>2 DEF Kept
<1>11. Proper(f, p)
  <2>1. PastEnd(f, p, 0)
    BY <1>5, <1>6, <1>10 DEF PastEnd, Over
  <2>2. Counted(f)
    BY <1>4, <1>7 DEF Proper, Core, Counted, SameCounts
  <2>3. Core(f, p, 0)
    BY <1>4, <1>6, <1>7, <1>9, <1>10, <2>1, <2>2 DEF Proper, Core, Finished
  <2>4. Repeating(f)
    BY <1>6, <1>10 DEF Repeating
  <2> QED
    BY <1>4, <1>6, <1>7, <2>3, <2>4 DEF Proper, Finished, Heeds
<1>12. Proper(p, f)
  <2>1. PastEnd(p, f, 0)
    BY <1>4, <1>7, <1>9 DEF Proper, Core, PastEnd, Settled, Acked
  <2>2. f.gotFin \/ p.retx = "FIN" => FinOut(p, f)
    BY <1>4, <1>6, <1>7 DEF Proper, Core, FinOut, Excused, Gone
  <2>3. p.fin <= 1 + f.written
    BY <1>3, <1>4, <1>5, <1>9 DEF Proper, Core
  <2>4. Core(p, f, 0)
    BY <1>4, <1>5, <1>9, <2>1, <2>2, <2>3 DEF Proper, Core
  <2> QED
    BY <1>4, <2>4 DEF Proper
<1>13. \A m \in sent[y] : Fine(m, f, p)
  <2> TAKE m \in sent[y]
  <2>1. "FIN" \notin m.flags
    BY <1>2, <1>3 DEF Meant
  <2> QED
    BY <1>4, <2>1 DEF Fine
<1>14. \A m \in sent[x] : Fine(m, p, f)
  <2> TAKE m \in sent[x]
  <2>1. Fine(m, p, e) /\ m.ack \in Nat
    <3>1. m \in Messages
      BY <1>2
    <3> QED
      BY <1>4, <3>1 DEF Messages
  <2>2. m.ack >= 2 + f.written => m.ack >= 2 + e.written
    BY <1>3, <1>5, <2>1
  <2>3. FinOut(p, e) => FinOut(p, f)
    BY <1>7 DEF FinOut, Excused, Gone
  <2>4. Settled(e) => Settled(f)
    BY <1>7 DEF Settled
  <2> QED
    BY <1>6, <2>1, <2>2, <2>3, <2>4 DEF Fine
<1>15. /\ Proper(end'[x], end'[y]) /\ \A m \in sent'[y] : Fine(m, end'[x], end'[y])
       /\ Proper(end'[y], end'[x]) /\ \A m \in sent'[x] : Fine(m, end'[y], end'[x])
  BY <1>8, <1>11, <1>12, <1>13, <1>14
<1>16. \A z \in Ends : /\ Proper(end'[z], end'[Peer(z)])
                       /\ \A m \in sent'[Peer(z)] : Fine(m, end'[z], end'[Peer(z)])
  BY <1>1, <1>15 DEF y
<1> QED
  BY <1>16 DEF AllProper

(***************************************************************************)
(* The invariant and what follows from it                                  *)
(***************************************************************************)
LEMMA AllProperInit == Init => AllProper
<1> SUFFICES ASSUME Init, NEW x \in Ends
             PROVE  /\ Proper(end[x], end[Peer(x)])
                    /\ \A m \in sent[Peer(x)] : Fine(m, end[x], end[Peer(x)])
  BY DEF AllProper
<1>1. Peer(x) \in Ends
  BY DEF Ends, Peer
<1>2. sent[Peer(x)] = {}
  BY <1>1 DEF Init
<1>3. /\ \E st \in {"CLOSED", "LISTEN"} : end[x] = InitialSocket(st)
      /\ \E st \in {"CLOSED", "LISTEN"} : end[Peer(x)] = InitialSocket(st)
  BY <1>1 DEF Init
<1>4. \A a, b \in {"CLOSED", "LISTEN"} : Proper(InitialSocket(a), InitialSocket(b))
  BY ConnectionAssumption
  DEF InitialSocket, Proper, Core, Counted, PastEnd, Over, FinOut, Finished, Repeating
<1> QED
  BY <1>2, <1>3, <1>4

LEMMA AllProperNext ==
  ASSUME CallbackCloses = {}
  PROVE  ConnInv /\ AllProper /\ [Next]_vars => AllProper'
<1> SUFFICES ASSUME ConnInv, AllProper, [Next]_vars PROVE AllProper'
  OBVIOUS
<1>1. ConnInv'
  BY ConnNext
<1>2. ASSUME NEW x \in Ends, PassesAt(x) PROVE AllProper'
  BY <1>1, <1>2, PassStep
<1>3. CASE Connect
  <2>1. "A" \in Ends
    BY DEF Ends
  <2> QED
    BY <1>2, <1>3, <2>1, ConnectPasses
<1>4. ASSUME NEW x \in Ends, NEW m \in sent[x], Arrive(x, m) PROVE AllProper'
  BY <1>2, <1>4, ArrivePasses
<1>5. ASSUME NEW x \in Ends, Write(x) PROVE AllProper'
  BY <1>5, WriteProper
<1>6. ASSUME NEW x \in Ends, Close(x) PROVE AllProper'
  BY <1>2, <1>6, ClosePasses
<1>7. ASSUME NEW x \in Ends, ShutdownSend(x) PROVE AllProper'
  BY <1>2, <1>7, ShutdownSendPasses
<1>8. ASSUME NEW x \in Ends, Timer(x) PROVE AllProper'
  BY <1>2, <1>8, SendPendingPasses, RetxPasses, LastAckPasses, DelAckPasses,
     TimeWaitPasses DEF Timer
<1>9. CASE UNCHANGED vars
  BY <1>9 DEF vars, AllProper
<1> QED
  BY <1>3, <1>4, <1>5, <1>6, <1>7, <1>8, <1>9 DEF Next

\* ConnTypeOK: SND.NXT, SND.UNA and RCV.NXT never pass the places of the data and the
\* FIN, so FINs repeated under a wrong number do not move RCV.NXT on without end, a
\* segment carries a number at most one higher (the ACK of an acknowledged FIN), and no
\* counter of attempts runs below zero or above its limit (SendEmptyPacket,
\* SendDataPacket, ProcessAck, SetFinSequence, ReTxTimeout, LastAckTimeout).
\* The theorem is about applications that do not close in the callbacks of a segment.
THEOREM ConnTypeCorrect ==
  ASSUME CallbackCloses = {}
  PROVE  Spec => []ConnTypeOK
<1>1. ConnInv /\ AllProper => ConnTypeOK
  <2> SUFFICES ASSUME ConnInv, AllProper, NEW x \in Ends
               PROVE  /\ LET e == end[x]
                         IN /\ e.state \in States
                            /\ e.retx \in {"none", "SYN", "SYN+ACK", "FIN", "RTO"}
                            /\ e.synCount \in 0..SynRetries
                            /\ e.dataRetrCount \in 0..DataRetries
                            /\ {e.una, e.nextTx, e.rxNext} \subseteq 0..3
                            /\ e.highTx \in 0..2 /\ e.fin \in 0..2
                            /\ {e.size, e.written, e.read} \subseteq 0..1
                            /\ e.delAckCount \in 0..DelAckMaxCount
                      /\ sent[x] \subseteq Segments
    BY DEF ConnTypeOK
  <2> DEFINE e == end[x]
             p == end[Peer(x)]
  <2>1. /\ e \in Sockets /\ p \in Sockets /\ Kept(e, p) /\ Proper(e, p) /\ Proper(p, e)
        /\ sent[x] \subseteq Messages /\ \A m \in sent[x] : Fine(m, p, e)
    BY DEF ConnInv, AllProper, Ends, Peer
  <2> HIDE DEF e, p
  <2>2. /\ e.state \in States /\ e.retx \in {"none", "SYN", "SYN+ACK", "FIN", "RTO"}
        /\ e.una \in Nat /\ e.nextTx \in Nat /\ e.rxNext \in Nat /\ e.highTx \in Nat
        /\ e.fin \in Nat /\ e.size \in {0, 1} /\ e.written \in {0, 1} /\ e.read \in Nat
        /\ p.written \in {0, 1} /\ p.rxNext \in Nat
    BY <2>1 DEF Sockets
  <2>3. /\ e.rxNext <= 2 + p.written /\ e.fin <= 1 + p.written /\ e.nextTx <= 3
        /\ p.rxNext <= 2 + e.written /\ Counted(e)
    BY <2>1 DEF Proper, Core
  <2>4. e.una <= p.rxNext /\ e.read <= p.written /\ e.highTx <= 1 + e.written
    BY <2>1, <2>2 DEF Kept, Whole, Received, Young, Grown
  <2>5. /\ {e.una, e.nextTx, e.rxNext} \subseteq 0..3
        /\ e.highTx \in 0..2 /\ e.fin \in 0..2
        /\ {e.size, e.written, e.read} \subseteq 0..1
    BY <2>2, <2>3, <2>4
  <2>6. sent[x] \subseteq Segments
    <3> SUFFICES ASSUME NEW m \in sent[x] PROVE m \in Segments
      OBVIOUS
    <3>1. m \in Messages /\ m.seq <= 4 /\ m.ack <= 3
      BY <2>1 DEF Fine
    <3>2. /\ m = [flags |-> m.flags, seq |-> m.seq, ack |-> m.ack, len |-> m.len]
          /\ m.flags \in FlagSets /\ m.seq \in Nat /\ m.ack \in Nat /\ m.len \in {0, 1}
      BY <3>1 DEF Messages
    <3>3. m.flags \in SUBSET {"SYN", "ACK", "FIN", "RST"}
      BY <3>2 DEF FlagSets
    <3>4. m.seq \in 0..4 /\ m.ack \in 0..3 /\ m.len \in 0..1
      BY <3>1, <3>2
    <3> QED
      BY <3>2, <3>3, <3>4 DEF Segments
  <2> QED
    BY <2>2, <2>3, <2>5, <2>6 DEF Counted, e
<1> QED
  BY <1>1, ConnInit, AllProperInit, ConnNext, AllProperNext, PTL DEF Spec
=============================================================================
