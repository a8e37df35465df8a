-------------------------- MODULE TcpSender_proofs --------------------------
(***************************************************************************)
(* Safety of the sender, whatever the network and the window do: the       *)
(* scoreboard's counters are exact, what is SACKed and what is lost are    *)
(* apart, the head is never SACKed, and with SACK the sender believes of   *)
(* the receiver only what it holds.                                        *)
(***************************************************************************)
EXTENDS TcpSender, TcpTxBuffer_proofs

(***************************************************************************)
(* What every handler keeps: s is the state a handler acts on, g the bytes *)
(* the receiver holds, was the buffer that the step found.                 *)
(***************************************************************************)
Socks == [sackEnabled : SackModes, congState : CongStates, dupAckCount : Nat,
          recover : 0..(Total + 1), recoverActive : BOOLEAN,
          isFirstPartialAck : BOOLEAN, highTx : 1..(Total + 1),
          nextTx : 1..(Total + 1), rWnd : Nat, retx : BOOLEAN,
          dataRetrCount : 0..DataRetries, dropped : BOOLEAN, nullItem : BOOLEAN]

Handlers == [tx : Buffers, sock : Socks, flight : SUBSET (Nat \X Nat), out : Int]

\* In the aftermath of a timeout whatever was sent before it may be held lost.
Aftermath(k) == IF k.congState = "LOSS" THEN k.recover ELSE 0

\* The scoreboard b against the socket k
Marked(b, k, g, was) ==
  /\ Sound(b) /\ Apart(b)
  /\ k.sackEnabled => /\ b.sacked \subseteq g /\ (b.retrans \ was.retrans) \cap b.sacked = {}
                      /\ Explained(b, Aftermath(k))
  /\ ~k.sackEnabled => IF k.congState = "LOSS"
                       THEN b.sacked = {} /\ b.lost \subseteq 1..(k.recover - 1)
                       ELSE HeadOnly(b)

\* The sequence numbers of sender, network and receiver
Placed(b, k, flown, g) ==
  /\ b.end <= b.tail /\ b.tail <= Total + 1
  /\ k.highTx = b.end /\ k.recover <= b.end
  /\ \A p \in flown : 1 <= p[1] /\ p[1] < p[2] /\ p[2] <= b.end
  /\ 1..(b.una - 1) \subseteq g /\ g \subseteq 1..(b.end - 1)

\* A step that has sent new data has sent again all that is lost.
Repaired(b, was) == b.end = was.end \/ b.lost \subseteq b.retrans

Kept(s, g, was) == /\ s \in Handlers
                   /\ Marked(s.tx, s.sock, g, was)
                   /\ Placed(s.tx, s.sock, s.flight, g)
                   /\ Repaired(s.tx, was)

(***************************************************************************)
(* Questions put to the scoreboard                                         *)
(***************************************************************************)
\* Where no item carries a flag no byte does.
LEMMA NoItemNoByte ==
  ASSUME NEW b, Laid(b), NEW F, Whole(b, F), b.starts \cap F = {}
  PROVE  F = {}
<1>1. F \in SUBSET Nat /\ F \subseteq SentBytes(b)
  BY WholeIsNatural DEF Whole
<1>2. SUFFICES ASSUME F # {} PROVE FALSE
  OBVIOUS
<1> DEFINE m == LeastOf(F)
<1>3. m \in F /\ \A x \in F : m <= x
  BY <1>1, <1>2, LeastOfNaturals
<1> HIDE DEF m
<1>4. m \in SentBytes(b) \ b.starts /\ m \in Nat
  BY <1>1, <1>3
<1>5. m - 1 \in F
  BY <1>1, <1>3, <1>4 DEF Whole
<1>6. QED BY <1>3, <1>4, <1>5

\* What NextSeg offers: an item that is not SACKed, lost unless in recovery, or
\* the first new byte, if there is one and all that is lost was sent again.
LEMMA NextSegIs ==
  ASSUME NEW b, Sound(b), Apart(b), NEW rWnd \in Nat, NEW recovery \in BOOLEAN,
         NextSeg(b, rWnd, recovery).ok
  PROVE  LET next == NextSeg(b, rWnd, recovery)
         IN /\ next.size \in Nat /\ next.size <= SegmentSize
            /\ \/ next.seq = b.end /\ b.end < b.tail /\ b.lost \subseteq b.retrans
               \/ /\ next.seq \in b.starts /\ next.seq \notin b.sacked
                  /\ next.seq \in b.lost \/ recovery
                  /\ next.size = SegmentSize
<1> DEFINE next == NextSeg(b, rWnd, recovery)
           open == {i \in b.starts : i \notin b.sacked \cup b.retrans}
           lost == open \cap b.lost
           new == SizeFromSequence(b, b.end) > 0
           room == Smaller(SegmentSize, rWnd - SentSize(b))
           from(seq, n) == [ok |-> TRUE, seq |-> seq, size |-> n]
           none == [ok |-> FALSE, seq |-> 0, size |-> 0]
<1>1. next = IF lost # {} THEN from(LeastOf(lost), SegmentSize)
             ELSE IF new THEN IF SentSize(b) <= rWnd THEN from(b.end, room) ELSE none
             ELSE IF recovery /\ open # {} THEN from(LeastOf(open), SegmentSize)
             ELSE none
  BY Zenon DEF NextSeg
<1>2. open \in SUBSET Nat /\ lost \in SUBSET Nat /\ lost \subseteq open
  BY DEF Sound, Laid, Buffers
<1>3. SegmentSize \in Nat
  BY TxAssumption
<1>4. CASE lost # {}
  <2>1. LeastOf(lost) \in lost
    <3> HIDE DEF lost
    <3>1. QED BY <1>2, <1>4, LeastOfNaturals
  <2>2. next = from(LeastOf(lost), SegmentSize)
    BY <1>1, <1>4, Zenon
  <2>3. next.seq = LeastOf(lost) /\ next.size = SegmentSize
    BY <2>2
  <2> HIDE DEF next
  <2>4. next.seq \in b.starts /\ next.seq \notin b.sacked /\ next.seq \in b.lost
    BY <2>1, <2>3
  <2>5. QED BY <1>3, <2>3, <2>4 DEF next
<1>5. CASE lost = {} /\ new /\ SentSize(b) <= rWnd
  <2>1. next = from(b.end, room)
    BY <1>1, <1>5, Zenon
  <2>2. next.seq = b.end /\ next.size = room
    BY <2>1
  <2> HIDE DEF next
  <2>3. /\ b.end \in Nat /\ b.tail \in Nat /\ b.una \in Nat /\ b.una <= b.end
    BY DEF Sound, Laid, Buffers
  <2>4. b.end < b.tail
    BY <1>5, <2>3 DEF SizeFromSequence, Larger
  <2>5. room \in Nat /\ room <= SegmentSize
    BY <1>3, <1>5, <2>3 DEF Smaller, SentSize
  <2>6. b.lost \subseteq b.retrans
    <3>1. Laid(b) /\ Whole(b, b.lost \ b.retrans)
      BY WholeTogether DEF Sound
    <3>2. b.starts \cap (b.lost \ b.retrans) = {}
      BY <1>5 DEF Apart
    <3>3. b.lost \ b.retrans = {}
      BY <3>1, <3>2, NoItemNoByte, Zenon
    <3>4. QED BY <3>3
  <2>7. QED BY <2>2, <2>4, <2>5, <2>6, Zenon DEF next
<1>6. CASE lost = {} /\ ~new /\ recovery /\ open # {}
  <2>1. LeastOf(open) \in open
    <3> HIDE DEF open
    <3>1. QED BY <1>2, <1>6, LeastOfNaturals
  <2>2. next = from(LeastOf(open), SegmentSize)
    BY <1>1, <1>6, Zenon
  <2>3. next.seq = LeastOf(open) /\ next.size = SegmentSize
    BY <2>2
  <2> HIDE DEF next
  <2>4. next.seq \in b.starts /\ next.seq \notin b.sacked
    BY <2>1, <2>3
  <2>5. SegmentSize <= SegmentSize /\ recovery
    BY <1>3, <1>6
  <2>6. QED BY <1>3, <2>3, <2>4, <2>5, Zenon DEF next
<1>7. CASE \/ lost = {} /\ new /\ ~(SentSize(b) <= rWnd)
           \/ lost = {} /\ ~new /\ ~(recovery /\ open # {})
  <2>1. next = none
    BY <1>1, <1>7, Zenon
  <2>2. ~next.ok
    BY <2>1
  <2>3. QED BY <2>2
<1>8. QED BY <1>4, <1>5, <1>6, <1>7

(***************************************************************************)
(* Sending                                                                 *)
(***************************************************************************)
\* Where a segment of at most n bytes may begin: at the first new byte, if all
\* that is lost was sent again, or at an item that is not SACKed and is sent
\* whole and, without SACK and outside the aftermath of a timeout, is the head.
MayBegin(b, k, seq, n) ==
  \/ seq = b.end /\ b.end < b.tail /\ b.lost \subseteq b.retrans
  \/ /\ seq \in b.starts /\ seq \notin b.sacked /\ EndOf(b, seq) - seq <= n
     /\ ~k.sackEnabled /\ k.congState # "LOSS" => seq = b.una

\* Only a timer, the highest byte and where the next segment begins change.
SameStage(s, t) ==
  /\ t.sock.sackEnabled = s.sock.sackEnabled /\ t.sock.congState = s.sock.congState
  /\ t.sock.recover = s.sock.recover /\ t.tx.una = s.tx.una

\* A new item is nobody's, and takes no mark.
LEMMA NewItemKeeps ==
  ASSUME NEW b, NEW k, NEW g, NEW was, Marked(b, k, g, was), NEW n \in Nat \ {0},
         n <= SegmentSize, b.end + n <= b.tail
  PROVE  Marked(GetNewSegment(b, n), k, g, was)
<1> DEFINE c == GetNewSegment(b, n)
<1>1. /\ Sound(c) /\ c.una = b.una /\ c.starts = b.starts \cup {b.end}
      /\ c.sacked = b.sacked /\ c.lost = b.lost /\ c.retrans = b.retrans
  BY NewSegmentIsSound, Zenon DEF Marked
<1> HIDE DEF c
<1>2. b.end \notin b.lost
  BY DEF Marked, Sound, Whole, SentBytes, Laid, Buffers
<1>3. HeadOnly(b) => HeadOnly(c)
  BY <1>1, <1>2 DEF HeadOnly
<1>4. Apart(c)
  BY <1>1 DEF Marked, Apart
<1>5. k.sackEnabled => Explained(c, Aftermath(k))
  BY NewSegmentExplained, Zenon DEF Marked, c
<1>6. QED BY <1>1, <1>3, <1>4, <1>5 DEF Marked, c

\* A retransmission changes no mark but its own, and does not split a head that
\* alone is lost.
LEMMA AgainKeeps ==
  ASSUME NEW b, NEW k, NEW g, NEW was, Marked(b, k, g, was), NEW n \in Nat \ {0},
         n <= SegmentSize, NEW seq \in b.starts, seq \notin b.sacked,
         EndOf(b, seq) - seq <= n,
         ~k.sackEnabled /\ k.congState # "LOSS" => seq = b.una
  PROVE  LET c == GetTransmittedSegment(b, n, seq)
         IN Marked(c, k, g, was) /\ (b.lost \subseteq b.retrans => c.lost \subseteq c.retrans)
<1> DEFINE c == GetTransmittedSegment(b, n, seq)
<1>1. /\ Sound(c) /\ c.una = b.una
      /\ c.sacked = b.sacked /\ c.lost = b.lost
      /\ (c.retrans \ b.retrans) \cap b.sacked = {}
      /\ \/ n < EndOf(b, seq) - seq \/ c.starts = b.starts
         \/ /\ EndOf(b, seq) \in b.starts
            /\ (seq \in b.lost) = (EndOf(b, seq) \in b.lost)
      /\ Recut(b, c, EndOf(b, seq))
  BY RetransmitIsSound, ZenonT(40) DEF Marked
<1> HIDE DEF c
<1>2. Sound(b) /\ Laid(b) /\ Apart(c)
  BY <1>1 DEF Marked, Apart, Sound
<1>3. ASSUME HeadOnly(b), seq = b.una
      PROVE  HeadOnly(c)
  <2>1. seq \in Nat /\ EndOf(b, seq) \in Nat /\ seq < EndOf(b, seq)
    BY <1>2, EndOfItem
  <2>2. CASE c.starts = b.starts
    BY <1>1, <1>3, <2>2 DEF HeadOnly
  <2>3. CASE b.lost = {}
    BY <1>1, <2>3 DEF HeadOnly
  <2>4. CASE c.starts # b.starts /\ b.lost # {}
    <3>1. seq \in b.lost
      BY <1>2, <1>3, <2>4, NoItemNoByte DEF HeadOnly, Sound
    <3>2. EndOf(b, seq) \in b.starts \cap b.lost
      <4>1. ~(n < EndOf(b, seq) - seq)
        BY <1>3, <2>1
      <4>2. QED BY <1>1, <2>4, <3>1, <4>1
    <3>3. EndOf(b, seq) = seq
      BY <1>3, <3>2 DEF HeadOnly
    <3>4. QED BY <2>1, <3>3
  <2>5. QED BY <2>2, <2>3, <2>4
<1>4. k.sackEnabled => /\ c.sacked \subseteq g /\ (c.retrans \ was.retrans) \cap c.sacked = {}
                       /\ Explained(c, Aftermath(k))
  <2>1. k.sackEnabled => c.sacked \subseteq g /\ (c.retrans \ was.retrans) \cap c.sacked = {}
    BY <1>1 DEF Marked
  <2>2. k.sackEnabled => Explained(c, Aftermath(k))
    BY <1>1, <1>2, RecutExplained DEF Marked, Sound
  <2>3. QED BY <2>1, <2>2
<1>5. ~k.sackEnabled => IF k.congState = "LOSS"
                        THEN c.sacked = {} /\ c.lost \subseteq 1..(k.recover - 1)
                        ELSE HeadOnly(c)
  BY <1>1, <1>3 DEF Marked
<1>6. b.lost \subseteq b.retrans => c.lost \subseteq c.retrans
  BY <1>1 DEF Recut
<1>7. QED BY <1>1, <1>2, <1>4, <1>5, <1>6 DEF Marked, c

\* A record of handlers is determined by its parts.
LEMMA HandlerParts ==
  ASSUME NEW s \in Handlers
  PROVE  /\ s.tx \in Buffers /\ s.sock \in Socks /\ s.out \in Int
         /\ s.flight \in SUBSET (Nat \X Nat)
         /\ s.sock.sackEnabled \in BOOLEAN /\ s.sock.rWnd \in Nat
         /\ s.sock.recover \in Nat /\ s.sock.highTx \in Nat
BY SenderAssumption DEF Handlers, Socks

\* A segment sent is in flight, and the timer runs.
LEMMA TransmittedKeeps ==
  ASSUME NEW s, NEW g, NEW was, Kept(s, g, was), NEW seq, NEW c,
         Marked(c, s.sock, g, was), Repaired(c, was), seq \in c.starts, c.una = s.tx.una,
         c.tail = s.tx.tail,
         \/ c.end = s.tx.end
         \/ s.tx.end <= c.end /\ EndOf(c, seq) = c.end
  PROVE  /\ Kept(Transmitted(s, seq, c), g, was) /\ SameStage(s, Transmitted(s, seq, c))
         /\ Transmitted(s, seq, c).tx = c
         /\ Transmitted(s, seq, c).sock.nullItem = s.sock.nullItem
<1> DEFINE t == Transmitted(s, seq, c)
           past == EndOf(c, seq)
           fl == s.flight \cup {<<seq, past>>}
           hi == Larger(s.sock.highTx, past)
           k == [s.sock EXCEPT !.nextTx = seq, !.retx = TRUE, !.highTx = hi]
           o == IF s.sock.congState = "RECOVERY" THEN s.out + (past - seq) ELSE s.out
<1>1. /\ s \in Handlers /\ Sound(s.tx) /\ Laid(s.tx) /\ Sound(c) /\ Laid(c) /\ c \in Buffers
  BY DEF Kept, Marked, Sound, Laid
<1>2. /\ s.tx \in Buffers /\ s.sock \in Socks /\ s.out \in Int
      /\ s.flight \in SUBSET (Nat \X Nat)
  BY <1>1, HandlerParts
<1>3. /\ c.una \in Nat /\ c.end \in Nat /\ c.tail \in Nat /\ s.tx.end \in Nat
      /\ 1 <= c.una /\ c.end <= c.tail
  BY <1>1, <1>2 DEF Laid, Buffers
<1>4. /\ seq \in Nat /\ past \in Nat /\ c.una <= seq /\ seq < past /\ past <= c.end
  BY <1>1, EndOfItem
<1>5. /\ s.sock.highTx = s.tx.end /\ s.sock.recover <= s.tx.end
      /\ s.tx.tail <= Total + 1
      /\ \A p \in s.flight : 1 <= p[1] /\ p[1] < p[2] /\ p[2] <= s.tx.end
      /\ 1..(s.tx.una - 1) \subseteq g /\ g \subseteq 1..(s.tx.end - 1)
      /\ s.sock.recover \in Nat /\ Total \in Nat
  BY <1>1, HandlerParts, SenderAssumption DEF Kept, Placed
<1>6. s.tx.end <= c.end /\ (c.end = s.tx.end \/ past = c.end)
  BY <1>3
<1> HIDE DEF past
<1>7. hi = c.end /\ hi \in 1..(Total + 1) /\ seq \in 1..(Total + 1)
  <2>1. hi = c.end
    BY <1>3, <1>4, <1>5, <1>6 DEF Larger
  <2>2. c.end \in 1..(Total + 1) /\ seq \in 1..(Total + 1)
    BY <1>3, <1>4, <1>5
  <2>3. QED BY <2>1, <2>2
<1> HIDE DEF hi
<1>8. /\ k \in Socks /\ k.sackEnabled = s.sock.sackEnabled
      /\ k.congState = s.sock.congState /\ k.recover = s.sock.recover
      /\ k.highTx = hi /\ k.nullItem = s.sock.nullItem
  BY <1>2, <1>7 DEF Socks
<1>9. fl \in SUBSET (Nat \X Nat) /\ o \in Int
  BY <1>2, <1>4
<1>10. t = [tx |-> c, flight |-> fl, sock |-> k, out |-> o]
  BY DEF Transmitted, hi, past
<1> HIDE DEF t, k, o, fl
<1>11. /\ t \in Handlers /\ t.tx = c /\ t.sock = k /\ t.flight = fl
  BY <1>1, <1>8, <1>9, <1>10 DEF Handlers
<1>12. Marked(c, k, g, was)
  BY <1>8 DEF Marked, Aftermath
<1>13. \A p \in fl : 1 <= p[1] /\ p[1] < p[2] /\ p[2] <= c.end
  <2> SUFFICES ASSUME NEW p \in fl PROVE 1 <= p[1] /\ p[1] < p[2] /\ p[2] <= c.end
    OBVIOUS
  <2>1. CASE p \in s.flight
    <3> DEFINE lo == p[1]  up == p[2]
    <3>1. lo \in Nat /\ up \in Nat /\ 1 <= lo /\ lo < up /\ up <= s.tx.end
      BY <1>2, <1>5, <2>1
    <3> HIDE DEF lo, up
    <3>2. up <= c.end
      BY <1>3, <1>6, <3>1
    <3>3. QED BY <3>1, <3>2 DEF lo, up
  <2>2. CASE p = <<seq, past>>
    <3>1. p[1] = seq /\ p[2] = past /\ 1 <= seq
      BY <1>3, <1>4, <2>2
    <3>2. QED BY <1>4, <3>1
  <2>3. QED BY <2>1, <2>2 DEF fl
<1>14. Placed(c, k, fl, g)
  <2>1. g \subseteq 1..(c.end - 1)
    <3>1. \A x \in 1..(s.tx.end - 1) : x \in 1..(c.end - 1)
      BY <1>3, <1>6
    <3>2. QED BY <1>5, <3>1
  <2>2. k.highTx = c.end /\ c.end <= c.tail /\ c.tail <= Total + 1
    BY <1>3, <1>5, <1>7, <1>8
  <2>3. k.recover <= c.end
    BY <1>3, <1>5, <1>6, <1>8
  <2>4. 1..(c.una - 1) \subseteq g
    BY <1>5
  <2>5. QED BY <1>13, <2>1, <2>2, <2>3, <2>4 DEF Placed
<1>15. QED
  BY <1>8, <1>11, <1>12, <1>14, Zenon DEF Kept, SameStage, t

\* Fields of the socket that no invariant relates to anything may change.
LEMMA OtherFieldsKeep ==
  ASSUME NEW s, NEW g, NEW was, Kept(s, g, was), NEW t \in Handlers,
         t.tx = s.tx, t.flight = s.flight, t.sock.sackEnabled = s.sock.sackEnabled,
         t.sock.congState = s.sock.congState, t.sock.recover = s.sock.recover,
         t.sock.highTx = s.sock.highTx
  PROVE  Kept(t, g, was) /\ SameStage(s, t)
<1>1. Marked(t.tx, t.sock, g, was)
  BY DEF Kept, Marked, Aftermath
<1>2. Placed(t.tx, t.sock, t.flight, g)
  BY DEF Kept, Placed
<1>3. QED BY <1>1, <1>2 DEF Kept, SameStage

\* SendDataPacket, from a byte where a segment may begin
LEMMA SendDataKeeps ==
  ASSUME NEW s, NEW g, NEW was, Kept(s, g, was), NEW n \in Nat, n <= SegmentSize,
         NEW seq, MayBegin(s.tx, s.sock, seq, n)
  PROVE  LET t == SendDataPacket(s, seq, n)
         IN /\ Kept(t, g, was) /\ SameStage(s, t)
            /\ t.sock.nullItem \/ seq \in t.tx.starts
<1> DEFINE t == SendDataPacket(s, seq, n)
           b == s.tx
           q == Smaller(n, SizeFromSequence(b, seq))
           r == Smaller(q, b.end - seq)
<1>1. /\ s \in Handlers /\ Sound(b) /\ Laid(b) /\ Marked(b, s.sock, g, was)
  BY DEF Kept, Marked, Sound
<1>2. /\ b.una \in Nat /\ b.end \in Nat /\ b.tail \in Nat /\ b.end <= b.tail
      /\ SegmentSize \in Nat
  BY <1>1, TxAssumption DEF Laid, Buffers
<1>3. CASE n = 0
  <2> DEFINE u == [s EXCEPT !.sock.nullItem = TRUE]
  <2>1. t = u
    BY <1>3 DEF SendDataPacket
  <2>2. u \in Handlers
    BY <1>1 DEF Handlers, Socks
  <2>3. /\ u.tx = s.tx /\ u.flight = s.flight /\ u.sock.nullItem
        /\ u.sock.sackEnabled = s.sock.sackEnabled
        /\ u.sock.congState = s.sock.congState /\ u.sock.recover = s.sock.recover
        /\ u.sock.highTx = s.sock.highTx
    BY <1>1 DEF Handlers, Socks
  <2> HIDE DEF u
  <2>4. Kept(u, g, was) /\ SameStage(s, u)
    BY <2>2, <2>3, OtherFieldsKeep
  <2>5. QED BY <2>1, <2>3, <2>4, Zenon
<1>4. CASE n # 0 /\ seq = b.end /\ b.end < b.tail /\ b.lost \subseteq b.retrans
  <2> DEFINE c == GetNewSegment(b, q)
  <2>1. t = Transmitted(s, seq, c)
    BY <1>4 DEF SendDataPacket, CopyFromSequence
  <2>2. q \in Nat \ {0} /\ q <= SegmentSize /\ b.end + q <= b.tail
    BY <1>2, <1>4 DEF Smaller, SizeFromSequence, Larger
  <2> HIDE DEF q
  <2>3. /\ c.una = b.una /\ c.end = b.end + q /\ c.tail = b.tail
        /\ c.starts = b.starts \cup {b.end} /\ EndOf(c, b.end) = c.end
        /\ c.lost = b.lost /\ c.retrans = b.retrans
    BY <1>1, <2>2, NewSegmentIsSound, Zenon
  <2>4. Marked(c, s.sock, g, was)
    BY <1>1, <2>2, NewItemKeeps, Zenon
  <2> HIDE DEF c, t
  <2>5. seq \in c.starts /\ b.end <= c.end /\ EndOf(c, seq) = c.end
    BY <1>2, <1>4, <2>2, <2>3
  <2>6. /\ Kept(Transmitted(s, seq, c), g, was) /\ SameStage(s, Transmitted(s, seq, c))
        /\ Transmitted(s, seq, c).tx = c
    <3>1. /\ c.una = s.tx.una /\ c.tail = s.tx.tail /\ s.tx.end <= c.end
          /\ Repaired(c, was)
      BY <1>4, <2>3, <2>5 DEF Repaired
    <3>2. QED BY <2>4, <2>5, <3>1, TransmittedKeeps
  <2>7. QED BY <2>1, <2>5, <2>6, Zenon DEF t
<1>5. CASE /\ n # 0 /\ seq \in b.starts /\ seq \notin b.sacked
           /\ EndOf(b, seq) - seq <= n
           /\ ~s.sock.sackEnabled /\ s.sock.congState # "LOSS" => seq = b.una
  <2> DEFINE c == GetTransmittedSegment(b, r, seq)
  <2>1. /\ seq \in Nat /\ EndOf(b, seq) \in Nat /\ seq < EndOf(b, seq)
        /\ EndOf(b, seq) <= b.end
    BY <1>1, <1>5, EndOfItem
  <2>2. t = Transmitted(s, seq, c)
    <3>1. seq # b.end
      BY <1>2, <2>1
    <3>2. QED BY <1>5, <3>1 DEF SendDataPacket, CopyFromSequence
  <2>3. /\ r \in Nat \ {0} /\ r <= SegmentSize
        /\ EndOf(b, seq) - seq <= r
    <3> DEFINE e == EndOf(b, seq)
    <3>1. e \in Nat /\ seq < e /\ e <= b.end /\ seq \in Nat /\ e - seq <= n
      BY <1>5, <2>1
    <3> HIDE DEF e
    <3>2. r \in Nat \ {0} /\ r <= SegmentSize /\ e - seq <= r
      BY <1>2, <1>5, <3>1 DEF Smaller, SizeFromSequence, Larger
    <3>3. QED BY <3>2 DEF e
  <2> HIDE DEF r
  <2>4. /\ c.una = b.una /\ c.end = b.end /\ c.tail = b.tail /\ seq \in c.starts
    <3>1. seq \in b.starts /\ seq \notin b.sacked /\ Sound(b)
      BY <1>1, <1>5
    <3>2. r \in Nat \ {0} /\ r <= SegmentSize
      BY <2>3
    <3> HIDE DEF b
    <3>3. QED BY <3>1, <3>2, RetransmitIsSound, ZenonT(40)
  <2>5. Marked(c, s.sock, g, was) /\ (b.lost \subseteq b.retrans => c.lost \subseteq c.retrans)
    BY <1>1, <1>5, <2>3, AgainKeeps, Zenon
  <2> HIDE DEF c, t
  <2>6. /\ Kept(Transmitted(s, seq, c), g, was) /\ SameStage(s, Transmitted(s, seq, c))
        /\ Transmitted(s, seq, c).tx = c
    <3>1. c.una = s.tx.una /\ c.tail = s.tx.tail /\ s.tx.end = c.end /\ Repaired(c, was)
      BY <2>4, <2>5 DEF Kept, Repaired
    <3>2. QED BY <2>4, <2>5, <3>1, TransmittedKeeps
  <2>7. QED BY <2>2, <2>4, <2>6, Zenon DEF t
<1>6. QED BY <1>3, <1>4, <1>5 DEF MayBegin

\* What NextSeg offers may begin a segment.
LEMMA OfferMayBegin ==
  ASSUME NEW s, NEW g, NEW was, Kept(s, g, was), NEW recovery \in BOOLEAN,
         recovery => s.sock.sackEnabled,
         NextSeg(s.tx, s.sock.rWnd, recovery).ok, NEW n \in Nat,
         \/ SegmentSize <= n
         \/ s.tx.tail - NextSeg(s.tx, s.sock.rWnd, recovery).seq <= n
  PROVE  MayBegin(s.tx, s.sock, NextSeg(s.tx, s.sock.rWnd, recovery).seq, n)
<1> DEFINE b == s.tx
           seq == NextSeg(b, s.sock.rWnd, recovery).seq
<1>1. /\ s \in Handlers /\ Sound(b) /\ Apart(b) /\ Laid(b) /\ Short(b)
      /\ s.sock.rWnd \in Nat
  BY HandlerParts DEF Kept, Marked, Sound
<1>2. \/ seq = b.end /\ b.end < b.tail /\ b.lost \subseteq b.retrans
      \/ seq \in b.starts /\ seq \notin b.sacked /\ (seq \in b.lost \/ recovery)
  BY <1>1, NextSegIs, Zenon
<1>3. SegmentSize <= n \/ b.tail - seq <= n
  OBVIOUS
<1> HIDE DEF seq
<1>4. ASSUME seq \in b.starts, seq \in b.lost, ~s.sock.sackEnabled, s.sock.congState # "LOSS"
      PROVE  seq = b.una
  BY <1>4 DEF Kept, Marked, HeadOnly
<1>5. ASSUME seq \in b.starts PROVE EndOf(b, seq) - seq <= n
  <2> DEFINE e == EndOf(b, seq)
  <2>1. /\ seq \in Nat /\ e \in Nat /\ seq < e /\ e <= b.end
    BY <1>1, <1>5, EndOfItem
  <2>2. e - seq <= SegmentSize
    BY <1>1, <1>5, ItemIsShort
  <2>3. b.end \in Nat /\ b.tail \in Nat /\ b.end <= b.tail /\ SegmentSize \in Nat
    BY <1>1, TxAssumption DEF Laid, Buffers
  <2> HIDE DEF e
  <2>4. e - seq <= n
    BY <1>3, <2>1, <2>2, <2>3
  <2>5. QED BY <2>4 DEF e
<1>6. QED
  BY <1>2, <1>4, <1>5 DEF MayBegin, seq

\* DoRetransmit, while something is unacknowledged
LEMMA DoRetransmitKeeps ==
  ASSUME NEW s, NEW g, NEW was, Kept(s, g, was), s.tx.una < s.tx.end
  PROVE  Kept(DoRetransmit(s), g, was) /\ SameStage(s, DoRetransmit(s))
<1> DEFINE next == NextSeg(s.tx, s.sock.rWnd, FALSE)
<1>1. /\ s \in Handlers /\ Sound(s.tx) /\ Laid(s.tx) /\ Short(s.tx) /\ Apart(s.tx)
      /\ s.sock.rWnd \in Nat /\ SegmentSize \in Nat /\ SegmentSize <= SegmentSize
      /\ FALSE \in BOOLEAN
  BY HandlerParts, TxAssumption DEF Kept, Marked, Sound
<1>2. CASE next.ok
  <2>1. next.size \in Nat /\ next.size <= SegmentSize
    BY <1>1, <1>2, NextSegIs, Zenon
  <2>2. MayBegin(s.tx, s.sock, next.seq, next.size)
    <3>1. \/ next.seq = s.tx.end /\ s.tx.end < s.tx.tail /\ s.tx.lost \subseteq s.tx.retrans
          \/ next.size = SegmentSize
      BY <1>1, <1>2, NextSegIs, Zenon
    <3>2. MayBegin(s.tx, s.sock, next.seq, SegmentSize)
      BY <1>1, <1>2, OfferMayBegin, Zenon
    <3>3. CASE next.size = SegmentSize
      BY <3>2, <3>3, Zenon
    <3> HIDE DEF next
    <3>4. QED BY <3>1, <3>3 DEF MayBegin
  <2>3. DoRetransmit(s) = SendDataPacket(s, next.seq, next.size)
    BY <1>2 DEF DoRetransmit
  <2> HIDE DEF next
  <2>4. QED BY <2>1, <2>2, <2>3, SendDataKeeps, Zenon
<1>3. CASE ~next.ok
  <2>1. s.tx.una \in s.tx.starts /\ s.tx.una \notin s.tx.sacked
    BY <1>1 DEF Laid, Apart
  <2>2. EndOf(s.tx, s.tx.una) - s.tx.una <= SegmentSize
    BY <1>1, <2>1, ItemIsShort
  <2>3. MayBegin(s.tx, s.sock, s.tx.una, SegmentSize)
    BY <2>1, <2>2 DEF MayBegin
  <2>4. DoRetransmit(s) = SendDataPacket(s, s.tx.una, SegmentSize)
    BY <1>3 DEF DoRetransmit
  <2>5. QED BY <1>1, <2>3, <2>4, SendDataKeeps, Zenon
<1>4. QED BY <1>2, <1>3

\* One round of the loop in SendPendingData
LEMMA RoundKeeps ==
  ASSUME NEW s, NEW g, NEW was, Kept(s, g, was), NEW w \in Int
  PROVE  Kept(Round(s, w), g, was) /\ SameStage(s, Round(s, w))
<1> DEFINE b == s.tx
           window == Larger(Smaller(s.sock.rWnd, w) - BytesInFlight(b), 0)
           recovery == s.sock.sackEnabled /\ s.sock.congState = "RECOVERY"
           next == NextSeg(b, s.sock.rWnd, recovery)
           n == Smaller(Smaller(window, SegmentSize), next.size)
           t == SendDataPacket(s, next.seq, n)
           ends == \/ s.sock.dropped \/ s.sock.nullItem \/ b.tail = b.una \/ window = 0
                   \/ ~MaySend(s, window, next)
<1>1. /\ s \in Handlers /\ Sound(b) /\ Apart(b) /\ Laid(b) /\ b \in Buffers
      /\ s.sock.rWnd \in Nat /\ SegmentSize \in Nat \ {0}
      /\ s.sock.sackEnabled \in BOOLEAN
  BY HandlerParts, TxAssumption DEF Kept, Marked, Sound
<1>2. Round(s, w) = IF ends THEN s ELSE MoveOn(t, next.seq)
  BY Zenon DEF Round
<1>3. CASE ends
  BY <1>2, <1>3 DEF SameStage
<1>4. CASE ~ends
  <2>1. next.ok /\ MaySend(s, window, next)
    BY <1>4, Zenon DEF MaySend
  <2>2. recovery \in BOOLEAN /\ (recovery => s.sock.sackEnabled)
    BY <1>1
  <2> HIDE DEF recovery
  <2>3. window \in Nat
    <3>1. BytesInFlight(b) \in Int
      BY <1>1 DEF BytesInFlight, SentSize, Buffers
    <3>2. QED BY <1>1, <3>1 DEF Larger, Smaller
  <2> HIDE DEF b
  <2>4. /\ next.size \in Nat /\ next.size <= SegmentSize
        /\ \/ next.seq = b.end /\ b.end < b.tail /\ b.lost \subseteq b.retrans
           \/ next.seq \in b.starts /\ next.size = SegmentSize
    BY <1>1, <2>1, <2>2, NextSegIs, Zenon
  <2>5. /\ n \in Nat /\ n <= SegmentSize
        /\ next.size = SegmentSize => n = Smaller(window, SegmentSize)
    <3> DEFINE z == next.size
               v == window
    <3>1. z \in Nat /\ z <= SegmentSize /\ v \in Nat /\ SegmentSize \in Nat
      BY <1>1, <2>3, <2>4
    <3>2. n = Smaller(Smaller(v, SegmentSize), z)
      OBVIOUS
    <3> HIDE DEF z, v, n
    <3>3. /\ n \in Nat /\ n <= SegmentSize
          /\ z = SegmentSize => n = Smaller(v, SegmentSize)
      BY <3>1, <3>2 DEF Smaller
    <3>4. QED BY <3>3 DEF z, v
  <2>6. MayBegin(b, s.sock, next.seq, n)
    <3>1. CASE next.seq = b.end /\ b.end < b.tail /\ b.lost \subseteq b.retrans
      BY <3>1 DEF MayBegin
    <3>2. CASE next.seq \in b.starts /\ next.size = SegmentSize
      <4>1. ~(window < SegmentSize /\ SizeFromSequence(b, next.seq) > window)
        BY <2>1 DEF MaySend, b
      <4> DEFINE q == next.seq
      <4>2. q \in Nat /\ b.tail \in Nat /\ n \in Nat
        BY <1>1, <2>5, <3>2 DEF Buffers
      <4>3. n = Smaller(window, SegmentSize)
        BY <2>5, <3>2
      <4> HIDE DEF q, n, window
      <4>4. SegmentSize <= n \/ b.tail - q <= n
        BY <1>1, <2>3, <4>1, <4>2, <4>3 DEF SizeFromSequence, Larger, Smaller, q
      <4>5. SegmentSize <= n \/ s.tx.tail - NextSeg(s.tx, s.sock.rWnd, recovery).seq <= n
        BY <4>4 DEF q, b
      <4>6. NextSeg(s.tx, s.sock.rWnd, recovery).ok
        BY <2>1 DEF b
      <4>7. MayBegin(s.tx, s.sock, NextSeg(s.tx, s.sock.rWnd, recovery).seq, n)
        BY <2>2, <4>2, <4>5, <4>6, OfferMayBegin, Zenon
      <4>8. QED BY <4>7 DEF b
    <3>3. QED BY <2>4, <3>1, <3>2
  <2> HIDE DEF n, next, window
  <2>7. /\ Kept(t, g, was) /\ SameStage(s, t)
        /\ t.sock.nullItem \/ next.seq \in t.tx.starts
    BY <2>5, <2>6, SendDataKeeps, Zenon DEF b
  <2> HIDE DEF t
  <2>8. CASE t.sock.nullItem
    BY <1>2, <1>4, <2>7, <2>8 DEF MoveOn
  <2>9. CASE ~t.sock.nullItem
    <3> DEFINE past == EndOf(t.tx, next.seq)
               u == [t EXCEPT !.sock.nextTx = past]
    <3>1. Round(s, w) = u
      BY <1>2, <1>4, <2>9 DEF MoveOn
    <3>2. past \in 1..(Total + 1)
      <4>1. Laid(t.tx) /\ t.tx.end <= t.tx.tail /\ t.tx.tail <= Total + 1 /\ Total \in Nat
        BY <2>7, SenderAssumption DEF Kept, Marked, Sound, Placed
      <4>2. past \in Nat /\ next.seq < past /\ past <= t.tx.end /\ next.seq \in Nat
        BY <2>7, <2>9, <4>1, EndOfItem
      <4>3. t.tx.end \in Nat /\ t.tx.tail \in Nat
        BY <4>1 DEF Laid, Buffers
      <4> HIDE DEF past
      <4>4. QED BY <4>1, <4>2, <4>3
    <3> HIDE DEF past
    <3>3. t \in Handlers
      BY <2>7 DEF Kept
    <3>4. u \in Handlers
      BY <3>2, <3>3 DEF Handlers, Socks
    <3>5. /\ u.tx = t.tx /\ u.flight = t.flight
          /\ u.sock.sackEnabled = t.sock.sackEnabled
          /\ u.sock.congState = t.sock.congState /\ u.sock.recover = t.sock.recover
          /\ u.sock.highTx = t.sock.highTx
      BY <3>3 DEF Handlers, Socks
    <3> HIDE DEF u
    <3>6. Kept(u, g, was) /\ SameStage(t, u)
      BY <2>7, <3>4, <3>5, OtherFieldsKeep
    <3>7. SameStage(s, u)
      BY <2>7, <3>6 DEF SameStage
    <3>8. QED BY <3>1, <3>6, <3>7, Zenon
  <2>10. QED BY <2>8, <2>9
<1>5. QED BY <1>3, <1>4

\* The loop in SendPendingData ends in a state its rounds do not leave.
LEMMA LoopStays ==
  ASSUME NEW good, NEW s \in good, NEW windows,
         \A u \in good : \A w \in windows : Round(u, w) \in good,
         NEW t \in SendPendingData(s, windows)
  PROVE  t \in good
<1> DEFINE pairs == windows \X good
           body(f, k) == IF k = 0 THEN windows \X {s}
                         ELSE {<<p[1], Round(p[2], p[1])>> : p \in f[k - 1]}
           after == CHOOSE f : f = [k \in 0..Total |-> body(f, k)]
           Defined(m) == \E f : f = [k \in 0..m |-> body(f, k)]
<1>1. Total \in Nat
  BY SenderAssumption
<1>2. SendPendingData(s, windows) = {p[2] : p \in after[Total]}
  BY DEF SendPendingData
<1>3. Defined(0)
  <2> DEFINE f == [k \in 0..0 |-> windows \X {s}]
  <2>1. f = [k \in 0..0 |-> body(f, k)]
    OBVIOUS
  <2>2. QED BY <2>1
<1>4. ASSUME NEW m \in Nat \ {0}, Defined(m - 1)
      PROVE  Defined(m)
  <2>1. PICK f : f = [k \in 0..(m - 1) |-> body(f, k)]
    BY <1>4
  <2> DEFINE h == [k \in 0..m |-> body(f, k)]
  <2>2. ASSUME NEW k \in 0..m
        PROVE  body(f, k) = body(h, k)
    <3>1. CASE k = 0
      BY <3>1
    <3>2. CASE k # 0
      <4>1. k - 1 \in 0..(m - 1) /\ k - 1 \in 0..m
        BY <3>2
      <4>2. h[k - 1] = f[k - 1]
        <5>1. h[k - 1] = body(f, k - 1)
          BY <4>1
        <5>2. f[k - 1] = body(f, k - 1)
          <6> HIDE DEF body
          <6>1. QED BY <2>1, <4>1
        <5>3. QED BY <5>1, <5>2
      <4> HIDE DEF h
      <4>3. QED BY <3>2, <4>2
    <3>3. QED BY <3>1, <3>2
  <2>3. h = [k \in 0..m |-> body(h, k)]
    <3> HIDE DEF body
    <3>1. QED BY <2>2
  <2>4. QED BY <2>3
<1> HIDE DEF Defined
<1>5. Defined(Total)
  <2> DEFINE Bad == {m \in Nat : ~Defined(m)}
  <2>1. SUFFICES ASSUME Bad # {} PROVE FALSE
    BY <1>1
  <2> DEFINE m == LeastOf(Bad)
  <2>2. m \in Bad /\ \A x \in Bad : m <= x
    BY <2>1, LeastOfNaturals
  <2>3. m \in Nat \ {0} /\ ~Defined(m) /\ m - 1 \notin Bad
    BY <1>3, <2>2
  <2>4. Defined(m - 1)
    BY <2>3
  <2>5. QED BY <2>3, <2>4, <1>4
<1>6. \A k \in 0..Total : after[k] = body(after, k)
  <2>1. after = [k \in 0..Total |-> body(after, k)]
    <3> HIDE DEF body
    <3>1. \E f : f = [k \in 0..Total |-> body(f, k)]
      BY <1>5 DEF Defined
    <3>2. QED BY <3>1
  <2> HIDE DEF body, after
  <2>2. QED BY <2>1
<1> HIDE DEF after
<1>7. after[0] \in SUBSET pairs
  <2>1. s \in good
    OBVIOUS
  <2>2. 0 \in 0..Total /\ body(after, 0) = windows \X {s}
    BY <1>1
  <2> HIDE DEF body
  <2>3. after[0] = windows \X {s}
    BY <1>6, <2>2
  <2>4. QED BY <2>1, <2>3
<1>8. ASSUME NEW k \in 1..Total, after[k - 1] \in SUBSET pairs
      PROVE  after[k] \in SUBSET pairs
  <2>1. k \in 0..Total /\ k # 0
    BY <1>1
  <2>2. after[k] = {<<p[1], Round(p[2], p[1])>> : p \in after[k - 1]}
    <3>1. body(after, k) = {<<p[1], Round(p[2], p[1])>> : p \in after[k - 1]}
      BY <2>1
    <3> HIDE DEF body
    <3>2. QED BY <1>6, <2>1, <3>1
  <2>3. ASSUME NEW p \in after[k - 1]
        PROVE  <<p[1], Round(p[2], p[1])>> \in pairs
    <3>1. p[1] \in windows /\ p[2] \in good
      BY <1>8
    <3> DEFINE u == Round(p[2], p[1])
    <3>2. u \in good
      BY <3>1
    <3> HIDE DEF u
    <3>3. QED BY <3>1, <3>2 DEF u
  <2> HIDE DEF pairs
  <2>4. QED BY <2>2, <2>3
<1>9. \A k \in 0..Total : after[k] \in SUBSET pairs
  <2> HIDE DEF pairs
  <2> DEFINE Bad == {k \in 0..Total : after[k] \notin SUBSET pairs}
  <2>1. SUFFICES ASSUME Bad # {} PROVE FALSE
    OBVIOUS
  <2> DEFINE m == LeastOf(Bad)
  <2>2. m \in Bad /\ \A x \in Bad : m <= x
    <3>1. Bad \in SUBSET Nat
      BY <1>1
    <3> HIDE DEF Bad
    <3>2. QED BY <2>1, <3>1, LeastOfNaturals
  <2>3. /\ m \in 1..Total /\ after[m] \notin SUBSET pairs
        /\ m - 1 \notin Bad /\ m - 1 \in 0..Total
    <3>1. m \in 0..Total /\ after[m] \notin SUBSET pairs /\ \A x \in Bad : m <= x
      BY <2>2
    <3>2. m # 0
      BY <1>7, <3>1
    <3> HIDE DEF m, Bad
    <3>3. QED BY <1>1, <3>1, <3>2
  <2>4. after[m - 1] \in SUBSET pairs
    BY <2>3
  <2> HIDE DEF m
  <2>5. QED BY <2>3, <2>4, <1>8
<1>10. PICK p \in after[Total] : t = p[2]
  BY <1>2
<1>11. p[2] \in good
  <2>1. Total \in 0..Total
    BY <1>1
  <2>2. QED BY <1>9, <1>10, <2>1
<1>12. QED BY <1>10, <1>11

\* The states the loop in SendPendingData can end in, whatever the window
LEMMA SendPendingKeeps ==
  ASSUME NEW s, NEW g, NEW was, Kept(s, g, was), NEW windows \in SUBSET Int,
         NEW t \in SendPendingData(s, windows)
  PROVE  Kept(t, g, was) /\ SameStage(s, t)
<1> DEFINE good == {u \in Handlers : Kept(u, g, was) /\ SameStage(s, u)}
<1>1. s \in good
  BY DEF Kept, SameStage
<1>2. ASSUME NEW u \in good, NEW w \in windows PROVE Round(u, w) \in good
  <2>1. Kept(u, g, was) /\ SameStage(s, u) /\ w \in Int
    OBVIOUS
  <2>2. Kept(Round(u, w), g, was) /\ SameStage(u, Round(u, w))
    BY <2>1, RoundKeeps, Zenon
  <2> DEFINE r == Round(u, w)
  <2>3. Kept(r, g, was) /\ SameStage(u, r)
    BY <2>2
  <2> HIDE DEF r
  <2>4. r \in Handlers /\ SameStage(s, r)
    BY <2>1, <2>3 DEF Kept, SameStage
  <2>5. r \in good
    BY <2>3, <2>4
  <2> HIDE DEF good
  <2>6. QED BY <2>5 DEF r
<1> HIDE DEF good
<1>3. t \in good
  BY <1>1, <1>2, LoopStays, Zenon
<1>4. QED BY <1>3 DEF good

(***************************************************************************)
(* Acknowledgments                                                         *)
(***************************************************************************)
\* A handler moves neither the head nor the mode.
Follows(s, t) == t.sock.sackEnabled = s.sock.sackEnabled /\ t.tx.una = s.tx.una

\* The buffer changes its marks, not its shape.
LEMMA MarksKeep ==
  ASSUME NEW s, NEW g, NEW was, Kept(s, g, was), NEW c, Marked(c, s.sock, g, was),
         Alike(s.tx, c), c.tail = s.tx.tail, s.tx.end = was.end
  PROVE  LET t == [s EXCEPT !.tx = c]
         IN Kept(t, g, was) /\ SameStage(s, t) /\ t.tx = c /\ t.sock = s.sock
<1> DEFINE t == [s EXCEPT !.tx = c]
<1>1. s \in Handlers /\ c \in Buffers
  BY DEF Kept, Marked, Sound, Laid
<1>2. /\ t \in Handlers /\ t.tx = c /\ t.sock = s.sock /\ t.flight = s.flight
  BY <1>1 DEF Handlers
<1> HIDE DEF t
<1>3. Placed(c, s.sock, s.flight, g) /\ Repaired(c, was)
  BY DEF Kept, Placed, Alike, Repaired
<1>4. QED BY <1>2, <1>3, Zenon DEF Kept, SameStage, Alike, t

\* The congestion state changes, outside the aftermath of a timeout.
LEMMA StateKeeps ==
  ASSUME NEW s, NEW g, NEW was, Kept(s, g, was), NEW t \in Handlers,
         t.tx = s.tx, t.flight = s.flight, t.sock.sackEnabled = s.sock.sackEnabled,
         t.sock.congState # "LOSS", t.sock.recover <= s.tx.end,
         t.sock.highTx = s.sock.highTx,
         s.sock.congState = "LOSS" => IF s.sock.sackEnabled THEN Explained(s.tx, 0)
                                      ELSE HeadOnly(s.tx)
  PROVE  Kept(t, g, was) /\ Follows(s, t)
<1>1. Marked(t.tx, t.sock, g, was)
  <2>1. CASE s.sock.congState = "LOSS"
    <3>1. Aftermath(t.sock) = 0
      BY DEF Aftermath
    <3>2. QED BY <2>1, <3>1 DEF Kept, Marked
  <2>2. CASE s.sock.congState # "LOSS"
    <3>1. Aftermath(t.sock) = Aftermath(s.sock)
      BY <2>2 DEF Aftermath
    <3>2. QED BY <2>2, <3>1 DEF Kept, Marked
  <2>3. QED BY <2>1, <2>2
<1>2. Placed(t.tx, t.sock, t.flight, g)
  BY DEF Kept, Placed
<1>3. QED BY <1>1, <1>2 DEF Kept, Follows

\* Without SACK a duplicate marks one item more, or none.
LEMMA GuessKeeps ==
  ASSUME NEW s, NEW g, NEW was, Kept(s, g, was), ~s.sock.sackEnabled,
         s.sock.congState # "LOSS"
  PROVE  LET c == AddRenoSack(s.tx)
         IN Marked(c, s.sock, g, was) /\ Alike(s.tx, c) /\ c.tail = s.tx.tail
<1> DEFINE c == AddRenoSack(s.tx)
<1>1. Sound(s.tx) /\ Apart(s.tx) /\ HeadOnly(s.tx)
  BY DEF Kept, Marked
<1>2. s.tx.sacked \cap s.tx.lost = {} /\ s.tx.una \notin s.tx.sacked
  BY <1>1 DEF Apart
<1>3. Apart(c) /\ HeadOnly(c)
  BY <1>1, <1>2, RenoSackIsApart, Zenon
<1>4. Sound(c) /\ Alike(s.tx, c) /\ c.tail = s.tx.tail
  BY <1>1, RenoSackIsSound, Zenon
<1> HIDE DEF c
<1>5. QED BY <1>3, <1>4 DEF Marked, c

\* MarkHeadAsLost
LEMMA HeadKeeps ==
  ASSUME NEW b, NEW k, NEW g, NEW was, Marked(b, k, g, was), k.congState # "LOSS"
  PROVE  LET c == MarkHeadAsLost(b)
         IN Marked(c, k, g, was) /\ Alike(b, c) /\ c.tail = b.tail
<1> DEFINE c == MarkHeadAsLost(b)
<1>1. Sound(b) /\ Apart(b) /\ b.sacked \cap b.lost = {}
  BY DEF Marked, Apart
<1>2. /\ Apart(c) /\ (HeadOnly(b) => HeadOnly(c)) /\ c.sacked \subseteq b.sacked
      /\ k.sackEnabled => Explained(c, Aftermath(k))
  <2>1. Apart(c) /\ (HeadOnly(b) => HeadOnly(c)) /\ c.sacked \subseteq b.sacked
    BY <1>1, HeadLostIsApart, Zenon
  <2>2. k.sackEnabled => Explained(c, Aftermath(k))
    BY <1>1, HeadLostExplained, Zenon DEF Marked
  <2>3. QED BY <2>1, <2>2
<1>3. Sound(c) /\ Alike(b, c) /\ c.tail = b.tail /\ c.retrans \subseteq b.retrans
  BY <1>1, HeadLostIsSound, Zenon
<1> HIDE DEF c
<1>4. QED BY <1>2, <1>3 DEF Marked, c

\* The buffer when recovery begins
LEMMA HeadLostKeeps ==
  ASSUME NEW s, NEW g, NEW was, Kept(s, g, was), s.sock.congState # "LOSS"
  PROVE  LET c == HeadLost(s)
         IN Marked(c, s.sock, g, was) /\ Alike(s.tx, c) /\ c.tail = s.tx.tail
<1>1. Marked(s.tx, s.sock, g, was) /\ Alike(s.tx, s.tx)
  BY DEF Kept, Alike
<1>2. CASE s.sock.sackEnabled
  <2>1. HeadLost(s) = s.tx \/ HeadLost(s) = MarkHeadAsLost(s.tx)
    BY <1>2 DEF HeadLost
  <2>2. LET c == MarkHeadAsLost(s.tx)
        IN Marked(c, s.sock, g, was) /\ Alike(s.tx, c) /\ c.tail = s.tx.tail
    BY <1>1, HeadKeeps, Zenon
  <2>3. QED BY <1>1, <2>1, <2>2, Zenon
<1>3. CASE ~s.sock.sackEnabled
  <2> DEFINE d == AddRenoSack(s.tx)
             c == MarkHeadAsLost(d)
  <2>1. Marked(d, s.sock, g, was) /\ Alike(s.tx, d) /\ d.tail = s.tx.tail
    BY <1>3, GuessKeeps, Zenon
  <2>2. HeadLost(s) = c
    BY <1>3 DEF HeadLost
  <2> HIDE DEF d
  <2>3. Marked(c, s.sock, g, was) /\ Alike(d, c) /\ c.tail = d.tail
    BY <2>1, HeadKeeps, Zenon
  <2> HIDE DEF c
  <2>4. Alike(s.tx, c)
    BY <2>1, <2>3 DEF Alike
  <2>5. QED BY <2>1, <2>2, <2>3, <2>4, Zenon
<1>4. QED BY <1>2, <1>3

\* EnterRecovery, while something is unacknowledged
LEMMA EnterRecoveryKeeps ==
  ASSUME NEW s, NEW g, NEW was, Kept(s, g, was), s.sock.congState # "LOSS",
         s.tx.una < s.tx.end, s.tx.end = was.end
  PROVE  Kept(EnterRecovery(s), g, was) /\ Follows(s, EnterRecovery(s))
<1> DEFINE c == HeadLost(s)
           t == [s EXCEPT !.tx = c]
           u == [s EXCEPT !.tx = c, !.sock.recover = s.sock.highTx,
                          !.sock.recoverActive = TRUE, !.sock.congState = "RECOVERY"]
<1>1. EnterRecovery(s) = DoRetransmit(u)
  BY DEF EnterRecovery
<1>2. Marked(c, s.sock, g, was) /\ Alike(s.tx, c) /\ c.tail = s.tx.tail
  BY HeadLostKeeps, Zenon
<1> HIDE DEF c
<1>3. Kept(t, g, was) /\ SameStage(s, t) /\ t.tx = c /\ t.sock = s.sock
  BY <1>2, MarksKeep
<1>4. s \in Handlers /\ t \in Handlers /\ c \in Buffers /\ Total \in Nat
      /\ t.flight = s.flight
  BY <1>2, <1>3, SenderAssumption DEF Kept, Marked, Sound, Laid, Handlers
<1>5. u \in Handlers
  <2>1. s.sock.highTx \in 0..(Total + 1) /\ "RECOVERY" \in CongStates
    BY <1>4 DEF Handlers, Socks, CongStates
  <2>2. QED BY <1>4, <2>1 DEF Handlers, Socks
<1>6. /\ u.tx = c /\ u.flight = s.flight /\ u.sock.sackEnabled = s.sock.sackEnabled
      /\ u.sock.congState = "RECOVERY" /\ u.sock.recover = s.sock.highTx
      /\ u.sock.highTx = s.sock.highTx
  BY <1>4 DEF Handlers, Socks
<1> HIDE DEF t, u
<1>7. Kept(u, g, was) /\ Follows(t, u)
  <2>1. u.sock.recover <= t.tx.end
    <3>1. t.tx.end = s.tx.end /\ s.sock.highTx = s.tx.end /\ s.tx.end \in Nat
      BY <1>2, <1>3, <1>4 DEF Kept, Placed, Alike, Handlers, Buffers
    <3>2. QED BY <1>6, <3>1
  <2>2. t.sock.congState # "LOSS" /\ u.sock.congState # "LOSS"
    BY <1>3, <1>6
  <2>3. QED BY <1>3, <1>4, <1>5, <1>6, <2>1, <2>2, StateKeeps
<1>8. u.tx.una < u.tx.end
  BY <1>2, <1>6 DEF Alike
<1>9. Kept(DoRetransmit(u), g, was) /\ SameStage(u, DoRetransmit(u))
  BY <1>7, <1>8, DoRetransmitKeeps, Zenon
<1>10. Follows(s, u)
  BY <1>2, <1>6 DEF Follows, Alike
<1>11. Follows(s, DoRetransmit(u))
  BY <1>9, <1>10 DEF Follows, SameStage
<1>12. QED BY <1>1, <1>9, <1>11, Zenon

\* DupAck, while something is unacknowledged
LEMMA DupAckKeeps ==
  ASSUME NEW s, NEW g, NEW was, Kept(s, g, was), s.tx.una < s.tx.end, s.tx.end = was.end
  PROVE  Kept(DupAck(s), g, was) /\ Follows(s, DupAck(s))
<1> DEFINE c == Counted(s)
           state == IF s.sock.congState = "OPEN" THEN "DISORDER" ELSE s.sock.congState
<1>1. CASE s.sock.congState = "LOSS"
  BY <1>1 DEF DupAck, Follows
<1>2. CASE s.sock.congState # "LOSS"
  <2>1. DupAck(s) = EnterRecovery(c) \/ DupAck(s) = RenoSack(c)
    BY <1>2 DEF DupAck
  <2>2. s \in Handlers
    BY DEF Kept
  <2>3. /\ c \in Handlers /\ c.tx = s.tx /\ c.flight = s.flight
        /\ c.sock.sackEnabled = s.sock.sackEnabled /\ c.sock.congState = state
        /\ c.sock.recover = s.sock.recover /\ c.sock.highTx = s.sock.highTx
    <3> DEFINE n == IF s.sock.congState = "RECOVERY" THEN s.sock.dupAckCount
                    ELSE s.sock.dupAckCount + 1
    <3>1. n \in Nat /\ state \in CongStates
      BY <2>2 DEF Handlers, Socks, CongStates
    <3>2. c = [s EXCEPT !.sock.dupAckCount = n, !.sock.congState = state]
      BY <2>2 DEF Counted, Handlers, Socks
    <3> HIDE DEF n, state, c
    <3>3. QED BY <2>2, <3>1, <3>2 DEF Handlers, Socks
  <2>4. state # "LOSS"
    BY <1>2
  <2> HIDE DEF c, state
  <2>5. Kept(c, g, was) /\ Follows(s, c)
    <3>1. c.sock.recover <= s.tx.end
      BY <2>3 DEF Kept, Placed
    <3>2. QED BY <1>2, <2>3, <2>4, <3>1, StateKeeps
  <2>6. Kept(EnterRecovery(c), g, was) /\ Follows(c, EnterRecovery(c))
    BY <2>3, <2>4, <2>5, EnterRecoveryKeeps
  <2>7. Kept(RenoSack(c), g, was) /\ Follows(c, RenoSack(c))
    <3>1. CASE c.sock.sackEnabled
      BY <2>5, <3>1 DEF RenoSack, Follows
    <3>2. CASE ~c.sock.sackEnabled
      <4> DEFINE d == AddRenoSack(c.tx)
      <4>1. RenoSack(c) = [c EXCEPT !.tx = d]
        BY <3>2 DEF RenoSack
      <4>2. Marked(d, c.sock, g, was) /\ Alike(c.tx, d) /\ d.tail = c.tx.tail
        BY <2>3, <2>4, <2>5, <3>2, GuessKeeps
      <4> HIDE DEF d
      <4>3. LET t == [c EXCEPT !.tx = d]
            IN Kept(t, g, was) /\ SameStage(c, t)
        BY <2>3, <2>5, <4>2, MarksKeep, Zenon
      <4>4. QED BY <4>1, <4>3 DEF Follows, SameStage
    <3>3. QED BY <3>1, <3>2
  <2>8. Follows(s, EnterRecovery(c)) /\ Follows(s, RenoSack(c))
    BY <2>5, <2>6, <2>7 DEF Follows
  <2>9. QED BY <2>1, <2>6, <2>7, <2>8, Zenon
<1>3. QED BY <1>1, <1>2

\* NewAck touches the timer, the retries and SND.NXT.
LEMMA NewAckKeeps ==
  ASSUME NEW s, NEW g, NEW was, Kept(s, g, was), NEW reset \in BOOLEAN
  PROVE  Kept(NewAck(s, reset), g, was) /\ SameStage(s, NewAck(s, reset))
<1> DEFINE next == Larger(s.sock.nextTx, s.tx.una)
           timer == s.tx.tail > s.tx.una /\ (s.sock.retx \/ reset)
           t == [s EXCEPT !.sock.dataRetrCount = DataRetries, !.sock.nextTx = next,
                          !.sock.retx = timer]
<1>1. s \in Handlers /\ s.sock \in Socks /\ DataRetries \in Nat /\ Total \in Nat
  BY SenderAssumption DEF Kept, Handlers
<1>2. NewAck(s, reset) = t
  BY <1>1 DEF NewAck, Socks, Handlers
<1>3. next \in 1..(Total + 1)
  <2>1. /\ s.tx.una \in Nat /\ s.tx.end \in Nat /\ s.tx.tail \in Nat
        /\ 1 <= s.tx.una /\ s.tx.una <= s.tx.end
        /\ s.tx.end <= s.tx.tail /\ s.tx.tail <= Total + 1
    BY DEF Kept, Placed, Marked, Sound, Laid, Buffers
  <2>2. s.sock.nextTx \in 1..(Total + 1)
    BY <1>1 DEF Socks
  <2>3. QED BY <1>1, <2>1, <2>2 DEF Larger
<1>4. timer \in BOOLEAN
  OBVIOUS
<1> HIDE DEF next, timer
<1>5. DataRetries \in 0..DataRetries
  BY <1>1
<1>6. t \in Handlers
  BY <1>1, <1>3, <1>4, <1>5 DEF Handlers, Socks
<1>7. /\ t.tx = s.tx /\ t.flight = s.flight /\ t.sock.sackEnabled = s.sock.sackEnabled
      /\ t.sock.congState = s.sock.congState /\ t.sock.recover = s.sock.recover
      /\ t.sock.highTx = s.sock.highTx
  BY <1>1 DEF Handlers, Socks
<1> HIDE DEF t
<1>8. Kept(t, g, was) /\ SameStage(s, t)
  BY <1>6, <1>7, OtherFieldsKeep
<1>9. QED BY <1>2, <1>8, Zenon

\* An ACK below the recovery point
LEMMA PartialAckKeeps ==
  ASSUME NEW s, NEW g, NEW was, Kept(s, g, was), s.sock.congState # "LOSS",
         s.tx.una < s.tx.end, ~s.sock.sackEnabled => s.tx.end = was.end
  PROVE  Kept(PartialAck(s), g, was) /\ Follows(s, PartialAck(s))
<1> DEFINE m == IF s.sock.sackEnabled THEN s ELSE [s EXCEPT !.tx = MarkHeadAsLost(@)]
           r == RetransmitUnlessAcked(m)
           first == s.sock.isFirstPartialAck
           a == NewAck(r, first)
           t == [a EXCEPT !.sock.isFirstPartialAck = FALSE]
<1>1. PartialAck(s) = t
  BY DEF PartialAck
<1>2. s \in Handlers /\ first \in BOOLEAN
  BY DEF Kept, Handlers, Socks
<1>3. Kept(m, g, was) /\ SameStage(s, m) /\ m.tx.una < m.tx.end
  <2>1. CASE s.sock.sackEnabled
    BY <2>1 DEF SameStage
  <2>2. CASE ~s.sock.sackEnabled
    <3> DEFINE c == MarkHeadAsLost(s.tx)
    <3>1. m = [s EXCEPT !.tx = c]
      BY <1>2, <2>2
    <3>2. Marked(c, s.sock, g, was) /\ Alike(s.tx, c) /\ c.tail = s.tx.tail
      <4>1. Marked(s.tx, s.sock, g, was)
        BY DEF Kept
      <4>2. QED BY <4>1, HeadKeeps, Zenon
    <3> HIDE DEF c, m
    <3>3. LET u == [s EXCEPT !.tx = c] IN Kept(u, g, was) /\ SameStage(s, u) /\ u.tx = c
      BY <2>2, <3>2, MarksKeep
    <3>4. Kept(m, g, was) /\ SameStage(s, m) /\ m.tx = c
      BY <3>1, <3>3, Zenon
    <3>5. m.tx.una < m.tx.end
      BY <3>2, <3>4 DEF Alike
    <3>6. QED BY <3>4, <3>5
  <2>3. QED BY <2>1, <2>2
<1> HIDE DEF m
<1>4. Kept(r, g, was) /\ SameStage(m, r)
  <2>1. r = m \/ r = DoRetransmit(m)
    BY DEF RetransmitUnlessAcked
  <2>2. Kept(DoRetransmit(m), g, was) /\ SameStage(m, DoRetransmit(m))
    BY <1>3, DoRetransmitKeeps, Zenon
  <2>3. SameStage(m, m)
    BY DEF SameStage
  <2>4. QED BY <1>3, <2>1, <2>2, <2>3, Zenon
<1> HIDE DEF r, first
<1>5. Kept(a, g, was) /\ SameStage(r, a)
  BY <1>2, <1>4, NewAckKeeps, Zenon
<1> HIDE DEF a
<1>6. a \in Handlers
  BY <1>5 DEF Kept
<1>7. t \in Handlers
  BY <1>6 DEF Handlers, Socks
<1>8. /\ t.tx = a.tx /\ t.flight = a.flight /\ t.sock.sackEnabled = a.sock.sackEnabled
      /\ t.sock.congState = a.sock.congState /\ t.sock.recover = a.sock.recover
      /\ t.sock.highTx = a.sock.highTx
  BY <1>6 DEF Handlers, Socks
<1> HIDE DEF t
<1>9. Kept(t, g, was) /\ SameStage(a, t)
  BY <1>5, <1>7, <1>8, OtherFieldsKeep
<1>10. Follows(s, t)
  BY <1>3, <1>4, <1>5, <1>9 DEF Follows, SameStage
<1>11. QED BY <1>1, <1>9, <1>10, Zenon

\* An ACK that is not below the recovery point, or outside recovery and loss:
\* the aftermath of a timeout ends when nothing of what it held lost is left.
LEMMA FullAckKeeps ==
  ASSUME NEW s, NEW g, NEW was, Kept(s, g, was), NEW isDupack \in BOOLEAN,
         s.sock.congState = "LOSS" => s.sock.recover <= s.tx.una
  PROVE  /\ Kept(FullAck(s, isDupack), g, was) /\ Follows(s, FullAck(s, isDupack))
         /\ FullAck(s, isDupack).sock.congState # "RECOVERY"
<1> DEFINE state == s.sock.congState
           ends == state \in {"RECOVERY", "LOSS"}
           next == IF ends \/ (state = "DISORDER" /\ ~isDupack) THEN "OPEN" ELSE state
           first == s.sock.isFirstPartialAck \/ ends
           n == IF state = "RECOVERY" THEN 0 ELSE s.sock.dupAckCount
           active == s.sock.recoverActive /\ s.tx.una < s.sock.recover
           p == [s EXCEPT !.sock.congState = next, !.sock.isFirstPartialAck = first,
                          !.sock.dupAckCount = n, !.sock.recoverActive = active]
<1>1. s \in Handlers /\ s.sock \in Socks
  BY DEF Kept, Handlers
<1>2. FullAck(s, isDupack) = p \/ FullAck(s, isDupack) = NewAck(p, TRUE)
  BY <1>1 DEF FullAck, Handlers, Socks
<1>3. /\ next \in CongStates /\ next # "LOSS" /\ next # "RECOVERY"
  BY <1>1 DEF Socks, CongStates
<1>4. n \in Nat
  BY <1>1 DEF Socks
<1>5. first \in BOOLEAN /\ active \in BOOLEAN
  BY <1>1 DEF Socks
<1>6. ASSUME s.sock.congState = "LOSS"
      PROVE  IF s.sock.sackEnabled THEN Explained(s.tx, 0) ELSE HeadOnly(s.tx)
  <2>1. /\ Sound(s.tx) /\ s.sock.recover <= s.tx.una /\ s.tx.una \in Nat
        /\ s.sock.recover \in Nat /\ s.tx.lost \subseteq SentBytes(s.tx)
    BY <1>1, <1>6, HandlerParts DEF Kept, Marked, Sound, Whole, Laid, Buffers
  <2>2. \A x \in s.tx.lost : x \in Int /\ ~(x < s.sock.recover)
    BY <2>1 DEF SentBytes, Sound, Laid, Buffers
  <2>3. CASE s.sock.sackEnabled
    <3>1. Explained(s.tx, s.sock.recover)
      BY <1>6, <2>3 DEF Kept, Marked, Aftermath
    <3>2. QED BY <2>2, <2>3, <3>1 DEF Explained
  <2>4. CASE ~s.sock.sackEnabled
    <3>1. s.tx.lost \subseteq 1..(s.sock.recover - 1)
      BY <1>6, <2>4 DEF Kept, Marked
    <3>2. \A x \in s.tx.lost : FALSE
      BY <2>1, <2>2, <3>1
    <3>3. s.tx.lost = {}
      BY <3>2
    <3>4. QED BY <2>4, <3>3 DEF HeadOnly
  <2>5. QED BY <2>3, <2>4
<1> HIDE DEF next, first, n, active
<1>7. p \in Handlers
  BY <1>1, <1>3, <1>4, <1>5 DEF Handlers, Socks
<1>8. /\ p.tx = s.tx /\ p.flight = s.flight /\ p.sock.sackEnabled = s.sock.sackEnabled
      /\ p.sock.congState = next /\ p.sock.recover = s.sock.recover
      /\ p.sock.highTx = s.sock.highTx
  BY <1>1 DEF Handlers, Socks
<1> HIDE DEF p
<1>9. Kept(p, g, was) /\ Follows(s, p)
  <2>1. p.sock.recover <= s.tx.end
    BY <1>8 DEF Kept, Placed
  <2>2. QED BY <1>3, <1>6, <1>7, <1>8, <2>1, StateKeeps
<1>10. Kept(NewAck(p, TRUE), g, was) /\ SameStage(p, NewAck(p, TRUE))
  <2>1. TRUE \in BOOLEAN
    OBVIOUS
  <2>2. QED BY <1>9, <2>1, NewAckKeeps, Zenon
<1>11. Follows(s, NewAck(p, TRUE)) /\ NewAck(p, TRUE).sock.congState # "RECOVERY"
  BY <1>3, <1>8, <1>9, <1>10 DEF Follows, SameStage
<1>12. p.sock.congState # "RECOVERY"
  BY <1>3, <1>8
<1>13. QED BY <1>2, <1>9, <1>10, <1>11, <1>12, Zenon

\* What follows the count of duplicates when SND.UNA has moved
LEMMA AdvancedKeeps ==
  ASSUME NEW s, NEW g, NEW was, Kept(s, g, was), NEW isDupack \in BOOLEAN,
         ~s.sock.sackEnabled => s.tx.end = was.end
  PROVE  /\ Kept(Advanced(s, isDupack), g, was) /\ Follows(s, Advanced(s, isDupack))
         /\ Advanced(s, isDupack).sock.congState = "RECOVERY"
              => s.sock.congState = "RECOVERY"
<1>1. /\ s \in Handlers /\ s.tx.una \in Nat /\ s.tx.end \in Nat /\ s.sock.recover \in Nat
      /\ s.sock.recover <= s.tx.end
  BY HandlerParts DEF Kept, Placed, Buffers
<1>2. CASE s.tx.una < s.sock.recover /\ s.sock.congState = "RECOVERY"
  <2>1. Advanced(s, isDupack) = PartialAck(s)
    BY <1>2 DEF Advanced
  <2>2. s.tx.una < s.tx.end /\ s.sock.congState # "LOSS"
    BY <1>1, <1>2
  <2>3. QED BY <1>2, <2>1, <2>2, PartialAckKeeps, Zenon
<1>3. CASE s.tx.una < s.sock.recover /\ s.sock.congState = "LOSS"
  <2>1. Advanced(s, isDupack) = NewAck(s, TRUE)
    BY <1>3 DEF Advanced
  <2>2. Kept(NewAck(s, TRUE), g, was) /\ SameStage(s, NewAck(s, TRUE))
    <3>1. TRUE \in BOOLEAN
      OBVIOUS
    <3>2. QED BY <3>1, NewAckKeeps, Zenon
  <2>3. QED BY <2>1, <2>2 DEF SameStage, Follows
<1>4. CASE \/ ~(s.tx.una < s.sock.recover)
           \/ s.sock.congState \notin {"RECOVERY", "LOSS"}
  <2>1. Advanced(s, isDupack) = FullAck(s, isDupack)
    BY <1>4 DEF Advanced
  <2>2. s.sock.congState = "LOSS" => s.sock.recover <= s.tx.una
    BY <1>1, <1>4
  <2>3. QED BY <2>1, <2>2, FullAckKeeps, Zenon
<1>5. QED BY <1>2, <1>3, <1>4

\* ProcessAck, where a duplicate means that something is unacknowledged
LEMMA ProcessAckKeeps ==
  ASSUME NEW s, NEW g, NEW was, Kept(s, g, was), NEW oldHead, NEW isDupack \in BOOLEAN,
         isDupack => s.tx.una < s.tx.end, s.tx.end = was.end,
         isDupack /\ s.tx.una # oldHead => s.sock.sackEnabled
  PROVE  /\ Kept(ProcessAck(s, oldHead, isDupack), g, was)
         /\ Follows(s, ProcessAck(s, oldHead, isDupack))
         /\ ProcessAck(s, oldHead, isDupack).sock.congState = "RECOVERY"
              => (IF isDupack THEN DupAck(s) ELSE s).sock.congState = "RECOVERY"
<1> DEFINE d == IF isDupack THEN DupAck(s) ELSE s
           z == [s EXCEPT !.sock.dupAckCount = 0]
           e == IF isDupack THEN d ELSE z
<1>1. Kept(d, g, was) /\ Follows(s, d)
  <2>1. CASE isDupack
    BY <2>1, DupAckKeeps, Zenon
  <2>2. CASE ~isDupack
    BY <2>2 DEF Follows
  <2>3. QED BY <2>1, <2>2
<1>2. /\ Kept(z, g, was) /\ Follows(s, z) /\ z.sock.congState = s.sock.congState
      /\ z.tx = s.tx
  <2>1. s \in Handlers
    BY DEF Kept
  <2>2. z \in Handlers
    BY <2>1 DEF Handlers, Socks
  <2>3. /\ z.tx = s.tx /\ z.flight = s.flight /\ z.sock.sackEnabled = s.sock.sackEnabled
        /\ z.sock.congState = s.sock.congState /\ z.sock.recover = s.sock.recover
        /\ z.sock.highTx = s.sock.highTx
    BY <2>1 DEF Handlers, Socks
  <2> HIDE DEF z
  <2>4. Kept(z, g, was) /\ SameStage(s, z)
    BY <2>2, <2>3, OtherFieldsKeep
  <2>5. QED BY <2>3, <2>4 DEF SameStage, Follows
<1>3. ProcessAck(s, oldHead, isDupack) = IF s.tx.una = oldHead THEN d
                                         ELSE Advanced(e, isDupack)
  BY DEF ProcessAck
<1>0. ~isDupack => d = s
  OBVIOUS
<1> HIDE DEF d, z
<1>4. Kept(e, g, was) /\ Follows(s, e) /\ e.sock.congState = d.sock.congState
  BY <1>0, <1>1, <1>2
<1>5. CASE s.tx.una = oldHead
  BY <1>1, <1>3, <1>5, Zenon DEF d
<1>6. CASE s.tx.una # oldHead
  <2>1. ~e.sock.sackEnabled => e.tx.end = was.end
    <3>1. ~s.sock.sackEnabled => e = z
      BY <1>6
    <3>2. QED BY <1>2, <1>4, <3>1 DEF Follows
  <2> HIDE DEF e
  <2>2. /\ Kept(Advanced(e, isDupack), g, was) /\ Follows(e, Advanced(e, isDupack))
        /\ Advanced(e, isDupack).sock.congState = "RECOVERY" => e.sock.congState = "RECOVERY"
    BY <1>4, <2>1, AdvancedKeeps, Zenon
  <2>3. Follows(s, Advanced(e, isDupack))
    BY <1>4, <2>2 DEF Follows
  <2>4. QED BY <1>3, <1>4, <1>6, <2>2, <2>3, Zenon DEF d
<1>7. QED BY <1>5, <1>6

(***************************************************************************)
(* The receiver                                                            *)
(***************************************************************************)
\* The first byte missing from f on: what lies below it is held.
LEMMA MissingIs ==
  ASSUME NEW g, NEW f \in Nat, NEW e \in Nat, f <= e, e <= Total + 1, e \notin g
  PROVE  LET m == FirstMissing(g, f)
         IN m \in Nat /\ m \notin g /\ f <= m /\ m <= e /\ f..(m - 1) \subseteq g
<1> DEFINE S == {q \in f..(Total + 1) : q \notin g}
           m == FirstMissing(g, f)
<1>1. Total \in Nat
  BY SenderAssumption
<1>2. S \in SUBSET Nat /\ e \in S
  BY <1>1
<1>3. m = LeastOf(S)
  BY DEF FirstMissing
<1> HIDE DEF m
<1>4. m \in S /\ \A x \in S : m <= x
  <2> HIDE DEF S
  <2>1. QED BY <1>2, <1>3, LeastOfNaturals
<1>5. m \in Nat /\ m \notin g /\ f <= m /\ m <= e /\ m <= Total + 1
  BY <1>1, <1>2, <1>4
<1>6. ASSUME NEW x \in f..(m - 1) PROVE x \in g
  <2>1. x \in f..(Total + 1) /\ ~(m <= x)
    BY <1>1, <1>5
  <2>2. x \notin S
    BY <1>4, <2>1
  <2>3. QED BY <2>1, <2>2
<1>7. QED BY <1>5, <1>6 DEF m

\* The SACK blocks of an ACK are finitely many and hold only bytes the receiver
\* has, above the cumulative ACK; without SACK there is none.
LEMMA BlocksAreHeld ==
  ASSUME NEW g, NEW e \in Nat, 1 <= e, e <= Total + 1, g \subseteq 1..(e - 1), NEW arrived,
         NEW blocks \in SackLists(g, arrived)
  PROVE  LET K == IF sock.sackEnabled THEN {x \in g : NextRxSeq(g) < x} ELSE {}
         IN /\ IsFiniteSet(DOMAIN blocks)
            /\ \A k \in DOMAIN blocks : /\ blocks[k][1] \in Nat /\ blocks[k][2] \in Nat
                                        /\ blocks[k][1]..(blocks[k][2] - 1) \subseteq K
<1> DEFINE ack == NextRxSeq(g)
           firsts == {q \in g : q > ack /\ q - 1 \notin g}
           runs == {<<f, FirstMissing(g, f)>> : f \in firsts}
           n == Smaller(Cardinality(runs), 3)
<1>1. Runs(g) = runs
  BY DEF Runs
<1>2. /\ \A q \in g : q \in Nat /\ 1 <= q /\ q <= e - 1
      /\ e \notin g
  OBVIOUS
<1>3. ack \in Nat
  <2>1. 1 \in Nat /\ 1 <= e
    OBVIOUS
  <2>2. QED BY <1>2, <2>1, MissingIs DEF NextRxSeq
<1> HIDE DEF ack
<1>4. ASSUME NEW f \in firsts
      PROVE  /\ f \in 0..e /\ FirstMissing(g, f) \in 0..e
             /\ f..(FirstMissing(g, f) - 1) \subseteq {x \in g : ack < x}
  <2> DEFINE m == FirstMissing(g, f)
  <2>1. f \in Nat /\ f <= e /\ ack < f
    BY <1>2
  <2>2. m \in Nat /\ m <= e /\ f..(m - 1) \subseteq g
    BY <1>2, <2>1, MissingIs
  <2> HIDE DEF m
  <2>3. \A x \in f..(m - 1) : ack < x
    BY <1>3, <2>1, <2>2
  <2>4. QED BY <2>1, <2>2, <2>3 DEF m
<1>5. CASE sock.sackEnabled
  <2>1. blocks \in [1..n -> runs]
    BY <1>1, <1>5, Zenon DEF SackLists
  <2>2. n \in Nat
    <3> DEFINE E == 0..e
    <3>1. IsFiniteSet(E)
      <4>1. 0 \in Int /\ e \in Int
        OBVIOUS
      <4>2. QED BY <4>1, FS_Interval, Zenon
    <3>2. IsFiniteSet(runs)
      <4> HIDE DEF firsts
      <4>1. runs \subseteq E \X E
        BY <1>4
      <4> HIDE DEF runs, E
      <4>2. IsFiniteSet(E \X E)
        BY <3>1, FS_Product, Zenon
      <4>3. QED BY <4>1, <4>2, FS_Subset, Zenon
    <3>3. Cardinality(runs) \in Nat
      <4> HIDE DEF runs
      <4>1. QED BY <3>2, FS_CardinalityType, Zenon
    <3> HIDE DEF runs
    <3>4. QED BY <3>3 DEF Smaller
  <2> HIDE DEF n, runs
  <2>3. DOMAIN blocks = 1..n /\ \A k \in 1..n : blocks[k] \in runs
    BY <2>1
  <2>4. IsFiniteSet(1..n)
    <3>1. 1 \in Int /\ n \in Int
      BY <2>2
    <3>2. QED BY <3>1, FS_Interval, Zenon
  <2>5. ASSUME NEW k \in 1..n
        PROVE  /\ blocks[k][1] \in Nat /\ blocks[k][2] \in Nat
               /\ blocks[k][1]..(blocks[k][2] - 1) \subseteq {x \in g : ack < x}
    <3> HIDE DEF firsts
    <3>1. PICK f \in firsts : blocks[k] = <<f, FirstMissing(g, f)>>
      BY <2>3 DEF runs
    <3> DEFINE m == FirstMissing(g, f)
    <3>2. f \in Nat /\ m \in Nat /\ f..(m - 1) \subseteq {x \in g : ack < x}
      <4>1. \A x \in 0..e : x \in Nat
        OBVIOUS
      <4>2. QED BY <1>4, <4>1, Zenon
    <3> HIDE DEF m
    <3>3. blocks[k][1] = f /\ blocks[k][2] = m
      BY <3>1 DEF m
    <3>4. QED BY <3>2, <3>3
  <2>6. QED BY <1>5, <2>3, <2>4, <2>5 DEF ack
<1>6. CASE ~sock.sackEnabled
  <2>1. blocks = <<>>
    BY <1>6 DEF SackLists
  <2>2. DOMAIN blocks = {}
    BY <2>1
  <2>3. IsFiniteSet({})
    BY FS_EmptySet, Zenon
  <2>4. QED BY <2>2, <2>3
<1>7. QED BY <1>5, <1>6

(***************************************************************************)
(* The scoreboard at an ACK                                                *)
(***************************************************************************)
\* What the SACK blocks mark is held, and nothing that is marked was sent again
\* in this step.
LEMMA UpdateKeeps ==
  ASSUME NEW b, NEW k, NEW g, NEW was, Marked(b, k, g, was), k.sackEnabled \in BOOLEAN,
         b.retrans \subseteq was.retrans, NEW blocks, NEW K, b.una \notin K, K \subseteq g,
         ~k.sackEnabled => K = {}, IsFiniteSet(DOMAIN blocks),
         \A j \in DOMAIN blocks : /\ blocks[j][1] \in Nat /\ blocks[j][2] \in Nat
                                  /\ blocks[j][1]..(blocks[j][2] - 1) \subseteq K
  PROVE  LET c == Update(b, blocks)
         IN /\ Marked(c, k, g, was) /\ Alike(b, c) /\ c.tail = b.tail
            /\ c.retrans \subseteq was.retrans
            /\ c.sacked # b.sacked => K # {}
<1> DEFINE c == Update(b, blocks)
<1>1. Sound(b) /\ Apart(b) /\ \A x \in SentBytes(b) : x \in Int
  BY DEF Marked, Sound, Laid, Buffers, SentBytes
<1>2. \A j \in DOMAIN blocks : \A x \in SentBytes(b) :
        blocks[j][1] <= x /\ x < blocks[j][2] => x \in K
  <2> SUFFICES ASSUME NEW j \in DOMAIN blocks, NEW x \in SentBytes(b),
                      blocks[j][1] <= x, x < blocks[j][2]
               PROVE  x \in K
    OBVIOUS
  <2> DEFINE lo == blocks[j][1]  up == blocks[j][2]
  <2>1. lo \in Nat /\ up \in Nat /\ lo..(up - 1) \subseteq K /\ x \in Int /\ lo <= x /\ x < up
    BY <1>1
  <2> HIDE DEF lo, up
  <2>2. x \in lo..(up - 1)
    BY <2>1
  <2>3. QED BY <2>1, <2>2
<1>3. \A j \in DOMAIN blocks : blocks[j][1] \in Nat /\ blocks[j][2] \in Nat
  OBVIOUS
<1>4. /\ Sound(c) /\ Apart(c) /\ Alike(b, c) /\ c.tail = b.tail
      /\ c.retrans = b.retrans /\ c.sacked \ b.sacked \subseteq K
      /\ b.sacked \subseteq c.sacked
      /\ K = {} => c.sacked = b.sacked /\ c.lost = b.lost
      /\ \A limit : Explained(b, limit) => Explained(c, limit)
  BY <1>1, <1>2, <1>3, UpdateIsSound, Zenon
<1> HIDE DEF c
<1>5. HeadOnly(b) /\ c.lost = b.lost => HeadOnly(c)
  BY <1>4 DEF HeadOnly, Alike
<1>6. k.sackEnabled => /\ c.sacked \subseteq g /\ (c.retrans \ was.retrans) \cap c.sacked = {}
                       /\ Explained(c, Aftermath(k))
  BY <1>4 DEF Marked
<1>7. ~k.sackEnabled => IF k.congState = "LOSS"
                        THEN c.sacked = {} /\ c.lost \subseteq 1..(k.recover - 1)
                        ELSE HeadOnly(c)
  BY <1>4, <1>5 DEF Marked
<1>8. Marked(c, k, g, was)
  BY <1>4, <1>6, <1>7 DEF Marked
<1>9. QED BY <1>4, <1>8 DEF c

\* The cumulative ACK takes away what is held, up to a byte that is missing.
LEMMA DiscardKeeps ==
  ASSUME NEW b, NEW k, NEW g, NEW was, Marked(b, k, g, was), k.sackEnabled \in BOOLEAN,
         b.retrans \subseteq was.retrans, NEW ack \in Nat, b.una <= ack, ack <= b.end, ack \notin g
  PROVE  LET c == DiscardUpTo(b, ack)
         IN /\ Marked(c, k, g, was) /\ c.una = ack /\ c.end = b.end /\ c.tail = b.tail
            /\ c.retrans \subseteq was.retrans
<1>1. /\ Sound(b) /\ Apart(b) /\ Laid(b) /\ b.una \in Nat /\ b.end \in Nat
      /\ b.starts \subseteq SentBytes(b)
  BY DEF Marked, Sound, Laid, Buffers
<1>2. CASE ack <= b.una
  <2>1. ack = b.una
    BY <1>1, <1>2
  <2>2. DiscardUpTo(b, ack) = b
    BY <1>2 DEF DiscardUpTo
  <2>3. QED BY <2>1, <2>2
<1>3. CASE ~(ack <= b.una)
  <2> DEFINE d == DropBelow(b, ack)
             e == UnsackHead(d)
             c == ForgetHighest(e)
             gone == b.una..(ack - 1)
  <2>1. DiscardUpTo(b, ack) = c
    BY <1>3 DEF DiscardUpTo
  <2>2. b.una < ack
    BY <1>1, <1>3
  <2>3. /\ Sound(d) /\ d.una = ack /\ d.end = b.end /\ d.tail = b.tail
        /\ d.starts \subseteq b.starts \cup {ack}
        /\ d.sacked = b.sacked \ gone /\ d.lost = b.lost \ gone
        /\ d.retrans \subseteq b.retrans
        /\ k.sackEnabled => Explained(d, Aftermath(k))
    <3>1. Sound(b) /\ (k.sackEnabled => Explained(b, Aftermath(k)))
      BY <1>1 DEF Marked
    <3>2. k.sackEnabled => Explained(d, Aftermath(k))
      BY <2>2, <3>1, DropExplained
    <3>3. QED BY <2>2, <3>1, <3>2, DropIsSound
  <2> HIDE DEF d
  <2>4. d.sacked \cap d.lost = {}
    BY <1>1, <2>3 DEF Apart
  <2>5. b.una \notin d.starts
    <3>1. d.starts \subseteq ack..(d.end - 1) /\ ack \in Nat /\ d.end \in Nat
      BY <2>3 DEF Sound, Laid, Buffers, SentBytes
    <3>2. b.una \notin ack..(d.end - 1)
      BY <1>1, <2>2, <3>1
    <3>3. QED BY <3>1, <3>2
  <2>6. HeadOnly(b) => HeadOnly(d)
    BY <2>3, <2>5 DEF HeadOnly
  <2>7. k.sackEnabled => d.sacked \subseteq g /\ ack \notin d.sacked
    BY <2>3 DEF Marked
  <2>8. d.una \in d.sacked => ~k.sackEnabled /\ k.congState # "LOSS" /\ HeadOnly(d)
    BY <2>3, <2>6, <2>7 DEF Marked
  <2>9. /\ Sound(e) /\ Apart(e) /\ Alike(d, e) /\ e.tail = d.tail
        /\ e.retrans \subseteq d.retrans
        /\ d.una \notin d.sacked => e = d
        /\ HeadOnly(d) => HeadOnly(e)
    BY <2>3, <2>4, <2>8, UnsackIsSound, Zenon
  <2> HIDE DEF e
  <2>10. /\ Sound(c) /\ Alike(e, c) /\ c.tail = e.tail
         /\ c.sacked = e.sacked /\ c.lost = e.lost /\ c.retrans = e.retrans
    BY <2>9, ForgetHighestIsSound, Zenon
  <2> HIDE DEF c
  <2>11. Apart(c) /\ (HeadOnly(b) => HeadOnly(c))
    BY <2>6, <2>9, <2>10 DEF Apart, HeadOnly, Alike
  <2>12. c.una = ack /\ c.end = b.end /\ c.tail = b.tail /\ c.retrans \subseteq was.retrans
    BY <2>3, <2>9, <2>10 DEF Alike
  <2>13. k.sackEnabled => /\ c.sacked \subseteq g
                          /\ (c.retrans \ was.retrans) \cap c.sacked = {}
                          /\ Explained(c, Aftermath(k))
    <3>1. k.sackEnabled => c.sacked \subseteq g /\ (c.retrans \ was.retrans) \cap c.sacked = {}
      BY <2>7, <2>8, <2>9, <2>10, <2>12
    <3>2. k.sackEnabled => Explained(e, Aftermath(k))
      BY <2>3, <2>8, <2>9
    <3>3. k.sackEnabled => Explained(c, Aftermath(k))
      BY <2>10, <3>2, AlikeExplained DEF Sound
    <3>4. QED BY <3>1, <3>3
  <2>14. ASSUME ~k.sackEnabled
         PROVE  IF k.congState = "LOSS"
                THEN c.sacked = {} /\ c.lost \subseteq 1..(k.recover - 1)
                ELSE HeadOnly(c)
    <3>1. CASE k.congState = "LOSS"
      <4>1. b.sacked = {} /\ b.lost \subseteq 1..(k.recover - 1)
        BY <2>14, <3>1 DEF Marked
      <4>2. d.sacked = {} /\ e = d
        BY <2>3, <2>9, <4>1
      <4>3. QED BY <2>3, <2>10, <3>1, <4>1, <4>2
    <3>2. CASE k.congState # "LOSS"
      BY <2>11, <2>14, <3>2 DEF Marked
    <3>3. QED BY <3>1, <3>2
  <2>15. Marked(c, k, g, was)
    BY <2>10, <2>11, <2>13, <2>14 DEF Marked
  <2>16. QED BY <2>1, <2>12, <2>15, Zenon
<1>4. QED BY <1>2, <1>3

\* The receiver's cumulative ACK is within what was sent.
LEMMA AckIs ==
  ASSUME NEW s, NEW g, NEW was, Kept(s, g, was)
  PROVE  LET ack == NextRxSeq(g)
         IN /\ ack \in Nat /\ ack \notin g /\ 1..(ack - 1) \subseteq g
            /\ s.tx.una <= ack /\ ack <= s.tx.end
<1>1. /\ s.tx.una \in Nat /\ s.tx.end \in Nat /\ 1 <= s.tx.una /\ s.tx.una <= s.tx.end
      /\ s.tx.end <= Total + 1 /\ 1..(s.tx.una - 1) \subseteq g
      /\ g \subseteq 1..(s.tx.end - 1)
  <2>1. /\ s.tx.una \in Nat /\ s.tx.end \in Nat /\ s.tx.tail \in Nat /\ Total \in Nat
        /\ 1 <= s.tx.una /\ s.tx.una <= s.tx.end
    BY SenderAssumption DEF Kept, Marked, Sound, Laid, Buffers
  <2>2. /\ s.tx.end <= s.tx.tail /\ s.tx.tail <= Total + 1
        /\ 1..(s.tx.una - 1) \subseteq g /\ g \subseteq 1..(s.tx.end - 1)
    BY DEF Kept, Placed
  <2>3. QED BY <2>1, <2>2
<1> DEFINE m == NextRxSeq(g)
<1>2. s.tx.end \notin g /\ 1 \in Nat /\ 1 <= s.tx.end
  BY <1>1
<1>3. m \in Nat /\ m \notin g /\ 1 <= m /\ m <= s.tx.end /\ 1..(m - 1) \subseteq g
  BY <1>1, <1>2, MissingIs, Zenon DEF NextRxSeq
<1> HIDE DEF m
<1>4. s.tx.una <= m
  <2>1. SUFFICES ASSUME m < s.tx.una PROVE FALSE
    BY <1>1, <1>3
  <2>2. m \in 1..(s.tx.una - 1)
    BY <1>1, <1>3, <2>1
  <2>3. QED BY <1>1, <1>3, <2>2
<1>5. QED BY <1>3, <1>4 DEF m

\* The scoreboard takes an ACK of a receiver that holds g; a duplicate leaves
\* something unacknowledged.
LEMMA ScoredKeeps ==
  ASSUME NEW s, NEW g, NEW was, Kept(s, g, was), s.tx.retrans \subseteq was.retrans,
         s.sock.sackEnabled = sock.sackEnabled, NEW arrived, s.tx.end = was.end,
         NEW blocks \in SackLists(g, arrived)
  PROVE  LET u == Scored(s, NextRxSeq(g), blocks)
         IN /\ Kept(u, g, was) /\ u.sock = s.sock /\ u.tx.end = was.end
            /\ IsDupack(s, NextRxSeq(g), blocks) \in BOOLEAN
            /\ IsDupack(s, NextRxSeq(g), blocks) =>
                 u.tx.una < u.tx.end /\ (u.tx.una # s.tx.una => u.sock.sackEnabled)
            /\ Marked(Update(s.tx, blocks), s.sock, g, was) /\ Alike(s.tx, Update(s.tx, blocks))
<1> DEFINE ack == NextRxSeq(g)
           K == IF sock.sackEnabled THEN {x \in g : ack < x} ELSE {}
           b == s.tx
           c == Update(b, blocks)
           d == DiscardUpTo(c, ack)
           u == [s EXCEPT !.tx = d]
           dup == IsDupack(s, ack, blocks)
<1>1. /\ ack \in Nat /\ ack \notin g /\ 1..(ack - 1) \subseteq g
      /\ b.una <= ack /\ ack <= b.end
  BY AckIs, Zenon
<1>2. /\ s \in Handlers /\ Marked(b, s.sock, g, was) /\ Placed(b, s.sock, s.flight, g)
      /\ s.sock.sackEnabled \in BOOLEAN /\ s.sock.highTx = b.end
      /\ b.una \in Nat /\ b.end \in Nat /\ b.tail \in Nat /\ Total \in Nat
      /\ 1 <= b.una /\ b.una <= b.end /\ b.end <= b.tail /\ b.tail <= Total + 1
      /\ g \subseteq 1..(b.end - 1)
  BY HandlerParts, SenderAssumption DEF Kept, Placed, Marked, Sound, Laid, Buffers
<1>3. /\ IsFiniteSet(DOMAIN blocks)
      /\ \A k \in DOMAIN blocks : /\ blocks[k][1] \in Nat /\ blocks[k][2] \in Nat
                                  /\ blocks[k][1]..(blocks[k][2] - 1) \subseteq K
  <2>1. 1 <= b.end /\ b.end <= Total + 1
    BY <1>2
  <2>2. QED BY <1>2, <2>1, BlocksAreHeld, Zenon
<1>4. Scored(s, ack, blocks) = u
  BY DEF Scored
<1> HIDE DEF ack
<1>5. b.una \notin K /\ K \subseteq g /\ (~s.sock.sackEnabled => K = {})
  BY <1>1, <1>2
<1>6. K # {} => ack < b.end
  <2> SUFFICES ASSUME NEW x \in K PROVE ack < b.end
    OBVIOUS
  <2>1. x \in 1..(b.end - 1) /\ ack < x
    BY <1>2, <1>5
  <2>2. QED BY <1>1, <1>2, <2>1
<1> HIDE DEF K
<1>7. /\ Marked(c, s.sock, g, was) /\ Alike(b, c) /\ c.tail = b.tail
      /\ c.retrans \subseteq was.retrans /\ (c.sacked # b.sacked => K # {})
  BY <1>2, <1>3, <1>5, UpdateKeeps, ZenonT(40)
<1>8. dup => ack < b.end /\ (ack # b.una => s.sock.sackEnabled)
  BY <1>1, <1>2, <1>6, <1>7 DEF IsDupack
<1> HIDE DEF c
<1>9. /\ Marked(d, s.sock, g, was) /\ d.una = ack /\ d.end = b.end /\ d.tail = b.tail
      /\ d.retrans \subseteq was.retrans
  <2>1. c.una <= ack /\ ack <= c.end /\ c.end = b.end
    BY <1>1, <1>7 DEF Alike
  <2>2. QED BY <1>1, <1>2, <1>7, <2>1, DiscardKeeps
<1> HIDE DEF d
<1>10. u \in Handlers /\ u.tx = d /\ u.sock = s.sock /\ u.flight = s.flight
  <2>1. d \in Buffers
    BY <1>9 DEF Marked, Sound, Laid
  <2>2. QED BY <1>2, <2>1 DEF Handlers
<1> HIDE DEF u
<1>11. Kept(u, g, was)
  <2>1. Placed(d, s.sock, s.flight, g)
    BY <1>1, <1>2, <1>9 DEF Placed
  <2>2. Repaired(d, was)
    BY <1>9 DEF Repaired
  <2>3. QED BY <1>9, <1>10, <2>1, <2>2 DEF Kept
<1>12. /\ dup \in BOOLEAN /\ u.tx.end = was.end
       /\ dup => u.tx.una < u.tx.end /\ (u.tx.una # s.tx.una => u.sock.sackEnabled)
  <2>1. dup \in BOOLEAN
    BY DEF IsDupack
  <2>2. /\ u.tx.end = was.end
        /\ dup => u.tx.una < u.tx.end /\ (u.tx.una # s.tx.una => u.sock.sackEnabled)
    BY <1>8, <1>9, <1>10
  <2>3. QED BY <2>1, <2>2
<1> HIDE DEF dup
<1>13. QED
  BY <1>4, <1>7, <1>10, <1>11, <1>12, Zenon DEF ack, dup, c

\* All that the sender does with an ACK of a receiver that holds g
LEMMA ReceivedAckKeeps ==
  ASSUME NEW s, NEW g, NEW was, Kept(s, g, was), s.tx.retrans \subseteq was.retrans,
         s.sock.sackEnabled = sock.sackEnabled, NEW arrived, s.tx.end = was.end,
         NEW blocks \in SackLists(g, arrived),
         NEW t \in ReceivedAck(s, NextRxSeq(g), blocks)
  PROVE  Kept(t, g, was) /\ t.sock.sackEnabled = s.sock.sackEnabled
<1> DEFINE u == Scored(s, NextRxSeq(g), blocks)
           dup == IsDupack(s, NextRxSeq(g), blocks)
           r == ProcessAck(u, s.tx.una, dup)
<1>1. t \in SendPendingData(r, CongWindows)
  BY DEF ReceivedAck
<1>2. /\ Kept(u, g, was) /\ u.sock = s.sock /\ dup \in BOOLEAN /\ u.tx.end = was.end
      /\ dup => u.tx.una < u.tx.end /\ (u.tx.una # s.tx.una => u.sock.sackEnabled)
  BY ScoredKeeps
<1> HIDE DEF u, dup
<1>3. Kept(r, g, was) /\ Follows(u, r)
  BY <1>2, ProcessAckKeeps, Zenon
<1> HIDE DEF r
<1>4. Kept(t, g, was) /\ SameStage(r, t)
  <2>1. CongWindows \in SUBSET Int
    BY SenderAssumption
  <2>2. QED BY <1>1, <1>3, <2>1, SendPendingKeeps, Zenon
<1>5. QED BY <1>2, <1>3, <1>4 DEF Follows, SameStage

(***************************************************************************)
(* The invariant and the theorems                                          *)
(***************************************************************************)
SenderKept == Kept(Sender, got, tx)

\* The parts of the invariant, of the variables
LEMMA SenderParts ==
  ASSUME SenderKept
  PROVE  /\ Sender \in Handlers /\ Sender.tx = tx /\ Sender.sock = sock
         /\ Sender.flight = flight
         /\ Marked(tx, sock, got, tx) /\ Placed(tx, sock, flight, got)
         /\ tx \in Buffers /\ sock \in Socks /\ flight \in SUBSET (Nat \X Nat)
         /\ Sound(tx) /\ Apart(tx) /\ Laid(tx)
         /\ tx.una \in Nat /\ tx.end \in Nat /\ tx.tail \in Nat /\ Total \in Nat
BY HandlerParts, SenderAssumption
   DEF SenderKept, Kept, Sender, Marked, Sound, Laid, Buffers

\* A segment that arrives brings bytes that were sent.
LEMMA HeardKeeps ==
  ASSUME NEW s, NEW g, NEW was, Kept(s, g, was), NEW p \in s.flight
  PROVE  Kept(s, g \cup p[1]..(p[2] - 1), was)
<1> DEFINE lo == p[1]  up == p[2]
           h == g \cup lo..(up - 1)
<1>1. /\ lo \in Nat /\ up \in Nat /\ 1 <= lo /\ up <= s.tx.end /\ s.tx.end \in Nat
      /\ g \subseteq 1..(s.tx.end - 1)
  BY HandlerParts DEF Kept, Placed, Buffers
<1> HIDE DEF lo, up
<1>2. g \subseteq h /\ h \subseteq 1..(s.tx.end - 1)
  <2>1. lo..(up - 1) \subseteq 1..(s.tx.end - 1)
    BY <1>1
  <2>2. QED BY <1>1, <2>1
<1> HIDE DEF h
<1>3. Marked(s.tx, s.sock, h, was) /\ Repaired(s.tx, was)
  BY <1>2 DEF Kept, Marked
<1>4. Placed(s.tx, s.sock, s.flight, h)
  BY <1>2 DEF Kept, Placed
<1>5. Kept(s, h, was)
  BY <1>3, <1>4 DEF Kept
<1>6. QED BY <1>5 DEF h, lo, up

\* What was sent again in a step is not SACKed.
Unsacked == sock.sackEnabled => (tx'.retrans \ tx.retrans) \cap tx'.sacked = {}

\* What a step finds sent again of what it leaves lost, if it sends new data
RepairsFirst == Repaired(tx', tx)

\* What every handler leaves is kept when segments that are acknowledged are
\* forgotten.
LEMMA EndsKeeps ==
  ASSUME NEW S, EndsIn(S),
         \A t \in S : /\ Kept(t, got', tx)
                      /\ t.sock.sackEnabled = sock.sackEnabled
  PROVE  SenderKept' /\ Unsacked /\ RepairsFirst
<1>1. PICK t \in S : /\ tx' = t.tx /\ sock' = t.sock
                     /\ flight' = {p \in t.flight : p[2] > t.tx.una}
  BY DEF EndsIn
<1>2. /\ t \in Handlers /\ Marked(t.tx, t.sock, got', tx)
      /\ Placed(t.tx, t.sock, t.flight, got') /\ t.sock.sackEnabled = sock.sackEnabled
  BY DEF Kept
<1>3. /\ Marked(tx', sock', got', tx) /\ flight' \subseteq t.flight
      /\ Placed(tx', sock', flight', got')
  BY <1>1, <1>2 DEF Placed
<1>4. Marked(tx', sock', got', tx')
  BY <1>3 DEF Marked
<1>5. Sender' \in Handlers
  <2>1. t.tx \in Buffers /\ t.sock \in Socks /\ t.flight \in SUBSET (Nat \X Nat)
    BY <1>2, HandlerParts
  <2>2. tx' \in Buffers /\ sock' \in Socks /\ flight' \in SUBSET (Nat \X Nat)
    BY <1>1, <1>3, <2>1
  <2>3. QED BY <2>2 DEF Sender, Handlers
<1>6. Sender'.tx = tx' /\ Sender'.sock = sock' /\ Sender'.flight = flight'
  BY DEF Sender
<1>7. SenderKept'
  <2>1. Repaired(tx', tx')
    BY DEF Repaired
  <2>2. QED BY <1>3, <1>4, <1>5, <1>6, <2>1 DEF SenderKept, Kept
<1>8. Unsacked
  BY <1>1, <1>2, <1>3 DEF Unsacked, Marked
<1>9. RepairsFirst
  BY <1>1 DEF RepairsFirst, Kept
<1>10. QED BY <1>7, <1>8, <1>9

\* Initially nothing is written, sent or received.
LEMMA InitKept == Init => SenderKept
<1> SUFFICES ASSUME Init PROVE SenderKept
  OBVIOUS
<1> DEFINE none == {}  zero == 0
           b == [una |-> 1, end |-> 1, tail |-> 1, starts |-> none, sacked |-> none,
                 lost |-> none, retrans |-> none, sackedOut |-> zero,
                 lostOut |-> zero, retransOut |-> zero, high |-> zero]
<1>1. PICK mode \in SackModes : sock = InitialSocket(mode)
  BY DEF Init
<1>2. tx = b /\ flight = none /\ got = none
  BY DEF Init, EmptyBuffer
<1>3. none \in SUBSET Nat /\ zero \in Int /\ zero \in Nat /\ 1 \in Nat
      /\ \A x : x \notin none
  OBVIOUS
<1>4. Cardinality(none) = zero
  BY FS_EmptySet, Zenon
<1>5. /\ Total \in Nat /\ ReceiverWindow \in Nat /\ DataRetries \in Nat
  BY SenderAssumption
<1> HIDE DEF none
<1>6. /\ b \in Buffers /\ b.una = 1 /\ b.end = 1 /\ b.tail = 1 /\ b.starts = none
      /\ b.sacked = none /\ b.lost = none /\ b.retrans = none
      /\ b.sackedOut = zero /\ b.lostOut = zero /\ b.retransOut = zero /\ b.high = zero
  <2> HIDE DEF zero
  <2>1. QED BY <1>3 DEF Buffers
<1> HIDE DEF b
<1>7. Sound(b)
  <2>1. Laid(b) /\ SentBytes(b) = {}
    BY <1>3, <1>6 DEF Laid, SentBytes
  <2>2. Whole(b, none) /\ Short(b)
    BY <1>3, <2>1 DEF Whole, Short
  <2>3. Counts(b)
    BY <1>4, <1>6 DEF Counts
  <2>4. QED BY <1>6, <2>1, <2>2, <2>3 DEF Sound
<1>8. /\ sock \in Socks /\ sock.congState = "OPEN" /\ sock.recover = 0 /\ sock.highTx = 1
  <2>1. sock = [sackEnabled |-> mode, congState |-> "OPEN", dupAckCount |-> 0,
                recover |-> 0, recoverActive |-> FALSE, isFirstPartialAck |-> TRUE,
                highTx |-> 1, nextTx |-> 1, rWnd |-> ReceiverWindow, retx |-> FALSE,
                dataRetrCount |-> DataRetries, dropped |-> FALSE, nullItem |-> FALSE]
    BY <1>1 DEF InitialSocket
  <2>2. 0 \in 0..(Total + 1) /\ 1 \in 1..(Total + 1) /\ DataRetries \in 0..DataRetries
        /\ 0 \in Nat /\ "OPEN" \in CongStates
    BY <1>5 DEF CongStates
  <2>3. QED BY <1>5, <2>1, <2>2 DEF Socks
<1>9. Marked(b, sock, got, b)
  <2>1. Apart(b) /\ HeadOnly(b) /\ Explained(b, Aftermath(sock))
    BY <1>3, <1>6 DEF Apart, HeadOnly, Explained
  <2>2. QED BY <1>2, <1>3, <1>6, <1>7, <1>8, <2>1 DEF Marked
<1>10. Placed(b, sock, flight, got)
  BY <1>2, <1>3, <1>5, <1>6, <1>8 DEF Placed
<1>11. Sender \in Handlers /\ Sender.tx = b /\ Sender.sock = sock /\ Sender.flight = flight
  BY <1>2, <1>3, <1>6, <1>8 DEF Sender, Handlers
<1>12. tx = b /\ Repaired(b, b)
  BY <1>2 DEF Repaired
<1>13. QED BY <1>9, <1>10, <1>11, <1>12 DEF SenderKept, Kept

\* A write of the application's
LEMMA WriteKeeps ==
  ASSUME SenderKept, NEW n \in Writes, tx.tail + n <= Total + 1
  PROVE  LET s == [Sender EXCEPT !.tx = Add(tx, n)]
         IN Kept(s, got, tx) /\ s.sock = sock
<1> DEFINE c == Add(tx, n)
           s == [Sender EXCEPT !.tx = c]
<1>1. Kept(Sender, got, tx) /\ n \in Nat
  BY SenderAssumption DEF SenderKept
<1>2. /\ Sound(c) /\ Alike(tx, c) /\ c.tail = tx.tail + n
      /\ c.sacked = tx.sacked /\ c.lost = tx.lost /\ c.retrans = tx.retrans
  BY <1>1, SenderParts, AddIsSound, Zenon
<1> HIDE DEF c
<1>3. s \in Handlers /\ s.tx = c /\ s.sock = sock /\ s.flight = flight
  BY <1>2, SenderParts DEF Sound, Laid, Handlers
<1> HIDE DEF s
<1>4. Kept(s, got, tx)
  <2>1. Marked(c, sock, got, tx)
    <3>1. Apart(c) /\ (HeadOnly(tx) => HeadOnly(c))
      BY <1>2, SenderParts DEF Apart, HeadOnly, Alike
    <3>2. Explained(tx, Aftermath(sock)) => Explained(c, Aftermath(sock))
      <4>1. Laid(c) /\ tx.sacked \subseteq c.sacked /\ c.lost \subseteq tx.lost
        BY <1>2 DEF Sound
      <4>2. QED BY <1>2, <4>1, AlikeExplained, Zenon
    <3>3. QED BY <1>2, <3>1, <3>2, SenderParts DEF Marked
  <2>2. Placed(c, sock, flight, got)
    <3>1. c.end <= c.tail /\ c.tail <= Total + 1
      BY <1>2 DEF Sound, Laid
    <3>2. QED BY <1>2, <3>1, SenderParts DEF Placed, Alike
  <2>3. Repaired(c, tx)
    BY <1>2 DEF Repaired, Alike
  <2>4. QED BY <1>3, <2>1, <2>2, <2>3 DEF Kept
<1>5. QED BY <1>3, <1>4 DEF s, c

\* Send
LEMMA SendStep ==
  ASSUME SenderKept, NEW n \in Writes, Send(n)
  PROVE  SenderKept' /\ Unsacked /\ RepairsFirst
<1> DEFINE s == [Sender EXCEPT !.tx = Add(tx, n)]
<1>1. /\ tx.tail + n <= Total + 1 /\ got' = got
      /\ EndsIn(SendPendingData(s, CongWindows))
  BY DEF Send, Sender
<1>2. Kept(s, got, tx) /\ s.sock = sock
  BY <1>1, WriteKeeps
<1> HIDE DEF s
<1>3. ASSUME NEW t \in SendPendingData(s, CongWindows)
      PROVE  Kept(t, got', tx) /\ t.sock.sackEnabled = sock.sackEnabled
  <2>1. CongWindows \in SUBSET Int
    BY SenderAssumption
  <2>2. Kept(t, got, tx) /\ SameStage(s, t)
    BY <1>2, <2>1, SendPendingKeeps, Zenon
  <2>3. QED BY <1>1, <1>2, <2>2 DEF SameStage
<1>4. QED BY <1>1, <1>3, EndsKeeps, Zenon

\* What an ACK does, whether or not it brings the sender news
LEMMA AckStep ==
  ASSUME SenderKept, Kept(Sender, got', tx), NEW arrived,
         NEW blocks \in SackLists(got', arrived),
         EndsIn(ReceivedAck(Sender, NextRxSeq(got'), blocks))
  PROVE  SenderKept' /\ Unsacked /\ RepairsFirst
<1>1. ASSUME NEW t \in ReceivedAck(Sender, NextRxSeq(got'), blocks)
      PROVE  Kept(t, got', tx) /\ t.sock.sackEnabled = sock.sackEnabled
  <2>1. Sender.tx.retrans \subseteq tx.retrans /\ Sender.sock.sackEnabled = sock.sackEnabled
        /\ Sender.sock = sock /\ Sender.tx.end = tx.end
    BY SenderParts
  <2>2. QED BY <2>1, ReceivedAckKeeps
<1>2. QED BY <1>1, EndsKeeps, Zenon

\* Arrive
LEMMA ArriveStep ==
  ASSUME SenderKept, NEW p \in flight, Arrive(p)
  PROVE  SenderKept' /\ Unsacked /\ RepairsFirst
<1>1. PICK blocks \in SackLists(got', p[1]) :
        EndsIn(ReceivedAck(Sender, NextRxSeq(got'), blocks))
  BY DEF Arrive
<1>2. Kept(Sender, got', tx)
  <2>1. got' = got \cup p[1]..(p[2] - 1) /\ p \in Sender.flight
    BY SenderParts DEF Arrive
  <2>2. Kept(Sender, got, tx)
    BY DEF SenderKept
  <2>3. Kept(Sender, got \cup p[1]..(p[2] - 1), tx)
    BY <2>1, <2>2, HeardKeeps
  <2>4. QED BY <2>1, <2>3, Zenon
<1>3. QED BY <1>1, <1>2, AckStep

\* ArriveAgain
LEMMA ArriveAgainStep ==
  ASSUME SenderKept, ArriveAgain
  PROVE  SenderKept' /\ Unsacked /\ RepairsFirst
<1>1. got' = got
  BY DEF ArriveAgain
<1>2. PICK blocks \in SackLists(got', 1) :
        EndsIn(ReceivedAck(Sender, NextRxSeq(got'), blocks))
  BY <1>1, Zenon DEF ArriveAgain
<1>3. Kept(Sender, got', tx)
  BY <1>1, Zenon DEF SenderKept
<1>4. QED BY <1>2, <1>3, AckStep

\* ArriveUnheard
LEMMA ArriveUnheardStep ==
  ASSUME SenderKept, NEW p \in flight, ArriveUnheard(p)
  PROVE  SenderKept' /\ Unsacked /\ RepairsFirst
<1>1. /\ got' = got \cup p[1]..(p[2] - 1) /\ p \in Sender.flight
      /\ tx' = tx /\ sock' = sock /\ flight' = flight
  BY SenderParts DEF ArriveUnheard
<1>2. Kept(Sender, got, tx)
  BY DEF SenderKept
<1>3. Kept(Sender, got', tx)
  <2>1. Kept(Sender, got \cup p[1]..(p[2] - 1), tx)
    BY <1>1, <1>2, HeardKeeps
  <2>2. QED BY <1>1, <2>1, Zenon
<1>4. Sender' = Sender
  BY <1>1 DEF Sender
<1>5. QED BY <1>1, <1>3, <1>4 DEF SenderKept, Unsacked, RepairsFirst, Repaired

\* ReTxTimeout: everything but what is SACKed is held lost, and nothing is held
\* sent again.
LEMMA TimeoutStep ==
  ASSUME SenderKept, ReTxTimeout
  PROVE  SenderKept' /\ Unsacked /\ RepairsFirst /\ sock'.congState = "LOSS"
<1> DEFINE b == IF sock.sackEnabled THEN tx ELSE ResetRenoSack(tx)
           c == SetSentListLost(b, ~sock.sackEnabled)
           k == [sock EXCEPT !.retx = FALSE, !.dataRetrCount = @ - 1, !.dupAckCount = 0,
                             !.recover = sock.highTx, !.recoverActive = TRUE,
                             !.congState = "LOSS"]
           s == [tx |-> c, flight |-> flight, out |-> 0, sock |-> k]
<1>1. /\ sock.dataRetrCount > 0 /\ got' = got
      /\ EndsIn(SendPendingData(s, {SegmentSize}))
  BY DEF ReTxTimeout, TimedOut
<1>2. /\ sock \in Socks /\ tx \in Buffers /\ Sound(tx) /\ Apart(tx) /\ Laid(tx)
      /\ flight \in SUBSET (Nat \X Nat) /\ tx.end \in Nat /\ Total \in Nat
      /\ sock.highTx = tx.end /\ Placed(tx, sock, flight, got)
      /\ Marked(tx, sock, got, tx) /\ sock.sackEnabled \in BOOLEAN
      /\ sock.highTx \in 1..(Total + 1) /\ sock.dataRetrCount \in 0..DataRetries
      /\ DataRetries \in Nat
  BY SenderParts, HandlerParts, SenderAssumption DEF Placed, Socks
<1>3. /\ k \in Socks /\ k.sackEnabled = sock.sackEnabled /\ k.congState = "LOSS"
      /\ k.recover = tx.end /\ k.highTx = tx.end
  <2>1. /\ sock.dataRetrCount - 1 \in 0..DataRetries /\ "LOSS" \in CongStates
        /\ sock.highTx \in 0..(Total + 1)
    BY <1>1, <1>2 DEF CongStates
  <2>2. QED BY <1>2, <2>1 DEF Socks
<1> HIDE DEF k
<1>4. /\ Sound(b) /\ Alike(tx, b) /\ b.tail = tx.tail
      /\ sock.sackEnabled => b = tx
  <2>1. CASE sock.sackEnabled
    BY <1>2, <2>1 DEF Alike
  <2>2. CASE ~sock.sackEnabled
    <3>1. LET d == ResetRenoSack(tx) IN Sound(d) /\ Alike(tx, d) /\ d.tail = tx.tail
      BY <1>2, ForgetSacksIsSound, Zenon
    <3>2. QED BY <2>2, <3>1
  <2>3. QED BY <2>1, <2>2
<1> HIDE DEF b
<1>5. /\ Sound(c) /\ Alike(b, c) /\ c.tail = b.tail /\ c.retrans = {}
      /\ ~sock.sackEnabled => c.sacked = {} /\ c.lost = SentBytes(b)
      /\ sock.sackEnabled => /\ c.sacked = b.sacked
                             /\ c.lost = b.lost \cup (SentBytes(b) \ b.sacked)
  <2>1. (~sock.sackEnabled) \in BOOLEAN
    OBVIOUS
  <2>2. QED BY <1>4, <2>1, ListLostIsSound, Zenon
<1> HIDE DEF c
<1>6. Marked(c, k, got, tx)
  <2>1. CASE sock.sackEnabled
    <3>1. Apart(c)
      BY <1>2, <1>4, <1>5, <2>1 DEF Apart, Alike
    <3>2. Explained(c, Aftermath(k))
      <4>1. c.lost \subseteq SentBytes(tx)
        BY <1>2, <1>4, <1>5, <2>1 DEF Sound, Whole
      <4>2. QED BY <1>2, <1>3, <4>1 DEF Explained, Aftermath, SentBytes
    <3>3. QED BY <1>2, <1>3, <1>4, <1>5, <2>1, <3>1, <3>2 DEF Marked
  <2>2. CASE ~sock.sackEnabled
    <3>1. Apart(c)
      BY <1>5, <2>2 DEF Apart
    <3>2. SentBytes(b) \subseteq 1..(k.recover - 1)
      <4>1. /\ b.una \in Nat /\ 1 <= b.una /\ b.end = tx.end /\ k.recover = b.end
        BY <1>3, <1>4 DEF Sound, Laid, Buffers, Alike
      <4>2. QED BY <1>2, <4>1 DEF SentBytes
    <3>3. QED BY <1>3, <1>5, <2>2, <3>1, <3>2 DEF Marked
  <2>3. QED BY <2>1, <2>2
<1>7. Placed(c, k, flight, got)
  <2>1. c.una = tx.una /\ c.end = tx.end /\ c.tail = tx.tail
    BY <1>4, <1>5 DEF Alike
  <2>2. tx.end <= tx.end
    BY <1>2
  <2>3. QED BY <1>2, <1>3, <2>1, <2>2 DEF Placed
<1>8. s \in Handlers /\ s.tx = c /\ s.sock = k /\ s.flight = flight
  BY <1>2, <1>3, <1>5 DEF Handlers, Sound, Laid
<1> HIDE DEF s
<1>9. Kept(s, got, tx)
  <2>1. Repaired(c, tx)
    BY <1>4, <1>5 DEF Repaired, Alike
  <2>2. QED BY <1>6, <1>7, <1>8, <2>1 DEF Kept
<1>10. ASSUME NEW t \in SendPendingData(s, {SegmentSize})
       PROVE  /\ Kept(t, got', tx) /\ t.sock.sackEnabled = sock.sackEnabled
              /\ t.sock.congState = "LOSS"
  <2>1. {SegmentSize} \in SUBSET Int
    BY TxAssumption
  <2>2. Kept(t, got, tx) /\ SameStage(s, t)
    BY <1>9, <2>1, SendPendingKeeps, Zenon
  <2>3. QED BY <1>1, <1>3, <1>8, <2>2 DEF SameStage
<1>11. SenderKept' /\ Unsacked /\ RepairsFirst
  BY <1>1, <1>10, EndsKeeps, Zenon
<1>12. sock'.congState = "LOSS"
  BY <1>1, <1>10 DEF EndsIn
<1>13. QED BY <1>11, <1>12

\* LastTimeout
LEMMA LastTimeoutStep ==
  ASSUME SenderKept, LastTimeout
  PROVE  SenderKept' /\ Unsacked /\ RepairsFirst
<1> DEFINE gone == tx.tail > tx.una
<1>1. /\ sock' = [sock EXCEPT !.retx = FALSE, !.dropped = gone]
      /\ tx' = tx /\ flight' = flight /\ got' = got
  BY DEF LastTimeout
<1>2. gone \in BOOLEAN
  OBVIOUS
<1> HIDE DEF gone
<1>3. /\ sock' \in Socks /\ sock'.sackEnabled = sock.sackEnabled
      /\ sock'.congState = sock.congState /\ sock'.recover = sock.recover
      /\ sock'.highTx = sock.highTx
  BY <1>1, <1>2, SenderParts DEF Socks
<1>4. /\ Sender' \in Handlers /\ Sender'.tx = tx /\ Sender'.sock = sock'
      /\ Sender'.flight = flight
  BY <1>1, <1>3, SenderParts DEF Sender, Handlers
<1>5. Kept(Sender', got, tx)
  <2>1. Kept(Sender, got, tx)
    BY DEF SenderKept
  <2>2. Sender.tx = tx /\ Sender.sock = sock /\ Sender.flight = flight
    BY SenderParts
  <2>3. QED BY <1>3, <1>4, <2>1, <2>2, OtherFieldsKeep
<1>6. QED BY <1>1, <1>5 DEF SenderKept, Unsacked, RepairsFirst, Repaired

\* Every step keeps the invariant, and sends nothing again that is SACKed.
LEMMA NextKept ==
  ASSUME SenderKept, [Next]_vars
  PROVE  SenderKept' /\ Unsacked /\ RepairsFirst
<1>1. CASE \E n \in Writes : Send(n)
  BY <1>1, SendStep
<1>2. CASE \E p \in flight : Arrive(p)
  BY <1>2, ArriveStep
<1>3. CASE \E p \in flight : ArriveUnheard(p)
  BY <1>3, ArriveUnheardStep
<1>4. CASE ArriveAgain
  BY <1>4, ArriveAgainStep
<1>5. CASE ReTxTimeout
  BY <1>5, TimeoutStep
<1>6. CASE LastTimeout
  BY <1>6, LastTimeoutStep
<1>7. CASE UNCHANGED vars
  BY <1>7 DEF vars, SenderKept, Sender, Unsacked, RepairsFirst, Repaired
<1>8. QED
  BY <1>1, <1>2, <1>3, <1>4, <1>5, <1>6, <1>7 DEF Next

\* The invariant holds throughout.
LEMMA SenderStaysKept == Spec => []SenderKept
<1>1. Init => SenderKept
  BY InitKept
<1>2. SenderKept /\ [Next]_vars => SenderKept'
  BY NextKept
<1>3. QED BY <1>1, <1>2, PTL DEF Spec

\* The parts of the invariant give the type invariant.
LEMMA SenderTypes ==
  ASSUME SenderKept
  PROVE  SenderTypeOK
<1>1. /\ sock \in Socks /\ tx \in Buffers /\ Laid(tx) /\ Counts(tx)
      /\ Whole(tx, tx.sacked) /\ Whole(tx, tx.lost) /\ Whole(tx, tx.retrans)
  BY SenderParts DEF Sound
<1>2. /\ tx.una \in Nat /\ tx.end \in Nat /\ tx.tail \in Nat /\ Total \in Nat
      /\ 1 <= tx.una /\ tx.una <= tx.end /\ tx.end <= tx.tail /\ tx.tail <= Total + 1
      /\ tx.high \in Nat /\ tx.high < tx.end
  BY <1>1, SenderParts DEF Laid, Placed, Buffers
<1>3. tx.starts \subseteq Bytes
  BY <1>1, <1>2 DEF Laid, SentBytes, Bytes
<1>4. SentBytes(tx) \subseteq Bytes
  BY <1>2 DEF SentBytes, Bytes
<1>5. tx.sacked \subseteq Bytes /\ tx.lost \subseteq Bytes /\ tx.retrans \subseteq Bytes
  BY <1>1, <1>4 DEF Whole
<1>6. tx.sackedOut \in Nat /\ tx.lostOut \in Nat /\ tx.retransOut \in Nat
  <2>1. /\ tx.sacked \in SUBSET SentBytes(tx) /\ tx.lost \in SUBSET SentBytes(tx)
        /\ tx.retrans \in SUBSET SentBytes(tx)
    BY <1>1 DEF Whole
  <2>2. /\ Cardinality(tx.sacked) \in Nat /\ Cardinality(tx.lost) \in Nat
        /\ Cardinality(tx.retrans) \in Nat
    BY <1>1, <2>1, FinitelySent, Zenon
  <2>3. QED BY <1>1, <2>2 DEF Counts
<1>7. /\ tx.una \in 1..(Total + 1) /\ tx.end \in 1..(Total + 1)
      /\ tx.tail \in 1..(Total + 1) /\ tx.high \in 0..Total
  BY <1>2
<1>8. tx \in [una : 1..(Total + 1), end : 1..(Total + 1), tail : 1..(Total + 1),
              starts : SUBSET Bytes, sacked : SUBSET Bytes, lost : SUBSET Bytes,
              retrans : SUBSET Bytes, sackedOut : Nat, lostOut : Nat,
              retransOut : Nat, high : 0..Total]
  <2> HIDE DEF Bytes
  <2>1. QED BY <1>1, <1>3, <1>5, <1>6, <1>7 DEF Buffers
<1>9. got \subseteq Bytes
  BY <1>2, SenderParts DEF Placed, Bytes
<1>10. flight \subseteq Bytes \X (1..(Total + 1))
  <2> SUFFICES ASSUME NEW p \in flight PROVE p \in Bytes \X (1..(Total + 1))
    OBVIOUS
  <2> DEFINE lo == p[1]  up == p[2]
  <2>1. /\ lo \in Nat /\ up \in Nat /\ p = <<lo, up>>
        /\ 1 <= lo /\ lo < up /\ up <= tx.end
    BY SenderParts DEF Placed
  <2> HIDE DEF lo, up
  <2>2. lo \in Bytes /\ up \in 1..(Total + 1)
    BY <1>2, <2>1 DEF Bytes
  <2>3. QED BY <2>1, <2>2
<1>11. QED BY <1>1, <1>8, <1>9, <1>10 DEF SenderTypeOK, Socks

\* The sender's variables have their types: no sequence number leaves the stream,
\* and no counter of the scoreboard wraps below zero.
THEOREM SenderTypeCorrect == Spec => []SenderTypeOK
<1>1. QED BY SenderTypes, SenderStaysKept, PTL

\* The counters of SACKed, lost and retransmitted bytes agree with the items,
\* whatever is split, merged, marked and dropped.
THEOREM CountersStayCorrect == Spec => []CountersAgree
<1>1. ASSUME SenderKept PROVE CountersAgree
  BY <1>1, SenderParts DEF Sound, Counts, CountersAgree
<1>2. QED BY <1>1, SenderStaysKept, PTL

\* SACKed and lost bytes are different bytes, all sent.
LEMMA LeftOutIsSent ==
  ASSUME SenderKept
  PROVE  LeftOutWithinSent
<1>1. /\ Laid(tx) /\ Counts(tx) /\ tx.sacked \cap tx.lost = {}
      /\ tx.sacked \in SUBSET SentBytes(tx) /\ tx.lost \in SUBSET SentBytes(tx)
      /\ tx.sacked \cup tx.lost \in SUBSET SentBytes(tx)
  BY SenderParts DEF Sound, Whole, Apart
<1>2. IsFiniteSet(tx.sacked) /\ IsFiniteSet(tx.lost)
  BY <1>1, FinitelySent, Zenon
<1>3. Cardinality(tx.sacked \cup tx.lost) = Cardinality(tx.sacked) + Cardinality(tx.lost)
  BY <1>1, <1>2, CountBoth, Zenon
<1>4. Cardinality(tx.sacked \cup tx.lost) <= SentSize(tx)
  BY <1>1, FinitelySent, Zenon
<1>5. QED BY <1>1, <1>3, <1>4 DEF Counts, LeftOutWithinSent

\* What is counted out never exceeds what was sent: BytesInFlight does not wrap.
THEOREM InFlightNeverWraps == Spec => []LeftOutWithinSent
<1>1. QED BY LeftOutIsSent, SenderStaysKept, PTL

\* The head of the sent list is never SACKed, with SACK or by a guess.
THEOREM HeadStaysUnsacked == Spec => []HeadNotSacked
<1>1. ASSUME SenderKept PROVE HeadNotSacked
  BY <1>1, SenderParts DEF Apart, HeadNotSacked
<1>2. QED BY <1>1, SenderStaysKept, PTL

\* With SACK the scoreboard holds nothing SACKed that the receiver lacks.
THEOREM ScoreboardIsHonest == Spec => []SackedIsHeld
<1>1. ASSUME SenderKept PROVE SackedIsHeld
  BY <1>1, SenderParts DEF Marked, SackedIsHeld
<1>2. QED BY <1>1, SenderStaysKept, PTL

\* With SACK no step sends again what is SACKed.
THEOREM SackedStaysUnsent == Spec => SackedNotResent
<1>1. SenderKept /\ [Next]_vars =>
        [sock.sackEnabled => (tx'.retrans \ tx.retrans) \cap tx'.sacked = {}]_vars
  BY NextKept DEF Unsacked
<1>2. QED BY <1>1, SenderStaysKept, PTL DEF Spec, SackedNotResent

\* What is said of lost bytes, said of lost items
LEMMA LostItems ==
  ASSUME SenderKept
  PROVE  LostIsJustified
<1> SUFFICES ASSUME NEW i \in tx.starts \cap tx.lost, i # tx.una,
                    ~(sock.congState = "LOSS" /\ i < sock.recover)
             PROVE  Cardinality({j \in tx.starts \cap tx.sacked : j > i}) >= DupAckThresh
  BY DEF LostIsJustified
<1>1. /\ Marked(tx, sock, got, tx) /\ Laid(tx) /\ tx.una \in Nat /\ tx.end \in Nat
      /\ Sound(tx) /\ sock \in Socks
  BY SenderParts
<1>2. i \in Nat /\ tx.una < i /\ i < tx.end /\ tx.una \in tx.starts
  BY <1>1 DEF Laid, SentBytes
<1>3. ASSUME ~sock.sackEnabled
      PROVE  FALSE
  <2>1. CASE sock.congState = "LOSS"
    <3>1. sock.recover \in Nat /\ i \in 1..(sock.recover - 1)
      BY <1>1, <1>3, <2>1, SenderAssumption DEF Marked, Socks
    <3>2. QED BY <2>1, <3>1
  <2>2. CASE sock.congState # "LOSS"
    BY <1>1, <1>3, <2>2 DEF Marked, HeadOnly
  <2>3. QED BY <2>1, <2>2
<1>4. Explained(tx, Aftermath(sock))
  BY <1>1, <1>3 DEF Marked
<1>5. ~(i < Aftermath(sock))
  BY <1>2 DEF Aftermath
<1>6. ~\A j \in tx.starts : j <= tx.una \/ i < j
  <2>1. i \in tx.starts /\ ~(i <= tx.una) /\ ~(i < i)
    BY <1>1, <1>2
  <2>2. QED BY <2>1
<1>7. Cardinality(SackedOver(tx, i)) >= DupAckThresh
  BY <1>4, <1>5, <1>6 DEF Explained
<1>8. QED BY <1>7 DEF SackedOver

\* An item after the head is held lost only below DupAckThresh SACKed items or in
\* the aftermath of a timeout, whatever is split, merged and dropped in between.
THEOREM LostStaysJustified == Spec => []LostIsJustified
<1>1. QED BY LostItems, SenderStaysKept, PTL

\* New data is sent only when nothing is known to be lost and not yet sent again.
THEOREM RepairComesFirst == Spec => RepairFirst
<1>1. SenderKept /\ [Next]_vars =>
        [tx'.end > tx.end =>
           (tx'.starts \cap tx'.lost) \ (tx'.retrans \cup tx'.sacked) = {}]_vars
  <2> SUFFICES ASSUME SenderKept, [Next]_vars, tx'.end > tx.end
               PROVE  (tx'.starts \cap tx'.lost) \ (tx'.retrans \cup tx'.sacked) = {}
    OBVIOUS
  <2>1. Repaired(tx', tx) /\ tx.end \in Nat
    BY NextKept, SenderParts DEF RepairsFirst
  <2>2. QED BY <2>1 DEF Repaired
<1>2. QED BY <1>1, SenderStaysKept, PTL DEF Spec, RepairFirst
=============================================================================
