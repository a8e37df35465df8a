---------------------------- MODULE TcpTxBuffer ----------------------------
(***************************************************************************)
(* The transmit buffer and SACK scoreboard of tcp-tx-buffer.cc, as         *)
(* operators on a buffer b; TcpSender calls them.                          *)
(*                                                                         *)
(* Sequence numbers start at 1.  Bytes una..(end - 1) are the sent list    *)
(* and end..(tail - 1) the application list.  An item of the sent list is  *)
(* known by its first byte (starts); the flags of items are the sets of    *)
(* the bytes that carry them, next to the counters the code keeps of them. *)
(* high is the first byte of the item m_highestSack, 0 for none.           *)
(***************************************************************************)
EXTENDS Integers, FiniteSets

CONSTANTS SegmentSize,   \* m_segmentSize
          DupAckThresh   \* m_dupAckThresh

ASSUME TxAssumption == /\ SegmentSize \in Nat \ {0}
                       /\ DupAckThresh \in Nat \ {0}

LeastOf(S) == CHOOSE x \in S : \A y \in S : x <= y
GreatestOf(S) == CHOOSE x \in S : \A y \in S : x >= y
Smaller(a, b) == IF a <= b THEN a ELSE b
Larger(a, b) == IF a >= b THEN a ELSE b

EmptyBuffer == [una |-> 1, end |-> 1, tail |-> 1, starts |-> {},
                sacked |-> {}, lost |-> {}, retrans |-> {},
                sackedOut |-> 0, lostOut |-> 0, retransOut |-> 0, high |-> 0]

SentBytes(b) == b.una..(b.end - 1)
SentSize(b) == b.end - b.una
EndOf(b, i) == LeastOf({j \in b.starts \cup {b.end} : j > i})
ItemBytes(b, i) == i..(EndOf(b, i) - 1)
BytesOf(b, items) == UNION {ItemBytes(b, i) : i \in items}

SizeFromSequence(b, seq) == Larger(b.tail - seq, 0)

BytesInFlight(b) == SentSize(b) - (b.sackedOut + b.lostOut) + b.retransOut

\* Add, when the data fits
Add(b, n) == [b EXCEPT !.tail = @ + n]

(***************************************************************************)
(* Taking data out to send it                                              *)
(***************************************************************************)
GetNewSegment(b, n) == [b EXCEPT !.starts = @ \cup {b.end}, !.end = @ + n]

\* How much of n bytes from the item at seq one retransmission takes: the item
\* and, if it is not SACKed and as lost as this one, the item after it
Mergeable(b, seq, n) ==
  LET next == EndOf(b, seq)
      likewise == /\ next < b.end /\ next \notin b.sacked
                  /\ (seq \in b.lost) = (next \in b.lost)
  IN Smaller(n, (IF likewise THEN EndOf(b, next) ELSE next) - seq)

\* GetPacketFromList on the sent list: the items that [seq, seq + n) touches
\* are merged, which cancels the retransmitted flag unless all carry it, and
\* the excess is split off again.
CutOut(b, seq, n) ==
  LET touched == {i \in b.starts : i < seq + n /\ EndOf(b, i) > seq}
      merged == seq..(EndOf(b, GreatestOf(touched)) - 1)
      cancelled == IF Cardinality(touched) > 1 /\ ~(merged \subseteq b.retrans)
                   THEN merged \cap b.retrans ELSE {}
  IN [b EXCEPT !.starts = (@ \ ((seq + 1)..(seq + n - 1)))
                            \cup ({seq, seq + n} \cap SentBytes(b)),
               !.retrans = @ \ cancelled,
               !.retransOut = @ - Cardinality(cancelled)]

MarkRetransmitted(b, seq) ==
  IF seq \in b.retrans THEN b
  ELSE [b EXCEPT !.retrans = @ \cup ItemBytes(b, seq),
                 !.retransOut = @ + (EndOf(b, seq) - seq)]

GetTransmittedSegment(b, n, seq) ==
  LET size == IF seq \in b.starts THEN Mergeable(b, seq, n) ELSE n
  IN MarkRetransmitted(CutOut(b, seq, size), seq)

\* CopyFromSequence of n > 0 bytes; the item it returns starts at seq.
CopyFromSequence(b, n, seq) ==
  LET s == Smaller(n, SizeFromSequence(b, seq))
  IN IF seq = b.end THEN GetNewSegment(b, s)
     ELSE GetTransmittedSegment(b, Smaller(s, b.end - seq), seq)

\* The last item of the sent list goes back to the application list, with the
\* flags it has.
ResetLastSegmentSent(b) ==
  IF b.starts = {} THEN b
  ELSE LET last == GreatestOf(b.starts)
       IN [b EXCEPT !.starts = @ \ {last}, !.end = last,
                    !.retransOut = IF last \in b.retrans THEN @ - (b.end - last)
                                   ELSE @]

(***************************************************************************)
(* Guesses and marks                                                       *)
(***************************************************************************)
\* The head is never SACKed: the first item after it that is not becomes so.
AddRenoSack(b) ==
  LET free == {i \in b.starts \ {b.una} : i \notin b.sacked}
      i == LeastOf(free)
  IN IF free = {} THEN b
     ELSE [b EXCEPT !.sacked = @ \cup ItemBytes(b, i),
                    !.sackedOut = @ + (EndOf(b, i) - i), !.high = i]

\* Mutant: the retransmitted bytes are taken off whether or not there are any.
MutantMarkHeadAsLost(b) ==
  IF b.starts = {} THEN b
  ELSE LET head == ItemBytes(b, b.una)
           size == EndOf(b, b.una) - b.una
       IN [b EXCEPT !.retrans = @ \ head, !.retransOut = @ - size,
                    !.lost = @ \cup head,
                    !.lostOut = IF b.una \in b.lost THEN @ ELSE @ + size]

MarkHeadAsLost(b) ==
  IF b.starts = {} THEN b
  ELSE LET head == ItemBytes(b, b.una)
           size == EndOf(b, b.una) - b.una
       IN [b EXCEPT
             !.sacked = @ \ head,
             !.sackedOut = IF b.una \in b.sacked THEN @ - size ELSE @,
             !.retrans = @ \ head,
             !.retransOut = IF b.una \in b.retrans THEN @ - size ELSE @,
             !.lost = @ \cup head,
             !.lostOut = IF b.una \in b.lost THEN @ ELSE @ + size]

ResetRenoSack(b) == [b EXCEPT !.sacked = {}, !.sackedOut = 0, !.high = 0]

\* Mutant: what was SACKed is lost as well.
MutantSetSentListLost(b, reset) ==
  [b EXCEPT !.lost = SentBytes(b), !.lostOut = SentSize(b), !.retrans = {},
            !.retransOut = 0]

\* Mutant: what was sent again stays so.
MutantKeepRetrans(b, reset) ==
  LET lost == b.lost \cup (SentBytes(b) \ b.sacked)
  IN [b EXCEPT !.lost = lost, !.lostOut = Cardinality(lost)]

\* After a timeout; reset also forgets what was SACKed.
SetSentListLost(b, reset) ==
  LET sacked == IF reset THEN {} ELSE b.sacked
      lost == IF reset THEN SentBytes(b) ELSE b.lost \cup (SentBytes(b) \ sacked)
  IN [b EXCEPT !.sacked = sacked, !.sackedOut = IF reset THEN 0 ELSE @,
               !.lost = lost, !.lostOut = Cardinality(lost),
               !.retrans = {}, !.retransOut = 0,
               !.high = IF reset THEN 0 ELSE @]

(***************************************************************************)
(* An acknowledgment                                                       *)
(***************************************************************************)
\* The items after the head, from i up to m_highestSack, that are SACKed
SackedAbove(b, i) == {j \in b.starts \cap b.sacked : j # b.una /\ i <= j /\ j <= b.high}

\* Mutant: one SACKed item too few is enough.
MutantUpdateLostCount(b) ==
  LET items == {i \in b.starts \ b.lost :
                  /\ i = b.una \/ i \notin b.sacked
                  /\ Cardinality(SackedAbove(b, i)) >= DupAckThresh - 1}
      bytes == BytesOf(b, items)
  IN [b EXCEPT !.lost = @ \cup bytes, !.lostOut = @ + Cardinality(bytes)]

UpdateLostCount(b) ==
  LET items == {i \in b.starts \ b.lost :
                  /\ i = b.una \/ i \notin b.sacked
                  /\ Cardinality(SackedAbove(b, i)) >= DupAckThresh}
      bytes == BytesOf(b, items)
  IN [b EXCEPT !.lost = @ \cup bytes, !.lostOut = @ + Cardinality(bytes)]

\* Mutant: the items that begin inside a block
MutantInside(b, block) == {i \in b.starts : block[1] <= i /\ i < block[2]}

\* The items wholly inside a block, a pair of its first byte and the one past it
Inside(b, block) == {i \in b.starts : block[1] <= i /\ EndOf(b, i) <= block[2]}

\* Update stops at the first block that lies beyond the sent list.
Usable(b, blocks) ==
  {k \in DOMAIN blocks : \A j \in 1..k : blocks[j][1] <= b.end}

NewlySacked(b, blocks) ==
  (UNION {Inside(b, blocks[k]) : k \in Usable(b, blocks)}) \ b.sacked

\* m_highestSack after the first k blocks: it moves to the last item a block
\* marks, unless that one ends before it.
HighestSack(b, blocks) ==
  LET news(k) == Inside(b, blocks[k]) \ (b.sacked \cup
                   UNION {Inside(b, blocks[j]) : j \in 1..(k - 1)})
      high[k \in 0..Cardinality(Usable(b, blocks))] ==
        IF k = 0 THEN b.high
        ELSE IF news(k) = {} THEN high[k - 1]
        ELSE LET last == GreatestOf(news(k))
             IN IF high[k - 1] = 0 \/ high[k - 1] <= EndOf(b, last)
                THEN last ELSE high[k - 1]
  IN high[Cardinality(Usable(b, blocks))]

\* Mutant: a lost item that is SACKed stays in the count of lost bytes.
MutantUpdate(b, blocks) ==
  LET bytes == BytesOf(b, NewlySacked(b, blocks))
  IN UpdateLostCount([b EXCEPT !.sacked = @ \cup bytes,
                               !.sackedOut = @ + Cardinality(bytes),
                               !.lost = @ \ bytes,
                               !.high = HighestSack(b, blocks)])

Update(b, blocks) ==
  LET items == NewlySacked(b, blocks)
      bytes == BytesOf(b, items)
      marked == [b EXCEPT !.sacked = @ \cup bytes,
                          !.sackedOut = @ + Cardinality(bytes),
                          !.lost = @ \ bytes,
                          !.lostOut = @ - Cardinality(bytes \cap b.lost),
                          !.high = HighestSack(b, blocks)]
      complete == Usable(b, blocks) = DOMAIN blocks
  IN IF items # {} /\ complete THEN UpdateLostCount(marked) ELSE marked

\* The items below seq leave the list, the one it cuts keeps its upper part.
DropBelow(b, seq) ==
  LET gone == b.una..(seq - 1)
      kept == {i \in b.starts : i > seq}
  IN [b EXCEPT !.una = seq, !.end = Larger(@, seq), !.tail = Larger(@, seq),
               !.starts = IF seq < b.end THEN kept \cup {seq} ELSE kept,
               !.sacked = @ \ gone, !.lost = @ \ gone, !.retrans = @ \ gone,
               !.sackedOut = @ - Cardinality(gone \cap b.sacked),
               !.lostOut = @ - Cardinality(gone \cap b.lost),
               !.retransOut = @ - Cardinality(gone \cap b.retrans)]

\* Mutant: the wrong guess stays.
MutantUnsackHead(b) == b

\* A head that is SACKed after that was a wrong guess: the mark moves on.
UnsackHead(b) ==
  LET head == ItemBytes(b, b.una)
      c == [b EXCEPT !.sacked = @ \ head, !.sackedOut = @ - Cardinality(head)]
  IN IF b.starts # {} /\ b.una \in b.sacked THEN MarkHeadAsLost(AddRenoSack(c))
     ELSE b

ForgetHighest(b) == IF b.high <= b.una THEN [b EXCEPT !.high = 0] ELSE b

DiscardUpTo(b, seq) ==
  IF seq <= b.una THEN b ELSE ForgetHighest(UnsackHead(DropBelow(b, seq)))

(***************************************************************************)
(* Questions                                                               *)
(***************************************************************************)
IsLost(b, seq) ==
  LET flagged == {i \in b.starts : i >= seq /\ i \in b.lost \cup b.sacked}
  IN seq < b.high /\ flagged # {} /\ LeastOf(flagged) \in b.lost

IsRetransmittedDataAcked(b, ack) ==
  \E i \in b.starts : EndOf(b, i) = ack /\ i \notin b.sacked /\ i \in b.retrans

\* Mutant: what is offered first may be SACKed.
MutantNextSeg(b, rWnd, recovery) ==
  LET open == b.starts \ b.retrans
  IN IF open # {} THEN [ok |-> TRUE, seq |-> LeastOf(open), size |-> SegmentSize]
     ELSE [ok |-> SizeFromSequence(b, b.end) > 0, seq |-> b.end,
           size |-> SegmentSize]

\* Mutant: rule 2 comes before rule 1.
MutantNewDataFirst(b, rWnd, recovery) ==
  LET lost == {i \in b.starts : i \notin b.sacked \cup b.retrans} \cap b.lost
      new == SizeFromSequence(b, b.end) > 0 /\ SentSize(b) < rWnd
  IN [ok |-> new \/ lost # {}, size |-> SegmentSize,
      seq |-> IF new \/ lost = {} THEN b.end ELSE LeastOf(lost)]

\* The range RFC 6675's NextSeg offers: what is lost and not sent again, then
\* new data as the window allows, then in recovery what is not SACKed
NextSeg(b, rWnd, recovery) ==
  LET open == {i \in b.starts : i \notin b.sacked \cup b.retrans}
      lost == open \cap b.lost
      from(seq, n) == [ok |-> TRUE, seq |-> seq, size |-> n]
      none == [ok |-> FALSE, seq |-> 0, size |-> 0]
  IN IF lost # {} THEN from(LeastOf(lost), SegmentSize)
     ELSE IF SizeFromSequence(b, b.end) > 0
     THEN IF SentSize(b) <= rWnd
          THEN from(b.end, Smaller(SegmentSize, rWnd - SentSize(b))) ELSE none
     ELSE IF recovery /\ open # {} THEN from(LeastOf(open), SegmentSize)
     ELSE none
=============================================================================
