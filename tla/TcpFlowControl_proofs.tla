------------------------ MODULE TcpFlowControl_proofs ------------------------
(***************************************************************************)
(* The sender never goes beyond the window the receiver has room for,      *)
(* whatever is lost, repeated, delayed and reordered, and though the probe *)
(* of a closed window disturbs the scoreboard: the flags of an item it     *)
(* puts back stay behind, so that of what TcpSender_proofs shows only the  *)
(* weaker Fits holds here.                                                 *)
(***************************************************************************)
EXTENDS TcpFlowControl, TcpSender_proofs

(***************************************************************************)
(* The buffer: its numbers are in order, and flags lie in it               *)
(***************************************************************************)
Within(b, F) == F \subseteq 1..(b.tail - 1)

Fits(b) == /\ b \in Buffers
           /\ 1 <= b.una /\ b.una <= b.end /\ b.end <= b.tail /\ b.tail <= Total + 1
           /\ b.starts \subseteq SentBytes(b)
           /\ Within(b, b.sacked) /\ Within(b, b.lost) /\ Within(b, b.retrans)

Level(b, c) == c.una = b.una /\ c.end = b.end /\ c.tail = b.tail

\* The fields of a buffer
LEMMA FitsParts ==
  ASSUME NEW b, Fits(b)
  PROVE  /\ b \in Buffers /\ b.una \in Nat /\ b.end \in Nat /\ b.tail \in Nat
         /\ b.starts \in SUBSET Nat /\ b.sacked \in SUBSET Nat
         /\ b.lost \in SUBSET Nat /\ b.retrans \in SUBSET Nat
         /\ b.sackedOut \in Int /\ b.lostOut \in Int /\ b.retransOut \in Int
         /\ b.high \in Nat /\ Total \in Nat
         /\ 1 <= b.una /\ b.una <= b.end /\ b.end <= b.tail /\ b.tail <= Total + 1
         /\ b.starts \subseteq SentBytes(b)
         /\ Within(b, b.sacked) /\ Within(b, b.lost) /\ Within(b, b.retrans)
BY SenderAssumption DEF Fits, Buffers

LEMMA BufferOf ==
  ASSUME NEW b, Fits(b)
  PROVE  b \in Buffers
BY DEF Fits

\* What lies in the buffer can be counted.
LEMMA WithinIsFinite ==
  ASSUME NEW b, Fits(b), NEW F, Within(b, F)
  PROVE  IsFiniteSet(F) /\ Cardinality(F) \in Nat /\ F \in SUBSET Nat
<1>1. b.tail - 1 \in Int /\ 1 \in Int
  BY FitsParts
<1>2. IsFiniteSet(1..(b.tail - 1))
  BY <1>1, FS_Interval
<1>3. F \subseteq 1..(b.tail - 1)
  BY DEF Within
<1>4. IsFiniteSet(F)
  BY <1>2, <1>3, FS_Subset
<1>5. QED BY <1>3, <1>4, FS_CardinalityType

\* The end of an item, also of one that begins at no item
LEMMA EndIs ==
  ASSUME NEW b, Fits(b), NEW i \in Nat, i < b.end
  PROVE  /\ EndOf(b, i) \in Nat /\ i < EndOf(b, i) /\ EndOf(b, i) <= b.end
         /\ 1 <= i => Within(b, ItemBytes(b, i))
<1> DEFINE S == {j \in b.starts \cup {b.end} : j > i}
<1>1. S \in SUBSET Nat /\ b.end \in S
  BY FitsParts
<1>2. EndOf(b, i) = LeastOf(S)
  BY DEF EndOf
<1>3. LeastOf(S) \in S /\ \A x \in S : LeastOf(S) <= x
  <2> HIDE DEF S
  <2>1. QED BY <1>1, LeastOfNaturals
<1> DEFINE e == EndOf(b, i)
<1>4. e \in Nat /\ i < e /\ e <= b.end
  BY <1>1, <1>2, <1>3
<1> HIDE DEF S, e
<1>5. i..(e - 1) \subseteq i..(b.tail - 1)
  BY <1>4, FitsParts
<1>6. 1 <= i => Within(b, i..(e - 1))
  BY <1>4, FitsParts DEF Within
<1>7. QED BY <1>4, <1>6 DEF e, ItemBytes

LEMMA ItemsAreWithin ==
  ASSUME NEW b, Fits(b), NEW items \in SUBSET b.starts
  PROVE  Within(b, BytesOf(b, items))
<1> SUFFICES ASSUME NEW i \in items PROVE Within(b, ItemBytes(b, i))
  BY DEF BytesOf, Within
<1>1. i \in Nat /\ 1 <= i /\ i < b.end
  BY FitsParts DEF SentBytes
<1>2. QED BY <1>1, EndIs

LEMMA WithinTogether ==
  ASSUME NEW b, NEW F, NEW G, Within(b, F)
  PROVE  /\ Within(b, F \ G) /\ Within(b, F \cap G) /\ Within(b, G \cap F) /\ Within(b, {})
         /\ Within(b, G) => Within(b, F \cup G)
BY DEF Within

\* A buffer whose numbers stay, with other flags that lie in it
LEMMA FlagsFit ==
  ASSUME NEW b, Fits(b), NEW c \in Buffers, Level(b, c), c.starts \subseteq SentBytes(b),
         Within(b, c.sacked), Within(b, c.lost), Within(b, c.retrans)
  PROVE  Fits(c)
<1>1. SentBytes(c) = SentBytes(b) /\ \A X : Within(b, X) => Within(c, X)
  BY DEF SentBytes, Within, Level
<1>2. QED BY <1>1 DEF Fits, Level

LEMMA WithinIsNatural ==
  ASSUME NEW b, Fits(b), NEW F, Within(b, F)
  PROVE  F \in SUBSET Nat
BY WithinIsFinite

\* AddRenoSack
LEMMA RenoSackFits ==
  ASSUME NEW b, Fits(b)
  PROVE  Fits(AddRenoSack(b)) /\ Level(b, AddRenoSack(b))
<1> DEFINE free == {i \in b.starts \ {b.una} : i \notin b.sacked}
           i == LeastOf(free)
           F == b.sacked \cup ItemBytes(b, i)
           f == b.sackedOut + (EndOf(b, i) - i)
<1>0. b \in Buffers
  BY BufferOf
<1>1. CASE free = {}
  BY <1>1 DEF AddRenoSack, Level
<1>2. CASE free # {}
  <2>1. i \in free
    <3>1. free \in SUBSET Nat
      BY FitsParts
    <3> HIDE DEF free
    <3>2. QED BY <1>2, <3>1, LeastOfNaturals
  <2>2. i \in Nat /\ 1 <= i /\ i < b.end
    BY <2>1, FitsParts DEF SentBytes
  <2>3. AddRenoSack(b) = [b EXCEPT !.sacked = F, !.sackedOut = f, !.high = i]
    BY <1>2 DEF AddRenoSack
  <2> HIDE DEF free, i
  <2>4. Within(b, F)
    BY <2>2, EndIs, FitsParts, WithinTogether
  <2>5. f \in Int
    BY <2>2, EndIs, FitsParts
  <2> HIDE DEF F, f
  <2> DEFINE c == AddRenoSack(b)
  <2>6. F \in SUBSET Nat
    BY <2>4, WithinIsNatural
  <2>7. /\ c \in Buffers /\ Level(b, c) /\ c.starts = b.starts
        /\ c.sacked = F /\ c.lost = b.lost /\ c.retrans = b.retrans
    BY <1>0, <2>2, <2>3, <2>5, <2>6 DEF Buffers, Level
  <2> HIDE DEF c
  <2>8. Fits(c)
    BY <2>4, <2>7, FlagsFit, FitsParts
  <2>9. QED BY <2>7, <2>8 DEF c
<1>3. QED BY <1>1, <1>2

\* MarkHeadAsLost
LEMMA HeadLostFits ==
  ASSUME NEW b, Fits(b)
  PROVE  Fits(MarkHeadAsLost(b)) /\ Level(b, MarkHeadAsLost(b))
<1> DEFINE head == ItemBytes(b, b.una)
           size == EndOf(b, b.una) - b.una
           F == b.sacked \ head
           G == b.lost \cup head
           H == b.retrans \ head
           f == IF b.una \in b.sacked THEN b.sackedOut - size ELSE b.sackedOut
           g == IF b.una \in b.lost THEN b.lostOut ELSE b.lostOut + size
           h == IF b.una \in b.retrans THEN b.retransOut - size ELSE b.retransOut
<1>0. b \in Buffers
  BY BufferOf
<1>1. CASE b.starts = {}
  BY <1>1 DEF MarkHeadAsLost, Level
<1>2. CASE b.starts # {}
  <2>1. b.una \in Nat /\ 1 <= b.una /\ b.una < b.end
    BY <1>2, FitsParts DEF SentBytes
  <2>2. MarkHeadAsLost(b) = [b EXCEPT !.sacked = F, !.sackedOut = f, !.retrans = H,
                                      !.retransOut = h, !.lost = G, !.lostOut = g]
    BY <1>2 DEF MarkHeadAsLost
  <2>3. Within(b, head) /\ size \in Int
    BY <2>1, EndIs
  <2> HIDE DEF head, size
  <2>4. Within(b, F) /\ Within(b, G) /\ Within(b, H)
    BY <2>3, FitsParts, WithinTogether
  <2>5. f \in Int /\ g \in Int /\ h \in Int
    BY <2>3, FitsParts
  <2> HIDE DEF F, G, H, f, g, h
  <2> DEFINE c == MarkHeadAsLost(b)
  <2>6. F \in SUBSET Nat /\ G \in SUBSET Nat /\ H \in SUBSET Nat
    BY <2>4, WithinIsNatural
  <2>7. /\ c \in Buffers /\ Level(b, c) /\ c.starts = b.starts
        /\ c.sacked = F /\ c.lost = G /\ c.retrans = H
    <3>1. c = [b EXCEPT !.sacked = F, !.sackedOut = f, !.retrans = H,
                        !.retransOut = h, !.lost = G, !.lostOut = g]
      BY <2>2
    <3> HIDE DEF c
    <3>2. c \in Buffers
      BY <1>0, <2>5, <2>6, <3>1 DEF Buffers
    <3>3. QED BY <1>0, <3>1, <3>2 DEF Buffers, Level
  <2> HIDE DEF c
  <2>8. Fits(c)
    BY <2>4, <2>7, FlagsFit, FitsParts
  <2>9. QED BY <2>7, <2>8 DEF c
<1>3. QED BY <1>1, <1>2

\* ResetRenoSack
LEMMA ForgetSacksFits ==
  ASSUME NEW b, Fits(b)
  PROVE  Fits(ResetRenoSack(b)) /\ Level(b, ResetRenoSack(b))
<1> DEFINE c == ResetRenoSack(b)
<1>1. /\ c \in Buffers /\ Level(b, c) /\ c.starts = b.starts
      /\ c.sacked = {} /\ c.lost = b.lost /\ c.retrans = b.retrans
  <2> DEFINE none == {}  zero == 0
  <2>1. b \in Buffers /\ c = [b EXCEPT !.sacked = none, !.sackedOut = zero, !.high = zero]
    BY BufferOf DEF ResetRenoSack
  <2>2. none \in SUBSET Nat /\ zero \in Int /\ zero \in Nat
    OBVIOUS
  <2> HIDE DEF none, zero, c
  <2>3. /\ c \in Buffers /\ Level(b, c) /\ c.starts = b.starts
        /\ c.sacked = none /\ c.lost = b.lost /\ c.retrans = b.retrans
    BY <2>1, <2>2 DEF Buffers, Level
  <2>4. QED BY <2>3 DEF none
<1> HIDE DEF c
<1>2. Within(b, c.sacked)
  BY <1>1 DEF Within
<1>3. Fits(c)
  BY <1>1, <1>2, FlagsFit, FitsParts
<1>4. QED BY <1>1, <1>3 DEF c

\* SetSentListLost
LEMMA ListLostFits ==
  ASSUME NEW b, Fits(b), NEW reset \in BOOLEAN
  PROVE  Fits(SetSentListLost(b, reset)) /\ Level(b, SetSentListLost(b, reset))
<1> DEFINE F == IF reset THEN {} ELSE b.sacked
           G == IF reset THEN SentBytes(b) ELSE b.lost \cup (SentBytes(b) \ F)
           f == IF reset THEN 0 ELSE b.sackedOut
           g == Cardinality(G)
           t == IF reset THEN 0 ELSE b.high
           c == SetSentListLost(b, reset)
<1>1. Within(b, F)
  BY FitsParts DEF Within
<1>2. Within(b, G)
  <2>1. SentBytes(b) \subseteq 1..(b.tail - 1)
    BY FitsParts DEF SentBytes
  <2>2. QED BY <2>1, FitsParts DEF Within
<1>3. c = [b EXCEPT !.sacked = F, !.sackedOut = f, !.lost = G, !.lostOut = g,
                    !.retrans = {}, !.retransOut = 0, !.high = t]
  BY DEF SetSentListLost
<1> HIDE DEF F, G
<1>4. f \in Int /\ g \in Int /\ t \in Nat
  <2>1. Cardinality(G) \in Nat
    BY <1>2, WithinIsFinite
  <2>2. f \in Int /\ t \in Nat
    BY FitsParts
  <2>3. QED BY <2>1, <2>2
<1>5. F \in SUBSET Nat /\ G \in SUBSET Nat
  BY <1>1, <1>2, WithinIsNatural
<1> HIDE DEF f, g, t, c
<1>6. /\ c \in Buffers /\ Level(b, c) /\ c.starts = b.starts
      /\ c.sacked = F /\ c.lost = G /\ c.retrans = {}
  <2> DEFINE none == {}  zero == 0
  <2>1. b \in Buffers /\ c = [b EXCEPT !.sacked = F, !.sackedOut = f, !.lost = G,
                           !.lostOut = g, !.retrans = none, !.retransOut = zero, !.high = t]
    BY <1>3, BufferOf
  <2>2. none \in SUBSET Nat /\ zero \in Int
    OBVIOUS
  <2> HIDE DEF none, zero
  <2>3. /\ c \in Buffers /\ Level(b, c) /\ c.starts = b.starts
        /\ c.sacked = F /\ c.lost = G /\ c.retrans = none
    BY <1>4, <1>5, <2>1, <2>2 DEF Buffers, Level
  <2>4. QED BY <2>3 DEF none
<1>7. Within(b, c.retrans)
  BY <1>6 DEF Within
<1>8. Fits(c)
  BY <1>1, <1>2, <1>6, <1>7, FlagsFit, FitsParts
<1>9. QED BY <1>6, <1>8 DEF c

\* UpdateLostCount
LEMMA LostCountFits ==
  ASSUME NEW b, Fits(b)
  PROVE  /\ Fits(UpdateLostCount(b)) /\ Level(b, UpdateLostCount(b))
         /\ UpdateLostCount(b).sacked = b.sacked
<1> DEFINE items == {i \in b.starts \ b.lost :
                       /\ i = b.una \/ i \notin b.sacked
                       /\ Cardinality(SackedAbove(b, i)) >= DupAckThresh}
           bytes == BytesOf(b, items)
           G == b.lost \cup bytes
           g == b.lostOut + Cardinality(bytes)
<1>0. b \in Buffers
  BY BufferOf
<1>1. UpdateLostCount(b) = [b EXCEPT !.lost = G, !.lostOut = g]
  BY Zenon DEF UpdateLostCount
<1>2. items \in SUBSET b.starts
  OBVIOUS
<1> HIDE DEF items
<1>3. Within(b, bytes)
  BY <1>2, ItemsAreWithin
<1> HIDE DEF bytes
<1>4. Within(b, G) /\ g \in Int
  <2>1. Cardinality(bytes) \in Nat
    BY <1>3, WithinIsFinite
  <2>2. Within(b, G)
    BY <1>3, FitsParts, WithinTogether
  <2>3. QED BY <2>1, <2>2, FitsParts
<1>5. G \in SUBSET Nat
  BY <1>4, WithinIsNatural
<1> HIDE DEF G, g
<1> DEFINE c == UpdateLostCount(b)
<1>6. /\ c \in Buffers /\ Level(b, c) /\ c.starts = b.starts
      /\ c.sacked = b.sacked /\ c.lost = G /\ c.retrans = b.retrans
  BY <1>0, <1>1, <1>4, <1>5 DEF Buffers, Level
<1> HIDE DEF c
<1>7. Fits(c)
  BY <1>4, <1>6, FlagsFit, FitsParts
<1>8. QED BY <1>6, <1>7 DEF c

\* Update: what it marks lies in the buffer, and in a block.
LEMMA UpdateFits ==
  ASSUME NEW b, Fits(b), NEW blocks, IsFiniteSet(DOMAIN blocks)
  PROVE  LET c == Update(b, blocks)
         IN /\ Fits(c) /\ Level(b, c)
            /\ c.sacked = b.sacked
               \/ \E i \in b.starts : \E k \in DOMAIN blocks : blocks[k][1] <= i
<1> DEFINE c == Update(b, blocks)
           items == NewlySacked(b, blocks)
           bytes == BytesOf(b, items)
           F == b.sacked \cup bytes
           f == b.sackedOut + Cardinality(bytes)
           G == b.lost \ bytes
           g == b.lostOut - Cardinality(bytes \cap b.lost)
           t == HighestSack(b, blocks)
           m == [b EXCEPT !.sacked = F, !.sackedOut = f, !.lost = G, !.lostOut = g,
                          !.high = t]
           complete == Usable(b, blocks) = DOMAIN blocks
<1>1. b \in Buffers
  BY BufferOf
<1>2. c = IF items # {} /\ complete THEN UpdateLostCount(m) ELSE m
  BY Zenon DEF Update
<1>3. Usable(b, blocks) \subseteq DOMAIN blocks
  BY DEF Usable
<1>4. \A i \in items : i \in b.starts /\ \E k \in DOMAIN blocks : blocks[k][1] <= i
  <2> SUFFICES ASSUME NEW i \in items
               PROVE  i \in b.starts /\ \E k \in DOMAIN blocks : blocks[k][1] <= i
    BY Zenon
  <2> DEFINE all == UNION {Inside(b, blocks[k]) : k \in Usable(b, blocks)}
  <2>1. items = all \ b.sacked
    BY DEF NewlySacked
  <2> HIDE DEF items, all
  <2>2. i \in all
    BY <2>1
  <2>3. PICK k \in Usable(b, blocks) : i \in Inside(b, blocks[k])
    BY <2>2 DEF all
  <2>4. i \in b.starts /\ blocks[k][1] <= i
    BY <2>3, Zenon DEF Inside
  <2>5. k \in DOMAIN blocks
    BY <1>3
  <2>6. QED BY <2>4, <2>5, Zenon
<1>5. items = {} => bytes = {}
  BY DEF BytesOf
<1>6. Within(b, bytes)
  <2>1. items \in SUBSET b.starts
    BY <1>4
  <2> HIDE DEF items
  <2>2. QED BY <2>1, ItemsAreWithin
<1> HIDE DEF items, bytes, c
<1>7. Within(b, F) /\ Within(b, G) /\ f \in Int /\ g \in Int
  <2>1. Within(b, F) /\ Within(b, G) /\ Within(b, bytes \cap b.lost)
    BY <1>6, FitsParts, WithinTogether
  <2>2. Cardinality(bytes) \in Nat /\ Cardinality(bytes \cap b.lost) \in Nat
    BY <1>6, <2>1, WithinIsFinite
  <2>3. b.sackedOut \in Int /\ b.lostOut \in Int
    BY FitsParts
  <2>4. QED BY <2>1, <2>2, <2>3
<1>8. t \in Nat
  <2>1. IsFiniteSet(Usable(b, blocks))
    BY <1>3, FS_Subset, Zenon
  <2>2. t \in b.starts \cup {b.high}
    BY <1>1, <2>1, HighestIsItem, FitsParts
  <2> HIDE DEF t
  <2>3. QED BY <2>2, FitsParts
<1>9. F \in SUBSET Nat /\ G \in SUBSET Nat
  <2> HIDE DEF F, G
  <2>1. QED BY <1>7, WithinIsNatural
<1>10. items = {} => F = b.sacked
  BY <1>5
<1> HIDE DEF F, G, f, g, t, complete
<1>11. /\ m \in Buffers /\ Level(b, m) /\ m.starts = b.starts
       /\ m.sacked = F /\ m.lost = G /\ m.retrans = b.retrans
  BY <1>1, <1>7, <1>8, <1>9 DEF Buffers, Level
<1> HIDE DEF m
<1>12. Fits(m)
  BY <1>7, <1>11, FlagsFit, FitsParts
<1>13. /\ Fits(UpdateLostCount(m)) /\ Level(m, UpdateLostCount(m))
       /\ UpdateLostCount(m).sacked = m.sacked
  BY <1>12, LostCountFits
<1>14. Fits(c) /\ Level(b, c) /\ c.sacked = F
  BY <1>2, <1>11, <1>12, <1>13 DEF Level
<1>15. CASE items = {}
  BY <1>10, <1>14, <1>15 DEF c
<1>16. CASE items # {}
  <2>1. \E i \in b.starts : \E k \in DOMAIN blocks : blocks[k][1] <= i
    BY <1>4, <1>16
  <2>2. QED BY <1>14, <2>1 DEF c
<1>17. QED BY <1>15, <1>16

\* DropBelow, which may acknowledge what went back to the application list
LEMMA DropFits ==
  ASSUME NEW b, Fits(b), NEW seq \in Nat, b.una < seq, seq <= b.tail
  PROVE  LET c == DropBelow(b, seq)
         IN /\ Fits(c) /\ c.una = seq /\ c.end = Larger(b.end, seq) /\ c.tail = b.tail
<1> DEFINE c == DropBelow(b, seq)
           gone == b.una..(seq - 1)
           kept == {i \in b.starts : i > seq}
           S == IF seq < b.end THEN kept \cup {seq} ELSE kept
           F == b.sacked \ gone
           G == b.lost \ gone
           H == b.retrans \ gone
           f == b.sackedOut - Cardinality(gone \cap b.sacked)
           g == b.lostOut - Cardinality(gone \cap b.lost)
           h == b.retransOut - Cardinality(gone \cap b.retrans)
           e == Larger(b.end, seq)
           l == Larger(b.tail, seq)
<1>1. b \in Buffers
  BY BufferOf
<1>2. c = [b EXCEPT !.una = seq, !.end = e, !.tail = l, !.starts = S, !.sacked = F,
                    !.lost = G, !.retrans = H, !.sackedOut = f, !.lostOut = g,
                    !.retransOut = h]
  BY DEF DropBelow
<1>3. e \in Nat /\ l = b.tail /\ seq <= e /\ e <= b.tail /\ b.end <= e /\ b.tail \in Nat
  BY FitsParts DEF Larger
<1>4. S \subseteq seq..(e - 1)
  <2>1. seq < b.end => e = b.end
    BY FitsParts DEF Larger
  <2>2. \A i \in b.starts : i \in Nat /\ i < b.end
    BY FitsParts DEF SentBytes
  <2>3. \A i \in S : i \in Nat /\ seq <= i /\ i < e
    BY <1>3, <2>1, <2>2, FitsParts
  <2>4. QED BY <1>3, <2>3
<1>5. /\ Within(b, F) /\ Within(b, G) /\ Within(b, H) /\ Within(b, gone \cap b.sacked)
      /\ Within(b, gone \cap b.lost) /\ Within(b, gone \cap b.retrans)
  BY FitsParts, WithinTogether
<1>6. f \in Int /\ g \in Int /\ h \in Int
  <2>1. /\ Cardinality(gone \cap b.sacked) \in Nat /\ Cardinality(gone \cap b.lost) \in Nat
        /\ Cardinality(gone \cap b.retrans) \in Nat
    BY <1>5, WithinIsFinite
  <2>2. b.sackedOut \in Int /\ b.lostOut \in Int /\ b.retransOut \in Int
    BY FitsParts
  <2>3. QED BY <2>1, <2>2
<1>7. F \in SUBSET Nat /\ G \in SUBSET Nat /\ H \in SUBSET Nat
  <2> HIDE DEF F, G, H
  <2>1. QED BY <1>5, WithinIsNatural
<1> HIDE DEF c, S, F, G, H, f, g, h, gone, e, l
<1>8. S \in SUBSET Nat /\ l \in Nat
  BY <1>3, <1>4
<1>9. /\ c \in Buffers /\ c.una = seq /\ c.end = e /\ c.tail = l /\ c.starts = S
      /\ c.sacked = F /\ c.lost = G /\ c.retrans = H
  BY <1>1, <1>2, <1>3, <1>6, <1>7, <1>8 DEF Buffers
<1>10. Fits(c)
  <2>1. c.starts \subseteq SentBytes(c)
    BY <1>4, <1>9 DEF SentBytes
  <2>2. Within(c, c.sacked) /\ Within(c, c.lost) /\ Within(c, c.retrans)
    BY <1>3, <1>5, <1>9 DEF Within
  <2>3. 1 <= seq
    BY FitsParts
  <2>4. QED BY <1>3, <1>9, <2>1, <2>2, <2>3, FitsParts DEF Fits
<1>11. QED BY <1>3, <1>9, <1>10 DEF c, e

\* UnsackHead and ForgetHighest
LEMMA UnsackFits ==
  ASSUME NEW b, Fits(b)
  PROVE  Fits(UnsackHead(b)) /\ Level(b, UnsackHead(b))
<1> DEFINE head == ItemBytes(b, b.una)
           F == b.sacked \ head
           f == b.sackedOut - Cardinality(head)
           c == [b EXCEPT !.sacked = F, !.sackedOut = f]
<1>1. CASE b.starts # {} /\ b.una \in b.sacked
  <2>1. UnsackHead(b) = MarkHeadAsLost(AddRenoSack(c))
    BY <1>1 DEF UnsackHead
  <2>2. b.una \in Nat /\ 1 <= b.una /\ b.una < b.end /\ b \in Buffers
    BY <1>1, FitsParts DEF SentBytes
  <2>3. Within(b, head)
    BY <2>2, EndIs
  <2> HIDE DEF head
  <2>4. Within(b, F) /\ F \in SUBSET Nat /\ f \in Int
    <3>1. Within(b, F)
      BY FitsParts, WithinTogether
    <3> HIDE DEF F
    <3>2. F \in SUBSET Nat /\ Cardinality(head) \in Nat
      BY <2>3, <3>1, WithinIsFinite
    <3>3. QED BY <3>1, <3>2, FitsParts
  <2> HIDE DEF F, f
  <2>5. /\ c \in Buffers /\ Level(b, c) /\ c.starts = b.starts
        /\ c.sacked = F /\ c.lost = b.lost /\ c.retrans = b.retrans
    BY <2>2, <2>4 DEF Buffers, Level
  <2> HIDE DEF c
  <2>6. Fits(c)
    BY <2>4, <2>5, FlagsFit, FitsParts
  <2> DEFINE d == AddRenoSack(c)
  <2>7. Fits(d) /\ Level(c, d)
    BY <2>6, RenoSackFits
  <2> HIDE DEF d
  <2>8. Fits(MarkHeadAsLost(d)) /\ Level(d, MarkHeadAsLost(d))
    BY <2>7, HeadLostFits
  <2>9. UnsackHead(b) = MarkHeadAsLost(d)
    BY <2>1 DEF d
  <2>10. QED BY <2>5, <2>7, <2>8, <2>9 DEF Level
<1>2. CASE ~(b.starts # {} /\ b.una \in b.sacked)
  BY <1>2 DEF UnsackHead, Level
<1>3. QED BY <1>1, <1>2

LEMMA ForgetHighestFits ==
  ASSUME NEW b, Fits(b)
  PROVE  Fits(ForgetHighest(b)) /\ Level(b, ForgetHighest(b))
<1> DEFINE zero == 0
           c == [b EXCEPT !.high = zero]
<1>1. b \in Buffers /\ zero \in Nat
  BY BufferOf
<1> HIDE DEF zero
<1>2. /\ c \in Buffers /\ Level(b, c) /\ c.starts = b.starts
      /\ c.sacked = b.sacked /\ c.lost = b.lost /\ c.retrans = b.retrans
  BY <1>1 DEF Buffers, Level
<1>3. ForgetHighest(b) = c \/ ForgetHighest(b) = b
  BY DEF ForgetHighest, zero
<1> HIDE DEF c
<1>4. Fits(c)
  BY <1>2, FlagsFit, FitsParts
<1>5. QED BY <1>2, <1>3, <1>4 DEF Level

\* DiscardUpTo
LEMMA DiscardFits ==
  ASSUME NEW b, Fits(b), NEW seq \in Nat, b.una <= seq, seq <= b.tail
  PROVE  LET c == DiscardUpTo(b, seq)
         IN Fits(c) /\ c.una = seq /\ c.end = Larger(b.end, seq) /\ c.tail = b.tail
<1> DEFINE c == DropBelow(b, seq)
           d == UnsackHead(c)
           e == ForgetHighest(d)
<1>1. CASE seq = b.una
  <2>1. DiscardUpTo(b, seq) = b
    BY <1>1, FitsParts DEF DiscardUpTo
  <2>2. b.end = Larger(b.end, seq)
    BY <1>1, FitsParts DEF Larger
  <2>3. QED BY <1>1, <2>1, <2>2
<1>2. CASE seq # b.una
  <2>1. b.una < seq
    BY <1>2, FitsParts
  <2>2. DiscardUpTo(b, seq) = e
    BY <2>1, FitsParts DEF DiscardUpTo
  <2>3. Fits(c) /\ c.una = seq /\ c.end = Larger(b.end, seq) /\ c.tail = b.tail
    BY <2>1, DropFits
  <2> HIDE DEF c
  <2>4. Fits(d) /\ Level(c, d)
    BY <2>3, UnsackFits
  <2> HIDE DEF d
  <2>5. Fits(e) /\ Level(d, e)
    BY <2>4, ForgetHighestFits
  <2> HIDE DEF e
  <2>6. QED BY <2>2, <2>3, <2>4, <2>5 DEF Level
<1>3. QED BY <1>1, <1>2

\* CutOut, whatever it touches
LEMMA CutFits ==
  ASSUME NEW b, Fits(b), NEW seq, NEW n
  PROVE  Fits(CutOut(b, seq, n)) /\ Level(b, CutOut(b, seq, n))
<1> DEFINE c == CutOut(b, seq, n)
           touched == {i \in b.starts : i < seq + n /\ EndOf(b, i) > seq}
           merged == seq..(EndOf(b, GreatestOf(touched)) - 1)
           cancelled == IF Cardinality(touched) > 1 /\ ~(merged \subseteq b.retrans)
                        THEN merged \cap b.retrans ELSE {}
           S == (b.starts \ ((seq + 1)..(seq + n - 1))) \cup ({seq, seq + n} \cap SentBytes(b))
           H == b.retrans \ cancelled
           h == b.retransOut - Cardinality(cancelled)
<1>1. b \in Buffers
  BY BufferOf
<1>2. c = [b EXCEPT !.starts = S, !.retrans = H, !.retransOut = h]
  BY DEF CutOut
<1>3. S \subseteq SentBytes(b) /\ S \in SUBSET Nat
  <2>1. S \subseteq SentBytes(b)
    BY FitsParts
  <2>2. SentBytes(b) \subseteq Nat
    BY FitsParts DEF SentBytes
  <2> HIDE DEF S
  <2>3. QED BY <2>1, <2>2
<1>4. cancelled \subseteq b.retrans
  OBVIOUS
<1> HIDE DEF S, cancelled, c
<1>5. Within(b, H) /\ H \in SUBSET Nat /\ h \in Int
  <2>1. Within(b, cancelled) /\ Within(b, H)
    BY <1>4, FitsParts DEF Within
  <2> HIDE DEF H
  <2>2. H \in SUBSET Nat /\ Cardinality(cancelled) \in Nat
    BY <2>1, WithinIsFinite
  <2>3. QED BY <2>1, <2>2, FitsParts
<1> HIDE DEF H, h
<1>6. /\ c \in Buffers /\ Level(b, c) /\ c.starts = S
      /\ c.sacked = b.sacked /\ c.lost = b.lost /\ c.retrans = H
  BY <1>1, <1>2, <1>3, <1>5 DEF Buffers, Level
<1>7. Fits(c)
  BY <1>3, <1>5, <1>6, FlagsFit, FitsParts
<1>8. QED BY <1>6, <1>7 DEF c

\* MarkRetransmitted
LEMMA MarkFits ==
  ASSUME NEW b, Fits(b), NEW seq \in Nat, 1 <= seq, seq < b.end
  PROVE  Fits(MarkRetransmitted(b, seq)) /\ Level(b, MarkRetransmitted(b, seq))
<1> DEFINE c == MarkRetransmitted(b, seq)
           H == b.retrans \cup ItemBytes(b, seq)
           h == b.retransOut + (EndOf(b, seq) - seq)
<1>1. CASE seq \in b.retrans
  BY <1>1 DEF MarkRetransmitted, Level
<1>2. CASE seq \notin b.retrans
  <2>1. b \in Buffers
    BY BufferOf
  <2>2. c = [b EXCEPT !.retrans = H, !.retransOut = h]
    BY <1>2 DEF MarkRetransmitted
  <2>3. Within(b, H) /\ h \in Int
    <3>1. Within(b, ItemBytes(b, seq)) /\ EndOf(b, seq) \in Nat
      BY EndIs
    <3>2. Within(b, H)
      BY <3>1, FitsParts, WithinTogether
    <3>3. h \in Int
      BY <3>1, FitsParts
    <3>4. QED BY <3>2, <3>3
  <2> HIDE DEF H, h, c
  <2>4. H \in SUBSET Nat
    BY <2>3, WithinIsNatural
  <2>5. /\ c \in Buffers /\ Level(b, c) /\ c.starts = b.starts
        /\ c.sacked = b.sacked /\ c.lost = b.lost /\ c.retrans = H
    BY <2>1, <2>2, <2>3, <2>4 DEF Buffers, Level
  <2>6. Fits(c)
    BY <2>3, <2>5, FlagsFit, FitsParts
  <2>7. QED BY <2>5, <2>6 DEF c
<1>3. QED BY <1>1, <1>2

\* GetTransmittedSegment
LEMMA AgainFits ==
  ASSUME NEW b, Fits(b), NEW seq \in Nat, 1 <= seq, seq < b.end, NEW n
  PROVE  LET c == GetTransmittedSegment(b, n, seq) IN Fits(c) /\ Level(b, c)
<1> DEFINE size == IF seq \in b.starts THEN Mergeable(b, seq, n) ELSE n
           d == CutOut(b, seq, size)
           c == MarkRetransmitted(d, seq)
<1>1. GetTransmittedSegment(b, n, seq) = c
  BY DEF GetTransmittedSegment
<1> HIDE DEF size
<1>2. Fits(d) /\ Level(b, d)
  BY CutFits
<1> HIDE DEF d
<1>3. seq < d.end
  BY <1>2 DEF Level
<1>4. Fits(c) /\ Level(d, c)
  BY <1>2, <1>3, MarkFits
<1>5. QED BY <1>1, <1>2, <1>4 DEF Level

\* GetNewSegment
LEMMA NewItemFits ==
  ASSUME NEW b, Fits(b), NEW n \in Nat, 1 <= n, b.end + n <= b.tail
  PROVE  LET c == GetNewSegment(b, n)
         IN /\ Fits(c) /\ c.una = b.una /\ c.end = b.end + n /\ c.tail = b.tail
            /\ c.starts = b.starts \cup {b.end}
<1> DEFINE c == GetNewSegment(b, n)
           S == b.starts \cup {b.end}
           e == b.end + n
<1>1. b \in Buffers
  BY BufferOf
<1>2. c = [b EXCEPT !.starts = S, !.end = e]
  BY DEF GetNewSegment
<1>3. S \in SUBSET Nat /\ e \in Nat /\ S \subseteq b.una..(e - 1)
  BY FitsParts DEF SentBytes
<1> HIDE DEF c, S
<1>4. /\ c \in Buffers /\ c.una = b.una /\ c.end = e /\ c.tail = b.tail /\ c.starts = S
      /\ c.sacked = b.sacked /\ c.lost = b.lost /\ c.retrans = b.retrans
  BY <1>1, <1>2, <1>3 DEF Buffers
<1>5. Fits(c)
  <2>1. c.starts \subseteq SentBytes(c)
    BY <1>3, <1>4 DEF SentBytes
  <2>2. Within(c, c.sacked) /\ Within(c, c.lost) /\ Within(c, c.retrans)
    BY <1>4, FitsParts DEF Within
  <2>3. QED BY <1>3, <1>4, <2>1, <2>2, FitsParts DEF Fits
<1>6. QED BY <1>4, <1>5 DEF c, S

\* CopyFromSequence: only what was not sent yet moves the end.
LEMMA CopyFits ==
  ASSUME NEW b, Fits(b), NEW seq \in Nat, 1 <= seq, seq <= b.end, seq < b.tail,
         NEW n \in Nat, 1 <= n
  PROVE  LET c == CopyFromSequence(b, n, seq)
         IN /\ Fits(c) /\ c.una = b.una /\ c.tail = b.tail /\ seq < c.end
            /\ c.end = b.end \/ (seq = b.end /\ c.end <= b.end + n)
            /\ seq = b.end => b.end \in c.starts
<1> DEFINE s == Smaller(n, SizeFromSequence(b, seq))
           c == CopyFromSequence(b, n, seq)
<1>1. s \in Nat /\ 1 <= s /\ s <= n /\ seq + s <= b.tail
  BY FitsParts DEF SizeFromSequence, Smaller, Larger
<1>2. CASE seq = b.end
  <2>1. c = GetNewSegment(b, s)
    BY <1>2 DEF CopyFromSequence
  <2> HIDE DEF s
  <2>2. LET d == GetNewSegment(b, s)
        IN /\ Fits(d) /\ d.una = b.una /\ d.end = b.end + s /\ d.tail = b.tail
           /\ d.starts = b.starts \cup {b.end}
    BY <1>1, <1>2, NewItemFits
  <2>3. QED BY <1>1, <1>2, <2>1, <2>2, FitsParts
<1>3. CASE seq # b.end
  <2> DEFINE size == Smaller(s, b.end - seq)
  <2>1. c = GetTransmittedSegment(b, size, seq)
    BY <1>3 DEF CopyFromSequence
  <2>2. seq < b.end
    BY <1>3, FitsParts
  <2> HIDE DEF size
  <2>3. Fits(c) /\ Level(b, c)
    BY <2>1, <2>2, AgainFits
  <2>4. QED BY <1>3, <2>2, <2>3 DEF Level
<1>4. QED BY <1>2, <1>3

(***************************************************************************)
(* What every handler keeps: s is the state a handler acts on, E the right *)
(* edge of the receiver's window.                                          *)
(***************************************************************************)
\* A segment in the network ends at the edge, or is a probe of one byte.
Reaches(p, E) == /\ 1 <= p[1] /\ p[1] < p[2] /\ p[2] <= Total + 1
                 /\ p[2] <= E \/ p[2] = p[1] + 1

Sane(s, E) == /\ s \in Handlers /\ Fits(s.tx)
              /\ s.tx.end <= E /\ s.tx.una + s.sock.rWnd <= E
              /\ s.sock.recover <= s.sock.highTx /\ s.sock.highTx <= s.tx.tail
              /\ \A p \in s.flight : Reaches(p, E)

Ahead(s, t) == /\ t.tx.una = s.tx.una /\ t.tx.tail = s.tx.tail
               /\ t.sock.rWnd = s.sock.rWnd

LEMMA SaneParts ==
  ASSUME NEW E \in Nat, NEW s, Sane(s, E)
  PROVE  /\ s \in Handlers /\ s.tx \in Buffers /\ s.sock \in Socks /\ Fits(s.tx)
         /\ s.tx.una \in Nat /\ s.tx.end \in Nat /\ s.tx.tail \in Nat /\ Total \in Nat
         /\ s.sock.rWnd \in Nat /\ s.sock.recover \in Nat /\ s.sock.highTx \in Nat
         /\ s.flight \in SUBSET (Nat \X Nat) /\ s.out \in Int
         /\ 1 <= s.tx.una /\ s.tx.una <= s.tx.end /\ s.tx.end <= s.tx.tail
         /\ s.tx.tail <= Total + 1
         /\ s.tx.end <= E /\ s.tx.una + s.sock.rWnd <= E
         /\ s.sock.recover <= s.sock.highTx /\ s.sock.highTx <= s.tx.tail
<1>1. s \in Handlers /\ Fits(s.tx)
  BY DEF Sane
<1>2. QED BY <1>1, HandlerParts, FitsParts DEF Sane

\* Fields that no sequence number depends on
LEMMA OtherFieldsSane ==
  ASSUME NEW E \in Nat, NEW s, Sane(s, E), NEW t \in Handlers,
         t.tx = s.tx, t.flight = s.flight, t.sock.rWnd = s.sock.rWnd,
         t.sock.recover <= t.sock.highTx, t.sock.highTx = s.sock.highTx
  PROVE  Sane(t, E) /\ Ahead(s, t)
BY DEF Sane, Ahead

\* Other marks on the same list
LEMMA MarksSane ==
  ASSUME NEW E \in Nat, NEW s, Sane(s, E), NEW c, Fits(c), Level(s.tx, c)
  PROVE  LET t == [s EXCEPT !.tx = c]
         IN Sane(t, E) /\ Ahead(s, t) /\ t.tx = c /\ t.sock = s.sock
<1> DEFINE t == [s EXCEPT !.tx = c]
<1>1. s \in Handlers /\ c \in Buffers
  BY BufferOf DEF Sane
<1>2. t \in Handlers /\ t.tx = c /\ t.sock = s.sock /\ t.flight = s.flight
  BY <1>1 DEF Handlers
<1> HIDE DEF t
<1>3. Sane(t, E)
  BY <1>2 DEF Sane, Level
<1>4. QED BY <1>2, <1>3 DEF Ahead, Level, t

LEMMA AheadAgain ==
  ASSUME NEW s, NEW t, NEW u, Ahead(s, t), Ahead(t, u)
  PROVE  Ahead(s, u) /\ Ahead(s, s)
BY DEF Ahead

(***************************************************************************)
(* Sending                                                                 *)
(***************************************************************************)
\* What NextSeg offers is in the buffer, and new data does not go beyond rWnd.
LEMMA OfferIs ==
  ASSUME NEW b, Fits(b), NEW rWnd \in Nat, NEW recovery \in BOOLEAN
  PROVE  LET next == NextSeg(b, rWnd, recovery)
         IN /\ next.ok => /\ next.seq \in Nat /\ 1 <= next.seq /\ next.seq <= b.end
                          /\ next.seq < b.tail /\ next.size \in Nat
                          /\ next.seq = b.end => b.end + next.size <= b.una + rWnd
            /\ next.ok \/ b.una < b.end \/ b.una = b.tail
<1> DEFINE open == {i \in b.starts : i \notin b.sacked \cup b.retrans}
           lost == open \cap b.lost
           next == NextSeg(b, rWnd, recovery)
           size == Smaller(SegmentSize, rWnd - SentSize(b))
<1>1. SegmentSize \in Nat
  BY TxAssumption
<1>2. ASSUME NEW S \in SUBSET b.starts, S # {}
      PROVE  LeastOf(S) \in Nat /\ 1 <= LeastOf(S) /\ LeastOf(S) < b.end
  <2>1. S \in SUBSET Nat
    BY FitsParts
  <2>2. LeastOf(S) \in S
    BY <1>2, <2>1, LeastOfNaturals
  <2>3. QED BY <2>2, FitsParts DEF SentBytes
<1>3. CASE lost # {}
  <2>1. next = [ok |-> TRUE, seq |-> LeastOf(lost), size |-> SegmentSize]
    BY <1>3 DEF NextSeg
  <2>2. lost \in SUBSET b.starts
    OBVIOUS
  <2> DEFINE i == LeastOf(lost)
  <2> HIDE DEF lost
  <2>3. i \in Nat /\ 1 <= i /\ i < b.end
    BY <1>2, <1>3, <2>2
  <2> HIDE DEF i, next
  <2>4. next.ok = TRUE /\ next.seq = i /\ next.size = SegmentSize
    BY <2>1 DEF i
  <2>5. QED BY <1>1, <2>3, <2>4, FitsParts DEF next
<1>4. CASE lost = {} /\ SizeFromSequence(b, b.end) > 0
  <2>1. b.end < b.tail
    BY <1>4, FitsParts DEF SizeFromSequence, Larger
  <2>2. CASE SentSize(b) <= rWnd
    <3>1. next = [ok |-> TRUE, seq |-> b.end, size |-> size]
      BY <1>4, <2>2 DEF NextSeg
    <3>2. size \in Nat /\ b.end + size <= b.una + rWnd
      BY <1>1, <2>2, FitsParts DEF SentSize, Smaller
    <3> HIDE DEF next, size
    <3>3. next.ok = TRUE /\ next.seq = b.end /\ next.size = size
      BY <3>1
    <3>4. QED BY <2>1, <3>2, <3>3, FitsParts DEF next
  <2>3. CASE ~(SentSize(b) <= rWnd)
    <3>1. next = [ok |-> FALSE, seq |-> 0, size |-> 0]
      BY <1>4, <2>3 DEF NextSeg
    <3>2. b.una < b.end
      BY <2>3, FitsParts DEF SentSize
    <3>3. QED BY <3>1, <3>2
  <2>4. QED BY <2>2, <2>3
<1>5. CASE lost = {} /\ ~(SizeFromSequence(b, b.end) > 0)
  <2>1. b.end = b.tail
    BY <1>5, FitsParts DEF SizeFromSequence, Larger
  <2>2. CASE recovery /\ open # {}
    <3>1. next = [ok |-> TRUE, seq |-> LeastOf(open), size |-> SegmentSize]
      BY <1>5, <2>2 DEF NextSeg
    <3>2. open \in SUBSET b.starts
      OBVIOUS
    <3> DEFINE i == LeastOf(open)
    <3> HIDE DEF open
    <3>3. i \in Nat /\ 1 <= i /\ i < b.end
      BY <1>2, <2>2, <3>2
    <3> HIDE DEF i, next
    <3>4. next.ok = TRUE /\ next.seq = i /\ next.size = SegmentSize
      BY <3>1 DEF i
    <3>5. QED BY <1>1, <3>3, <3>4, FitsParts DEF next
  <2>3. CASE ~(recovery /\ open # {})
    <3>1. next = [ok |-> FALSE, seq |-> 0, size |-> 0]
      BY <1>5, <2>3 DEF NextSeg
    <3>2. QED BY <2>1, <3>1, FitsParts
  <2>4. QED BY <2>2, <2>3
<1>6. QED BY <1>3, <1>4, <1>5

\* A segment is sent: new data only where it does not pass the edge.
LEMMA SendDataSane ==
  ASSUME NEW E \in Nat, NEW s, Sane(s, E), NEW seq \in Nat, 1 <= seq, seq <= s.tx.end,
         seq < s.tx.tail, NEW n \in Nat, seq = s.tx.end => s.tx.end + n <= E
  PROVE  LET t == SendDataPacket(s, seq, n)
         IN Sane(t, E) /\ Ahead(s, t) /\ (t.sock.nullItem \/ seq < t.tx.end)
<1>1. CASE n = 0
  <2> DEFINE t == [s EXCEPT !.sock.nullItem = TRUE]
  <2>1. s \in Handlers
    BY DEF Sane
  <2>2. /\ t \in Handlers /\ t.tx = s.tx /\ t.flight = s.flight
        /\ t.sock.rWnd = s.sock.rWnd /\ t.sock.recover = s.sock.recover
        /\ t.sock.highTx = s.sock.highTx /\ t.sock.nullItem
    BY <2>1 DEF Handlers, Socks
  <2>3. SendDataPacket(s, seq, n) = t
    BY <1>1 DEF SendDataPacket
  <2> HIDE DEF t
  <2>4. Sane(t, E) /\ Ahead(s, t)
    BY <2>2, SaneParts, OtherFieldsSane
  <2>5. QED BY <2>2, <2>3, <2>4
<1>2. CASE n # 0
  <2> DEFINE c == CopyFromSequence(s.tx, n, seq)
             past == EndOf(c, seq)
             high == Larger(s.sock.highTx, past)
             k == [s.sock EXCEPT !.nextTx = seq, !.retx = TRUE, !.highTx = high]
             o == IF s.sock.congState = "RECOVERY" THEN s.out + (past - seq) ELSE s.out
             f == s.flight \cup {<<seq, past>>}
             t == [tx |-> c, flight |-> f, sock |-> k, out |-> o]
  <2>1. SendDataPacket(s, seq, n) = t
    BY <1>2 DEF SendDataPacket, Transmitted
  <2>2. /\ Fits(c) /\ c.una = s.tx.una /\ c.tail = s.tx.tail /\ seq < c.end
        /\ c.end = s.tx.end \/ (seq = s.tx.end /\ c.end <= s.tx.end + n)
    <3>1. Fits(s.tx) /\ 1 <= n
      BY <1>2 DEF Sane
    <3>2. QED BY <3>1, CopyFits
  <2> HIDE DEF c
  <2>3. c.end <= E /\ c.end <= c.tail /\ c.end \in Nat /\ c.tail \in Nat /\ c \in Buffers
    BY <2>2, SaneParts, FitsParts
  <2>4. past \in Nat /\ seq < past /\ past <= c.end
    BY <2>2, EndIs
  <2> HIDE DEF past
  <2>5. /\ high \in 1..(Total + 1) /\ high <= c.tail /\ s.sock.recover <= high
        /\ seq \in 1..(Total + 1) /\ past <= Total + 1
    BY <2>2, <2>3, <2>4, SaneParts DEF Larger
  <2> HIDE DEF high
  <2>6. s.sock \in Socks /\ s.out \in Int /\ s.flight \in SUBSET (Nat \X Nat)
    BY SaneParts
  <2>7. /\ k \in Socks /\ k.rWnd = s.sock.rWnd /\ k.recover = s.sock.recover
        /\ k.highTx = high
    BY <2>5, <2>6 DEF Socks
  <2>8. o \in Int
    BY <2>4, <2>6
  <2>9. f \in SUBSET (Nat \X Nat) /\ \A p \in f : Reaches(p, E)
    <3> DEFINE q == <<seq, past>>
    <3>1. q \in Nat \X Nat /\ q[1] = seq /\ q[2] = past
      BY <2>4
    <3> HIDE DEF q
    <3>2. Reaches(q, E)
      BY <2>3, <2>4, <2>5, <3>1 DEF Reaches
    <3>3. f = s.flight \cup {q}
      BY DEF q
    <3>4. \A p \in s.flight : Reaches(p, E)
      BY DEF Sane
    <3> HIDE DEF f
    <3>5. QED BY <2>6, <3>1, <3>2, <3>3, <3>4
  <2> HIDE DEF k, o, f
  <2>10. t \in Handlers /\ t.tx = c /\ t.sock = k /\ t.flight = f
    BY <2>3, <2>7, <2>8, <2>9 DEF Handlers
  <2> HIDE DEF t
  <2>11. Sane(t, E) /\ Ahead(s, t)
    BY <2>2, <2>3, <2>5, <2>7, <2>9, <2>10, SaneParts DEF Sane, Ahead
  <2>12. QED BY <2>1, <2>2, <2>10, <2>11
<1>3. QED BY <1>1, <1>2

\* SND.NXT moves on to the end of what was sent.
LEMMA MoveOnSane ==
  ASSUME NEW E \in Nat, NEW s, Sane(s, E), NEW seq \in Nat, seq < s.tx.end
  PROVE  Sane(MoveOn(s, seq), E) /\ Ahead(s, MoveOn(s, seq))
<1> DEFINE past == EndOf(s.tx, seq)
           u == [s EXCEPT !.sock.nextTx = past]
<1>1. MoveOn(s, seq) = s \/ MoveOn(s, seq) = u
  BY DEF MoveOn
<1>2. past \in 1..(Total + 1)
  <2>1. past \in Nat /\ seq < past /\ past <= s.tx.end
    BY SaneParts, EndIs
  <2> HIDE DEF past
  <2>2. QED BY <2>1, SaneParts
<1> HIDE DEF past
<1>3. s \in Handlers
  BY SaneParts
<1>4. /\ u \in Handlers /\ u.tx = s.tx /\ u.flight = s.flight /\ u.sock.rWnd = s.sock.rWnd
      /\ u.sock.recover = s.sock.recover /\ u.sock.highTx = s.sock.highTx
  BY <1>2, <1>3 DEF Handlers, Socks
<1> HIDE DEF u
<1>5. Sane(u, E) /\ Ahead(s, u)
  BY <1>4, SaneParts, OtherFieldsSane
<1>6. QED BY <1>1, <1>5, Zenon DEF Ahead

\* One round of the loop in SendPendingData
LEMMA RoundSane ==
  ASSUME NEW E \in Nat, NEW s, Sane(s, E), NEW w \in Int
  PROVE  Sane(Round(s, w), E) /\ Ahead(s, Round(s, w))
<1> DEFINE b == s.tx
           window == Larger(Smaller(s.sock.rWnd, w) - BytesInFlight(b), 0)
           recovery == s.sock.sackEnabled /\ s.sock.congState = "RECOVERY"
           next == NextSeg(b, s.sock.rWnd, recovery)
           seq == next.seq
           n == Smaller(Smaller(window, SegmentSize), next.size)
           t == SendDataPacket(s, seq, n)
           ends == \/ s.sock.dropped \/ s.sock.nullItem \/ b.tail = b.una \/ window = 0
                   \/ ~MaySend(s, window, next)
<1>1. /\ s \in Handlers /\ Fits(b) /\ s.sock.rWnd \in Nat /\ SegmentSize \in Nat
      /\ s.sock.sackEnabled \in BOOLEAN
  BY SaneParts, HandlerParts, TxAssumption
<1>2. Round(s, w) = IF ends THEN s ELSE MoveOn(t, seq)
  BY Zenon DEF Round
<1>3. CASE ends
  BY <1>2, <1>3 DEF Ahead
<1>4. CASE ~ends
  <2>1. next.ok
    BY <1>4, Zenon DEF MaySend
  <2>2. recovery \in BOOLEAN
    BY <1>1
  <2> HIDE DEF recovery
  <2>3. window \in Nat
    <3>1. BytesInFlight(b) \in Int
      BY <1>1, FitsParts DEF BytesInFlight, SentSize
    <3>2. QED BY <1>1, <3>1 DEF Larger, Smaller
  <2>4. /\ seq \in Nat /\ 1 <= seq /\ seq <= b.end /\ seq < b.tail /\ next.size \in Nat
        /\ seq = b.end => b.end + next.size <= b.una + s.sock.rWnd
    BY <1>1, <2>1, <2>2, OfferIs, Zenon
  <2>5. n \in Nat /\ n <= next.size
    <3> DEFINE z == next.size
    <3>1. z \in Nat
      BY <2>4
    <3> HIDE DEF z, window
    <3>2. Smaller(Smaller(window, SegmentSize), z) \in Nat
          /\ Smaller(Smaller(window, SegmentSize), z) <= z
      BY <1>1, <2>3, <3>1 DEF Smaller
    <3>3. QED BY <3>2 DEF z
  <2>6. seq = b.end => b.end + n <= E
    <3> DEFINE z == next.size
    <3>1. z \in Nat /\ n <= z /\ (seq = b.end => b.end + z <= b.una + s.sock.rWnd)
      BY <2>4, <2>5
    <3> HIDE DEF z, n, seq
    <3>2. QED BY <2>5, <3>1, SaneParts
  <2> HIDE DEF n, seq
  <2>7. Sane(t, E) /\ Ahead(s, t) /\ (t.sock.nullItem \/ seq < t.tx.end)
    BY <2>4, <2>5, <2>6, SendDataSane
  <2> HIDE DEF t
  <2>8. Sane(MoveOn(t, seq), E) /\ Ahead(t, MoveOn(t, seq))
    <3>1. CASE t.sock.nullItem
      BY <2>7, <3>1 DEF MoveOn, Ahead
    <3>2. CASE ~t.sock.nullItem
      BY <2>4, <2>7, <3>2, MoveOnSane
    <3>3. QED BY <3>1, <3>2
  <2>9. QED BY <1>2, <1>4, <2>7, <2>8, AheadAgain, Zenon
<1>5. QED BY <1>3, <1>4

\* The states the loop can end in
LEMMA SendPendingSane ==
  ASSUME NEW E \in Nat, NEW s, Sane(s, E), NEW windows \in SUBSET Int,
         NEW t \in SendPendingData(s, windows)
  PROVE  Sane(t, E) /\ Ahead(s, t)
<1> DEFINE good == {u \in Handlers : Sane(u, E) /\ Ahead(s, u)}
<1>1. s \in good
  BY DEF Sane, Ahead
<1>2. ASSUME NEW u \in good, NEW w \in windows PROVE Round(u, w) \in good
  <2>1. Sane(u, E) /\ Ahead(s, u) /\ w \in Int
    OBVIOUS
  <2> DEFINE r == Round(u, w)
  <2>2. Sane(r, E) /\ Ahead(u, r)
    BY <2>1, RoundSane, Zenon
  <2> HIDE DEF r
  <2>3. r \in Handlers /\ Ahead(s, r)
    BY <2>1, <2>2, AheadAgain DEF Sane
  <2>4. r \in good
    BY <2>2, <2>3
  <2> HIDE DEF good
  <2>5. QED BY <2>4 DEF r
<1> HIDE DEF good
<1>3. t \in good
  BY <1>1, <1>2, LoopStays, Zenon
<1>4. QED BY <1>3 DEF good

\* DoRetransmit, while something is unacknowledged
LEMMA DoRetransmitSane ==
  ASSUME NEW E \in Nat, NEW s, Sane(s, E), s.tx.una < s.tx.tail
  PROVE  Sane(DoRetransmit(s), E) /\ Ahead(s, DoRetransmit(s))
<1> DEFINE next == NextSeg(s.tx, s.sock.rWnd, FALSE)
           seq == IF next.ok THEN next.seq ELSE s.tx.una
           n == IF next.ok THEN next.size ELSE SegmentSize
<1>1. DoRetransmit(s) = SendDataPacket(s, seq, n)
  BY DEF DoRetransmit
<1>2. Fits(s.tx) /\ s.sock.rWnd \in Nat /\ FALSE \in BOOLEAN
  BY SaneParts
<1>3. /\ next.ok => /\ next.seq \in Nat /\ 1 <= next.seq /\ next.seq <= s.tx.end
                    /\ next.seq < s.tx.tail /\ next.size \in Nat
                    /\ next.seq = s.tx.end
                         => s.tx.end + next.size <= s.tx.una + s.sock.rWnd
      /\ next.ok \/ s.tx.una < s.tx.end \/ s.tx.una = s.tx.tail
  BY <1>2, OfferIs, Zenon
<1> HIDE DEF next
<1>4. /\ seq \in Nat /\ 1 <= seq /\ seq <= s.tx.end /\ seq < s.tx.tail /\ n \in Nat
      /\ seq = s.tx.end => s.tx.end + n <= E
  <2>1. CASE next.ok
    <3> DEFINE z == next.size  q == next.seq
    <3>1. seq = q /\ n = z
      BY <2>1
    <3>2. /\ q \in Nat /\ 1 <= q /\ q <= s.tx.end /\ q < s.tx.tail /\ z \in Nat
          /\ q = s.tx.end => s.tx.end + z <= s.tx.una + s.sock.rWnd
      BY <1>3, <2>1
    <3> HIDE DEF z, q, seq, n
    <3>3. QED BY <3>1, <3>2, SaneParts
  <2>2. CASE ~next.ok
    <3>1. seq = s.tx.una /\ n = SegmentSize
      BY <2>2
    <3> HIDE DEF seq, n
    <3>2. s.tx.una < s.tx.end
      BY <1>3, <2>2, SaneParts
    <3>3. SegmentSize \in Nat
      BY TxAssumption
    <3>4. QED BY <3>1, <3>2, <3>3, SaneParts
  <2>3. QED BY <2>1, <2>2
<1> HIDE DEF seq, n
<1>5. Sane(SendDataPacket(s, seq, n), E) /\ Ahead(s, SendDataPacket(s, seq, n))
  BY <1>4, SendDataSane
<1>6. QED BY <1>1, <1>5

(***************************************************************************)
(* Acknowledgments                                                         *)
(***************************************************************************)
\* The buffer when recovery begins
LEMMA HeadLostFlagsFit ==
  ASSUME NEW s, Fits(s.tx)
  PROVE  Fits(HeadLost(s)) /\ Level(s.tx, HeadLost(s))
<1> DEFINE b == s.tx
           d == AddRenoSack(b)
<1>1. Fits(d) /\ Level(b, d)
  BY RenoSackFits, Zenon
<1>2. HeadLost(s) \in {b, MarkHeadAsLost(b), MarkHeadAsLost(d)}
  BY DEF HeadLost
<1>3. Fits(MarkHeadAsLost(b)) /\ Level(b, MarkHeadAsLost(b))
  BY HeadLostFits, Zenon
<1> HIDE DEF d
<1>4. Fits(MarkHeadAsLost(d)) /\ Level(d, MarkHeadAsLost(d))
  BY <1>1, HeadLostFits, Zenon
<1> DEFINE c == HeadLost(s)  e == MarkHeadAsLost(b)  f == MarkHeadAsLost(d)
<1>5. c \in {b, e, f} /\ Fits(b) /\ Fits(e) /\ Level(b, e) /\ Fits(f) /\ Level(d, f)
  BY <1>2, <1>3, <1>4
<1> HIDE DEF b, c, e, f
<1>6. Fits(c) /\ Level(b, c)
  BY <1>1, <1>5 DEF Level
<1>7. QED BY <1>6 DEF b, c

\* EnterRecovery
LEMMA EnterRecoverySane ==
  ASSUME NEW E \in Nat, NEW s, Sane(s, E), s.tx.una < s.tx.tail
  PROVE  Sane(EnterRecovery(s), E) /\ Ahead(s, EnterRecovery(s))
<1> DEFINE c == HeadLost(s)
           t == [s EXCEPT !.tx = c]
           u == [s EXCEPT !.tx = c, !.sock.recover = s.sock.highTx,
                          !.sock.recoverActive = TRUE, !.sock.congState = "RECOVERY"]
<1>1. EnterRecovery(s) = DoRetransmit(u)
  BY DEF EnterRecovery
<1>2. Fits(c) /\ Level(s.tx, c)
  BY SaneParts, HeadLostFlagsFit
<1> HIDE DEF c
<1>3. Sane(t, E) /\ Ahead(s, t) /\ t.tx = c /\ t.sock = s.sock
  BY <1>2, MarksSane
<1>4. s \in Handlers /\ c \in Buffers /\ t.flight = s.flight
  BY <1>2, <1>3, BufferOf DEF Sane, Handlers
<1>5. u \in Handlers
  <2>1. s.sock.highTx \in 0..(Total + 1) /\ "RECOVERY" \in CongStates
    BY <1>4, SenderAssumption DEF Handlers, Socks, CongStates
  <2>2. QED BY <1>4, <2>1 DEF Handlers, Socks
<1>6. /\ u.tx = c /\ u.flight = s.flight /\ u.sock.rWnd = s.sock.rWnd
      /\ u.sock.recover = s.sock.highTx /\ u.sock.highTx = s.sock.highTx
  BY <1>4 DEF Handlers, Socks
<1> HIDE DEF t, u
<1>7. Sane(u, E) /\ Ahead(t, u)
  <2>1. u.sock.recover <= u.sock.highTx
    BY <1>6, SaneParts
  <2>2. QED BY <1>3, <1>4, <1>5, <1>6, <2>1, OtherFieldsSane
<1>8. Ahead(s, u) /\ u.tx.una < u.tx.tail
  <2>1. Ahead(s, u)
    BY <1>3, <1>7, AheadAgain
  <2>2. QED BY <2>1 DEF Ahead
<1>9. Sane(DoRetransmit(u), E) /\ Ahead(u, DoRetransmit(u))
  BY <1>7, <1>8, DoRetransmitSane
<1>10. QED BY <1>1, <1>8, <1>9, AheadAgain, Zenon

\* DupAck, while something is unacknowledged
LEMMA DupAckSane ==
  ASSUME NEW E \in Nat, NEW s, Sane(s, E), s.tx.una < s.tx.tail
  PROVE  Sane(DupAck(s), E) /\ Ahead(s, DupAck(s))
<1> DEFINE c == Counted(s)
<1>1. DupAck(s) \in {s, EnterRecovery(c), RenoSack(c)}
  BY DEF DupAck
<1>2. s \in Handlers
  BY SaneParts
<1>3. /\ c \in Handlers /\ c.tx = s.tx /\ c.flight = s.flight
      /\ c.sock.rWnd = s.sock.rWnd
      /\ c.sock.recover = s.sock.recover /\ c.sock.highTx = s.sock.highTx
  <2> DEFINE n == IF s.sock.congState = "RECOVERY" THEN s.sock.dupAckCount
                  ELSE s.sock.dupAckCount + 1
             state == IF s.sock.congState = "OPEN" THEN "DISORDER" ELSE s.sock.congState
  <2>1. n \in Nat /\ state \in CongStates
    BY <1>2 DEF Handlers, Socks, CongStates
  <2>2. c = [s EXCEPT !.sock.dupAckCount = n, !.sock.congState = state]
    BY <1>2 DEF Counted, Handlers, Socks
  <2> HIDE DEF n, state, c
  <2>3. QED BY <1>2, <2>1, <2>2 DEF Handlers, Socks
<1> HIDE DEF c
<1>4. Sane(c, E) /\ Ahead(s, c)
  BY <1>3, SaneParts, OtherFieldsSane
<1>5. c.tx.una < c.tx.tail
  BY <1>3
<1>6. Sane(EnterRecovery(c), E) /\ Ahead(c, EnterRecovery(c))
  BY <1>4, <1>5, EnterRecoverySane
<1>7. Sane(RenoSack(c), E) /\ Ahead(c, RenoSack(c))
  <2>1. CASE c.sock.sackEnabled
    BY <1>4, <2>1 DEF RenoSack, Ahead
  <2>2. CASE ~c.sock.sackEnabled
    <3> DEFINE d == AddRenoSack(c.tx)
    <3>1. RenoSack(c) = [c EXCEPT !.tx = d]
      BY <2>2 DEF RenoSack
    <3>2. Fits(d) /\ Level(c.tx, d)
      <4>1. Fits(c.tx)
        BY <1>4, SaneParts
      <4>2. QED BY <4>1, RenoSackFits, Zenon
    <3> HIDE DEF d
    <3>3. LET t == [c EXCEPT !.tx = d] IN Sane(t, E) /\ Ahead(c, t)
      BY <1>4, <3>2, MarksSane
    <3>4. QED BY <3>1, <3>3
  <2>3. QED BY <2>1, <2>2
<1>8. Ahead(s, EnterRecovery(c)) /\ Ahead(s, RenoSack(c)) /\ Ahead(s, s)
  BY <1>4, <1>6, <1>7, AheadAgain, Zenon
<1> DEFINE v == EnterRecovery(c)  w == RenoSack(c)  r == DupAck(s)
<1>9. r \in {s, v, w} /\ Sane(v, E) /\ Sane(w, E) /\ Ahead(s, v) /\ Ahead(s, w) /\ Ahead(s, s)
  BY <1>1, <1>6, <1>7, <1>8
<1> HIDE DEF v, w, r
<1>10. Sane(r, E) /\ Ahead(s, r)
  BY <1>9
<1>11. QED BY <1>10 DEF r

\* NewAck touches the timer, the retries and SND.NXT.
LEMMA NewAckSane ==
  ASSUME NEW E \in Nat, NEW s, Sane(s, E), NEW reset \in BOOLEAN
  PROVE  Sane(NewAck(s, reset), E) /\ Ahead(s, NewAck(s, reset))
<1> DEFINE next == Larger(s.sock.nextTx, s.tx.una)
           timer == s.tx.tail > s.tx.una /\ (s.sock.retx \/ reset)
           t == [s EXCEPT !.sock.dataRetrCount = DataRetries, !.sock.nextTx = next,
                          !.sock.retx = timer]
<1>1. s \in Handlers /\ DataRetries \in 0..DataRetries
  BY SenderAssumption, SaneParts
<1>2. NewAck(s, reset) = t
  BY <1>1 DEF NewAck, Socks, Handlers
<1>3. next \in 1..(Total + 1)
  <2>1. s.sock.nextTx \in 1..(Total + 1)
    BY <1>1 DEF Handlers, Socks
  <2>2. QED BY <2>1, SaneParts DEF Larger
<1>4. timer \in BOOLEAN
  OBVIOUS
<1> HIDE DEF next, timer
<1>5. t \in Handlers
  BY <1>1, <1>3, <1>4 DEF Handlers, Socks
<1>6. /\ t.tx = s.tx /\ t.flight = s.flight /\ t.sock.rWnd = s.sock.rWnd
      /\ t.sock.recover = s.sock.recover /\ t.sock.highTx = s.sock.highTx
  BY <1>1 DEF Handlers, Socks
<1> HIDE DEF t
<1>7. Sane(t, E) /\ Ahead(s, t)
  BY <1>5, <1>6, SaneParts, OtherFieldsSane
<1>8. QED BY <1>2, <1>7, Zenon

\* An ACK below the recovery point
LEMMA PartialAckSane ==
  ASSUME NEW E \in Nat, NEW s, Sane(s, E), s.tx.una < s.tx.tail
  PROVE  Sane(PartialAck(s), E) /\ Ahead(s, PartialAck(s))
<1> DEFINE m == IF s.sock.sackEnabled THEN s ELSE [s EXCEPT !.tx = MarkHeadAsLost(@)]
           r == RetransmitUnlessAcked(m)
           first == s.sock.isFirstPartialAck
           a == NewAck(r, first)
           t == [a EXCEPT !.sock.isFirstPartialAck = FALSE]
<1>1. PartialAck(s) = t
  BY DEF PartialAck
<1>2. s \in Handlers /\ first \in BOOLEAN /\ Fits(s.tx)
  BY SaneParts DEF Handlers, Socks
<1>3. Sane(m, E) /\ Ahead(s, m)
  <2>1. CASE s.sock.sackEnabled
    BY <2>1 DEF Ahead
  <2>2. CASE ~s.sock.sackEnabled
    <3> DEFINE c == MarkHeadAsLost(s.tx)
    <3>1. m = [s EXCEPT !.tx = c]
      BY <1>2, <2>2
    <3>2. Fits(c) /\ Level(s.tx, c)
      BY <1>2, HeadLostFits, Zenon
    <3> HIDE DEF c, m
    <3>3. LET u == [s EXCEPT !.tx = c] IN Sane(u, E) /\ Ahead(s, u)
      BY <3>2, MarksSane
    <3>4. QED BY <3>1, <3>3
  <2>3. QED BY <2>1, <2>2
<1> HIDE DEF m
<1>4. m.tx.una < m.tx.tail
  BY <1>3 DEF Ahead
<1>5. Sane(r, E) /\ Ahead(m, r)
  <2>1. r = m \/ r = DoRetransmit(m)
    BY DEF RetransmitUnlessAcked
  <2>2. Sane(DoRetransmit(m), E) /\ Ahead(m, DoRetransmit(m))
    BY <1>3, <1>4, DoRetransmitSane
  <2>3. QED BY <1>3, <2>1, <2>2, Zenon DEF Ahead
<1> HIDE DEF r, first
<1>6. Sane(a, E) /\ Ahead(r, a)
  BY <1>2, <1>5, NewAckSane
<1> HIDE DEF a
<1>7. a \in Handlers
  BY <1>6, SaneParts
<1>8. t \in Handlers
  BY <1>7 DEF Handlers, Socks
<1>9. /\ t.tx = a.tx /\ t.flight = a.flight /\ t.sock.rWnd = a.sock.rWnd
      /\ t.sock.recover = a.sock.recover /\ t.sock.highTx = a.sock.highTx
  BY <1>7 DEF Handlers, Socks
<1> HIDE DEF t
<1>10. a.sock.recover <= a.sock.highTx
  BY <1>6, SaneParts
<1>11. Sane(t, E) /\ Ahead(a, t)
  BY <1>6, <1>8, <1>9, <1>10, OtherFieldsSane
<1>12. Ahead(s, t)
  BY <1>3, <1>5, <1>6, <1>11 DEF Ahead
<1>13. QED BY <1>1, <1>11, <1>12, Zenon

\* An ACK that is not below the recovery point, or outside recovery and loss
LEMMA FullAckSane ==
  ASSUME NEW E \in Nat, NEW s, Sane(s, E), NEW isDupack \in BOOLEAN
  PROVE  Sane(FullAck(s, isDupack), E) /\ Ahead(s, FullAck(s, isDupack))
<1> DEFINE state == s.sock.congState
           ends == state \in {"RECOVERY", "LOSS"}
           next == IF ends \/ (state = "DISORDER" /\ ~isDupack) THEN "OPEN" ELSE state
           first == s.sock.isFirstPartialAck \/ ends
           n == IF state = "RECOVERY" THEN 0 ELSE s.sock.dupAckCount
           active == s.sock.recoverActive /\ s.tx.una < s.sock.recover
           p == [s EXCEPT !.sock.congState = next, !.sock.isFirstPartialAck = first,
                          !.sock.dupAckCount = n, !.sock.recoverActive = active]
<1>1. s \in Handlers /\ s.sock \in Socks
  BY SaneParts
<1>2. FullAck(s, isDupack) = p \/ FullAck(s, isDupack) = NewAck(p, TRUE)
  BY <1>1 DEF FullAck, Handlers, Socks
<1>3. next \in CongStates
  BY <1>1 DEF Socks, CongStates
<1>4. n \in Nat /\ first \in BOOLEAN /\ active \in BOOLEAN /\ TRUE \in BOOLEAN
  BY <1>1 DEF Socks
<1> HIDE DEF next, first, n, active
<1>5. p \in Handlers
  BY <1>1, <1>3, <1>4 DEF Handlers, Socks
<1>6. /\ p.tx = s.tx /\ p.flight = s.flight /\ p.sock.rWnd = s.sock.rWnd
      /\ p.sock.recover = s.sock.recover /\ p.sock.highTx = s.sock.highTx
  BY <1>1 DEF Handlers, Socks
<1> HIDE DEF p
<1>7. Sane(p, E) /\ Ahead(s, p)
  BY <1>5, <1>6, SaneParts, OtherFieldsSane
<1>8. Sane(NewAck(p, TRUE), E) /\ Ahead(p, NewAck(p, TRUE))
  BY <1>4, <1>7, NewAckSane
<1>9. Ahead(s, NewAck(p, TRUE))
  BY <1>7, <1>8, AheadAgain, Zenon
<1>10. QED BY <1>2, <1>7, <1>8, <1>9, Zenon

\* What follows the count of duplicates when SND.UNA has moved
LEMMA AdvancedSane ==
  ASSUME NEW E \in Nat, NEW s, Sane(s, E), NEW isDupack \in BOOLEAN
  PROVE  Sane(Advanced(s, isDupack), E) /\ Ahead(s, Advanced(s, isDupack))
<1>1. CASE s.tx.una < s.sock.recover /\ s.sock.congState = "RECOVERY"
  <2>1. Advanced(s, isDupack) = PartialAck(s)
    BY <1>1 DEF Advanced
  <2>2. s.tx.una < s.tx.tail
    BY <1>1, SaneParts
  <2>3. QED BY <2>1, <2>2, PartialAckSane
<1>2. CASE s.tx.una < s.sock.recover /\ s.sock.congState = "LOSS"
  <2>1. Advanced(s, isDupack) = NewAck(s, TRUE) /\ TRUE \in BOOLEAN
    BY <1>2 DEF Advanced
  <2>2. QED BY <2>1, NewAckSane
<1>3. CASE \/ ~(s.tx.una < s.sock.recover)
           \/ s.sock.congState \notin {"RECOVERY", "LOSS"}
  <2>1. Advanced(s, isDupack) = FullAck(s, isDupack)
    BY <1>3 DEF Advanced
  <2>2. QED BY <2>1, FullAckSane
<1>4. QED BY <1>1, <1>2, <1>3

\* ProcessAck, where a duplicate means that something is unacknowledged
LEMMA ProcessAckSane ==
  ASSUME NEW E \in Nat, NEW s, Sane(s, E), NEW oldHead, NEW isDupack \in BOOLEAN,
         isDupack => s.tx.una < s.tx.tail
  PROVE  LET t == ProcessAck(s, oldHead, isDupack) IN Sane(t, E) /\ Ahead(s, t)
<1> DEFINE d == IF isDupack THEN DupAck(s) ELSE s
           z == [s EXCEPT !.sock.dupAckCount = 0]
           e == IF isDupack THEN d ELSE z
<1>1. Sane(d, E) /\ Ahead(s, d)
  <2>1. CASE isDupack
    BY <2>1, DupAckSane
  <2>2. CASE ~isDupack
    BY <2>2 DEF Ahead
  <2>3. QED BY <2>1, <2>2
<1>2. Sane(z, E) /\ Ahead(s, z)
  <2>1. s \in Handlers
    BY SaneParts
  <2>2. z \in Handlers
    BY <2>1 DEF Handlers, Socks
  <2>3. /\ z.tx = s.tx /\ z.flight = s.flight /\ z.sock.rWnd = s.sock.rWnd
        /\ z.sock.recover = s.sock.recover /\ z.sock.highTx = s.sock.highTx
    BY <2>1 DEF Handlers, Socks
  <2> HIDE DEF z
  <2>4. QED BY <2>2, <2>3, SaneParts, OtherFieldsSane
<1>3. ProcessAck(s, oldHead, isDupack) = IF s.tx.una = oldHead THEN d
                                         ELSE Advanced(e, isDupack)
  BY DEF ProcessAck
<1> HIDE DEF d, z
<1>4. Sane(e, E) /\ Ahead(s, e)
  BY <1>1, <1>2
<1> HIDE DEF e
<1>5. Sane(Advanced(e, isDupack), E) /\ Ahead(e, Advanced(e, isDupack))
  BY <1>4, AdvancedSane
<1>6. Ahead(s, Advanced(e, isDupack))
  BY <1>4, <1>5, AheadAgain, Zenon
<1>7. QED BY <1>1, <1>3, <1>5, <1>6, Zenon

\* An ACK that the network holds: it offers no more than the window has room for,
\* and reports only what lies above it.
Answer(a, E) == /\ a.ack \in Nat /\ 1 <= a.ack /\ a.wnd \in Nat /\ a.ack + a.wnd <= E
                /\ IsFiniteSet(DOMAIN a.blocks)
                /\ \A k \in DOMAIN a.blocks : a.blocks[k][1] \in Nat /\ a.ack < a.blocks[k][1]

\* The scoreboard takes an ACK; a duplicate leaves something unacknowledged.
LEMMA ScoredSane ==
  ASSUME NEW E \in Nat, NEW s, Sane(s, E), NEW ack \in Nat, NEW blocks,
         s.tx.una <= ack, ack <= s.sock.highTx, ack + s.sock.rWnd <= E,
         IsFiniteSet(DOMAIN blocks),
         \A k \in DOMAIN blocks : blocks[k][1] \in Nat /\ ack < blocks[k][1]
  PROVE  LET u == Scored(s, ack, blocks)
         IN /\ Sane(u, E) /\ u.tx.una = ack /\ u.sock = s.sock
            /\ IsDupack(s, ack, blocks) \in BOOLEAN
            /\ IsDupack(s, ack, blocks) => u.tx.una < u.tx.tail
<1> DEFINE b == s.tx
           c == Update(b, blocks)
           d == DiscardUpTo(c, ack)
           u == [s EXCEPT !.tx = d]
           dup == IsDupack(s, ack, blocks)
<1>1. Scored(s, ack, blocks) = u
  BY DEF Scored
<1>2. /\ s \in Handlers /\ Fits(b) /\ b.una \in Nat /\ b.end \in Nat /\ b.tail \in Nat
      /\ b.end <= E /\ b.end <= b.tail /\ s.sock.rWnd \in Nat /\ ack <= b.tail
      /\ s.sock.highTx \in Nat /\ s.sock.highTx <= b.tail
      /\ s.sock.recover <= s.sock.highTx
  BY SaneParts
<1>3. /\ Fits(c) /\ Level(b, c)
      /\ c.sacked = b.sacked \/ \E i \in b.starts : \E k \in DOMAIN blocks : blocks[k][1] <= i
  BY <1>2, UpdateFits, Zenon
<1>4. dup \in BOOLEAN /\ (dup => ack < b.tail)
  <2>1. CASE s.sock.sackEnabled
    <3>1. dup = (c.sacked # b.sacked)
      BY <2>1 DEF IsDupack
    <3>2. ASSUME c.sacked # b.sacked PROVE ack < b.tail
      <4>1. PICK i \in b.starts, k \in DOMAIN blocks : blocks[k][1] <= i
        BY <1>3, <3>2
      <4>2. blocks[k][1] \in Nat /\ ack < blocks[k][1]
        OBVIOUS
      <4>3. i \in Nat /\ i < b.end
        BY <1>2, FitsParts DEF SentBytes
      <4> DEFINE low == blocks[k][1]
      <4>4. low \in Nat /\ ack < low /\ low <= i
        BY <4>1, <4>2
      <4> HIDE DEF low
      <4>5. QED BY <1>2, <4>3, <4>4
    <3>3. QED BY <3>1, <3>2
  <2>2. CASE ~s.sock.sackEnabled
    BY <1>2, <2>2 DEF IsDupack
  <2>3. QED BY <2>1, <2>2
<1> HIDE DEF c, dup
<1>5. Fits(d) /\ d.una = ack /\ d.end = Larger(c.end, ack) /\ d.tail = c.tail
  <2>1. c.una <= ack /\ ack <= c.tail
    BY <1>2, <1>3 DEF Level
  <2>2. QED BY <1>3, <2>1, DiscardFits
<1> HIDE DEF d
<1>6. u \in Handlers /\ u.tx = d /\ u.sock = s.sock /\ u.flight = s.flight
  <2>1. d \in Buffers
    BY <1>5, BufferOf
  <2>2. QED BY <1>2, <2>1 DEF Handlers
<1> HIDE DEF u
<1>7. d.end <= E /\ d.tail = b.tail
  BY <1>2, <1>3, <1>5 DEF Level, Larger
<1>8. \A p \in s.flight : Reaches(p, E)
  BY DEF Sane
<1>9. Sane(u, E)
  BY <1>2, <1>5, <1>6, <1>7, <1>8 DEF Sane
<1>10. QED BY <1>1, <1>4, <1>5, <1>6, <1>7, <1>9 DEF dup

\* All that the sender does with an ACK
LEMMA ReceivedAckSane ==
  ASSUME NEW E \in Nat, NEW s, Sane(s, E), NEW ack \in Nat, NEW blocks,
         s.tx.una <= ack, ack <= s.sock.highTx, ack + s.sock.rWnd <= E,
         IsFiniteSet(DOMAIN blocks),
         \A k \in DOMAIN blocks : blocks[k][1] \in Nat /\ ack < blocks[k][1],
         NEW t \in ReceivedAck(s, ack, blocks)
  PROVE  Sane(t, E) /\ t.tx.una = ack /\ t.sock.rWnd = s.sock.rWnd
<1> DEFINE u == Scored(s, ack, blocks)
           dup == IsDupack(s, ack, blocks)
           r == ProcessAck(u, s.tx.una, dup)
<1>1. t \in SendPendingData(r, CongWindows)
  BY DEF ReceivedAck
<1>2. /\ Sane(u, E) /\ u.tx.una = ack /\ u.sock = s.sock /\ dup \in BOOLEAN
      /\ dup => u.tx.una < u.tx.tail
  BY ScoredSane
<1> HIDE DEF u, dup
<1>3. Sane(r, E) /\ Ahead(u, r)
  BY <1>2, ProcessAckSane, Zenon
<1> HIDE DEF r
<1>4. Sane(t, E) /\ Ahead(r, t)
  <2>1. CongWindows \in SUBSET Int
    BY SenderAssumption
  <2>2. QED BY <1>1, <1>3, <2>1, SendPendingSane
<1>5. QED BY <1>2, <1>3, <1>4 DEF Ahead

(***************************************************************************)
(* The probe                                                               *)
(***************************************************************************)
\* ResetLastSegmentSent: the end goes back to where the last item began.
LEMMA ResetFits ==
  ASSUME NEW b, Fits(b)
  PROVE  LET c == ResetLastSegmentSent(b)
         IN /\ Fits(c) /\ c.una = b.una /\ c.tail = b.tail
            /\ c.end = b.end \/ c.end \in b.starts
            /\ b.starts # {} => c.end \in b.starts
<1> DEFINE c == ResetLastSegmentSent(b)
<1>1. CASE b.starts = {}
  BY <1>1 DEF ResetLastSegmentSent
<1>2. CASE b.starts # {}
  <2> DEFINE last == GreatestOf(b.starts)
             S == b.starts \ {last}
             h == IF last \in b.retrans THEN b.retransOut - (b.end - last)
                  ELSE b.retransOut
  <2>1. c = [b EXCEPT !.starts = S, !.end = last, !.retransOut = h]
    BY <1>2 DEF ResetLastSegmentSent
  <2>2. last \in b.starts /\ \A i \in b.starts : i <= last
    <3>1. /\ b.starts \in SUBSET Nat /\ b.end \in Nat
          /\ \A i \in b.starts : i <= b.end
      BY FitsParts DEF SentBytes
    <3>2. QED BY <1>2, <3>1, GreatestOfNaturals
  <2> HIDE DEF last
  <2>3. last \in Nat /\ b.una <= last /\ last < b.end /\ b \in Buffers
    BY <2>2, FitsParts DEF SentBytes
  <2>4. S \in SUBSET Nat /\ S \subseteq b.una..(last - 1)
    <3>1. \A i \in S : i \in Nat /\ b.una <= i /\ i < last
      BY <2>2, <2>3, FitsParts DEF SentBytes
    <3> HIDE DEF S
    <3>2. QED BY <2>3, <3>1, FitsParts
  <2>5. h \in Int
    BY <2>3, FitsParts
  <2> HIDE DEF S, h, c
  <2>6. /\ c \in Buffers /\ c.una = b.una /\ c.end = last /\ c.tail = b.tail /\ c.starts = S
        /\ c.sacked = b.sacked /\ c.lost = b.lost /\ c.retrans = b.retrans
    BY <2>1, <2>3, <2>4, <2>5 DEF Buffers
  <2>7. Fits(c)
    <3>1. c.starts \subseteq SentBytes(c)
      BY <2>4, <2>6 DEF SentBytes
    <3>2. Within(c, c.sacked) /\ Within(c, c.lost) /\ Within(c, c.retrans)
      BY <2>6, FitsParts DEF Within
    <3>3. QED BY <2>3, <2>6, <3>1, <3>2, FitsParts DEF Fits
  <2>8. QED BY <2>2, <2>6, <2>7 DEF c
<1>3. QED BY <1>1, <1>2

\* What the probe of one byte leaves of the buffer
LEMMA ProbedFits ==
  ASSUME NEW b, Fits(b), NEW seq \in Nat, 1 <= seq, seq <= b.end, seq < b.tail
  PROVE  LET c == ResetLastSegmentSent(CopyFromSequence(b, 1, seq))
         IN Fits(c) /\ c.una = b.una /\ c.tail = b.tail /\ c.end <= b.end
<1> DEFINE d == CopyFromSequence(b, 1, seq)
           c == ResetLastSegmentSent(d)
<1>1. /\ Fits(d) /\ d.una = b.una /\ d.tail = b.tail
      /\ d.end = b.end \/ (seq = b.end /\ d.end <= b.end + 1)
      /\ seq = b.end => b.end \in d.starts
  <2>1. 1 \in Nat /\ 1 <= 1
    OBVIOUS
  <2>2. QED BY <2>1, CopyFits
<1> HIDE DEF d
<1>2. /\ Fits(c) /\ c.una = d.una /\ c.tail = d.tail
      /\ c.end = d.end \/ c.end \in d.starts
      /\ d.starts # {} => c.end \in d.starts
  BY <1>1, ResetFits
<1> HIDE DEF c
<1>3. \A i \in d.starts : i \in Nat /\ i < d.end
  BY <1>1, FitsParts DEF SentBytes
<1>4. b.end \in Nat /\ d.end \in Nat
  BY <1>1, FitsParts
<1>5. c.end <= b.end
  BY <1>1, <1>2, <1>3, <1>4
<1>6. QED BY <1>1, <1>2, <1>5 DEF c, d

(***************************************************************************)
(* The receiver                                                            *)
(***************************************************************************)
\* A window told in units is no larger than the window there is.
LEMMA UnitsAreLess ==
  ASSUME NEW x \in Nat, NEW u \in Nat \ {0}
  PROVE  (x \div u) * u \in Nat /\ (x \div u) * u <= x
OBVIOUS

\* What the receiver holds lies in the window it has offered.
Holds(bytes, E) == bytes \subseteq 1..Total /\ bytes \subseteq 1..(E - 1)

LEMMA NextIs ==
  ASSUME NEW E \in Nat, 1 <= E, NEW bytes, Holds(bytes, E)
  PROVE  NextRxSeq(bytes) \in Nat /\ 1 <= NextRxSeq(bytes) /\ NextRxSeq(bytes) <= E
<1> DEFINE e == Smaller(E, Total + 1)
<1>1. e \in Nat /\ 1 <= e /\ e <= Total + 1 /\ e <= E /\ e \notin bytes
  BY SenderAssumption DEF Holds, Smaller
<1> HIDE DEF e
<1> DEFINE m == NextRxSeq(bytes)
<1>2. m \in Nat /\ 1 <= m /\ m <= e
  BY <1>1, MissingIs DEF NextRxSeq
<1> HIDE DEF m
<1>3. QED BY <1>1, <1>2 DEF m

\* SendAck
LEMMA SendAckAnswers ==
  ASSUME NEW E \in Nat, 1 <= E, NEW bytes, Holds(bytes, E), MaxRxSequence = E,
         \A a \in acks : Answer(a, E), NEW arrived, SendAck(bytes, arrived)
  PROVE  \A a \in acks' : Answer(a, E)
<1> DEFINE ack == NextRxSeq(bytes)
           wnd == AdvertisedWindowSize(bytes)
<1>1. PICK blocks \in SackLists(bytes, arrived) : \E old \in SUBSET acks :
        acks' = old \cup {[ack |-> ack, blocks |-> blocks, wnd |-> wnd]}
  BY DEF SendAck
<1> DEFINE new == [ack |-> ack, blocks |-> blocks, wnd |-> wnd]
<1>2. new.ack = ack /\ new.blocks = blocks /\ new.wnd = wnd
      /\ \A a \in acks' : a \in acks \/ a = new
  BY <1>1
<1>3. ack \in Nat /\ 1 <= ack /\ ack <= E
  BY NextIs
<1>4. wnd \in Nat /\ ack + wnd <= E
  <2> DEFINE room == E - ack
             told == (room \div WindowUnit) * WindowUnit
  <2>1. wnd = told
    BY DEF AdvertisedWindowSize
  <2>2. room \in Nat /\ WindowUnit \in Nat \ {0}
    BY <1>3, FlowAssumption
  <2>3. told \in Nat /\ told <= room
    <3> HIDE DEF room
    <3>1. QED BY <2>2, UnitsAreLess
  <2> HIDE DEF told, wnd, ack
  <2>4. QED BY <1>3, <2>1, <2>3
<1>5. IsFiniteSet(DOMAIN blocks)
  <2> DEFINE e == Smaller(E, Total + 1)
  <2>1. e \in Nat /\ 1 <= e /\ e <= Total + 1 /\ bytes \subseteq 1..(e - 1)
    BY SenderAssumption DEF Holds, Smaller
  <2> HIDE DEF e
  <2>2. QED BY <2>1, BlocksAreHeld, Zenon
<1>6. ASSUME NEW k \in DOMAIN blocks
      PROVE  blocks[k][1] \in Nat /\ ack < blocks[k][1]
  <2> DEFINE runs == Runs(bytes)
             n == Smaller(Cardinality(runs), 3)
  <2>1. CASE sock.sackEnabled
    <3>1. blocks \in [1..n -> runs]
      BY <2>1, Zenon DEF SackLists
    <3> HIDE DEF runs, n
    <3>2. blocks[k] \in Runs(bytes)
      BY <3>1 DEF runs
    <3>3. PICK f \in {q \in bytes : q > ack /\ q - 1 \notin bytes} :
            blocks[k] = <<f, FirstMissing(bytes, f)>>
      BY <3>2 DEF Runs
    <3>4. f \in Nat /\ ack < f /\ blocks[k][1] = f
      BY <1>3, <3>3 DEF Holds
    <3>5. QED BY <3>4
  <2>2. CASE ~sock.sackEnabled
    <3>1. blocks = <<>>
      BY <2>2 DEF SackLists
    <3>2. QED BY <3>1
  <2>3. QED BY <2>1, <2>2
<1> HIDE DEF ack, wnd, new
<1>7. Answer(new, E)
  BY <1>2, <1>3, <1>4, <1>5, <1>6 DEF Answer
<1>8. QED BY <1>2, <1>7

(***************************************************************************)
(* The invariant and the theorem.  A segment that is in the window when it *)
(* arrives ends in it: one beyond the edge is a probe of a single byte.    *)
(***************************************************************************)
FlowKept ==
  /\ Sane(Sender, MaxRxSequence)
  /\ win \in [highRxAck : Nat, persist : BOOLEAN]
  /\ tx.una <= win.highRxAck /\ win.highRxAck + sock.rWnd <= MaxRxSequence
  /\ rcv \in [read : Nat, delAckCount : Nat, delAck : BOOLEAN]
  /\ Holds(got, MaxRxSequence)
  /\ \A a \in acks : Answer(a, MaxRxSequence)

LEMMA EdgeIs ==
  ASSUME rcv \in [read : Nat, delAckCount : Nat, delAck : BOOLEAN]
  PROVE  MaxRxSequence \in Nat /\ 1 <= MaxRxSequence /\ rcv.read < MaxRxSequence
BY FlowAssumption DEF MaxRxSequence

LEMMA FlowParts ==
  ASSUME FlowKept
  PROVE  /\ MaxRxSequence \in Nat /\ 1 <= MaxRxSequence
         /\ Sane(Sender, MaxRxSequence) /\ Sender.tx = tx /\ Sender.sock = sock
         /\ Sender.flight = flight /\ Sender \in Handlers /\ Fits(tx)
         /\ tx \in Buffers /\ sock \in Socks /\ flight \in SUBSET (Nat \X Nat)
         /\ tx.una \in Nat /\ tx.end \in Nat /\ tx.tail \in Nat /\ sock.rWnd \in Nat
         /\ sock.highTx \in Nat /\ sock.highTx <= tx.tail /\ sock.recover <= sock.highTx
         /\ tx.end <= MaxRxSequence /\ tx.una + sock.rWnd <= MaxRxSequence
         /\ win.highRxAck \in Nat
<1>1. Sane(Sender, MaxRxSequence) /\ MaxRxSequence \in Nat /\ 1 <= MaxRxSequence
  BY EdgeIs DEF FlowKept
<1>2. Sender.tx = tx /\ Sender.sock = sock /\ Sender.flight = flight
  BY DEF Sender
<1> DEFINE s == Sender  E == MaxRxSequence
<1>3. s.tx = tx /\ s.sock = sock /\ s.flight = flight /\ Sane(s, E) /\ E \in Nat
  BY <1>1, <1>2
<1> HIDE DEF s, E
<1>4. /\ s \in Handlers /\ Fits(tx)
      /\ tx \in Buffers /\ sock \in Socks /\ flight \in SUBSET (Nat \X Nat)
      /\ tx.una \in Nat /\ tx.end \in Nat /\ tx.tail \in Nat /\ sock.rWnd \in Nat
      /\ sock.highTx \in Nat /\ sock.highTx <= tx.tail /\ sock.recover <= sock.highTx
      /\ tx.end <= E /\ tx.una + sock.rWnd <= E
  BY <1>3, SaneParts
<1>5. win.highRxAck \in Nat
  BY DEF FlowKept
<1>6. QED BY <1>1, <1>2, <1>4, <1>5 DEF s, E

\* A window that grows leaves everything within it.
LEMMA EdgeMoves ==
  ASSUME NEW E \in Nat, NEW F \in Nat, E <= F
  PROVE  /\ \A s : Sane(s, E) => Sane(s, F)
         /\ \A a : Answer(a, E) => Answer(a, F)
         /\ \A bytes : Holds(bytes, E) => Holds(bytes, F)
<1>1. ASSUME NEW s, Sane(s, E) PROVE Sane(s, F)
  <2>1. \A p \in s.flight : Reaches(p, F)
    <3> SUFFICES ASSUME NEW p \in s.flight PROVE Reaches(p, F)
      OBVIOUS
    <3>1. Reaches(p, E) /\ p \in Nat \X Nat
      BY <1>1, SaneParts DEF Sane
    <3> DEFINE lo == p[1]  up == p[2]
    <3>2. lo \in Nat /\ up \in Nat /\ 1 <= lo /\ lo < up /\ up <= Total + 1
          /\ (up <= E \/ up = lo + 1)
      BY <3>1 DEF Reaches
    <3> HIDE DEF lo, up
    <3>3. up <= F \/ up = lo + 1
      BY <3>2
    <3>4. QED BY <3>2, <3>3 DEF Reaches, lo, up
  <2>2. s.tx.end <= F /\ s.tx.una + s.sock.rWnd <= F
    BY <1>1, SaneParts
  <2>3. QED BY <1>1, <2>1, <2>2 DEF Sane
<1>2. ASSUME NEW a, Answer(a, E) PROVE Answer(a, F)
  <2> DEFINE x == a.ack  y == a.wnd
  <2>1. x \in Nat /\ y \in Nat /\ x + y <= E
    BY <1>2 DEF Answer
  <2> HIDE DEF x, y
  <2>2. x + y <= F
    BY <2>1
  <2>3. QED BY <1>2, <2>2 DEF Answer, x, y
<1>3. ASSUME NEW bytes, Holds(bytes, E) PROVE Holds(bytes, F)
  <2>1. 1..(E - 1) \subseteq 1..(F - 1)
    OBVIOUS
  <2>2. QED BY <1>3, <2>1 DEF Holds
<1>4. QED BY <1>1, <1>2, <1>3

\* What a handler leaves stays sane when segments that are acknowledged are
\* forgotten.
LEMMA EndsSane ==
  ASSUME NEW E \in Nat, NEW S, EndsIn(S), \A t \in S : Sane(t, E)
  PROVE  Sane(Sender', E) /\ \E t \in S : tx' = t.tx /\ sock' = t.sock
<1>1. PICK t \in S : /\ tx' = t.tx /\ sock' = t.sock
                     /\ flight' = {p \in t.flight : p[2] > t.tx.una}
  BY DEF EndsIn
<1>2. Sane(t, E)
  OBVIOUS
<1>3. flight' \subseteq t.flight
  BY <1>1
<1>4. Sender' \in Handlers
  <2>1. t.tx \in Buffers /\ t.sock \in Socks /\ t.flight \in SUBSET (Nat \X Nat)
    BY <1>2, SaneParts
  <2>2. tx' \in Buffers /\ sock' \in Socks /\ flight' \in SUBSET (Nat \X Nat)
    BY <1>1, <1>3, <2>1
  <2>3. QED BY <2>2 DEF Sender, Handlers
<1>5. Sender'.tx = t.tx /\ Sender'.sock = t.sock /\ Sender'.flight \subseteq t.flight
  BY <1>1, <1>3 DEF Sender
<1> DEFINE s == Sender'
<1>6. /\ s \in Handlers /\ s.tx = t.tx /\ s.sock = t.sock /\ s.flight \subseteq t.flight
  BY <1>4, <1>5
<1> HIDE DEF s
<1>7. Sane(s, E)
  BY <1>2, <1>6 DEF Sane
<1>8. QED BY <1>1, <1>7 DEF s

\* An event of the sender's that moves neither the head nor the window
LEMMA SenderStep ==
  ASSUME FlowKept, NEW S, EndsIn(S), UNCHANGED <<got, win, rcv, acks>>,
         \A t \in S : /\ Sane(t, MaxRxSequence)
                      /\ t.tx.una = tx.una /\ t.sock.rWnd = sock.rWnd
  PROVE  FlowKept'
<1> DEFINE E == MaxRxSequence
<1>1. E \in Nat /\ MaxRxSequence' = E
  BY FlowParts DEF MaxRxSequence
<1>2. Sane(Sender', E) /\ \E t \in S : tx' = t.tx /\ sock' = t.sock
  BY <1>1, EndsSane
<1>3. tx'.una = tx.una /\ sock'.rWnd = sock.rWnd
  BY <1>2
<1>4. /\ win' = win /\ rcv' = rcv /\ got' = got /\ acks' = acks
  OBVIOUS
<1> HIDE DEF E
<1>5. /\ Holds(got, E) /\ \A a \in acks : Answer(a, E)
      /\ tx.una <= win.highRxAck /\ win.highRxAck + sock.rWnd <= E
      /\ win \in [highRxAck : Nat, persist : BOOLEAN]
      /\ rcv \in [read : Nat, delAckCount : Nat, delAck : BOOLEAN]
  BY DEF FlowKept, E
<1>6. QED BY <1>1, <1>2, <1>3, <1>4, <1>5 DEF FlowKept

\* Send
LEMMA FlowWriteStep ==
  ASSUME FlowKept, Write
  PROVE  FlowKept'
<1>1. PICK n \in Writes : Send(n)
  BY DEF Write
<1> DEFINE c == Add(tx, n)
           s == [Sender EXCEPT !.tx = c]
           l == tx.tail + n
<1>2. /\ EndsIn(SendPendingData(s, CongWindows)) /\ UNCHANGED <<got, win, rcv, acks>>
      /\ tx.tail + n <= Total + 1
  BY <1>1 DEF Send, Sender, Write
<1>3. n \in Nat /\ Total \in Nat /\ CongWindows \in SUBSET Int
  BY SenderAssumption
<1>4. l \in Nat /\ tx.tail <= l
  BY <1>3, FlowParts
<1>5. c = [tx EXCEPT !.tail = l]
  BY FlowParts DEF Add, Buffers
<1> HIDE DEF c
<1>6. /\ c \in Buffers /\ c.una = tx.una /\ c.end = tx.end /\ c.tail = l
      /\ c.starts = tx.starts /\ c.sacked = tx.sacked /\ c.lost = tx.lost
      /\ c.retrans = tx.retrans
  <2>1. tx \in Buffers
    BY FlowParts
  <2> HIDE DEF l
  <2>2. QED BY <1>4, <1>5, <2>1 DEF Buffers
<1>7. Fits(c)
  <2>1. Fits(tx)
    BY FlowParts
  <2>2. c.starts \subseteq SentBytes(c)
    BY <1>6, <2>1, FitsParts DEF SentBytes
  <2>3. \A F : Within(tx, F) => Within(c, F)
    <3>1. 1..(tx.tail - 1) \subseteq 1..(c.tail - 1)
      BY <1>4, <1>6, FlowParts
    <3>2. QED BY <3>1 DEF Within
  <2>4. Within(c, c.sacked) /\ Within(c, c.lost) /\ Within(c, c.retrans)
    BY <1>6, <2>1, <2>3, FitsParts
  <2>5. 1 <= c.una /\ c.una <= c.end /\ c.end <= c.tail /\ c.tail <= Total + 1
    <3>1. 1 <= tx.una /\ tx.una <= tx.end /\ tx.end <= tx.tail
      BY <2>1, FitsParts
    <3>2. QED BY <1>2, <1>4, <1>6, <3>1, FlowParts
  <2>6. QED BY <1>6, <2>2, <2>4, <2>5 DEF Fits
<1>8. s \in Handlers /\ s.tx = c /\ s.sock = sock /\ s.flight = flight
  BY <1>6, FlowParts DEF Handlers, Sender
<1> HIDE DEF s
<1>9. Sane(s, MaxRxSequence)
  <2>1. \A p \in flight : Reaches(p, MaxRxSequence)
    BY FlowParts DEF Sane
  <2>2. sock.highTx <= c.tail
    BY <1>4, <1>6, FlowParts
  <2>3. QED BY <1>6, <1>7, <1>8, <2>1, <2>2, FlowParts DEF Sane
<1>10. ASSUME NEW t \in SendPendingData(s, CongWindows)
       PROVE  /\ Sane(t, MaxRxSequence)
              /\ t.tx.una = tx.una /\ t.sock.rWnd = sock.rWnd
  <2>1. Sane(t, MaxRxSequence) /\ Ahead(s, t)
    <3>1. MaxRxSequence \in Nat
      BY FlowParts
    <3>2. QED BY <1>3, <1>9, <3>1, SendPendingSane
  <2>2. QED BY <1>6, <1>8, <2>1 DEF Ahead
<1>11. QED BY <1>2, <1>10, SenderStep

\* ReTxTimeout
LEMMA FlowTimeoutStep ==
  ASSUME FlowKept, ReTxTimeout, UNCHANGED <<win, rcv, acks>>
  PROVE  FlowKept'
<1> DEFINE b == IF sock.sackEnabled THEN tx ELSE ResetRenoSack(tx)
           reset == ~sock.sackEnabled
           c == SetSentListLost(b, reset)
           k == [sock EXCEPT !.retx = FALSE, !.dataRetrCount = @ - 1, !.dupAckCount = 0,
                             !.recover = sock.highTx, !.recoverActive = TRUE,
                             !.congState = "LOSS"]
           s == [tx |-> c, flight |-> flight, out |-> 0, sock |-> k]
<1>1. /\ sock.dataRetrCount > 0 /\ UNCHANGED <<got, win, rcv, acks>>
      /\ EndsIn(SendPendingData(s, {SegmentSize}))
  BY DEF ReTxTimeout, TimedOut
<1>2. /\ k \in Socks /\ k.rWnd = sock.rWnd /\ k.recover = sock.highTx
      /\ k.highTx = sock.highTx
  <2>1. /\ sock \in Socks /\ sock.dataRetrCount - 1 \in 0..DataRetries
        /\ "LOSS" \in CongStates /\ sock.highTx \in 0..(Total + 1)
    BY <1>1, FlowParts, SenderAssumption DEF CongStates, Socks
  <2>2. QED BY <2>1 DEF Socks
<1> HIDE DEF k
<1>3. Fits(b) /\ Level(tx, b)
  <2>1. CASE sock.sackEnabled
    BY <2>1, FlowParts DEF Level
  <2>2. CASE ~sock.sackEnabled
    BY <2>2, FlowParts, ForgetSacksFits
  <2>3. QED BY <2>1, <2>2
<1>4. reset \in BOOLEAN
  OBVIOUS
<1> HIDE DEF b, reset
<1>5. Fits(c) /\ Level(b, c)
  BY <1>3, <1>4, ListLostFits
<1> HIDE DEF c
<1>6. c \in Buffers /\ c.una = tx.una /\ c.end = tx.end /\ c.tail = tx.tail
  BY <1>3, <1>5, BufferOf DEF Level
<1>7. s \in Handlers /\ s.tx = c /\ s.sock = k /\ s.flight = flight
  BY <1>2, <1>6, FlowParts DEF Handlers
<1> HIDE DEF s
<1>8. Sane(s, MaxRxSequence)
  <2>1. \A p \in flight : Reaches(p, MaxRxSequence)
    BY FlowParts DEF Sane
  <2>2. sock.highTx <= sock.highTx
    BY FlowParts
  <2>3. QED BY <1>2, <1>5, <1>6, <1>7, <2>1, <2>2, FlowParts DEF Sane
<1>9. ASSUME NEW t \in SendPendingData(s, {SegmentSize})
      PROVE  /\ Sane(t, MaxRxSequence)
             /\ t.tx.una = tx.una /\ t.sock.rWnd = sock.rWnd
  <2>1. Sane(t, MaxRxSequence) /\ Ahead(s, t)
    <3>1. MaxRxSequence \in Nat /\ {SegmentSize} \in SUBSET Int
      BY FlowParts, TxAssumption
    <3>2. QED BY <1>8, <3>1, SendPendingSane
  <2>2. QED BY <1>2, <1>6, <1>7, <2>1 DEF Ahead
<1>10. QED BY <1>1, <1>9, SenderStep

\* LastTimeout: nothing moves.
LEMMA FlowLastTimeoutStep ==
  ASSUME FlowKept, LastTimeout, UNCHANGED <<win, rcv, acks>>
  PROVE  FlowKept'
<1> DEFINE gone == tx.tail > tx.una
<1>1. /\ sock' = [sock EXCEPT !.retx = FALSE, !.dropped = gone]
      /\ tx' = tx /\ flight' = flight /\ got' = got
  BY DEF LastTimeout
<1>2. gone \in BOOLEAN
  OBVIOUS
<1> HIDE DEF gone
<1>3. /\ sock' \in Socks /\ sock'.rWnd = sock.rWnd /\ sock'.recover = sock.recover
      /\ sock'.highTx = sock.highTx
  BY <1>1, <1>2, FlowParts DEF Socks
<1>4. /\ Sender' \in Handlers /\ Sender'.tx = tx /\ Sender'.sock = sock'
      /\ Sender'.flight = flight
  BY <1>1, <1>3, FlowParts DEF Sender, Handlers
<1> DEFINE E == MaxRxSequence
<1>5. Sane(Sender', E)
  BY <1>3, <1>4, FlowParts, OtherFieldsSane
<1>6. MaxRxSequence' = E /\ win' = win /\ rcv' = rcv /\ acks' = acks
  BY DEF MaxRxSequence
<1> HIDE DEF E
<1>7. /\ Holds(got, E) /\ \A a \in acks : Answer(a, E)
      /\ tx.una <= win.highRxAck /\ win.highRxAck + sock.rWnd <= E
      /\ win \in [highRxAck : Nat, persist : BOOLEAN]
      /\ rcv \in [read : Nat, delAckCount : Nat, delAck : BOOLEAN]
  BY DEF FlowKept, E
<1>8. QED BY <1>1, <1>3, <1>5, <1>6, <1>7 DEF FlowKept

\* PersistTimeout: the probe may lie beyond the edge, the buffer does not.
LEMMA PersistStep ==
  ASSUME FlowKept, PersistTimeout
  PROVE  FlowKept'
<1> DEFINE E == MaxRxSequence
           seq == sock.nextTx
           none == SizeFromSequence(tx, seq) = 0 \/ seq > tx.end
           probed == ResetLastSegmentSent(CopyFromSequence(tx, 1, seq))
<1>1. MaxRxSequence' = E /\ win' = win /\ rcv' = rcv /\ acks' = acks /\ got' = got
  BY DEF PersistTimeout, MaxRxSequence
<1>2. /\ Sane(Sender', E) /\ tx'.una = tx.una /\ sock'.rWnd = sock.rWnd
  <2>1. CASE none
    <3>1. sock' = [sock EXCEPT !.nullItem = TRUE] /\ tx' = tx /\ flight' = flight
      BY <2>1 DEF PersistTimeout
    <3>2. /\ sock' \in Socks /\ sock'.rWnd = sock.rWnd /\ sock'.recover = sock.recover
          /\ sock'.highTx = sock.highTx
      BY <3>1, FlowParts DEF Socks
    <3>3. /\ Sender' \in Handlers /\ Sender'.tx = tx /\ Sender'.sock = sock'
          /\ Sender'.flight = flight
      BY <3>1, <3>2, FlowParts DEF Sender, Handlers
    <3>4. Sane(Sender', E)
      BY <3>2, <3>3, FlowParts, OtherFieldsSane
    <3>5. QED BY <3>1, <3>2, <3>4
  <2>2. CASE ~none
    <3> DEFINE q == <<seq, seq + 1>>
    <3>1. tx' = probed /\ flight' = flight \cup {q} /\ sock' = sock
      BY <2>2 DEF PersistTimeout
    <3>2. seq \in Nat /\ 1 <= seq /\ seq <= tx.end /\ seq < tx.tail
      <4>1. seq \in Nat /\ 1 <= seq
        BY FlowParts DEF Socks
      <4>2. QED BY <2>2, <4>1, FlowParts DEF SizeFromSequence, Larger
    <3> HIDE DEF seq
    <3>3. Fits(probed) /\ probed.una = tx.una /\ probed.tail = tx.tail /\ probed.end <= tx.end
      BY <3>2, FlowParts, ProbedFits
    <3> HIDE DEF probed, none
    <3>4. q \in Nat \X Nat /\ Reaches(q, E)
      <4>1. tx.tail <= Total + 1
        BY FlowParts, FitsParts
      <4>2. q \in Nat \X Nat /\ q[1] = seq /\ q[2] = seq + 1
        BY <3>2
      <4> HIDE DEF q
      <4>3. QED BY <3>2, <4>1, <4>2, FlowParts, SenderAssumption DEF Reaches
    <3> HIDE DEF q
    <3>5. flight' \in SUBSET (Nat \X Nat) /\ \A p \in flight' : Reaches(p, E)
      <4>1. \A p \in flight : Reaches(p, E)
        BY FlowParts DEF Sane
      <4>2. QED BY <3>1, <3>4, <4>1, FlowParts
    <3>6. /\ Sender' \in Handlers /\ Sender'.tx = probed /\ Sender'.sock = sock
          /\ Sender'.flight = flight'
      <4>1. probed \in Buffers
        BY <3>3, BufferOf
      <4>2. QED BY <3>1, <3>5, <4>1, FlowParts DEF Sender, Handlers
    <3>7. probed.end <= E
      <4>1. probed.end \in Nat
        BY <3>3, FitsParts
      <4>2. QED BY <3>3, <4>1, FlowParts
    <3>8. Sane(Sender', E)
      <4> DEFINE s == Sender'
      <4>1. /\ s \in Handlers /\ s.tx = probed /\ s.sock = sock /\ s.flight = flight'
        BY <3>6
      <4> HIDE DEF s
      <4>2. Sane(s, E)
        BY <3>3, <3>5, <3>7, <4>1, FlowParts DEF Sane
      <4>3. QED BY <4>2 DEF s
    <3>9. QED BY <3>1, <3>3, <3>8
  <2>3. QED BY <2>1, <2>2
<1> HIDE DEF E
<1>3. /\ Holds(got, E) /\ \A a \in acks : Answer(a, E)
      /\ tx.una <= win.highRxAck /\ win.highRxAck + sock.rWnd <= E
      /\ win \in [highRxAck : Nat, persist : BOOLEAN]
      /\ rcv \in [read : Nat, delAckCount : Nat, delAck : BOOLEAN]
  BY DEF FlowKept, E
<1>4. QED BY <1>1, <1>2, <1>3 DEF FlowKept

\* A step that leaves the sender alone, or takes segments from the network
LEMMA ReceiverStep ==
  ASSUME FlowKept, UNCHANGED <<tx, sock, win>>, flight' \subseteq flight,
         rcv' \in [read : Nat, delAckCount : Nat, delAck : BOOLEAN],
         rcv.read <= rcv'.read, Holds(got', MaxRxSequence'),
         \A a \in acks' : Answer(a, MaxRxSequence')
  PROVE  FlowKept'
<1> DEFINE E == MaxRxSequence
           F == MaxRxSequence'
           s == Sender'
<1>1. E \in Nat /\ F \in Nat /\ E <= F
  BY FlowAssumption DEF MaxRxSequence, FlowKept
<1>2. /\ s \in Handlers /\ s.tx = tx /\ s.sock = sock /\ s.flight \subseteq flight
  BY FlowParts DEF Sender, Handlers
<1> HIDE DEF s, E, F
<1>3. Sane(s, E)
  <2>1. Sane(Sender, E) /\ Sender.tx = tx /\ Sender.sock = sock /\ Sender.flight = flight
    BY FlowParts DEF E
  <2>2. QED BY <1>2, <2>1 DEF Sane
<1>4. Sane(s, F)
  BY <1>1, <1>3, EdgeMoves
<1>5. win.highRxAck \in Nat /\ sock.rWnd \in Nat /\ win.highRxAck + sock.rWnd <= E
  BY FlowParts DEF FlowKept, E
<1>6. win.highRxAck + sock.rWnd <= F
  BY <1>1, <1>5
<1>7. /\ tx.una <= win.highRxAck /\ win \in [highRxAck : Nat, persist : BOOLEAN]
      /\ tx' = tx /\ sock' = sock /\ win' = win
  BY DEF FlowKept
<1>8. QED BY <1>4, <1>6, <1>7 DEF FlowKept, s, F

\* SendAckNow and DelayAck: the receiver's bytes are answered now or later.
LEMMA AnswerStep ==
  ASSUME FlowKept, NEW bytes, Holds(bytes, MaxRxSequence), NEW arrived,
         SendAckNow(bytes, arrived) \/ DelayAck
  PROVE  /\ rcv' \in [read : Nat, delAckCount : Nat, delAck : BOOLEAN]
         /\ rcv'.read = rcv.read /\ MaxRxSequence' = MaxRxSequence
         /\ \A a \in acks' : Answer(a, MaxRxSequence)
<1>1. rcv \in [read : Nat, delAckCount : Nat, delAck : BOOLEAN]
      /\ \A a \in acks : Answer(a, MaxRxSequence)
  BY DEF FlowKept
<1>2. /\ rcv' \in [read : Nat, delAckCount : Nat, delAck : BOOLEAN]
      /\ rcv'.read = rcv.read
  <2>1. CASE SendAckNow(bytes, arrived)
    BY <1>1, <2>1 DEF SendAckNow
  <2>2. CASE DelayAck
    <3> DEFINE n == rcv.delAckCount + 1  waits == TRUE
    <3>1. rcv' = [rcv EXCEPT !.delAckCount = n, !.delAck = waits]
      BY <2>2, Zenon DEF DelayAck
    <3>2. n \in Nat /\ waits \in BOOLEAN
      BY <1>1
    <3> HIDE DEF n, waits
    <3>3. QED BY <1>1, <3>1, <3>2
  <2>3. QED BY <2>1, <2>2
<1>3. MaxRxSequence' = MaxRxSequence
  BY <1>2 DEF MaxRxSequence
<1>4. \A a \in acks' : Answer(a, MaxRxSequence)
  <2>1. CASE SendAckNow(bytes, arrived)
    <3>1. SendAck(bytes, arrived) /\ MaxRxSequence \in Nat /\ 1 <= MaxRxSequence
      BY <2>1, FlowParts DEF SendAckNow
    <3> DEFINE E == MaxRxSequence
    <3>2. SendAck(bytes, arrived) /\ E \in Nat /\ 1 <= E /\ MaxRxSequence = E
          /\ Holds(bytes, E) /\ \A a \in acks : Answer(a, E)
      BY <1>1, <3>1
    <3> HIDE DEF E
    <3>3. \A a \in acks' : Answer(a, E)
      BY <3>2, SendAckAnswers
    <3>4. QED BY <3>3 DEF E
  <2>2. CASE DelayAck
    <3>1. acks' = acks
      BY <2>2 DEF DelayAck
    <3>2. QED BY <1>1, <3>1, Zenon
  <2>3. QED BY <2>1, <2>2
<1>5. QED BY <1>2, <1>3, <1>4

\* A segment arrives: what the receiver takes of it lies in its window.
LEMMA ArriveDataStep ==
  ASSUME FlowKept, NEW g \in flight, ArriveData(g)
  PROVE  FlowKept'
<1> DEFINE E == MaxRxSequence
           outOfRange == g[2] < NextRxSeq(got) \/ E <= g[1]
<1>1. /\ got' = IF outOfRange THEN got ELSE got \cup g[1]..(g[2] - 1)
      /\ SendAckNow(got', g[1]) \/ DelayAck
      /\ UNCHANGED <<tx, sock, flight, win>>
  BY DEF ArriveData
<1>2. Holds(got', E)
  <2>1. Holds(got, E)
    BY DEF FlowKept
  <2>2. ASSUME ~outOfRange PROVE Holds(got \cup g[1]..(g[2] - 1), E)
    <3> DEFINE lo == g[1]  up == g[2]
    <3>1. lo \in Nat /\ up \in Nat /\ E \in Nat /\ Total \in Nat
      BY FlowParts, SenderAssumption
    <3>2. 1 <= lo /\ lo < up /\ up <= Total + 1 /\ (up <= E \/ up = lo + 1)
      BY FlowParts DEF Sane, Reaches
    <3>3. lo < E
      BY <2>2, <3>1
    <3> HIDE DEF lo, up, E
    <3>4. lo..(up - 1) \subseteq 1..Total /\ lo..(up - 1) \subseteq 1..(E - 1)
      BY <3>1, <3>2, <3>3
    <3>5. QED BY <2>1, <3>4 DEF Holds, lo, up
  <2> HIDE DEF E, outOfRange
  <2>3. QED BY <1>1, <2>1, <2>2
<1>3. /\ rcv' \in [read : Nat, delAckCount : Nat, delAck : BOOLEAN]
      /\ rcv'.read = rcv.read /\ MaxRxSequence' = MaxRxSequence
      /\ \A a \in acks' : Answer(a, MaxRxSequence)
  BY <1>1, <1>2, AnswerStep
<1>4. rcv.read <= rcv'.read
  BY <1>3 DEF FlowKept
<1>5. QED BY <1>1, <1>2, <1>3, <1>4, ReceiverStep

\* DelAckTimeout
LEMMA DelAckStep ==
  ASSUME FlowKept, DelAckTimeout
  PROVE  FlowKept'
<1>1. SendAckNow(got, 0) /\ UNCHANGED <<tx, sock, flight, got, win>>
  BY DEF DelAckTimeout
<1>2. Holds(got, MaxRxSequence)
  BY DEF FlowKept
<1>3. /\ rcv' \in [read : Nat, delAckCount : Nat, delAck : BOOLEAN]
      /\ rcv'.read = rcv.read /\ MaxRxSequence' = MaxRxSequence
      /\ \A a \in acks' : Answer(a, MaxRxSequence)
  BY <1>1, <1>2, AnswerStep
<1>4. rcv.read <= rcv'.read
  BY <1>3 DEF FlowKept
<1>5. QED BY <1>1, <1>2, <1>3, <1>4, ReceiverStep

\* The application reads: the window moves on.
LEMMA RecvStep ==
  ASSUME FlowKept, NEW n \in Reads, Recv(n)
  PROVE  FlowKept'
<1> DEFINE next == NextRxSeq(got)
           read == Smaller(rcv.read + n, next - 1)
<1>1. /\ rcv.read + 1 < next /\ UNCHANGED <<tx, sock, flight, got, win, acks>>
      /\ rcv \in [read : Nat, delAckCount : Nat, delAck : BOOLEAN]
      /\ Holds(got, MaxRxSequence) /\ \A a \in acks : Answer(a, MaxRxSequence)
  BY DEF Recv, FlowKept
<1>2. rcv' = [rcv EXCEPT !.read = read]
  BY <1>1 DEF Recv
<1>3. next \in Nat
  BY <1>1, FlowParts, NextIs
<1> HIDE DEF next
<1>4. read \in Nat /\ rcv.read <= read
  BY <1>1, <1>3, FlowAssumption DEF Smaller
<1> HIDE DEF read
<1>5. /\ rcv' \in [read : Nat, delAckCount : Nat, delAck : BOOLEAN]
      /\ rcv.read <= rcv'.read
  BY <1>1, <1>2, <1>4
<1> DEFINE E == MaxRxSequence
           F == MaxRxSequence'
<1>6. E \in Nat /\ F \in Nat /\ E <= F
  BY <1>1, <1>5, FlowAssumption DEF MaxRxSequence
<1>7. Holds(got, E) /\ \A a \in acks : Answer(a, E)
  BY <1>1
<1> HIDE DEF E, F
<1>8. Holds(got, F) /\ \A a \in acks : Answer(a, F)
  BY <1>6, <1>7, EdgeMoves
<1>9. QED BY <1>1, <1>5, <1>8, ReceiverStep DEF F

\* An ACK is heard: what it tells of the window is taken only if it is no older
\* than what was heard before.
LEMMA HearStep ==
  ASSUME FlowKept, NEW a \in acks, HearAck(a)
  PROVE  FlowKept'
<1> DEFINE E == MaxRxSequence
           rWnd == UpdateWindowSize(a)
           enter == rWnd = 0 /\ ~win.persist
           leave == rWnd # 0 /\ win.persist
           timer == sock.retx /\ ~enter
           k == [sock EXCEPT !.rWnd = rWnd, !.retx = timer]
           s == [Sender EXCEPT !.sock = k]
           ignored == a.ack < tx.una \/ a.ack > sock.highTx
           handled == IF ignored THEN {s} ELSE ReceivedAck(s, a.ack, a.blocks)
           S == IF leave THEN UNION {SendPendingData(h, CongWindows) : h \in handled}
                ELSE handled
           high == Larger(win.highRxAck, a.ack)
<1>1. /\ EndsIn(S) /\ win' = [highRxAck |-> high, persist |-> rWnd = 0]
      /\ acks' \subseteq acks /\ got' = got /\ rcv' = rcv
  <2>1. [Sender EXCEPT !.sock.rWnd = rWnd, !.sock.retx = @ /\ ~enter] = s
    BY FlowParts DEF Handlers, Socks
  <2> HIDE DEF rWnd, s
  <2>2. EndsIn(S) /\ win' = [highRxAck |-> high, persist |-> rWnd = 0]
    BY <2>1, Zenon DEF HearAck, Hear, rWnd
  <2>3. QED BY <2>2 DEF HearAck
<1>2. /\ a.ack \in Nat /\ 1 <= a.ack /\ a.wnd \in Nat /\ a.ack + a.wnd <= E
      /\ IsFiniteSet(DOMAIN a.blocks)
      /\ \A i \in DOMAIN a.blocks : a.blocks[i][1] \in Nat /\ a.ack < a.blocks[i][1]
      /\ E \in Nat
  BY FlowParts DEF FlowKept, Answer
<1>3. /\ win.highRxAck \in Nat /\ sock.rWnd \in Nat /\ tx.una \in Nat /\ sock.highTx \in Nat
      /\ tx.una <= win.highRxAck /\ win.highRxAck + sock.rWnd <= E
  BY FlowParts DEF FlowKept
<1>4. /\ rWnd \in Nat /\ high \in Nat /\ high + rWnd <= E /\ tx.una <= high /\ a.ack <= high
  <2> DEFINE x == a.ack  w == a.wnd
  <2>1. rWnd = IF x > win.highRxAck \/ (x = win.highRxAck /\ w > sock.rWnd)
               THEN w ELSE sock.rWnd
    BY DEF UpdateWindowSize
  <2>2. x \in Nat /\ w \in Nat /\ x + w <= E /\ high = Larger(win.highRxAck, x)
    BY <1>2
  <2> HIDE DEF x, w, rWnd, high, E
  <2>3. /\ rWnd \in Nat /\ high \in Nat /\ high + rWnd <= E /\ tx.una <= high /\ x <= high
    BY <1>2, <1>3, <2>1, <2>2 DEF Larger
  <2>4. QED BY <2>3 DEF x
<1>5. timer \in BOOLEAN
  BY FlowParts DEF Socks
<1> HIDE DEF rWnd, timer, high
<1>6. /\ k \in Socks /\ k.rWnd = rWnd /\ k.recover = sock.recover /\ k.highTx = sock.highTx
  BY <1>4, <1>5, FlowParts DEF Socks
<1> HIDE DEF k
<1>7. s \in Handlers /\ s.tx = tx /\ s.sock = k /\ s.flight = flight
  BY <1>6, FlowParts DEF Sender, Handlers
<1> HIDE DEF s
<1>8. Sane(s, E)
  <2>1. \A p \in flight : Reaches(p, E)
    BY FlowParts DEF Sane
  <2> HIDE DEF E
  <2>2. tx.una + rWnd <= E
    BY <1>2, <1>3, <1>4
  <2>3. tx.end <= E
    BY FlowParts DEF E
  <2>4. QED BY <1>6, <1>7, <2>1, <2>2, <2>3, FlowParts DEF Sane
<1> HIDE DEF E
<1>9. ASSUME NEW h \in handled
      PROVE  Sane(h, E) /\ h.tx.una <= high /\ h.sock.rWnd = rWnd
  <2>1. CASE ignored
    BY <1>4, <1>6, <1>7, <1>8, <2>1
  <2>2. CASE ~ignored
    <3>1. h \in ReceivedAck(s, a.ack, a.blocks)
      BY <2>2
    <3> DEFINE x == a.ack
    <3>2. /\ x \in Nat /\ s.tx.una <= x /\ x <= s.sock.highTx /\ x + s.sock.rWnd <= E
          /\ x <= high
      <4>1. x \in Nat /\ x <= high /\ ~(x < tx.una) /\ ~(x > sock.highTx)
        BY <1>2, <1>4, <2>2
      <4> HIDE DEF x
      <4>2. QED BY <1>2, <1>3, <1>4, <1>6, <1>7, <4>1
    <3>3. Sane(h, E) /\ h.tx.una = x /\ h.sock.rWnd = s.sock.rWnd
      BY <1>2, <1>8, <3>1, <3>2, ReceivedAckSane
    <3>4. QED BY <1>6, <1>7, <3>2, <3>3
  <2>3. QED BY <2>1, <2>2
<1> HIDE DEF handled, ignored
<1>10. ASSUME NEW t \in S
       PROVE  Sane(t, E) /\ t.tx.una <= high /\ t.sock.rWnd = rWnd
  <2>1. CASE leave
    <3>1. PICK h \in handled : t \in SendPendingData(h, CongWindows)
      BY <2>1
    <3>2. Sane(t, E) /\ Ahead(h, t)
      <4>1. CongWindows \in SUBSET Int
        BY SenderAssumption
      <4>2. QED BY <1>2, <1>9, <3>1, <4>1, SendPendingSane
    <3>3. QED BY <1>9, <3>2 DEF Ahead
  <2>2. CASE ~leave
    BY <1>9, <2>2
  <2>3. QED BY <2>1, <2>2
<1> HIDE DEF S
<1>11. Sane(Sender', E) /\ \E t \in S : tx' = t.tx /\ sock' = t.sock
  BY <1>1, <1>2, <1>10, EndsSane
<1>12. tx'.una <= high /\ sock'.rWnd = rWnd
  BY <1>10, <1>11
<1>13. /\ MaxRxSequence' = E /\ win' \in [highRxAck : Nat, persist : BOOLEAN]
       /\ win'.highRxAck = high
  BY <1>1, <1>4 DEF MaxRxSequence, E
<1>14. /\ Holds(got, E) /\ \A b \in acks : Answer(b, E)
       /\ rcv \in [read : Nat, delAckCount : Nat, delAck : BOOLEAN]
  BY DEF FlowKept, E
<1>15. QED BY <1>1, <1>4, <1>11, <1>12, <1>13, <1>14 DEF FlowKept

\* Initially the sender believes what the handshake has told it.
LEMMA FlowInitKept == FlowInit => FlowKept
<1> SUFFICES ASSUME FlowInit PROVE FlowKept
  OBVIOUS
<1> DEFINE E == MaxRxSequence
<1>1. /\ Init /\ win = [highRxAck |-> 1, persist |-> FALSE] /\ acks = {}
      /\ rcv = [read |-> 0, delAckCount |-> DelAckMaxCount, delAck |-> FALSE]
  BY DEF FlowInit
<1>2. SenderKept
  BY <1>1, InitKept
<1>3. E \in Nat /\ E = 1 + MaxBuffer /\ 2 <= E
  BY <1>1, FlowAssumption DEF MaxRxSequence
<1>4. /\ tx.una = 1 /\ tx.end = 1 /\ tx.tail = 1 /\ tx.starts = {} /\ tx.sacked = {}
      /\ tx.lost = {} /\ tx.retrans = {} /\ flight = {} /\ got = {}
  BY <1>1 DEF Init, EmptyBuffer
<1>5. sock.rWnd = ReceiverWindow /\ sock.recover = 0 /\ sock.highTx = 1
  <2>1. PICK mode \in SackModes : sock = InitialSocket(mode)
    BY <1>1 DEF Init
  <2>2. QED BY <2>1 DEF InitialSocket
<1>6. Fits(tx)
  <2>1. tx \in Buffers /\ Total \in Nat
    BY <1>2, SenderParts
  <2>2. QED BY <1>4, <2>1 DEF Fits, Within
<1> HIDE DEF E
<1>7. 1 + sock.rWnd <= E
  BY <1>3, <1>5, FlowAssumption, SenderAssumption
<1>8. Sane(Sender, E)
  <2> DEFINE s == Sender
  <2>1. s \in Handlers /\ s.tx = tx /\ s.sock = sock /\ s.flight = flight
    BY <1>2, SenderParts
  <2> HIDE DEF s
  <2>2. \A p \in s.flight : Reaches(p, E)
    BY <1>4, <2>1
  <2>3. Sane(s, E)
    BY <1>3, <1>4, <1>5, <1>6, <1>7, <2>1, <2>2 DEF Sane
  <2>4. QED BY <2>3 DEF s
<1>9. Holds(got, E)
  BY <1>4 DEF Holds
<1>10. rcv \in [read : Nat, delAckCount : Nat, delAck : BOOLEAN]
  BY <1>1, FlowAssumption
<1>11. QED BY <1>1, <1>4, <1>7, <1>8, <1>9, <1>10 DEF FlowKept, E

\* Every step keeps the invariant.
LEMMA FlowNextKept ==
  ASSUME FlowKept, [FlowNext]_flowVars
  PROVE  FlowKept'
<1>1. CASE Write
  BY <1>1, FlowWriteStep
<1>2. CASE RetxTimer
  <2>1. UNCHANGED <<win, rcv, acks>> /\ (ReTxTimeout \/ LastTimeout)
    BY <1>2 DEF RetxTimer
  <2>2. QED BY <2>1, FlowTimeoutStep, FlowLastTimeoutStep
<1>3. CASE PersistTimeout
  BY <1>3, PersistStep
<1>4. CASE Lose
  <2>1. /\ UNCHANGED <<tx, sock, got, win, rcv, acks>> /\ flight' \subseteq flight
    BY <1>4 DEF Lose
  <2>2. /\ rcv \in [read : Nat, delAckCount : Nat, delAck : BOOLEAN]
        /\ Holds(got, MaxRxSequence) /\ \A a \in acks : Answer(a, MaxRxSequence)
    BY DEF FlowKept
  <2>3. MaxRxSequence' = MaxRxSequence /\ rcv.read <= rcv'.read
    BY <2>1, <2>2 DEF MaxRxSequence
  <2>4. QED BY <2>1, <2>2, <2>3, ReceiverStep
<1>5. CASE DelAckTimeout
  BY <1>5, DelAckStep
<1>6. CASE \E g \in flight : ArriveData(g)
  BY <1>6, ArriveDataStep
<1>7. CASE \E a \in acks : HearAck(a)
  BY <1>7, HearStep
<1>8. CASE \E n \in Reads : Recv(n)
  BY <1>8, RecvStep
<1>9. CASE UNCHANGED flowVars
  BY <1>9 DEF flowVars, FlowKept, Sender, MaxRxSequence
<1>10. QED
  BY <1>1, <1>2, <1>3, <1>4, <1>5, <1>6, <1>7, <1>8, <1>9 DEF FlowNext

\* The end of the sent list is never beyond the right edge of the receiver's
\* window, whichever ACKs are lost, repeated, late or out of order, and although a
\* closed window is probed with a byte that lies beyond it (UpdateWindowSize,
\* AdvertisedWindowSize, NextSeg, PersistTimeout).
THEOREM WindowIsKept == FlowSpec => []WindowKept
<1>1. FlowInit => FlowKept
  BY FlowInitKept
<1>2. FlowKept /\ [FlowNext]_flowVars => FlowKept'
  BY FlowNextKept
<1>3. FlowKept => WindowKept
  BY FlowParts DEF WindowKept
<1>4. QED BY <1>1, <1>2, <1>3, PTL DEF FlowSpec
=============================================================================
