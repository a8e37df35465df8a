------------------------ MODULE TcpTxBuffer_proofs ------------------------
(***************************************************************************)
(* What the operations of the transmit buffer keep, whatever the sizes:    *)
(* the items of the sent list lie end to end, a flag is carried by whole   *)
(* items, and the three counters count the bytes that carry each flag.     *)
(***************************************************************************)
EXTENDS TcpTxBuffer, FiniteSetTheorems, TLAPS

(***************************************************************************)
(* Least and greatest elements                                             *)
(***************************************************************************)
\* A non-empty set of naturals has a least element, which LeastOf returns.
LEMMA LeastOfNaturals ==
  ASSUME NEW S \in SUBSET Nat, S # {}
  PROVE  LeastOf(S) \in S /\ \A x \in S : LeastOf(S) <= x
<1> DEFINE R == {ss \in Nat \X Nat : ss[1] < ss[2]}
<1>1. IsWellFoundedOn(R, Nat)
  BY NatLessThanWellFounded, Zenon DEF OpToRel
<1>2. \E m \in S : \A y \in S : ~(<<y, m>> \in R)
  <2> HIDE DEF R
  <2>1. QED
    BY <1>1, WFMin
<1>3. PICK m \in S : \A y \in S : ~(<<y, m>> \in R)
  BY <1>2
<1>4. \A y \in S : m <= y
  <2> SUFFICES ASSUME NEW y \in S PROVE m <= y
    OBVIOUS
  <2>1. ~(y < m)
    BY <1>3
  <2>2. QED BY <2>1
<1>5. QED
  BY <1>4 DEF LeastOf

\* One below a bound has a greatest element, which GreatestOf returns.
LEMMA GreatestOfNaturals ==
  ASSUME NEW S \in SUBSET Nat, S # {}, NEW n \in Nat, \A x \in S : x <= n
  PROVE  GreatestOf(S) \in S /\ \A x \in S : x <= GreatestOf(S)
<1> DEFINE T == {n - x : x \in S}
<1>1. T \in SUBSET Nat /\ T # {}
  <2>1. \A x \in S : n - x \in Nat
    OBVIOUS
  <2>2. PICK x \in S : TRUE
    OBVIOUS
  <2>3. n - x \in T
    OBVIOUS
  <2>4. QED BY <2>1, <2>3
<1>2. LeastOf(T) \in T /\ \A y \in T : LeastOf(T) <= y
  <2> HIDE DEF T
  <2>1. QED BY <1>1, LeastOfNaturals
<1>3. PICK m \in S : LeastOf(T) = n - m
  BY <1>2
<1>4. \A x \in S : x <= m
  <2> SUFFICES ASSUME NEW x \in S PROVE x <= m
    OBVIOUS
  <2>1. n - m <= n - x
    BY <1>2, <1>3
  <2>2. QED BY <2>1
<1>5. QED
  BY <1>4 DEF GreatestOf

(***************************************************************************)
(* Counting                                                                *)
(***************************************************************************)
\* An interval of sequence numbers is finite and has as many as it is long.
LEMMA CountInterval ==
  ASSUME NEW a \in Nat, NEW c \in Nat, a <= c
  PROVE  IsFiniteSet(a..(c - 1)) /\ Cardinality(a..(c - 1)) = c - a
<1>1. a \in Int /\ c - 1 \in Int
  OBVIOUS
<1>2. /\ IsFiniteSet(a..(c - 1))
      /\ Cardinality(a..(c - 1)) = IF a > c - 1 THEN 0 ELSE (c - 1) - a + 1
  BY <1>1, FS_Interval, Zenon
<1>3. (IF a > c - 1 THEN 0 ELSE (c - 1) - a + 1) = c - a
  OBVIOUS
<1>4. QED BY <1>2, <1>3

\* Sets without a common element count together.
LEMMA CountBoth ==
  ASSUME NEW S, NEW T, IsFiniteSet(S), IsFiniteSet(T), S \cap T = {}
  PROVE  /\ IsFiniteSet(S \cup T)
         /\ Cardinality(S \cup T) = Cardinality(S) + Cardinality(T)
<1>1. /\ IsFiniteSet(S \cup T)
      /\ Cardinality(S \cup T) = Cardinality(S) + Cardinality(T) - Cardinality(S \cap T)
  BY FS_Union, Zenon
<1>2. Cardinality(S \cap T) = 0
  BY FS_EmptySet, Zenon
<1>3. Cardinality(S) \in Nat /\ Cardinality(T) \in Nat
  BY FS_CardinalityType, Zenon
<1> DEFINE s == Cardinality(S)  t == Cardinality(T)  u == Cardinality(S \cup T)
<1>4. s \in Nat /\ t \in Nat /\ u = s + t - 0
  BY <1>1, <1>2, <1>3, Zenon
<1> HIDE DEF s, t, u
<1>5. u = s + t
  BY <1>4
<1>6. QED BY <1>1, <1>5, Zenon DEF s, t, u

\* Taking elements out takes their number off.
LEMMA CountWithout ==
  ASSUME NEW S, NEW T, IsFiniteSet(S)
  PROVE  /\ IsFiniteSet(S \ T) /\ IsFiniteSet(T \cap S)
         /\ Cardinality(S \ T) = Cardinality(S) - Cardinality(T \cap S)
<1>1. Cardinality(S \ T) = Cardinality(S) - Cardinality(S \cap T) /\ IsFiniteSet(S \ T)
  BY FS_Difference, Zenon
<1>2. S \cap T = T \cap S
  OBVIOUS
<1>3. IsFiniteSet(S \cap T)
  BY FS_Intersection, Zenon
<1>4. QED BY <1>1, <1>2, <1>3, Zenon

(***************************************************************************)
(* The shape of a buffer: its items lie end to end, none longer than a     *)
(* segment, a flag changes only where an item begins, and the counters     *)
(* count the bytes that carry each flag.                                   *)
(***************************************************************************)
Buffers == [una : Nat, end : Nat, tail : Nat, starts : SUBSET Nat,
            sacked : SUBSET Nat, lost : SUBSET Nat, retrans : SUBSET Nat,
            sackedOut : Int, lostOut : Int, retransOut : Int, high : Nat]

Laid(b) == /\ b \in Buffers
           /\ 1 <= b.una /\ b.una <= b.end /\ b.end <= b.tail /\ b.high < b.end
           /\ b.starts \subseteq SentBytes(b)
           /\ b.una < b.end => b.una \in b.starts

Short(b) == \A x \in SentBytes(b) : \E i \in b.starts : i <= x /\ x - i < SegmentSize

Whole(b, F) == /\ F \subseteq SentBytes(b)
               /\ \A x \in SentBytes(b) \ b.starts : x \in F <=> x - 1 \in F

Counts(b) == /\ b.sackedOut = Cardinality(b.sacked)
             /\ b.lostOut = Cardinality(b.lost)
             /\ b.retransOut = Cardinality(b.retrans)

Sound(b) == /\ Laid(b) /\ Short(b) /\ Counts(b)
            /\ Whole(b, b.sacked) /\ Whole(b, b.lost) /\ Whole(b, b.retrans)

\* Two buffers cut alike
Alike(b, c) == b.una = c.una /\ b.end = c.end /\ b.starts = c.starts

\* The item after i begins where i ends.
LEMMA EndOfItem ==
  ASSUME NEW b, Laid(b), NEW i \in b.starts
  PROVE  /\ EndOf(b, i) \in b.starts \cup {b.end}
         /\ i \in Nat /\ EndOf(b, i) \in Nat
         /\ b.una <= i /\ i < EndOf(b, i) /\ EndOf(b, i) <= b.end
         /\ \A j \in b.starts : j <= i \/ EndOf(b, i) <= j
         /\ ItemBytes(b, i) \subseteq SentBytes(b) /\ i \in ItemBytes(b, i)
<1> DEFINE S == {j \in b.starts \cup {b.end} : j > i}
<1>1. /\ b.una \in Nat /\ b.end \in Nat /\ b.starts \subseteq b.una..(b.end - 1)
  BY DEF Laid, Buffers, SentBytes
<1>2. S \in SUBSET Nat /\ b.end \in S
  BY <1>1
<1>3. LeastOf(S) \in S /\ \A x \in S : LeastOf(S) <= x
  <2> HIDE DEF S
  <2>1. QED BY <1>2, LeastOfNaturals
<1>4. EndOf(b, i) = LeastOf(S)
  BY DEF EndOf
<1> HIDE DEF S
<1>5. EndOf(b, i) \in S /\ \A x \in S : EndOf(b, i) <= x
  BY <1>3, <1>4
<1>6. /\ EndOf(b, i) \in b.starts \cup {b.end} /\ EndOf(b, i) \in Nat
      /\ i < EndOf(b, i) /\ EndOf(b, i) <= b.end /\ i \in Nat /\ b.una <= i
      /\ \A j \in b.starts : j <= i \/ EndOf(b, i) <= j
  BY <1>1, <1>2, <1>5 DEF S
<1>7. ItemBytes(b, i) \subseteq SentBytes(b) /\ i \in ItemBytes(b, i)
  BY <1>1, <1>6 DEF ItemBytes, SentBytes
<1>8. QED BY <1>6, <1>7

\* No item is longer than a segment.
LEMMA ItemIsShort ==
  ASSUME NEW b, Laid(b), Short(b), NEW i \in b.starts
  PROVE  EndOf(b, i) - i <= SegmentSize
<1> DEFINE e == EndOf(b, i)
<1>1. /\ e \in Nat /\ i \in Nat /\ i < e /\ e - 1 \in SentBytes(b)
      /\ \A j \in b.starts : j <= i \/ e <= j
  <2>1. /\ e \in Nat /\ i \in Nat /\ b.una <= i /\ i < e /\ e <= b.end
        /\ \A j \in b.starts : j <= i \/ e <= j
    BY EndOfItem
  <2>2. b.una \in Nat /\ b.end \in Nat
    BY DEF Laid, Buffers
  <2> HIDE DEF e
  <2>3. QED BY <2>1, <2>2 DEF SentBytes
<1>2. PICK j \in b.starts : j <= e - 1 /\ (e - 1) - j < SegmentSize
  BY <1>1 DEF Short
<1>3. j \in Nat
  BY DEF Laid, Buffers
<1> HIDE DEF e
<1>4. e - i <= SegmentSize
  BY <1>1, <1>2, <1>3, TxAssumption
<1>5. QED BY <1>4 DEF e

\* The bytes of an item carry a flag together.
LEMMA ItemIsWhole ==
  ASSUME NEW b, Laid(b), NEW F, Whole(b, F), NEW i \in b.starts
  PROVE  \/ i \in F /\ ItemBytes(b, i) \subseteq F
         \/ i \notin F /\ ItemBytes(b, i) \cap F = {}
<1> DEFINE Odd == {x \in ItemBytes(b, i) : ~(x \in F <=> i \in F)}
<1>1. /\ i \in Nat /\ EndOf(b, i) \in Nat /\ i < EndOf(b, i)
      /\ \A j \in b.starts : j <= i \/ EndOf(b, i) <= j
      /\ ItemBytes(b, i) \subseteq SentBytes(b)
  BY EndOfItem
<1>2. Odd = {}
  <2> SUFFICES ASSUME Odd # {} PROVE FALSE
    OBVIOUS
  <2>1. Odd \in SUBSET Nat
    BY <1>1 DEF ItemBytes
  <2>2. PICK m \in Odd : \A x \in Odd : m <= x
    <3> HIDE DEF Odd
    <3>1. QED BY <2>1, LeastOfNaturals
  <2>3. m \in ItemBytes(b, i) /\ ~(m \in F <=> i \in F)
    OBVIOUS
  <2>4. m \in i..(EndOf(b, i) - 1) /\ m # i
    BY <2>3 DEF ItemBytes
  <2>5. m - 1 \in ItemBytes(b, i) /\ m \notin b.starts /\ m \in Nat /\ ~(m <= m - 1)
    BY <1>1, <2>4 DEF ItemBytes
  <2>6. m \in F <=> m - 1 \in F
    BY <1>1, <2>3, <2>5 DEF Whole
  <2>7. m - 1 \in Odd
    BY <2>3, <2>5, <2>6, Zenon
  <2>8. QED BY <2>2, <2>5, <2>7
<1>3. QED BY <1>2

\* The bytes of some items change their flag only where items begin.
LEMMA ItemsAreWhole ==
  ASSUME NEW b, Laid(b), NEW items \in SUBSET b.starts
  PROVE  Whole(b, BytesOf(b, items))
<1>1. \A i \in items : ItemBytes(b, i) \subseteq SentBytes(b)
  BY EndOfItem
<1>2. ASSUME NEW x \in SentBytes(b) \ b.starts, NEW i \in items
      PROVE  x \in ItemBytes(b, i) <=> x - 1 \in ItemBytes(b, i)
  <2>1. /\ i \in Nat /\ EndOf(b, i) \in Nat /\ i < EndOf(b, i)
        /\ EndOf(b, i) \in b.starts \cup {b.end}
    BY EndOfItem
  <2>2. b.una \in Nat /\ b.end \in Nat
    BY DEF Laid, Buffers
  <2>3. x \in Nat /\ x # i /\ x # EndOf(b, i)
    BY <2>1, <2>2 DEF SentBytes
  <2>4. QED BY <2>1, <2>3 DEF ItemBytes
<1>3. BytesOf(b, items) \subseteq SentBytes(b)
  BY <1>1 DEF BytesOf
<1>4. ASSUME NEW x \in SentBytes(b) \ b.starts
      PROVE  x \in BytesOf(b, items) <=> x - 1 \in BytesOf(b, items)
  BY <1>2 DEF BytesOf
<1>5. QED
  BY <1>3, <1>4 DEF Whole

\* And so do the bytes of one item.
LEMMA OneItemIsWhole ==
  ASSUME NEW b, Laid(b), NEW i \in b.starts
  PROVE  Whole(b, ItemBytes(b, i))
<1> DEFINE only == {i}
<1>1. only \in SUBSET b.starts
  OBVIOUS
<1>2. BytesOf(b, only) = ItemBytes(b, i)
  BY Zenon DEF BytesOf
<1> HIDE DEF only
<1>3. Whole(b, BytesOf(b, only))
  BY <1>1, ItemsAreWhole, Zenon
<1>4. QED BY <1>2, <1>3, Zenon

\* Unions and differences of such sets are such sets.
LEMMA WholeTogether ==
  ASSUME NEW b, NEW F, NEW G, Whole(b, F), Whole(b, G)
  PROVE  Whole(b, F \cup G) /\ Whole(b, F \ G) /\ Whole(b, {})
BY DEF Whole

\* So is the sent list, and what is not cut cannot differ.
LEMMA WholeList ==
  ASSUME NEW b, Laid(b)
  PROVE  Whole(b, SentBytes(b))
<1>1. /\ b.una \in Nat /\ b.end \in Nat
      /\ b.una < b.end => b.una \in b.starts
  BY DEF Laid, Buffers
<1>2. ASSUME NEW x \in SentBytes(b) \ b.starts
      PROVE  x - 1 \in SentBytes(b)
  BY <1>1 DEF SentBytes
<1>3. QED BY <1>2 DEF Whole

\* Buffers cut alike have the same items.
LEMMA AlikeItems ==
  ASSUME NEW b, NEW c, Alike(b, c)
  PROVE  /\ SentBytes(b) = SentBytes(c)
         /\ \A i : EndOf(b, i) = EndOf(c, i) /\ ItemBytes(b, i) = ItemBytes(c, i)
         /\ \A F : Whole(b, F) => Whole(c, F)
         /\ \A I : BytesOf(b, I) = BytesOf(c, I)
         /\ Short(b) => Short(c)
<1>1. SentBytes(b) = SentBytes(c)
  BY DEF Alike, SentBytes
<1>2. \A i : EndOf(b, i) = EndOf(c, i)
  BY DEF Alike, EndOf
<1>3. \A i : ItemBytes(b, i) = ItemBytes(c, i)
  BY <1>2 DEF ItemBytes
<1>4. \A F : Whole(b, F) => Whole(c, F)
  BY <1>1 DEF Alike, Whole
<1>5. \A I : BytesOf(b, I) = BytesOf(c, I)
  BY <1>3 DEF BytesOf
<1>6. Short(b) => Short(c)
  BY <1>1 DEF Alike, Short
<1>7. QED BY <1>1, <1>2, <1>3, <1>4, <1>5, <1>6, Zenon

\* The bytes sent are finite in number, and so are those that carry a flag.
LEMMA FinitelySent ==
  ASSUME NEW b, Laid(b), NEW F \in SUBSET SentBytes(b)
  PROVE  /\ IsFiniteSet(F) /\ Cardinality(F) \in Nat
         /\ Cardinality(F) <= SentSize(b)
<1>1. /\ b.una \in Nat /\ b.end \in Nat /\ b.una <= b.end
  BY DEF Laid, Buffers
<1>2. IsFiniteSet(SentBytes(b)) /\ Cardinality(SentBytes(b)) = SentSize(b)
  BY <1>1, CountInterval, Zenon DEF SentBytes, SentSize
<1>3. IsFiniteSet(F) /\ Cardinality(F) <= Cardinality(SentBytes(b))
  BY <1>2, FS_Subset, Zenon
<1>4. Cardinality(F) \in Nat
  BY <1>3, FS_CardinalityType, Zenon
<1>5. QED BY <1>2, <1>3, <1>4, Zenon

(***************************************************************************)
(* The operations                                                          *)
(***************************************************************************)
\* New data lengthens the application list.
LEMMA AddIsSound ==
  ASSUME NEW b, Sound(b), NEW n \in Nat
  PROVE  LET c == Add(b, n)
         IN /\ Sound(c) /\ Alike(b, c) /\ c.tail = b.tail + n
            /\ c.sacked = b.sacked /\ c.lost = b.lost /\ c.retrans = b.retrans
<1> DEFINE c == Add(b, n)
<1>1. /\ b \in Buffers /\ c \in Buffers /\ Alike(b, c) /\ c.tail = b.tail + n
      /\ c.sacked = b.sacked /\ c.lost = b.lost /\ c.retrans = b.retrans
      /\ c.sackedOut = b.sackedOut /\ c.lostOut = b.lostOut
      /\ c.retransOut = b.retransOut /\ c.high = b.high
  BY DEF Sound, Laid, Buffers, Add, Alike
<1> HIDE DEF c
<1>2. Laid(c)
  BY <1>1 DEF Sound, Laid, Alike, SentBytes, Buffers
<1>3. Sound(c)
  BY <1>1, <1>2, AlikeItems DEF Sound, Counts
<1>4. QED BY <1>1, <1>3 DEF c

\* GetNewSegment moves n bytes, one item, to the sent list.
LEMMA NewSegmentIsSound ==
  ASSUME NEW b, Sound(b), NEW n \in Nat \ {0}, n <= SegmentSize, b.end + n <= b.tail
  PROVE  LET c == GetNewSegment(b, n)
         IN /\ Sound(c) /\ c.una = b.una /\ c.end = b.end + n /\ c.tail = b.tail
            /\ c.starts = b.starts \cup {b.end}
            /\ c.sacked = b.sacked /\ c.lost = b.lost /\ c.retrans = b.retrans
            /\ EndOf(c, b.end) = c.end
<1> DEFINE c == GetNewSegment(b, n)
<1>1. /\ b \in Buffers /\ b.una \in Nat /\ b.end \in Nat /\ b.starts \in SUBSET Nat
      /\ b.una <= b.end /\ b.starts \subseteq SentBytes(b)
      /\ b.una < b.end => b.una \in b.starts
  BY DEF Sound, Laid, Buffers
<1>2. /\ c \in Buffers /\ c.una = b.una /\ c.end = b.end + n /\ c.tail = b.tail
      /\ c.starts = b.starts \cup {b.end}
      /\ c.sacked = b.sacked /\ c.lost = b.lost /\ c.retrans = b.retrans
      /\ c.sackedOut = b.sackedOut /\ c.lostOut = b.lostOut
      /\ c.retransOut = b.retransOut /\ c.high = b.high
  <2>1. b.end + n \in Nat /\ b.starts \cup {b.end} \in SUBSET Nat
    BY <1>1
  <2>2. c.una = b.una /\ c.tail = b.tail
    BY <1>1 DEF GetNewSegment, Buffers
  <2>3. c.end = b.end + n 
    BY <1>1 DEF GetNewSegment, Buffers
  <2>4. c.starts = b.starts \cup {b.end}
    BY <1>1 DEF GetNewSegment, Buffers
  <2>5. c.sacked = b.sacked /\ c.lost = b.lost /\ c.retrans = b.retrans
    BY <1>1 DEF GetNewSegment, Buffers
  <2>6. c \in Buffers
    BY <1>1, <2>1 DEF GetNewSegment, Buffers
  <2>7. c.high = b.high /\ c.sackedOut = b.sackedOut /\ c.lostOut = b.lostOut /\ c.retransOut = b.retransOut
    BY <1>1 DEF GetNewSegment, Buffers
  <2>8. QED BY <2>2, <2>3, <2>4, <2>5, <2>6, <2>7
<1> HIDE DEF c
<1>3. SentBytes(b) \subseteq SentBytes(c) /\ c.starts \subseteq SentBytes(c)
  BY <1>1, <1>2 DEF SentBytes
<1>4. Laid(c)
  <2>1. 1 <= c.una /\ c.una <= c.end /\ c.end <= c.tail /\ c.high < c.end
    BY <1>1, <1>2 DEF Sound, Laid, Buffers
  <2>2. c.una < c.end => c.una \in c.starts
    BY <1>1, <1>2
  <2>3. QED BY <1>2, <1>3, <2>1, <2>2 DEF Laid
<1>5. Short(c)
  <2> SUFFICES ASSUME NEW x \in SentBytes(c)
               PROVE  \E i \in c.starts : i <= x /\ x - i < SegmentSize
    BY DEF Short
  <2>1. CASE x \in SentBytes(b)
    BY <1>2, <2>1 DEF Sound, Short
  <2>2. CASE x \notin SentBytes(b)
    <3>1. b.end <= x /\ x - b.end < SegmentSize
      BY <1>1, <1>2, <2>2, TxAssumption DEF SentBytes
    <3>2. QED BY <1>2, <3>1
  <2>3. QED BY <2>1, <2>2
<1>6. ASSUME NEW F, Whole(b, F) PROVE Whole(c, F)
  <2>1. ASSUME NEW x \in SentBytes(c) \ c.starts PROVE x \in F <=> x - 1 \in F
    <3>1. CASE x \in SentBytes(b)
      BY <1>2, <1>6, <3>1 DEF Whole
    <3>2. CASE x \notin SentBytes(b)
      <4>1. x - 1 \notin SentBytes(b)
        BY <1>1, <1>2, <3>2 DEF SentBytes
      <4>2. QED BY <1>6, <3>2, <4>1 DEF Whole
    <3>3. QED BY <3>1, <3>2
  <2>2. QED BY <1>3, <1>6, <2>1 DEF Whole
<1>7. Sound(c)
  BY <1>2, <1>4, <1>5, <1>6 DEF Sound, Counts
<1>8. EndOf(c, b.end) = c.end
  <2>1. /\ EndOf(c, b.end) \in c.starts \cup {c.end}
        /\ b.end < EndOf(c, b.end) /\ EndOf(c, b.end) \in Nat
    BY <1>2, <1>4, EndOfItem
  <2>2. \A j \in c.starts : j <= b.end
    BY <1>1, <1>2 DEF SentBytes
  <2>3. QED BY <1>1, <2>1, <2>2
<1>9. QED BY <1>2, <1>7, <1>8 DEF c

\* What one retransmission takes: no more than the item, or the item and, when it
\* is as lost and not SACKed either, no more than the one after it.
LEMMA MergeableIs ==
  ASSUME NEW b, Laid(b), NEW seq \in b.starts, NEW n \in Nat \ {0}
  PROVE  LET next == EndOf(b, seq)
             m == Mergeable(b, seq, n)
         IN /\ m \in Nat /\ 1 <= m /\ m <= n
            /\ \/ m <= next - seq
               \/ /\ next \in b.starts /\ next \notin b.sacked
                  /\ (seq \in b.lost) = (next \in b.lost)
                  /\ next - seq < m /\ m <= EndOf(b, next) - seq
            /\ \/ m = next - seq \/ n < next - seq
               \/ next \in b.starts /\ (seq \in b.lost) = (next \in b.lost)
            /\ next - seq <= n => next - seq <= m
<1> DEFINE next == EndOf(b, seq)
           m == Mergeable(b, seq, n)
           likewise == /\ next < b.end /\ next \notin b.sacked
                       /\ (seq \in b.lost) = (next \in b.lost)
           far == EndOf(b, next)
<1>1. /\ seq \in Nat /\ next \in Nat /\ seq < next /\ next <= b.end
      /\ next \in b.starts \cup {b.end} /\ b.end \in Nat
  BY EndOfItem DEF Laid, Buffers
<1>2. m = Smaller(n, (IF likewise THEN far ELSE next) - seq)
  BY Zenon DEF Mergeable
<1>3. CASE likewise
  <2>1. next \in b.starts
    BY <1>1, <1>3
  <2>2. far \in Nat /\ next < far
    BY <2>1, EndOfItem
  <2> DEFINE s == seq  e == next  f == far  k == m
  <2>3. k = Smaller(n, f - s) /\ s \in Nat /\ e \in Nat /\ f \in Nat /\ s < e /\ e < f
    BY <1>1, <1>2, <1>3, <2>2, Zenon
  <2> HIDE DEF s, e, f, k
  <2>4. /\ k \in Nat /\ 1 <= k /\ k <= n /\ k <= f - s
        /\ k <= e - s \/ e - s < k
        /\ e - s <= n => e - s <= k
    BY <2>3 DEF Smaller
  <2>5. QED
    BY <1>3, <2>1, <2>4, Zenon DEF s, e, f, k
<1>4. CASE ~likewise
  <2> DEFINE s == seq  e == next  k == m
  <2>1. k = Smaller(n, e - s) /\ s \in Nat /\ e \in Nat /\ s < e
    BY <1>1, <1>2, <1>4, Zenon
  <2> HIDE DEF s, e, k
  <2>2. /\ k \in Nat /\ 1 <= k /\ k <= n /\ k <= e - s /\ (k = e - s \/ n < e - s)
        /\ e - s <= n => e - s <= k
    BY <2>1 DEF Smaller
  <2>3. QED
    BY <2>2, Zenon DEF s, e, k
<1>5. QED BY <1>3, <1>4, Zenon

\* c is b cut anew, from a byte on: no item that is SACKed is gone, none begins
\* below that byte, and if all that is lost was sent again it still counts as such.
Recut(b, c, from) == /\ b.starts \cap b.sacked \subseteq c.starts
                     /\ \A j \in c.starts \ b.starts : from <= j
                     /\ b.lost \subseteq b.retrans => c.lost \subseteq c.retrans

\* GetPacketFromList cuts the list at seq + m: it splits an item or merges two
\* whose flags agree, once the retransmitted flag of both is cancelled.
LEMMA CutIsSound ==
  ASSUME NEW b, Sound(b), NEW seq \in b.starts, seq \notin b.sacked,
         NEW n \in Nat \ {0}, n <= SegmentSize
  PROVE  LET m == Mergeable(b, seq, n)
             c == CutOut(b, seq, m)
         IN /\ Sound(c) /\ c.una = b.una /\ c.end = b.end /\ c.tail = b.tail
            /\ c.sacked = b.sacked /\ c.lost = b.lost /\ c.retrans \subseteq b.retrans
            /\ seq \in c.starts
            /\ m = EndOf(b, seq) - seq => c.starts = b.starts
            /\ Recut(b, c, seq + m)
<1> DEFINE m == Mergeable(b, seq, n)
           c == CutOut(b, seq, m)
           next == EndOf(b, seq)
           touched == {i \in b.starts : i < seq + m /\ EndOf(b, i) > seq}
           merged == seq..(EndOf(b, GreatestOf(touched)) - 1)
           cancelled == IF Cardinality(touched) > 1 /\ ~(merged \subseteq b.retrans)
                        THEN merged \cap b.retrans ELSE {}
           starts == (b.starts \ ((seq + 1)..(seq + m - 1)))
                       \cup ({seq, seq + m} \cap SentBytes(b))
           two == /\ next \in b.starts /\ next \notin b.sacked
                  /\ (seq \in b.lost) = (next \in b.lost)
                  /\ next - seq < m /\ m <= EndOf(b, next) - seq
<1>1. /\ Laid(b) /\ Short(b) /\ b \in Buffers /\ b.una \in Nat /\ b.end \in Nat
      /\ b.starts \in SUBSET Nat /\ b.starts \subseteq SentBytes(b)
      /\ b.una < b.end => b.una \in b.starts
  BY DEF Sound, Laid, Buffers
<1>2. /\ seq \in Nat /\ next \in Nat /\ b.una <= seq /\ seq < next /\ next <= b.end
      /\ next \in b.starts \cup {b.end} /\ seq \in SentBytes(b)
      /\ \A j \in b.starts : j <= seq \/ next <= j
  BY <1>1, EndOfItem
<1>3. /\ m \in Nat /\ 1 <= m /\ m <= n /\ (m <= next - seq \/ two)
  BY <1>1, MergeableIs
<1>4. ASSUME two
      PROVE  /\ EndOf(b, next) \in Nat /\ next < EndOf(b, next) /\ EndOf(b, next) <= b.end
             /\ EndOf(b, next) \in b.starts \cup {b.end}
             /\ \A j \in b.starts : j <= next \/ EndOf(b, next) <= j
  BY <1>1, <1>4, EndOfItem
<1>5. \A i \in b.starts : /\ i \in Nat /\ EndOf(b, i) \in Nat /\ i < EndOf(b, i)
                          /\ seq <= i \/ EndOf(b, i) <= seq
  BY <1>1, EndOfItem
<1>6. /\ c = [b EXCEPT !.starts = starts, !.retrans = b.retrans \ cancelled,
                       !.retransOut = b.retransOut - Cardinality(cancelled)]
      /\ cancelled \subseteq b.retrans /\ starts \subseteq SentBytes(b)
  <2>1. c = [b EXCEPT !.starts = starts, !.retrans = b.retrans \ cancelled,
                      !.retransOut = b.retransOut - Cardinality(cancelled)]
    BY Zenon DEF CutOut
  <2>2. QED BY <1>1, <2>1
<1> HIDE DEF m, c, next, touched
\* What the cut merges
<1>7. ASSUME ~two PROVE cancelled = {}
  <2>1. touched = {seq}
    <3>1. m <= next - seq
      BY <1>3, <1>7
    <3>2. \A i \in b.starts : i < seq + m /\ EndOf(b, i) > seq => i = seq
      BY <1>2, <1>3, <1>5, <3>1
    <3>3. seq < seq + m /\ EndOf(b, seq) > seq
      BY <1>2, <1>3 DEF next
    <3>4. QED BY <3>2, <3>3 DEF touched
  <2>2. Cardinality(touched) = 1
    BY <2>1, FS_Singleton, Zenon
  <2>3. ~(Cardinality(touched) > 1)
    BY <2>2
  <2>4. QED BY <2>3
<1>8. ASSUME two
      PROVE  \/ cancelled = {} /\ next \in b.retrans /\ next - 1 \in b.retrans
             \/ /\ cancelled = (seq..(EndOf(b, next) - 1)) \cap b.retrans
                /\ ~(seq..(EndOf(b, next) - 1) \subseteq b.retrans)
  <2>1. touched = {seq, next}
    <3>1. next \in touched /\ seq \in touched
      BY <1>2, <1>3, <1>4, <1>8 DEF touched, next
    <3>2. \A i \in b.starts : i < seq + m /\ EndOf(b, i) > seq => i = seq \/ i = next
      BY <1>2, <1>3, <1>4, <1>5, <1>8
    <3>3. touched \subseteq {seq, next}
      BY <3>2 DEF touched
    <3>4. QED BY <3>1, <3>3
  <2>2. Cardinality(touched) > 1
    <3>1. touched = {seq} \cup {next} /\ {seq} \cap {next} = {}
      BY <1>2, <2>1
    <3>2. Cardinality(touched) = 1 + 1
      <4>1. /\ IsFiniteSet({seq}) /\ Cardinality({seq}) = 1
            /\ IsFiniteSet({next}) /\ Cardinality({next}) = 1
        BY FS_Singleton, Zenon
      <4>2. Cardinality({seq} \cup {next}) = Cardinality({seq}) + Cardinality({next})
        BY <3>1, <4>1, CountBoth, Zenon
      <4>3. QED BY <3>1, <4>1, <4>2, Zenon
    <3>3. QED BY <3>2
  <2>3. GreatestOf(touched) = next
    <3>1. next \in touched /\ \A x \in touched : next >= x
      BY <1>2, <2>1
    <3>2. \A y \in touched : (\A x \in touched : y >= x) => y = next
      BY <1>2, <2>1
    <3>3. QED BY <3>1, <3>2, Zenon DEF GreatestOf
  <2>4. /\ next \in merged /\ next - 1 \in merged
        /\ merged = seq..(EndOf(b, next) - 1)
    BY <1>2, <1>4, <1>8, <2>3
  <2>5. QED
    BY <2>2, <2>4
<1> DEFINE R == b.retrans \ cancelled
<1> HIDE DEF merged
<1>9. /\ c \in Buffers
      /\ c.una = b.una /\ c.end = b.end /\ c.tail = b.tail /\ c.starts = starts
      /\ c.sacked = b.sacked /\ c.lost = b.lost /\ c.retrans = R
      /\ c.sackedOut = b.sackedOut /\ c.lostOut = b.lostOut
      /\ c.retransOut = b.retransOut - Cardinality(cancelled) /\ c.high = b.high
  <2> HIDE DEF cancelled, starts
  <2>1. cancelled \subseteq SentBytes(b) /\ R \in SUBSET Nat
    BY <1>1, <1>6 DEF Sound, Whole, Buffers
  <2>2. Cardinality(cancelled) \in Int /\ starts \in SUBSET Nat
    BY <1>1, <1>6, <2>1, FinitelySent DEF SentBytes
  <2>3. b.retransOut - Cardinality(cancelled) \in Int
    BY <1>1, <2>2 DEF Buffers
  <2> DEFINE k == b.retransOut - Cardinality(cancelled)
  <2>4. c = [b EXCEPT !.starts = starts, !.retrans = R, !.retransOut = k]
    BY <1>6
  <2> HIDE DEF R, k
  <2>5. c \in Buffers
    BY <1>1, <2>1, <2>2, <2>3, <2>4 DEF Buffers, k
  <2>6. /\ c.una = b.una /\ c.end = b.end /\ c.tail = b.tail /\ c.starts = starts
        /\ c.sacked = b.sacked /\ c.lost = b.lost /\ c.retrans = R
    BY <1>1, <2>4 DEF Buffers
  <2>7. /\ c.sackedOut = b.sackedOut /\ c.lostOut = b.lostOut
        /\ c.retransOut = k /\ c.high = b.high
    BY <1>1, <2>4 DEF Buffers
  <2>8. QED BY <2>5, <2>6, <2>7 DEF k
\* The only item that may be gone is the second of two.
<1>10. ASSUME NEW x \in SentBytes(b) \ starts
       PROVE  x \notin b.starts \/ (two /\ x = next)
  <2>1. CASE x \in b.starts
    <3>1. x \in Nat /\ seq + 1 <= x /\ x <= seq + m - 1
      BY <1>1, <1>2, <1>3, <2>1
    <3>2. next <= x
      BY <1>2, <2>1, <3>1
    <3>3. two
      BY <1>2, <1>3, <3>1, <3>2
    <3>4. x = next
      BY <1>2, <1>3, <1>4, <2>1, <3>1, <3>2, <3>3
    <3>5. QED BY <3>3, <3>4
  <2>2. QED BY <2>1
<1>11. /\ SentBytes(c) = SentBytes(b) /\ seq \in starts
       /\ m = next - seq => starts = b.starts
  <2>1. SentBytes(c) = SentBytes(b)
    BY <1>9 DEF SentBytes
  <2>2. seq \in starts
    BY <1>2
  <2>3. ASSUME m = next - seq PROVE starts = b.starts
    <3>1. \A x \in b.starts : ~(seq + 1 <= x /\ x <= seq + m - 1)
      BY <1>1, <1>2, <2>3
    <3>2. seq + m = next
      BY <1>2, <2>3
    <3>3. {seq, seq + m} \cap SentBytes(b) \subseteq b.starts
      BY <1>1, <1>2, <3>2 DEF SentBytes
    <3>4. QED BY <3>1, <3>3
  <2>4. QED BY <2>1, <2>2, <2>3
<1>12. ASSUME NEW F, Whole(b, F), two => ((seq \in F) = (next \in F))
       PROVE  Whole(c, F)
  <2>1. ASSUME NEW x \in SentBytes(b) \ starts PROVE x \in F <=> x - 1 \in F
    <3>1. CASE x \notin b.starts
      BY <1>12, <3>1 DEF Whole
    <3>2. CASE two /\ x = next
      <4>1. next - 1 \in ItemBytes(b, seq)
        BY <1>2 DEF ItemBytes, next
      <4>2. seq \in F <=> next - 1 \in F
        BY <1>1, <1>12, <4>1, ItemIsWhole
      <4>3. QED BY <1>12, <3>2, <4>2
    <3>3. QED BY <1>10, <3>1, <3>2
  <2>2. QED BY <1>9, <1>11, <1>12, <2>1 DEF Whole
<1>13. Whole(c, c.sacked) /\ Whole(c, c.lost)
  <2>1. two => ((seq \in b.sacked) = (next \in b.sacked))
    OBVIOUS
  <2>2. two => ((seq \in b.lost) = (next \in b.lost))
    OBVIOUS
  <2> HIDE DEF two
  <2>3. Whole(b, b.sacked) /\ Whole(b, b.lost)
    BY DEF Sound
  <2>4. QED BY <1>9, <1>12, <2>1, <2>2, <2>3
<1>14. Whole(c, c.retrans)
  <2>1. R \subseteq SentBytes(b) /\ Whole(b, b.retrans)
    BY DEF Sound, Whole
  <2>2. ASSUME NEW x \in SentBytes(b) \ starts PROVE x \in R <=> x - 1 \in R
    <3>1. CASE ~two
      BY <1>7, <1>10, <2>1, <3>1 DEF Whole
    <3>2. CASE two /\ cancelled = {} /\ next \in b.retrans /\ next - 1 \in b.retrans
      BY <1>10, <2>1, <3>2 DEF Whole
    <3>3. CASE two /\ cancelled = (seq..(EndOf(b, next) - 1)) \cap b.retrans
      <4> DEFINE far == EndOf(b, next)
      <4>1. far \in Nat /\ next < far /\ far \in b.starts \cup {b.end} /\ far <= b.end
        BY <1>4, <3>3
      <4>2. seq + m <= far
        BY <1>2, <1>3, <3>3, <4>1
      <4>3. far \in starts \cup {b.end}
        <5>1. ~(far <= seq + m - 1)
          BY <1>2, <1>3, <4>1, <4>2
        <5>2. far \notin ((seq + 1)..(seq + m - 1))
          BY <5>1
        <5>3. QED BY <4>1, <5>2
      <4>4. x \in Nat /\ x # far /\ x # seq /\ x # b.end
        BY <1>1, <1>11, <4>1, <4>3 DEF SentBytes
      <4> HIDE DEF far
      <4>5. x \in seq..(far - 1) <=> x - 1 \in seq..(far - 1)
        BY <1>2, <4>1, <4>4
      <4>6. x \in R <=> x \in b.retrans /\ x \notin seq..(far - 1)
        BY <3>3 DEF far
      <4>7. x - 1 \in R <=> x - 1 \in b.retrans /\ x - 1 \notin seq..(far - 1)
        BY <3>3 DEF far
      <4>8. CASE x \notin b.starts
        <5>1. x \in b.retrans <=> x - 1 \in b.retrans
          BY <2>1, <4>8 DEF Whole
        <5>2. QED BY <4>5, <4>6, <4>7, <5>1
      <4>9. CASE x = next
        BY <1>2, <4>1, <4>5, <4>6, <4>7, <4>9
      <4>10. QED BY <1>10, <4>8, <4>9
    <3>4. QED BY <1>8, <3>1, <3>2, <3>3
  <2>3. QED BY <1>9, <1>11, <2>1, <2>2 DEF Whole
<1>15. Short(c)
  <2> SUFFICES ASSUME NEW x \in SentBytes(b)
               PROVE  \E i \in starts : i <= x /\ x - i < SegmentSize
    BY <1>9, <1>11 DEF Short
  <2>1. x \in Nat /\ x < b.end /\ SegmentSize \in Nat /\ b.una <= x
    BY <1>1, TxAssumption DEF SentBytes
  <2>2. PICK i \in b.starts : i <= x /\ x - i < SegmentSize
    BY <1>1 DEF Short
  <2>3. i \in Nat
    BY <1>1
  <2>4. CASE i \in starts
    BY <2>2, <2>4
  <2>5. CASE i \notin starts /\ x < seq + m
    <3>1. i = next
      BY <1>1, <1>10, <2>5
    <3>2. seq <= x /\ x - seq < SegmentSize
      BY <1>2, <1>3, <2>1, <2>2, <2>5, <3>1
    <3>3. QED BY <1>11, <3>2
  <2>6. CASE i \notin starts /\ x >= seq + m
    <3>1. i <= seq + m - 1
      BY <1>1, <1>2, <1>3, <2>3, <2>6
    <3>2. seq + m \in starts
      BY <1>1, <1>2, <1>3, <2>1, <2>6 DEF SentBytes
    <3>3. seq + m <= x /\ x - (seq + m) < SegmentSize
      BY <1>2, <1>3, <2>1, <2>2, <2>3, <2>6, <3>1
    <3>4. QED BY <3>2, <3>3
  <2>7. QED BY <2>1, <1>2, <1>3, <2>4, <2>5, <2>6
<1>16. Laid(c)
  <2>1. c.una < c.end => c.una \in c.starts
    <3>1. b.una \notin ((seq + 1)..(seq + m - 1))
      BY <1>1, <1>2, <1>3
    <3>2. QED BY <1>1, <1>9, <3>1
  <2>2. starts \subseteq SentBytes(c)
    BY <1>6, <1>11
  <2>3. QED BY <1>9, <2>1, <2>2 DEF Sound, Laid
<1>17. Counts(c)
  <2> HIDE DEF cancelled, starts, two
  <2>1. IsFiniteSet(b.retrans)
    BY FinitelySent DEF Sound, Whole
  <2>2. Cardinality(R) = Cardinality(b.retrans) - Cardinality(cancelled \cap b.retrans)
    BY <2>1, CountWithout, Zenon
  <2>3. cancelled \cap b.retrans = cancelled
    BY <1>6
  <2> HIDE DEF R
  <2>4. QED BY <1>9, <2>2, <2>3, Zenon DEF Sound, Counts
\* An item that is SACKed is not merged, and only one that is cut off begins.
<1>18. b.starts \cap b.sacked \subseteq starts /\ starts \ b.starts \subseteq {seq + m}
  <2>1. ASSUME NEW x \in b.starts \cap b.sacked PROVE x \in starts
    BY <1>1, <1>10, <2>1
  <2>2. starts \ b.starts \subseteq {seq + m}
    OBVIOUS
  <2>3. QED BY <2>1, <2>2
\* Two items that are lost and both sent again stay so.
<1>19. ASSUME b.lost \subseteq b.retrans PROVE b.lost \subseteq R
  <2>1. CASE cancelled = {}
    BY <1>19, <2>1
  <2>2. CASE cancelled # {}
    <3> DEFINE far == EndOf(b, next)
               both == seq..(far - 1)
    <3>1. two /\ cancelled = both \cap b.retrans /\ ~(both \subseteq b.retrans)
      BY <1>7, <1>8, <2>2
    <3>2. far \in Nat /\ next < far
      BY <1>4, <3>1
    <3>3. \A x \in both : x \in ItemBytes(b, seq) \/ x \in ItemBytes(b, next)
      BY <1>2, <3>2 DEF ItemBytes, next
    <3>4. Whole(b, b.lost) /\ next \in b.starts /\ (seq \in b.lost) = (next \in b.lost)
      BY <3>1 DEF Sound
    <3> HIDE DEF both, far, two, cancelled
    <3>5. CASE seq \in b.lost
      <4>1. ItemBytes(b, seq) \subseteq b.lost /\ ItemBytes(b, next) \subseteq b.lost
        BY <1>1, <3>4, <3>5, ItemIsWhole
      <4>2. QED BY <1>19, <3>1, <3>3, <4>1
    <3>6. CASE seq \notin b.lost
      <4>1. ItemBytes(b, seq) \cap b.lost = {} /\ ItemBytes(b, next) \cap b.lost = {}
        BY <1>1, <3>4, <3>6, ItemIsWhole
      <4>2. both \cap b.lost = {}
        BY <3>3, <4>1
      <4>3. QED BY <1>19, <3>1, <4>2
    <3>7. QED BY <3>5, <3>6
  <2>3. QED BY <2>1, <2>2
<1>20. QED
  <2>1. Sound(c)
    BY <1>13, <1>14, <1>15, <1>16, <1>17 DEF Sound
  <2>2. c.retrans \subseteq b.retrans
    BY <1>9
  <2> HIDE DEF starts, R
  <2>3. Recut(b, c, seq + m)
    <3>1. seq + m <= seq + m
      BY <1>2, <1>3
    <3>2. QED BY <1>9, <1>18, <1>19, <3>1 DEF Recut
  <2>4. QED BY <1>9, <1>11, <2>1, <2>2, <2>3, Zenon DEF m, c, next

\* The item at seq is marked as sent again and counted, once.
LEMMA MarkIsSound ==
  ASSUME NEW b, Sound(b), NEW seq \in b.starts
  PROVE  LET c == MarkRetransmitted(b, seq)
         IN /\ Sound(c) /\ Alike(b, c) /\ c.tail = b.tail
            /\ c.sacked = b.sacked /\ c.lost = b.lost
            /\ c.retrans \subseteq b.retrans \cup ItemBytes(b, seq)
            /\ b.retrans \subseteq c.retrans
<1> DEFINE c == MarkRetransmitted(b, seq)
           item == ItemBytes(b, seq)
           long == EndOf(b, seq) - seq
<1>1. /\ Laid(b) /\ b \in Buffers /\ item \subseteq SentBytes(b)
      /\ seq \in Nat /\ EndOf(b, seq) \in Nat /\ seq < EndOf(b, seq)
  BY EndOfItem DEF Sound, Laid
<1>2. CASE seq \in b.retrans
  BY <1>2 DEF MarkRetransmitted, Alike
<1>3. CASE seq \notin b.retrans
  <2> DEFINE R == b.retrans \cup item
             k == b.retransOut + long
  <2>1. c = [b EXCEPT !.retrans = R, !.retransOut = k]
    BY <1>3 DEF MarkRetransmitted
  <2>2. R \in SUBSET Nat /\ k \in Int
    BY <1>1 DEF Buffers, SentBytes
  <2>3. Whole(b, R)
    <3>1. Whole(b, item)
      BY <1>1, OneItemIsWhole
    <3>2. QED BY <3>1, WholeTogether DEF Sound
  <2>4. Cardinality(R) = k
    <3>1. b.retrans \cap item = {}
      BY <1>1, <1>3, ItemIsWhole DEF Sound
    <3>2. IsFiniteSet(b.retrans)
      BY FinitelySent DEF Sound, Whole
    <3>3. IsFiniteSet(item) /\ Cardinality(item) = long
      BY <1>1, CountInterval DEF ItemBytes
    <3> HIDE DEF item, long
    <3>4. Cardinality(R) = Cardinality(b.retrans) + Cardinality(item)
      BY <3>1, <3>2, <3>3, CountBoth, Zenon
    <3>5. QED BY <3>3, <3>4, Zenon DEF Sound, Counts
  <2> HIDE DEF R, k, c
  <2>5. /\ c \in Buffers
        /\ c.una = b.una /\ c.end = b.end /\ c.tail = b.tail /\ c.starts = b.starts
        /\ c.sacked = b.sacked /\ c.lost = b.lost /\ c.retrans = R
    BY <1>1, <2>1, <2>2 DEF Buffers
  <2>6. /\ c.sackedOut = b.sackedOut /\ c.lostOut = b.lostOut /\ c.retransOut = k
        /\ c.high = b.high
    BY <1>1, <2>1 DEF Buffers
  <2>7. Alike(b, c)
    BY <2>5 DEF Alike
  <2>8. Laid(c)
    BY <2>5, <2>6 DEF Sound, Laid, SentBytes
  <2>9. Sound(c)
    BY <2>3, <2>4, <2>5, <2>6, <2>7, <2>8, AlikeItems DEF Sound, Counts
  <2>10. QED BY <2>5, <2>7, <2>9 DEF c, R
<1>4. QED BY <1>2, <1>3

\* A retransmission leaves the flags of loss and of SACK as they are and marks
\* only bytes that are not SACKed.
LEMMA RetransmitIsSound ==
  ASSUME NEW b, Sound(b), NEW seq \in b.starts, seq \notin b.sacked,
         NEW n \in Nat \ {0}, n <= SegmentSize
  PROVE  LET c == GetTransmittedSegment(b, n, seq)
         IN /\ Sound(c) /\ c.una = b.una /\ c.end = b.end /\ c.tail = b.tail
            /\ c.sacked = b.sacked /\ c.lost = b.lost /\ seq \in c.starts
            /\ (c.retrans \ b.retrans) \cap b.sacked = {}
            /\ \/ n < EndOf(b, seq) - seq \/ c.starts = b.starts
               \/ /\ EndOf(b, seq) \in b.starts
                  /\ (seq \in b.lost) = (EndOf(b, seq) \in b.lost)
            /\ EndOf(b, seq) - seq <= n => Recut(b, c, EndOf(b, seq))
<1> DEFINE m == Mergeable(b, seq, n)
           d == CutOut(b, seq, m)
           c == MarkRetransmitted(d, seq)
<1>1. GetTransmittedSegment(b, n, seq) = c
  BY Zenon DEF GetTransmittedSegment
<1>2. \/ m = EndOf(b, seq) - seq \/ n < EndOf(b, seq) - seq
      \/ EndOf(b, seq) \in b.starts /\ (seq \in b.lost) = (EndOf(b, seq) \in b.lost)
  BY MergeableIs, Zenon DEF Sound
<1>3. /\ Sound(d) /\ d.una = b.una /\ d.end = b.end /\ d.tail = b.tail
      /\ d.sacked = b.sacked /\ d.lost = b.lost /\ d.retrans \subseteq b.retrans
      /\ seq \in d.starts
      /\ m = EndOf(b, seq) - seq => d.starts = b.starts
      /\ Recut(b, d, seq + m)
  BY CutIsSound, Zenon
<1>0. /\ EndOf(b, seq) - seq <= n => EndOf(b, seq) - seq <= m
      /\ m \in Nat /\ EndOf(b, seq) \in Nat /\ seq \in Nat
  BY MergeableIs, EndOfItem DEF Sound
<1> HIDE DEF d, m
<1>4. /\ Sound(c) /\ Alike(d, c) /\ c.tail = d.tail
      /\ c.sacked = d.sacked /\ c.lost = d.lost
      /\ c.retrans \subseteq d.retrans \cup ItemBytes(d, seq)
      /\ d.retrans \subseteq c.retrans
  BY <1>3, MarkIsSound, Zenon
<1> HIDE DEF c
<1>5. ItemBytes(d, seq) \cap b.sacked = {}
  BY <1>3, ItemIsWhole DEF Sound
<1>6. c.una = b.una /\ c.end = b.end /\ c.starts = d.starts
  BY <1>3, <1>4, Zenon DEF Alike
<1>7. (c.retrans \ b.retrans) \cap b.sacked = {}
  BY <1>3, <1>4, <1>5
<1>8. \/ n < EndOf(b, seq) - seq \/ c.starts = b.starts
      \/ EndOf(b, seq) \in b.starts /\ (seq \in b.lost) = (EndOf(b, seq) \in b.lost)
  BY <1>2, <1>3, <1>6, Zenon
<1>9. ASSUME EndOf(b, seq) - seq <= n PROVE Recut(b, c, EndOf(b, seq))
  <2> DEFINE e == EndOf(b, seq)
  <2>1. e - seq <= m /\ e \in Nat /\ m \in Nat /\ seq \in Nat
    BY <1>0, <1>9
  <2>2. /\ b.starts \cap b.sacked \subseteq c.starts
        /\ b.lost \subseteq b.retrans => c.lost \subseteq c.retrans
    BY <1>3, <1>4, <1>6 DEF Recut
  <2>3. \A j \in c.starts \ b.starts : j \in Nat /\ seq + m <= j
    BY <1>3, <1>4, <1>6 DEF Recut, Sound, Laid, Buffers
  <2> HIDE DEF e
  <2>4. \A j \in c.starts \ b.starts : e <= j
    BY <2>1, <2>3
  <2>5. QED BY <2>2, <2>4 DEF Recut, e
<1>10. QED
  BY <1>1, <1>3, <1>4, <1>6, <1>7, <1>8, <1>9, Zenon

(***************************************************************************)
(* Marks                                                                   *)
(***************************************************************************)
Long(b, i) == EndOf(b, i) - i

\* Putting the bytes of an item in a set of marks, or taking them out
LEMMA ItemInOrOut ==
  ASSUME NEW b, Laid(b), NEW F, Whole(b, F), NEW i \in b.starts
  PROVE  /\ Whole(b, F \cup ItemBytes(b, i)) /\ Whole(b, F \ ItemBytes(b, i))
         /\ IsFiniteSet(ItemBytes(b, i)) /\ Cardinality(ItemBytes(b, i)) = Long(b, i)
         /\ IsFiniteSet(F) /\ Long(b, i) \in Nat /\ Cardinality(F) \in Int
<1>1. Whole(b, F \cup ItemBytes(b, i)) /\ Whole(b, F \ ItemBytes(b, i))
  BY OneItemIsWhole, WholeTogether
<1>2. /\ i \in Nat /\ EndOf(b, i) \in Nat /\ i < EndOf(b, i)
  BY EndOfItem
<1>3. /\ IsFiniteSet(ItemBytes(b, i)) /\ Cardinality(ItemBytes(b, i)) = Long(b, i)
      /\ Long(b, i) \in Nat
  BY <1>2, CountInterval DEF ItemBytes, Long
<1>4. IsFiniteSet(F) /\ Cardinality(F) \in Int
  BY FinitelySent DEF Whole
<1>5. QED BY <1>1, <1>3, <1>4

\* An item that carries the mark takes off its length.
LEMMA CountItemIn ==
  ASSUME NEW b, Laid(b), NEW F, Whole(b, F), NEW i \in b.starts, i \in F
  PROVE  Cardinality(F \ ItemBytes(b, i)) = Cardinality(F) - Long(b, i)
<1> DEFINE item == ItemBytes(b, i)
<1>1. item \cap F = item
  BY ItemIsWhole
<1>2. Cardinality(F \ item) = Cardinality(F) - Cardinality(item \cap F)
  BY ItemInOrOut, CountWithout, Zenon
<1>3. Cardinality(item) = Long(b, i)
  BY ItemInOrOut, Zenon
<1> HIDE DEF item
<1>4. QED BY <1>1, <1>2, <1>3, Zenon DEF item

\* One that does not adds its length and takes nothing off.
LEMMA CountItemOut ==
  ASSUME NEW b, Laid(b), NEW F, Whole(b, F), NEW i \in b.starts, i \notin F
  PROVE  /\ Cardinality(F \cup ItemBytes(b, i)) = Cardinality(F) + Long(b, i)
         /\ Cardinality(F \ ItemBytes(b, i)) = Cardinality(F)
<1> DEFINE item == ItemBytes(b, i)
<1>1. F \cap item = {} /\ F \ item = F
  BY ItemIsWhole
<1>2. Cardinality(F \cup item) = Cardinality(F) + Cardinality(item)
  BY <1>1, ItemInOrOut, CountBoth, Zenon
<1>3. Cardinality(item) = Long(b, i)
  BY ItemInOrOut, Zenon
<1> HIDE DEF item
<1>4. QED BY <1>1, <1>2, <1>3, Zenon DEF item

\* Other marks on the same items: the buffer stays sound if the marks are whole
\* and counted.
LEMMA MarksAreSound ==
  ASSUME NEW b, Sound(b), NEW c \in Buffers, Alike(b, c), c.tail = b.tail,
         c.high < b.end, Counts(c),
         Whole(b, c.sacked), Whole(b, c.lost), Whole(b, c.retrans)
  PROVE  Sound(c)
<1>1. Laid(c)
  BY DEF Sound, Laid, Alike, SentBytes
<1>2. Short(c) /\ Whole(c, c.sacked) /\ Whole(c, c.lost) /\ Whole(c, c.retrans)
  BY AlikeItems DEF Sound
<1>3. QED BY <1>1, <1>2 DEF Sound

\* What is marked is a set of sequence numbers.
LEMMA WholeIsNatural ==
  ASSUME NEW b, Laid(b), NEW F, Whole(b, F)
  PROVE  F \in SUBSET Nat
BY DEF Whole, Laid, Buffers, SentBytes

\* The head of a sent list that is not empty is an item.
LEMMA HeadIsItem ==
  ASSUME NEW b, Laid(b), b.starts # {}
  PROVE  b.una \in b.starts
<1>1. /\ b.una \in Nat /\ b.end \in Nat /\ b.starts \subseteq b.una..(b.end - 1)
      /\ b.una < b.end => b.una \in b.starts
  BY DEF Laid, Buffers, SentBytes
<1>2. QED BY <1>1

\* AddRenoSack marks at most one item, which is not the head.
LEMMA RenoSackIsSound ==
  ASSUME NEW b, Sound(b)
  PROVE  LET c == AddRenoSack(b)
         IN /\ Sound(c) /\ Alike(b, c) /\ c.tail = b.tail
            /\ c.lost = b.lost /\ c.retrans = b.retrans
            /\ \/ c.sacked = b.sacked
               \/ \E i \in b.starts \ {b.una} : c.sacked = b.sacked \cup ItemBytes(b, i)
<1> DEFINE c == AddRenoSack(b)
           free == {i \in b.starts \ {b.una} : i \notin b.sacked}
<1>1. Laid(b) /\ b \in Buffers /\ Whole(b, b.sacked)
  BY DEF Sound, Laid
<1>2. CASE free = {}
  <2>1. c = b
    BY <1>2 DEF AddRenoSack
  <2>2. QED BY <2>1 DEF Alike
<1>3. CASE free # {}
  <2> DEFINE i == LeastOf(free)
             F == b.sacked \cup ItemBytes(b, i)
             k == b.sackedOut + Long(b, i)
  <2>1. i \in free
    <3>1. free \in SUBSET Nat
      BY <1>1 DEF Buffers
    <3> HIDE DEF free
    <3>2. QED BY <1>3, <3>1, LeastOfNaturals
  <2>2. i \in b.starts /\ i # b.una /\ i \notin b.sacked
    BY <2>1
  <2>3. c = [b EXCEPT !.sacked = F, !.sackedOut = k, !.high = i]
    BY <1>3 DEF AddRenoSack, Long
  <2> HIDE DEF i, free
  <2>4. /\ Whole(b, F) /\ k \in Int /\ Cardinality(F) = k
    <3> DEFINE long == Long(b, i)
    <3>1. /\ Whole(b, F) /\ long \in Nat /\ Cardinality(b.sacked) \in Int
      BY <1>1, <2>2, ItemInOrOut, Zenon
    <3>5. Cardinality(F) = Cardinality(b.sacked) + long
      BY <1>1, <2>2, CountItemOut, Zenon
    <3>2. b.sackedOut = Cardinality(b.sacked)
      BY DEF Sound, Counts
    <3> HIDE DEF long, F
    <3>3. Cardinality(b.sacked) + long \in Int
      BY <3>1
    <3>4. QED BY <3>1, <3>2, <3>3, <3>5, Zenon DEF long
  <2>5. i \in Nat /\ i < b.end /\ F \in SUBSET Nat
    BY <1>1, <2>2, <2>4, WholeIsNatural DEF Laid, Buffers, SentBytes
  <2> HIDE DEF F, k, c
  <2>6. /\ c \in Buffers
        /\ c.una = b.una /\ c.end = b.end /\ c.tail = b.tail /\ c.starts = b.starts
        /\ c.sacked = F /\ c.lost = b.lost /\ c.retrans = b.retrans
    BY <1>1, <2>3, <2>4, <2>5 DEF Buffers
  <2>7. /\ c.sackedOut = k /\ c.lostOut = b.lostOut /\ c.retransOut = b.retransOut
        /\ c.high = i
    BY <1>1, <2>3 DEF Buffers
  <2>8. Alike(b, c)
    BY <2>6 DEF Alike
  <2>9. Counts(c)
    BY <2>4, <2>6, <2>7 DEF Sound, Counts
  <2>10. Sound(c)
    BY <2>4, <2>5, <2>6, <2>7, <2>8, <2>9, MarksAreSound DEF Sound
  <2>11. QED BY <2>2, <2>6, <2>8, <2>10 DEF F, c
<1>4. QED BY <1>2, <1>3

\* MarkHeadAsLost takes the other marks off the head.
LEMMA HeadLostIsSound ==
  ASSUME NEW b, Sound(b)
  PROVE  LET c == MarkHeadAsLost(b)
             head == ItemBytes(b, b.una)
         IN /\ Sound(c) /\ Alike(b, c) /\ c.tail = b.tail
            /\ c.retrans \subseteq b.retrans
            /\ b.starts = {} => c = b
            /\ b.starts # {} => /\ c.sacked = b.sacked \ head /\ b.una \in head
                                /\ c.lost = b.lost \cup head
<1> DEFINE c == MarkHeadAsLost(b)
           head == ItemBytes(b, b.una)
           size == Long(b, b.una)
           F == b.sacked \ head
           G == b.lost \cup head
           H == b.retrans \ head
           f == IF b.una \in b.sacked THEN b.sackedOut - size ELSE b.sackedOut
           g == IF b.una \in b.lost THEN b.lostOut ELSE b.lostOut + size
           h == IF b.una \in b.retrans THEN b.retransOut - size ELSE b.retransOut
<1>1. Laid(b) /\ b \in Buffers /\ Whole(b, b.sacked) /\ Whole(b, b.lost) /\ Whole(b, b.retrans)
  BY DEF Sound, Laid
<1>2. CASE b.starts = {}
  <2>1. c = b
    BY <1>2 DEF MarkHeadAsLost
  <2>2. QED BY <1>2, <2>1 DEF Alike
<1>3. CASE b.starts # {}
  <2>1. b.una \in b.starts
    BY <1>1, <1>3, HeadIsItem
  <2>2. /\ Whole(b, F) /\ Whole(b, G) /\ Whole(b, H) /\ size \in Nat
        /\ Cardinality(F) = f /\ Cardinality(G) = g /\ Cardinality(H) = h
    <3>1. Cardinality(F) = f
      <4>1. b.sackedOut = Cardinality(b.sacked)
        BY DEF Sound, Counts
      <4>2. ASSUME b.una \in b.sacked PROVE Cardinality(F) = Cardinality(b.sacked) - size
        BY <1>1, <2>1, <4>2, CountItemIn, Zenon
      <4>3. ASSUME b.una \notin b.sacked PROVE Cardinality(F) = Cardinality(b.sacked)
        BY <1>1, <2>1, <4>3, CountItemOut, Zenon
      <4> HIDE DEF size, F
      <4>4. QED BY <4>1, <4>2, <4>3
    <3>2. Cardinality(G) = g
      <4>1. b.lostOut = Cardinality(b.lost)
        BY DEF Sound, Counts
      <4>2. ASSUME b.una \in b.lost PROVE Cardinality(G) = Cardinality(b.lost)
        <5>1. G = b.lost
          BY <1>1, <2>1, <4>2, ItemIsWhole
        <5>2. QED BY <5>1, Zenon
      <4>3. ASSUME b.una \notin b.lost PROVE Cardinality(G) = Cardinality(b.lost) + size
        BY <1>1, <2>1, <4>3, CountItemOut, Zenon
      <4> HIDE DEF size, G
      <4>4. QED BY <4>1, <4>2, <4>3
    <3>3. Cardinality(H) = h
      <4>1. b.retransOut = Cardinality(b.retrans)
        BY DEF Sound, Counts
      <4>2. ASSUME b.una \in b.retrans PROVE Cardinality(H) = Cardinality(b.retrans) - size
        BY <1>1, <2>1, <4>2, CountItemIn, Zenon
      <4>3. ASSUME b.una \notin b.retrans PROVE Cardinality(H) = Cardinality(b.retrans)
        BY <1>1, <2>1, <4>3, CountItemOut, Zenon
      <4> HIDE DEF size, H
      <4>4. QED BY <4>1, <4>2, <4>3
    <3>4. size \in Nat
      BY <1>1, <2>1, ItemInOrOut, Zenon
    <3>5. Whole(b, F) /\ Whole(b, G) /\ Whole(b, H)
      BY <1>1, <2>1, ItemInOrOut, Zenon
    <3>6. QED BY <3>1, <3>2, <3>3, <3>4, <3>5, Zenon
  <2>3. /\ b.sackedOut \in Int /\ b.lostOut \in Int /\ b.retransOut \in Int
    BY <1>1 DEF Buffers
  <2>4. b.una \in head
    BY <1>1, <2>1, EndOfItem
  <2>5. c = [b EXCEPT !.sacked = F, !.sackedOut = f, !.retrans = H, !.retransOut = h,
                      !.lost = G, !.lostOut = g]
    BY <1>3, Zenon DEF MarkHeadAsLost, Long
  <2> HIDE DEF size, head, c
  <2>6. f \in Int /\ g \in Int /\ h \in Int
    BY <2>2, <2>3
  <2>7. F \in SUBSET Nat /\ G \in SUBSET Nat /\ H \in SUBSET Nat /\ H \subseteq b.retrans
    BY <1>1, <2>2, WholeIsNatural
  <2> HIDE DEF F, G, H, f, g, h
  <2>8. /\ c \in Buffers
        /\ c.una = b.una /\ c.end = b.end /\ c.tail = b.tail /\ c.starts = b.starts
        /\ c.sacked = F /\ c.lost = G /\ c.retrans = H
    BY <1>1, <2>5, <2>6, <2>7 DEF Buffers
  <2>9. /\ c.sackedOut = f /\ c.lostOut = g /\ c.retransOut = h /\ c.high = b.high
    BY <1>1, <2>5 DEF Buffers
  <2>10. Alike(b, c) /\ Counts(c) /\ c.high < b.end
    BY <2>2, <2>8, <2>9 DEF Alike, Counts, Sound, Laid
  <2>11. Sound(c)
    BY <2>2, <2>8, <2>10, MarksAreSound
  <2>12. QED BY <1>3, <2>4, <2>7, <2>8, <2>10, <2>11, Zenon DEF F, G, c, head
<1>4. QED BY <1>2, <1>3

\* What was guessed is forgotten.
LEMMA ForgetSacksIsSound ==
  ASSUME NEW b, Sound(b)
  PROVE  LET c == ResetRenoSack(b)
         IN /\ Sound(c) /\ Alike(b, c) /\ c.tail = b.tail
            /\ c.sacked = {} /\ c.lost = b.lost /\ c.retrans = b.retrans
<1> DEFINE c == ResetRenoSack(b)
<1>1. b \in Buffers /\ b.end \in Nat /\ 0 < b.end
  BY DEF Sound, Laid, Buffers
<1>2. c = [b EXCEPT !.sacked = {}, !.sackedOut = 0, !.high = 0]
  BY DEF ResetRenoSack
<1> HIDE DEF c
<1>3. /\ c \in Buffers
      /\ c.una = b.una /\ c.end = b.end /\ c.tail = b.tail /\ c.starts = b.starts
      /\ c.sacked = {} /\ c.lost = b.lost /\ c.retrans = b.retrans
  <2> DEFINE none == {}  zero == 0  top == 0
  <2>1. c \in Buffers
    <3>1. c = [b EXCEPT !.sacked = none, !.sackedOut = zero, !.high = top]
      BY <1>2
    <3>2. none \in SUBSET Nat /\ zero \in Int /\ top \in Nat
      OBVIOUS
    <3> HIDE DEF none, zero, top
    <3>3. QED BY <1>1, <3>1, <3>2 DEF Buffers
  <2>2. c.una = b.una /\ c.end = b.end /\ c.tail = b.tail /\ c.starts = b.starts
    BY <1>1, <1>2 DEF Buffers
  <2>3. c.sacked = {} /\ c.lost = b.lost /\ c.retrans = b.retrans
    BY <1>1, <1>2 DEF Buffers
  <2>4. QED BY <2>1, <2>2, <2>3
<1>4. /\ c.sackedOut = 0 /\ c.lostOut = b.lostOut /\ c.retransOut = b.retransOut
      /\ c.high = 0
  BY <1>1, <1>2 DEF Buffers
<1>5. Alike(b, c)
  BY <1>3 DEF Alike
<1>6. Counts(c)
  BY <1>3, <1>4, FS_EmptySet, Zenon DEF Counts, Sound
<1>7. Whole(b, {})
  BY WholeTogether DEF Sound
<1>8. Sound(c)
  BY <1>1, <1>3, <1>4, <1>5, <1>6, <1>7, MarksAreSound DEF Sound
<1>9. QED BY <1>3, <1>5, <1>8 DEF c

\* A timeout holds everything lost that is not SACKed, and nothing sent again.
LEMMA ListLostIsSound ==
  ASSUME NEW b, Sound(b), NEW reset \in BOOLEAN
  PROVE  LET c == SetSentListLost(b, reset)
         IN /\ Sound(c) /\ Alike(b, c) /\ c.tail = b.tail /\ c.retrans = {}
            /\ reset => c.sacked = {} /\ c.lost = SentBytes(b)
            /\ ~reset => /\ c.sacked = b.sacked
                         /\ c.lost = b.lost \cup (SentBytes(b) \ b.sacked)
<1> DEFINE c == SetSentListLost(b, reset)
           F == IF reset THEN {} ELSE b.sacked
           G == IF reset THEN SentBytes(b) ELSE b.lost \cup (SentBytes(b) \ F)
           f == IF reset THEN 0 ELSE b.sackedOut
           g == Cardinality(G)
           t == IF reset THEN 0 ELSE b.high
<1>1. Laid(b) /\ b \in Buffers /\ b.end \in Nat /\ 0 < b.end /\ b.high < b.end
  BY DEF Sound, Laid, Buffers
<1>2. c = [b EXCEPT !.sacked = F, !.sackedOut = f, !.lost = G, !.lostOut = g,
                    !.retrans = {}, !.retransOut = 0, !.high = t]
  BY Zenon DEF SetSentListLost
<1>3. Whole(b, F) /\ Whole(b, {})
  BY WholeTogether DEF Sound
<1>4. Whole(b, G)
  <2>1. Whole(b, SentBytes(b)) /\ Whole(b, b.lost) /\ Whole(b, b.sacked)
    BY <1>1, WholeList DEF Sound
  <2>2. Whole(b, b.lost \cup (SentBytes(b) \ b.sacked))
    <3>1. Whole(b, SentBytes(b) \ b.sacked)
      BY <2>1, WholeTogether
    <3>2. QED BY <2>1, <3>1, WholeTogether
  <2>3. QED BY <2>1, <2>2
<1>5. Cardinality(F) = f
  BY FS_EmptySet DEF Sound, Counts
<1>6. f \in Int /\ g \in Int /\ t \in Nat /\ t < b.end
  <2>1. g \in Int
    <3> HIDE DEF G
    <3>1. QED BY <1>1, <1>4, FinitelySent DEF Whole
  <2>2. f \in Int /\ t \in Nat /\ t < b.end
    BY <1>1 DEF Buffers
  <2>3. QED BY <2>1, <2>2
<1>7. F \in SUBSET Nat /\ G \in SUBSET Nat
  <2> HIDE DEF F, G
  <2>1. QED BY <1>1, <1>3, <1>4, WholeIsNatural
<1> HIDE DEF c, F, G, f, g, t
<1>8. /\ c \in Buffers
      /\ c.una = b.una /\ c.end = b.end /\ c.tail = b.tail /\ c.starts = b.starts
      /\ c.sacked = F /\ c.lost = G /\ c.retrans = {}
  <2> DEFINE none == {}  zero == 0
  <2>1. c \in Buffers
    <3>1. c = [b EXCEPT !.sacked = F, !.sackedOut = f, !.lost = G, !.lostOut = g,
                        !.retrans = none, !.retransOut = zero, !.high = t]
      BY <1>2
    <3>2. none \in SUBSET Nat /\ zero \in Int
      OBVIOUS
    <3> HIDE DEF none, zero
    <3>3. QED BY <1>1, <1>6, <1>7, <3>1, <3>2 DEF Buffers
  <2>2. c.una = b.una /\ c.end = b.end /\ c.tail = b.tail /\ c.starts = b.starts
    BY <1>1, <1>2 DEF Buffers
  <2>3. c.sacked = F /\ c.lost = G /\ c.retrans = {}
    BY <1>1, <1>2 DEF Buffers
  <2>4. QED BY <2>1, <2>2, <2>3
<1>9. /\ c.sackedOut = f /\ c.lostOut = g /\ c.retransOut = 0 /\ c.high = t
  BY <1>1, <1>2 DEF Buffers
<1>10. Alike(b, c)
  BY <1>8 DEF Alike
<1>11. Counts(c)
  <2>1. Cardinality({}) = 0
    BY FS_EmptySet, Zenon
  <2>2. QED BY <1>5, <1>8, <1>9, <2>1, Zenon DEF Counts, g
<1>12. Sound(c)
  BY <1>3, <1>4, <1>6, <1>8, <1>9, <1>10, <1>11, MarksAreSound
<1>13. QED BY <1>8, <1>10, <1>12 DEF F, G, c

\* The SACKed items above the byte x
SackedOver(b, x) == {j \in b.starts \cap b.sacked : j > x}

\* Whatever is held lost lies below limit, in the head, or below enough SACKed
\* items.  This is said of bytes because items are split and merged.
Explained(b, limit) ==
  \A x \in b.lost : \/ x < limit
                    \/ \A j \in b.starts : j <= b.una \/ x < j
                    \/ Cardinality(SackedOver(b, x)) >= DupAckThresh

\* More SACKed items are no fewer.
LEMMA SackedOverGrows ==
  ASSUME NEW c, Laid(c), NEW S, NEW x, S \subseteq SackedOver(c, x),
         Cardinality(S) >= DupAckThresh
  PROVE  Cardinality(SackedOver(c, x)) >= DupAckThresh
<1> DEFINE T == SackedOver(c, x)
<1>1. T \in SUBSET SentBytes(c)
  BY DEF SackedOver, Laid
<1> HIDE DEF T
<1>2. IsFiniteSet(T) /\ Cardinality(T) \in Nat
  BY <1>1, FinitelySent, Zenon
<1>3. Cardinality(S) <= Cardinality(T) /\ Cardinality(S) \in Nat
  <2>1. S \subseteq T
    BY DEF T
  <2>2. IsFiniteSet(S) /\ Cardinality(S) <= Cardinality(T)
    BY <1>2, <2>1, FS_Subset, Zenon
  <2>3. QED BY <2>2, FS_CardinalityType, Zenon
<1>4. DupAckThresh \in Nat
  BY TxAssumption
<1>5. Cardinality(T) >= DupAckThresh
  BY <1>2, <1>3, <1>4
<1>6. QED BY <1>5 DEF T

\* Nothing more is lost, the head has not shrunk above what is, and no SACKed
\* item above it is gone.
LEMMA StillExplained ==
  ASSUME NEW b, NEW c, Laid(c), NEW limit, Explained(b, limit), c.lost \subseteq b.lost,
         \A x \in c.lost : (\A j \in b.starts : j <= b.una \/ x < j)
                             => (\A j \in c.starts : j <= c.una \/ x < j),
         \A x \in c.lost : SackedOver(b, x) \subseteq SackedOver(c, x)
  PROVE  Explained(c, limit)
<1> SUFFICES ASSUME NEW x \in c.lost
             PROVE  \/ x < limit
                    \/ \A j \in c.starts : j <= c.una \/ x < j
                    \/ Cardinality(SackedOver(c, x)) >= DupAckThresh
  BY DEF Explained
<1>1. CASE Cardinality(SackedOver(b, x)) >= DupAckThresh
  <2>1. SackedOver(b, x) \subseteq SackedOver(c, x)
    OBVIOUS
  <2>2. QED BY <1>1, <2>1, SackedOverGrows, Zenon
<1>2. CASE x < limit \/ \A j \in b.starts : j <= b.una \/ x < j
  BY <1>2, Zenon
<1>3. QED BY <1>1, <1>2 DEF Explained

\* In particular of two buffers cut alike
LEMMA AlikeExplained ==
  ASSUME NEW b, NEW c, Laid(c), Alike(b, c), b.sacked \subseteq c.sacked,
         c.lost \subseteq b.lost, NEW limit, Explained(b, limit)
  PROVE  Explained(c, limit)
<1>1. \A x : SackedOver(b, x) \subseteq SackedOver(c, x)
  BY DEF SackedOver, Alike
<1>2. b.starts = c.starts /\ b.una = c.una
  BY DEF Alike
<1>3. QED BY <1>1, <1>2, StillExplained, Zenon

\* UpdateLostCount holds more items lost: the head, or one that is not SACKed.
LEMMA LostCountIsSound ==
  ASSUME NEW b, Sound(b)
  PROVE  LET c == UpdateLostCount(b)
         IN /\ Sound(c) /\ Alike(b, c) /\ c.tail = b.tail
            /\ c.sacked = b.sacked /\ c.retrans = b.retrans
            /\ b.una \notin b.sacked => (c.lost \ b.lost) \cap b.sacked = {}
            /\ \A limit : Explained(b, limit) => Explained(c, limit)
<1> DEFINE c == UpdateLostCount(b)
           items == {i \in b.starts \ b.lost :
                       /\ i = b.una \/ i \notin b.sacked
                       /\ Cardinality(SackedAbove(b, i)) >= DupAckThresh}
           bytes == BytesOf(b, items)
           G == b.lost \cup bytes
           g == b.lostOut + Cardinality(bytes)
<1>1. Laid(b) /\ b \in Buffers /\ Whole(b, b.lost) /\ Whole(b, b.sacked)
  BY DEF Sound, Laid
<1>2. c = [b EXCEPT !.lost = G, !.lostOut = g]
  BY Zenon DEF UpdateLostCount
<1>3. /\ items \in SUBSET b.starts
      /\ \A i \in items : i \notin b.lost /\ (i = b.una \/ i \notin b.sacked)
      /\ \A i \in items : Cardinality(SackedAbove(b, i)) >= DupAckThresh
  OBVIOUS
<1> HIDE DEF items
\* What is lost now is the head or lies below enough SACKed items.
<1>0. ASSUME NEW x \in bytes
      PROVE  \/ \A j \in b.starts : j <= b.una \/ x < j
             \/ Cardinality(SackedOver(b, x)) >= DupAckThresh
  <2>1. PICK i \in items : x \in ItemBytes(b, i)
    BY DEF BytesOf
  <2>2. /\ i \in b.starts /\ i \in Nat /\ EndOf(b, i) \in Nat /\ x \in Int /\ i <= x
        /\ x < EndOf(b, i) /\ \A j \in b.starts : j \in Nat /\ (j <= i \/ EndOf(b, i) <= j)
    BY <1>1, <1>3, <2>1, EndOfItem DEF ItemBytes, Buffers
  <2>3. CASE i = b.una
    <3>1. \A j \in b.starts : j <= b.una \/ x < j
      BY <2>2, <2>3
    <3>2. QED BY <3>1
  <2>4. CASE i # b.una
    <3>1. ASSUME NEW j \in SackedAbove(b, i) PROVE j \in SackedOver(b, x)
      <4>1. j \in b.starts /\ j \in b.sacked /\ i <= j /\ j # i
        BY <1>3, <2>4, <3>1 DEF SackedAbove
      <4>2. x < j
        BY <2>2, <4>1
      <4>3. QED BY <2>2, <4>1, <4>2 DEF SackedOver
    <3>2. SackedAbove(b, i) \subseteq SackedOver(b, x)
      BY <3>1
    <3>3. QED BY <1>1, <1>3, <3>2, SackedOverGrows, Zenon
  <2>5. QED BY <2>3, <2>4
<1>4. Whole(b, bytes) /\ Whole(b, G)
  <2>1. Whole(b, bytes)
    BY <1>1, <1>3, ItemsAreWhole
  <2>2. QED BY <1>1, <2>1, WholeTogether
<1>5. bytes \cap b.lost = {}
  BY <1>1, <1>3, ItemIsWhole DEF BytesOf
<1>6. b.una \notin b.sacked => bytes \cap b.sacked = {}
  BY <1>1, <1>3, ItemIsWhole DEF BytesOf
<1> HIDE DEF bytes
<1>7. Cardinality(G) = g /\ g \in Int /\ G \in SUBSET Nat
  <2>1. IsFiniteSet(bytes) /\ IsFiniteSet(b.lost)
    BY <1>1, <1>4, FinitelySent DEF Whole
  <2>2. Cardinality(b.lost \cup bytes) = Cardinality(b.lost) + Cardinality(bytes)
    BY <1>5, <2>1, CountBoth, Zenon
  <2>3. b.lostOut = Cardinality(b.lost)
    BY DEF Sound, Counts
  <2>4. Cardinality(bytes) \in Nat /\ b.lostOut \in Int
    BY <1>1, <1>4, FinitelySent DEF Whole, Buffers
  <2>5. G \in SUBSET Nat
    BY <1>1, <1>4, WholeIsNatural
  <2>6. g \in Int
    BY <2>4
  <2>7. Cardinality(G) = g
    BY <2>2, <2>3, Zenon
  <2>8. QED BY <2>5, <2>6, <2>7
<1> HIDE DEF c, G, g
<1>8. /\ c \in Buffers
      /\ c.una = b.una /\ c.end = b.end /\ c.tail = b.tail /\ c.starts = b.starts
      /\ c.sacked = b.sacked /\ c.lost = G /\ c.retrans = b.retrans
  BY <1>1, <1>2, <1>7 DEF Buffers
<1>9. /\ c.sackedOut = b.sackedOut /\ c.lostOut = g /\ c.retransOut = b.retransOut
      /\ c.high = b.high
  BY <1>1, <1>2 DEF Buffers
<1>10. Alike(b, c)
  BY <1>8 DEF Alike
<1>11. Counts(c)
  BY <1>7, <1>8, <1>9 DEF Sound, Counts
<1>12. Sound(c)
  BY <1>4, <1>8, <1>9, <1>10, <1>11, MarksAreSound DEF Sound, Laid
<1>13. QED
  <2>1. b.una \notin b.sacked => (c.lost \ b.lost) \cap b.sacked = {}
    BY <1>6, <1>8 DEF G
  <2>2. ASSUME NEW limit, Explained(b, limit) PROVE Explained(c, limit)
    <3>1. \A x : SackedOver(c, x) = SackedOver(b, x)
      BY <1>8 DEF SackedOver
    <3>2. QED BY <1>0, <1>8, <2>2, <3>1 DEF Explained, G
  <2>3. QED BY <1>8, <1>10, <1>12, <2>1, <2>2 DEF c

(***************************************************************************)
(* An acknowledgment                                                       *)
(***************************************************************************)
\* m_highestSack stays or moves to an item.
LEMMA HighestIsItem ==
  ASSUME NEW b \in Buffers, b.starts \subseteq SentBytes(b), NEW blocks,
         IsFiniteSet(Usable(b, blocks))
  PROVE  HighestSack(b, blocks) \in b.starts \cup {b.high}
<1> DEFINE V == b.starts \cup {b.high}
           n == Cardinality(Usable(b, blocks))
           news(k) == Inside(b, blocks[k]) \ (b.sacked \cup
                        UNION {Inside(b, blocks[j]) : j \in 1..(k - 1)})
           body(g, k) == IF k = 0 THEN b.high
                         ELSE IF news(k) = {} THEN g[k - 1]
                         ELSE LET last == GreatestOf(news(k))
                              IN IF g[k - 1] = 0 \/ g[k - 1] <= EndOf(b, last)
                                 THEN last ELSE g[k - 1]
           high == CHOOSE g : g = [k \in 0..n |-> body(g, k)]
           Defined(m) == \E g : g = [k \in 0..m |-> body(g, k)]
<1>1. n \in Nat
  BY FS_CardinalityType, Zenon
<1>2. ASSUME NEW k PROVE news(k) \subseteq b.starts
  BY DEF Inside
<1>3. HighestSack(b, blocks) = high[n]
  BY DEF HighestSack
<1> HIDE DEF n, news
<1>4. Defined(0)
  <2> DEFINE g == [k \in 0..0 |-> b.high]
  <2>1. g = [k \in 0..0 |-> body(g, k)]
    OBVIOUS
  <2>2. QED BY <2>1
<1>5. ASSUME NEW m \in Nat \ {0}, Defined(m - 1)
      PROVE  Defined(m)
  <2>1. PICK g : g = [k \in 0..(m - 1) |-> body(g, k)]
    BY <1>5
  <2> DEFINE h == [k \in 0..m |-> body(g, k)]
  <2>2. ASSUME NEW k \in 0..m
        PROVE  body(g, k) = body(h, k)
    <3>1. CASE k = 0
      BY <3>1
    <3>2. CASE k # 0
      <4>1. k - 1 \in 0..(m - 1) /\ k - 1 \in 0..m
        BY <3>2
      <4>2. h[k - 1] = g[k - 1]
        <5>1. h[k - 1] = body(g, k - 1)
          BY <4>1
        <5>2. g[k - 1] = body(g, k - 1)
          <6> HIDE DEF body
          <6>1. QED BY <2>1, <4>1
        <5>3. QED BY <5>1, <5>2
      <4> HIDE DEF h
      <4>3. QED BY <3>2, <4>2
    <3>3. QED BY <3>1, <3>2
  <2>3. h = [k \in 0..m |-> body(h, k)]
    <3> HIDE DEF body
    <3>1. QED BY <2>2
  <2>4. QED BY <2>3
<1> HIDE DEF Defined
<1>6. Defined(n)
  <2> DEFINE Bad == {m \in Nat : ~Defined(m)}
  <2>1. SUFFICES ASSUME Bad # {} PROVE FALSE
    BY <1>1
  <2> DEFINE m == LeastOf(Bad)
  <2>2. m \in Bad /\ \A x \in Bad : m <= x
    BY <2>1, LeastOfNaturals
  <2>3. m \in Nat \ {0} /\ ~Defined(m) /\ m - 1 \notin Bad
    BY <1>4, <2>2
  <2>4. Defined(m - 1)
    BY <2>3
  <2>5. QED BY <2>3, <2>4, <1>5
<1>7. \A k \in 0..n : high[k] = body(high, k)
  <2>1. high = [k \in 0..n |-> body(high, k)]
    <3> HIDE DEF body
    <3>1. \E g : g = [k \in 0..n |-> body(g, k)]
      BY <1>6 DEF Defined
    <3>2. QED BY <3>1
  <2> HIDE DEF body, high
  <2>2. QED BY <2>1
<1> HIDE DEF high
<1>8. high[0] \in V
  <2>1. 0 \in 0..n /\ body(high, 0) = b.high
    BY <1>1
  <2>2. QED BY <1>7, <2>1
<1>9. ASSUME NEW k \in 1..n, high[k - 1] \in V
      PROVE  high[k] \in V
  <2>1. k \in 0..n /\ k # 0
    BY <1>1
  <2>2. CASE news(k) = {}
    <3>1. body(high, k) = high[k - 1]
      BY <2>1, <2>2
    <3>2. QED BY <1>7, <1>9, <2>1, <3>1
  <2>3. CASE news(k) # {}
    <3> DEFINE last == GreatestOf(news(k))
    <3>1. last \in V
      <4>1. /\ b.end \in Nat /\ news(k) \in SUBSET Nat /\ news(k) \subseteq b.starts
            /\ \A x \in news(k) : x <= b.end
        BY <1>2 DEF Buffers, SentBytes
      <4>2. last \in news(k)
        BY <2>3, <4>1, GreatestOfNaturals
      <4>3. QED BY <4>1, <4>2
    <3>2. body(high, k) = IF high[k - 1] = 0 \/ high[k - 1] <= EndOf(b, last)
                          THEN last ELSE high[k - 1]
      BY <2>1, <2>3, Zenon
    <3> HIDE DEF last, V, body
    <3>3. high[k] = last \/ high[k] = high[k - 1]
      BY <1>7, <2>1, <3>2, Zenon
    <3>4. QED BY <1>9, <3>1, <3>3, Zenon
  <2>4. QED BY <2>2, <2>3
<1>10. \A k \in 0..n : high[k] \in V
  <2> HIDE DEF V
  <2> DEFINE Bad == {k \in 0..n : high[k] \notin V}
  <2>1. SUFFICES ASSUME Bad # {} PROVE FALSE
    OBVIOUS
  <2> DEFINE m == LeastOf(Bad)
  <2>2. m \in Bad /\ \A x \in Bad : m <= x
    <3>1. Bad \in SUBSET Nat
      BY <1>1
    <3> HIDE DEF Bad
    <3>2. QED BY <2>1, <3>1, LeastOfNaturals
  <2>3. m \in 1..n /\ high[m] \notin V /\ m - 1 \notin Bad /\ m - 1 \in 0..n
    BY <1>1, <1>8, <2>2
  <2>4. high[m - 1] \in V
    BY <2>3
  <2> HIDE DEF m
  <2>5. QED BY <2>3, <2>4, <1>9
<1>11. QED
  BY <1>1, <1>3, <1>10

\* The head is not SACKed, and nothing that is SACKed is held lost.
Apart(b) == b.una \notin b.sacked /\ b.sacked \cap b.lost = {}

\* SACK blocks that lie above the head and hold only bytes of K add no mark
\* but on bytes of K.
LEMMA UpdateIsSound ==
  ASSUME NEW b, Sound(b), Apart(b), NEW blocks, IsFiniteSet(DOMAIN blocks), NEW K,
         b.una \notin K,
         \A k \in DOMAIN blocks : \A x \in SentBytes(b) :
            blocks[k][1] <= x /\ x < blocks[k][2] => x \in K,
         \A k \in DOMAIN blocks : blocks[k][1] \in Nat /\ blocks[k][2] \in Nat
  PROVE  LET c == Update(b, blocks)
         IN /\ Sound(c) /\ Apart(c) /\ Alike(b, c) /\ c.tail = b.tail
            /\ c.retrans = b.retrans /\ c.sacked \ b.sacked \subseteq K
            /\ b.sacked \subseteq c.sacked
            /\ K = {} => c.sacked = b.sacked /\ c.lost = b.lost
            /\ \A limit : Explained(b, limit) => Explained(c, limit)
<1> DEFINE c == Update(b, blocks)
           items == NewlySacked(b, blocks)
           bytes == BytesOf(b, items)
           F == b.sacked \cup bytes
           f == b.sackedOut + Cardinality(bytes)
           G == b.lost \ bytes
           g == b.lostOut - Cardinality(bytes \cap b.lost)
           t == HighestSack(b, blocks)
           m == [b EXCEPT !.sacked = F, !.sackedOut = f, !.lost = G, !.lostOut = g,
                          !.high = t]
           complete == Usable(b, blocks) = DOMAIN blocks
<1>1. Laid(b) /\ b \in Buffers /\ Whole(b, b.sacked) /\ Whole(b, b.lost)
  BY DEF Sound, Laid
<1>2. c = IF items # {} /\ complete THEN UpdateLostCount(m) ELSE m
  BY Zenon DEF Update
<1>3. Usable(b, blocks) \subseteq DOMAIN blocks
  BY DEF Usable
<1>4. \A i \in items : /\ i \in b.starts /\ i \notin b.sacked
                       /\ \E k \in DOMAIN blocks :
                             blocks[k][1] <= i /\ EndOf(b, i) <= blocks[k][2]
  <2> SUFFICES ASSUME NEW i \in items
               PROVE  /\ i \in b.starts /\ i \notin b.sacked
                      /\ \E k \in DOMAIN blocks :
                            blocks[k][1] <= i /\ EndOf(b, i) <= blocks[k][2]
    BY Zenon
  <2>1. i \notin b.sacked /\ \E k \in Usable(b, blocks) : i \in Inside(b, blocks[k])
    <3> DEFINE all == UNION {Inside(b, blocks[k]) : k \in Usable(b, blocks)}
    <3>1. items = all \ b.sacked
      BY DEF NewlySacked
    <3> HIDE DEF items, all
    <3>2. i \in all /\ i \notin b.sacked
      BY <3>1
    <3>3. \E k \in Usable(b, blocks) : i \in Inside(b, blocks[k])
      BY <3>2 DEF all
    <3>4. QED BY <3>2, <3>3
  <2>2. PICK k \in Usable(b, blocks) : i \in Inside(b, blocks[k])
    BY <2>1
  <2>3. i \in b.starts /\ blocks[k][1] <= i /\ EndOf(b, i) <= blocks[k][2]
    BY <2>2, Zenon DEF Inside
  <2>4. k \in DOMAIN blocks
    BY <1>3
  <2>5. QED BY <2>1, <2>3, <2>4, Zenon
<1>5. bytes \subseteq K
  <2> SUFFICES ASSUME NEW i \in items, NEW x \in ItemBytes(b, i) PROVE x \in K
    BY DEF BytesOf
  <2>1. PICK k \in DOMAIN blocks : blocks[k][1] <= i /\ EndOf(b, i) <= blocks[k][2]
    BY <1>4
  <2>2. /\ i \in Nat /\ EndOf(b, i) \in Nat /\ ItemBytes(b, i) \subseteq SentBytes(b)
    BY <1>1, <1>4, EndOfItem
  <2>3. x \in Nat /\ i <= x /\ x < EndOf(b, i) /\ x \in SentBytes(b)
    BY <2>2 DEF ItemBytes
  <2> DEFINE lo == blocks[k][1]  hi == blocks[k][2]  e == EndOf(b, i)
  <2>4. lo \in Nat /\ hi \in Nat /\ lo <= i /\ e <= hi /\ e \in Nat /\ x < e
    BY <2>1, <2>2, <2>3
  <2> HIDE DEF lo, hi, e
  <2>5. lo <= x /\ x < hi
    BY <2>2, <2>3, <2>4
  <2>6. QED BY <2>3, <2>5, Zenon DEF lo, hi
<1>6. K = {} => items = {}
  <2>1. ASSUME NEW i \in items PROVE i \in K
    <3>1. i \in ItemBytes(b, i)
      BY <1>1, <1>4, EndOfItem
    <3>2. QED BY <1>5, <3>1 DEF BytesOf
  <2>2. QED BY <2>1
<1>7. items = {} => bytes = {}
  BY DEF BytesOf
<1>8. Whole(b, bytes)
  <2>1. items \in SUBSET b.starts
    BY <1>4
  <2> HIDE DEF items
  <2>2. QED BY <1>1, <2>1, ItemsAreWhole
<1>9. bytes \cap b.sacked = {}
  BY <1>1, <1>4, ItemIsWhole DEF BytesOf
<1> HIDE DEF items, bytes, c
<1>10. Whole(b, F) /\ Whole(b, G)
  BY <1>1, <1>8, WholeTogether
<1>11. /\ IsFiniteSet(b.sacked) /\ IsFiniteSet(b.lost) /\ IsFiniteSet(bytes)
       /\ Cardinality(bytes) \in Nat
  BY <1>1, <1>8, FinitelySent DEF Whole
<1>12. Cardinality(F) = f /\ f \in Int
  <2>1. Cardinality(F) = Cardinality(b.sacked) + Cardinality(bytes)
    BY <1>9, <1>11, CountBoth, Zenon
  <2>2. b.sackedOut = Cardinality(b.sacked)
    BY DEF Sound, Counts
  <2>3. b.sackedOut \in Int
    BY <1>1 DEF Buffers
  <2>4. f \in Int
    BY <1>11, <2>3
  <2>5. Cardinality(F) = f
    BY <2>1, <2>2, Zenon
  <2>6. QED BY <2>4, <2>5
<1>13. Cardinality(G) = g /\ g \in Int
  <2>1. /\ Cardinality(G) = Cardinality(b.lost) - Cardinality(bytes \cap b.lost)
        /\ IsFiniteSet(bytes \cap b.lost)
    BY <1>11, CountWithout, Zenon
  <2>2. b.lostOut = Cardinality(b.lost)
    BY DEF Sound, Counts
  <2>3. b.lostOut \in Int /\ Cardinality(bytes \cap b.lost) \in Nat
    BY <1>1, <2>1, FS_CardinalityType DEF Buffers
  <2>4. g \in Int
    BY <2>3
  <2>5. Cardinality(G) = g
    BY <2>1, <2>2, Zenon
  <2>6. QED BY <2>4, <2>5
<1>14. t \in Nat /\ t < b.end
  <2>1. IsFiniteSet(Usable(b, blocks))
    BY <1>3, FS_Subset, Zenon
  <2>2. t \in b.starts \cup {b.high}
    BY <1>1, <2>1, HighestIsItem DEF Laid
  <2> HIDE DEF t
  <2>3. QED BY <1>1, <2>2 DEF Laid, Buffers, SentBytes
<1>15. F \in SUBSET Nat /\ G \in SUBSET Nat
  <2> HIDE DEF F, G
  <2>1. QED BY <1>1, <1>10, WholeIsNatural
<1>16. /\ b.sacked \subseteq F /\ F \ b.sacked \subseteq K
       /\ b.una \notin F /\ F \cap G = {} /\ G \subseteq b.lost
       /\ K = {} => F = b.sacked /\ G = b.lost
  BY <1>5, <1>6, <1>7 DEF Apart
<1> HIDE DEF F, G, f, g, t, complete
<1>17. /\ m \in Buffers
       /\ m.una = b.una /\ m.end = b.end /\ m.tail = b.tail /\ m.starts = b.starts
       /\ m.sacked = F /\ m.lost = G /\ m.retrans = b.retrans
  BY <1>1, <1>12, <1>13, <1>14, <1>15 DEF Buffers
<1>18. /\ m.sackedOut = f /\ m.lostOut = g /\ m.retransOut = b.retransOut
       /\ m.high = t
  BY <1>1 DEF Buffers
<1> HIDE DEF m
<1>19. Alike(b, m) /\ Apart(m)
  BY <1>16, <1>17 DEF Alike, Apart
<1>20. Sound(m)
  <2>1. Counts(m)
    BY <1>12, <1>13, <1>17, <1>18 DEF Sound, Counts
  <2>2. Whole(b, b.retrans)
    BY DEF Sound
  <2>3. QED BY <1>10, <1>14, <1>17, <1>18, <1>19, <2>1, <2>2, MarksAreSound
<1>21. ASSUME NEW limit, Explained(b, limit) PROVE Explained(m, limit)
  <2>1. Laid(m) /\ b.sacked \subseteq m.sacked /\ m.lost \subseteq b.lost
    BY <1>16, <1>17, <1>20 DEF Sound
  <2>2. QED BY <1>19, <1>21, <2>1, AlikeExplained
<1>22. CASE items # {} /\ complete
  <2> DEFINE u == UpdateLostCount(m)
  <2>1. c = u
    BY <1>2, <1>22
  <2>2. /\ Sound(u) /\ Alike(m, u) /\ u.tail = m.tail
        /\ u.sacked = m.sacked /\ u.retrans = m.retrans
        /\ m.una \notin m.sacked => (u.lost \ m.lost) \cap m.sacked = {}
        /\ \A limit : Explained(m, limit) => Explained(u, limit)
    BY <1>20, LostCountIsSound, Zenon
  <2> HIDE DEF u
  <2>3. Apart(u) /\ Alike(b, u)
    BY <1>19, <2>2 DEF Apart, Alike
  <2>4. K # {}
    BY <1>6, <1>22
  <2>5. QED BY <1>16, <1>17, <1>21, <2>1, <2>2, <2>3, <2>4, Zenon DEF c
<1>23. CASE ~(items # {} /\ complete)
  <2>1. c = m
    BY <1>2, <1>23
  <2>2. QED BY <1>16, <1>17, <1>19, <1>20, <1>21, <2>1, Zenon DEF c
<1>24. QED BY <1>22, <1>23

\* What lies below seq leaves the list with its flags; the item that seq cuts
\* keeps its upper part.
LEMMA DropIsSound ==
  ASSUME NEW b, Sound(b), NEW seq \in Nat, b.una < seq, seq <= b.end
  PROVE  LET c == DropBelow(b, seq)
         IN /\ Sound(c) /\ c.una = seq /\ c.end = b.end /\ c.tail = b.tail
            /\ c.starts \subseteq b.starts \cup {seq}
            /\ c.sacked = b.sacked \ (b.una..(seq - 1))
            /\ c.lost = b.lost \ (b.una..(seq - 1)) /\ c.retrans \subseteq b.retrans
            /\ \A i \in b.starts : i > seq => i \in c.starts
<1> DEFINE c == DropBelow(b, seq)
           gone == b.una..(seq - 1)
           kept == {i \in b.starts : i > seq}
           S == IF seq < b.end THEN kept \cup {seq} ELSE kept
           F == b.sacked \ gone
           G == b.lost \ gone
           H == b.retrans \ gone
           f == b.sackedOut - Cardinality(gone \cap b.sacked)
           g == b.lostOut - Cardinality(gone \cap b.lost)
           h == b.retransOut - Cardinality(gone \cap b.retrans)
<1>1. /\ Laid(b) /\ b \in Buffers /\ b.una \in Nat /\ b.end \in Nat /\ b.tail \in Nat
      /\ b.end <= b.tail /\ 1 <= b.una /\ b.high < b.end
      /\ b.starts \subseteq SentBytes(b) /\ b.starts \in SUBSET Nat
  BY DEF Sound, Laid, Buffers
<1>2. c = [b EXCEPT !.una = seq, !.end = Larger(b.end, seq), !.tail = Larger(b.tail, seq),
                    !.starts = S, !.sacked = F, !.lost = G, !.retrans = H,
                    !.sackedOut = f, !.lostOut = g, !.retransOut = h]
  BY Zenon DEF DropBelow
<1>3. Larger(b.end, seq) = b.end /\ Larger(b.tail, seq) = b.tail
  <2>1. seq <= b.tail
    BY <1>1
  <2>2. QED BY <1>1, <2>1 DEF Larger
<1>4. c = [b EXCEPT !.una = seq, !.end = b.end, !.tail = b.tail,
                    !.starts = S, !.sacked = F, !.lost = G, !.retrans = H,
                    !.sackedOut = f, !.lostOut = g, !.retransOut = h]
  BY <1>2, <1>3, Zenon
<1>5. /\ Cardinality(F) = f /\ f \in Int
      /\ Cardinality(G) = g /\ g \in Int
      /\ Cardinality(H) = h /\ h \in Int
  <2>1. IsFiniteSet(b.sacked) /\ IsFiniteSet(b.lost) /\ IsFiniteSet(b.retrans)
    BY <1>1, FinitelySent DEF Sound, Whole
  <2>2. /\ Cardinality(F) = Cardinality(b.sacked) - Cardinality(gone \cap b.sacked)
        /\ Cardinality(G) = Cardinality(b.lost) - Cardinality(gone \cap b.lost)
        /\ Cardinality(H) = Cardinality(b.retrans) - Cardinality(gone \cap b.retrans)
        /\ IsFiniteSet(gone \cap b.sacked) /\ IsFiniteSet(gone \cap b.lost)
        /\ IsFiniteSet(gone \cap b.retrans)
    BY <2>1, CountWithout, Zenon
  <2>3. /\ Cardinality(gone \cap b.sacked) \in Nat /\ Cardinality(gone \cap b.lost) \in Nat
        /\ Cardinality(gone \cap b.retrans) \in Nat
    BY <2>2, FS_CardinalityType, Zenon
  <2>4. b.sackedOut \in Int /\ b.lostOut \in Int /\ b.retransOut \in Int
    BY <1>1 DEF Buffers
  <2> HIDE DEF F, G, H, gone
  <2>5. f \in Int /\ g \in Int /\ h \in Int
    BY <2>3, <2>4
  <2>6. /\ b.sackedOut = Cardinality(b.sacked) /\ b.lostOut = Cardinality(b.lost)
        /\ b.retransOut = Cardinality(b.retrans)
    BY DEF Sound, Counts
  <2>7. Cardinality(F) = f /\ Cardinality(G) = g /\ Cardinality(H) = h
    BY <2>2, <2>6, Zenon
  <2>8. QED BY <2>5, <2>7
<1>6. /\ S \in SUBSET Nat /\ S \subseteq b.starts \cup {seq}
      /\ seq < b.end => seq \in S
      /\ S \subseteq seq..(b.end - 1)
      /\ \A i \in b.starts : i > seq => i \in S
  BY <1>1 DEF SentBytes
<1>7. F \in SUBSET Nat /\ G \in SUBSET Nat /\ H \in SUBSET Nat /\ H \subseteq b.retrans
  BY <1>1 DEF Buffers
<1> HIDE DEF S, f, g, h, c, F, G, H
<1>8. c \in Buffers
  BY <1>1, <1>4, <1>5, <1>6, <1>7, ZenonT(60) DEF Buffers
<1>9. /\ c.una = seq /\ c.end = b.end /\ c.tail = b.tail /\ c.starts = S
      /\ c.sacked = F /\ c.lost = G /\ c.retrans = H
  BY <1>1, <1>4 DEF Buffers
<1>10. /\ c.sackedOut = f /\ c.lostOut = g /\ c.retransOut = h /\ c.high = b.high
  BY <1>1, <1>4 DEF Buffers
<1>11. SentBytes(c) = seq..(b.end - 1) /\ SentBytes(c) \subseteq SentBytes(b)
  BY <1>1, <1>9 DEF SentBytes
<1>12. Laid(c)
  BY <1>1, <1>6, <1>8, <1>9, <1>10, <1>11 DEF Laid
<1>13. Short(c)
  <2> SUFFICES ASSUME NEW x \in seq..(b.end - 1)
               PROVE  \E i \in S : i <= x /\ x - i < SegmentSize
    BY <1>9, <1>11 DEF Short
  <2>1. PICK i \in b.starts : i <= x /\ x - i < SegmentSize
    BY <1>11 DEF Sound, Short
  <2>2. i \in Nat /\ x \in Nat /\ seq <= x /\ x < b.end /\ SegmentSize \in Nat
    BY <1>1, TxAssumption
  <2>3. CASE i > seq
    BY <1>6, <2>1, <2>3
  <2>4. CASE ~(i > seq)
    <3>1. seq \in S /\ x - seq < SegmentSize
      BY <1>1, <1>6, <2>1, <2>2, <2>4
    <3>2. QED BY <2>2, <3>1
  <2>5. QED BY <2>3, <2>4
<1>14. ASSUME NEW M, Whole(b, M) PROVE Whole(c, M \ gone)
  <2>1. M \ gone \subseteq SentBytes(c)
    <3>1. M \subseteq b.una..(b.end - 1)
      BY <1>14 DEF Whole, SentBytes
    <3>2. \A x \in b.una..(b.end - 1) : x \in b.una..(seq - 1) \/ x \in seq..(b.end - 1)
      BY <1>1
    <3>3. QED BY <1>11, <3>1, <3>2
  <2>2. ASSUME NEW x \in SentBytes(c) \ c.starts
        PROVE  x \in M \ gone <=> x - 1 \in M \ gone
    <3>1. /\ x \in Nat /\ seq <= x /\ x < b.end /\ x \in SentBytes(b)
      BY <1>1, <1>11
    <3>2. x # seq
      BY <1>6, <1>9, <3>1
    <3>3. x \notin b.starts /\ x \notin gone /\ x - 1 \notin gone
      BY <1>1, <1>6, <1>9, <3>1, <3>2
    <3>4. x \in M <=> x - 1 \in M
      BY <1>14, <3>1, <3>3 DEF Whole
    <3>5. QED BY <3>3, <3>4
  <2>3. QED BY <2>1, <2>2 DEF Whole
<1>15. Whole(c, F) /\ Whole(c, G) /\ Whole(c, H)
  BY <1>14 DEF Sound, F, G, H
<1>16. Counts(c)
  BY <1>5, <1>9, <1>10 DEF Counts
<1>17. Sound(c)
  BY <1>9, <1>12, <1>13, <1>15, <1>16 DEF Sound
<1>18. QED BY <1>6, <1>7, <1>9, <1>17, Zenon DEF c, F, G

\* Without SACK only the head may be held lost, outside the aftermath of a
\* timeout.
HeadOnly(b) == b.starts \cap b.lost \subseteq {b.una}

\* MarkHeadAsLost keeps what is SACKed and what is lost apart.
LEMMA HeadLostIsApart ==
  ASSUME NEW b, Sound(b), b.sacked \cap b.lost = {}
  PROVE  /\ Apart(MarkHeadAsLost(b))
         /\ HeadOnly(b) => HeadOnly(MarkHeadAsLost(b))
         /\ MarkHeadAsLost(b).sacked \subseteq b.sacked
<1> DEFINE c == MarkHeadAsLost(b)
<1>1. /\ Sound(c) /\ Alike(b, c) /\ c.tail = b.tail
      /\ b.starts = {} => c = b
      /\ b.starts # {} => /\ c.sacked = b.sacked \ ItemBytes(b, b.una)
                          /\ b.una \in ItemBytes(b, b.una)
                          /\ c.lost = b.lost \cup ItemBytes(b, b.una)
  BY HeadLostIsSound, Zenon
<1> HIDE DEF c
<1>2. Laid(b) /\ b.sacked \subseteq SentBytes(b)
  BY DEF Sound, Whole
<1>3. CASE b.starts = {}
  <2>1. b.una \notin b.sacked
    <3>1. b.una \in Nat /\ b.end \in Nat /\ ~(b.una < b.end)
      BY <1>2, <1>3 DEF Laid, Buffers
    <3>2. QED BY <1>2, <3>1 DEF SentBytes
  <2>2. QED BY <1>1, <1>3, <2>1 DEF Apart, c
<1>4. CASE b.starts # {}
  <2>1. Apart(c) /\ c.sacked \subseteq b.sacked
    BY <1>1, <1>4 DEF Apart, Alike
  <2>2. ASSUME HeadOnly(b) PROVE HeadOnly(c)
    <3>1. b.una \in b.starts
      BY <1>2, <1>4, HeadIsItem
    <3>2. ASSUME NEW i \in b.starts, i \in ItemBytes(b, b.una) PROVE i = b.una
      <4>1. /\ b.una \in Nat /\ EndOf(b, b.una) \in Nat
            /\ i <= b.una \/ EndOf(b, b.una) <= i
        BY <1>2, <3>1, EndOfItem
      <4>2. QED BY <3>2, <4>1 DEF ItemBytes
    <3>3. QED BY <1>1, <1>4, <2>2, <3>2 DEF HeadOnly, Alike
  <2>3. QED BY <2>1, <2>2 DEF c
<1>5. QED BY <1>3, <1>4

\* A guess goes to an item that is not lost.
LEMMA RenoSackIsApart ==
  ASSUME NEW b, Sound(b), b.sacked \cap b.lost = {}, HeadOnly(b)
  PROVE  LET c == AddRenoSack(b)
         IN /\ c.sacked \cap c.lost = {} /\ HeadOnly(c)
            /\ b.una \notin b.sacked => Apart(c)
<1> DEFINE c == AddRenoSack(b)
<1>1. /\ Sound(c) /\ Alike(b, c) /\ c.lost = b.lost
      /\ \/ c.sacked = b.sacked
         \/ \E i \in b.starts \ {b.una} : c.sacked = b.sacked \cup ItemBytes(b, i)
  BY RenoSackIsSound, Zenon
<1> HIDE DEF c
<1>2. HeadOnly(c)
  BY <1>1 DEF HeadOnly, Alike
<1>3. ASSUME NEW i \in b.starts \ {b.una}
      PROVE  ItemBytes(b, i) \cap b.lost = {} /\ b.una \notin ItemBytes(b, i)
  <2>1. i \notin b.lost
    BY DEF HeadOnly
  <2>2. ItemBytes(b, i) \cap b.lost = {}
    BY <2>1, ItemIsWhole DEF Sound
  <2>3. b.una \in Nat /\ i \in Nat /\ EndOf(b, i) \in Nat /\ b.una <= i /\ b.una # i
    BY EndOfItem DEF Sound, Laid, Buffers
  <2>4. QED BY <2>2, <2>3 DEF ItemBytes
<1>4. c.sacked \cap c.lost = {} /\ (b.una \notin b.sacked => b.una \notin c.sacked)
  BY <1>1, <1>3
<1>5. QED BY <1>1, <1>2, <1>4, Zenon DEF Apart, Alike, c

\* A head that a wrong guess has SACKed is lost, and the guess moves on.
LEMMA UnsackIsSound ==
  ASSUME NEW b, Sound(b), b.sacked \cap b.lost = {}, b.una \in b.sacked => HeadOnly(b)
  PROVE  LET c == UnsackHead(b)
         IN /\ Sound(c) /\ Apart(c) /\ Alike(b, c) /\ c.tail = b.tail
            /\ c.retrans \subseteq b.retrans
            /\ b.una \notin b.sacked => c = b
            /\ HeadOnly(b) => HeadOnly(c)
<1> DEFINE head == ItemBytes(b, b.una)
           F == b.sacked \ head
           f == b.sackedOut - Cardinality(head)
           d == [b EXCEPT !.sacked = F, !.sackedOut = f]
           e == AddRenoSack(d)
           g == MarkHeadAsLost(e)
<1>1. Laid(b) /\ b \in Buffers /\ Whole(b, b.sacked) /\ b.high < b.end
  BY DEF Sound, Laid
<1>2. CASE b.una \notin b.sacked
  <2>1. UnsackHead(b) = b
    BY <1>2 DEF UnsackHead
  <2>2. QED BY <1>2, <2>1 DEF Apart, Alike
<1>3. CASE b.una \in b.sacked
  <2>1. b.una \in b.starts
    BY <1>1, <1>3 DEF Whole, SentBytes, Laid, Buffers
  <2>2. UnsackHead(b) = g
    BY <1>3, <2>1 DEF UnsackHead
  <2>3. /\ Whole(b, F) /\ IsFiniteSet(head) /\ Cardinality(head) = Long(b, b.una)
        /\ Long(b, b.una) \in Nat
    BY <1>1, <2>1, ItemInOrOut, Zenon
  <2>4. Cardinality(F) = Cardinality(b.sacked) - Long(b, b.una)
    BY <1>1, <1>3, <2>1, CountItemIn, Zenon
  <2>5. b.sackedOut = Cardinality(b.sacked) /\ b.sackedOut \in Int
    BY <1>1 DEF Sound, Counts, Buffers
  <2>6. F \in SUBSET Nat
    BY <1>1, <2>3, WholeIsNatural
  <2>7. b.una \in head /\ F \subseteq b.sacked
    BY <1>1, <2>1, EndOfItem
  <2>8. b.una \notin F
    BY <2>7
  <2> HIDE DEF head
  <2>9. Cardinality(F) = f /\ f \in Int
    <3> HIDE DEF F
    <3>1. QED BY <2>3, <2>4, <2>5
  <2> HIDE DEF F, f, d, e, g
  <2>10. /\ d \in Buffers
         /\ d.una = b.una /\ d.end = b.end /\ d.tail = b.tail /\ d.starts = b.starts
         /\ d.sacked = F /\ d.lost = b.lost /\ d.retrans = b.retrans
    BY <1>1, <2>6, <2>9 DEF Buffers, d
  <2>11. /\ d.sackedOut = f /\ d.lostOut = b.lostOut /\ d.retransOut = b.retransOut
         /\ d.high = b.high
    BY <1>1 DEF Buffers, d
  <2>12. Alike(b, d) /\ Counts(d) /\ Whole(b, b.lost) /\ Whole(b, b.retrans)
    BY <2>9, <2>10, <2>11 DEF Alike, Counts, Sound
  <2>13. Sound(d)
    BY <1>1, <2>3, <2>10, <2>11, <2>12, MarksAreSound
  <2>14. d.sacked \cap d.lost = {} /\ HeadOnly(d) /\ d.una \notin d.sacked
    BY <1>3, <2>7, <2>8, <2>10 DEF HeadOnly
  <2>15. /\ Sound(e) /\ Alike(d, e) /\ e.tail = d.tail /\ e.retrans = d.retrans
    BY <2>13, RenoSackIsSound, Zenon DEF e
  <2>16. e.sacked \cap e.lost = {} /\ HeadOnly(e)
    BY <2>13, <2>14, RenoSackIsApart, Zenon DEF e
  <2>17. /\ Sound(g) /\ Alike(e, g) /\ g.tail = e.tail /\ g.retrans \subseteq e.retrans
    BY <2>15, HeadLostIsSound, Zenon DEF g
  <2>18. Apart(g) /\ HeadOnly(g)
    BY <2>15, <2>16, HeadLostIsApart, Zenon DEF g
  <2>19. Alike(b, g)
    BY <2>12, <2>15, <2>17 DEF Alike
  <2>20. g.tail = b.tail /\ g.retrans \subseteq b.retrans
    BY <2>10, <2>15, <2>17, Zenon
  <2>21. QED BY <1>3, <2>2, <2>17, <2>18, <2>19, <2>20, Zenon
<1>4. QED BY <1>2, <1>3

\* m_highestSack is forgotten once it is acknowledged.
LEMMA ForgetHighestIsSound ==
  ASSUME NEW b, Sound(b)
  PROVE  LET c == ForgetHighest(b)
         IN /\ Sound(c) /\ Alike(b, c) /\ c.tail = b.tail
            /\ c.sacked = b.sacked /\ c.lost = b.lost /\ c.retrans = b.retrans
<1> DEFINE c == ForgetHighest(b)
<1>1. b \in Buffers /\ b.end \in Nat /\ 0 < b.end
  BY DEF Sound, Laid, Buffers
<1>2. CASE ~(b.high <= b.una)
  <2>1. c = b
    BY <1>2 DEF ForgetHighest
  <2>2. QED BY <2>1 DEF Alike
<1>3. CASE b.high <= b.una
  <2> DEFINE d == [b EXCEPT !.high = 0]
  <2>1. c = d
    BY <1>3 DEF ForgetHighest
  <2>2. /\ d \in Buffers
        /\ d.una = b.una /\ d.end = b.end /\ d.tail = b.tail /\ d.starts = b.starts
        /\ d.sacked = b.sacked /\ d.lost = b.lost /\ d.retrans = b.retrans
    BY <1>1 DEF Buffers
  <2>3. /\ d.sackedOut = b.sackedOut /\ d.lostOut = b.lostOut
        /\ d.retransOut = b.retransOut /\ d.high = 0
    BY <1>1 DEF Buffers
  <2> HIDE DEF d
  <2>4. Alike(b, d) /\ Counts(d)
    BY <2>2, <2>3 DEF Alike, Counts, Sound
  <2>5. Sound(d)
    BY <1>1, <2>2, <2>3, <2>4, MarksAreSound DEF Sound
  <2>6. QED BY <2>1, <2>2, <2>4, <2>5, Zenon
<1>4. QED BY <1>2, <1>3

(***************************************************************************)
(* Why a byte is held lost                                                 *)
(***************************************************************************)
\* A new item begins above all that is lost.
LEMMA NewSegmentExplained ==
  ASSUME NEW b, Sound(b), NEW n \in Nat \ {0}, n <= SegmentSize, b.end + n <= b.tail,
         NEW limit, Explained(b, limit)
  PROVE  Explained(GetNewSegment(b, n), limit)
<1> DEFINE c == GetNewSegment(b, n)
<1>1. /\ Sound(c) /\ c.una = b.una /\ c.starts = b.starts \cup {b.end}
      /\ c.sacked = b.sacked /\ c.lost = b.lost
  BY NewSegmentIsSound, Zenon
<1> HIDE DEF c
<1>2. \A x \in b.lost : x < b.end
  BY DEF Sound, Whole, SentBytes, Laid, Buffers
<1>3. \A x : SackedOver(b, x) \subseteq SackedOver(c, x)
  BY <1>1 DEF SackedOver
<1>4. ASSUME NEW x \in c.lost, \A j \in b.starts : j <= b.una \/ x < j
      PROVE  \A j \in c.starts : j <= c.una \/ x < j
  BY <1>1, <1>2, <1>4
<1>5. Laid(c) /\ c.lost \subseteq b.lost
  BY <1>1 DEF Sound
<1>6. Explained(c, limit)
  BY <1>3, <1>4, <1>5, StillExplained, Zenon
<1>7. QED BY <1>6 DEF c

\* An item cut anew begins above the head, and none that is SACKed is gone.
LEMMA RecutExplained ==
  ASSUME NEW b, Laid(b), NEW c, Laid(c), c.una = b.una, c.lost = b.lost, Whole(b, b.lost),
         c.sacked = b.sacked, NEW seq \in b.starts, Recut(b, c, EndOf(b, seq)),
         NEW limit, Explained(b, limit)
  PROVE  Explained(c, limit)
<1> DEFINE e == EndOf(b, seq)
<1>1. /\ seq \in Nat /\ e \in Nat /\ b.una <= seq /\ seq < e /\ b.una \in Nat
      /\ e \in b.starts \/ e = b.end
  BY EndOfItem DEF Laid, Buffers
<1>2. /\ b.starts \cap b.sacked \subseteq c.starts
      /\ \A j \in c.starts \ b.starts : e <= j /\ j \in Nat
  BY DEF Recut, Laid, Buffers
<1> HIDE DEF e
<1>3. \A x : SackedOver(b, x) \subseteq SackedOver(c, x)
  BY <1>2 DEF SackedOver
<1>4. ASSUME NEW x \in c.lost, \A j \in b.starts : j <= b.una \/ x < j
      PROVE  \A j \in c.starts : j <= c.una \/ x < j
  <2>1. x < b.end /\ x \in Nat
    BY DEF Whole, SentBytes, Laid, Buffers
  <2>2. x < e
    BY <1>1, <1>4, <2>1
  <2>3. QED BY <1>1, <1>2, <1>4, <2>1, <2>2
<1>5. QED BY <1>3, <1>4, StillExplained

\* The head may always be held lost.
LEMMA HeadLostExplained ==
  ASSUME NEW b, Sound(b), Apart(b), NEW limit, Explained(b, limit)
  PROVE  Explained(MarkHeadAsLost(b), limit)
<1> DEFINE c == MarkHeadAsLost(b)
           head == ItemBytes(b, b.una)
<1>1. /\ Sound(c) /\ Alike(b, c)
      /\ b.starts = {} => c = b
      /\ b.starts # {} => c.sacked = b.sacked \ head /\ c.lost = b.lost \cup head
  BY HeadLostIsSound, Zenon
<1> HIDE DEF c
<1>2. CASE b.starts = {}
  BY <1>1, <1>2 DEF c
<1>3. CASE b.starts # {}
  <2>1. Laid(b) /\ b.una \in b.starts /\ Whole(b, b.sacked) /\ b.una \notin b.sacked
    BY <1>3, HeadIsItem DEF Sound, Apart
  <2>2. head \cap b.sacked = {}
    BY <2>1, ItemIsWhole
  <2>3. c.sacked = b.sacked /\ c.lost = b.lost \cup head
    BY <1>1, <1>3, <2>2
  <2>4. \A x \in head : \A j \in b.starts : j <= b.una \/ x < j
    <3>1. /\ b.una \in Nat /\ EndOf(b, b.una) \in Nat
          /\ \A j \in b.starts : j \in Nat /\ (j <= b.una \/ EndOf(b, b.una) <= j)
      BY <2>1, EndOfItem DEF Laid, Buffers
    <3>2. QED BY <3>1 DEF ItemBytes
  <2> HIDE DEF head
  <2>5. c.starts = b.starts /\ c.una = b.una /\ \A x : SackedOver(c, x) = SackedOver(b, x)
    BY <1>1, <2>3 DEF Alike, SackedOver
  <2>6. Explained(c, limit)
    BY <2>3, <2>4, <2>5 DEF Explained
  <2>7. QED BY <2>6 DEF c
<1>4. QED BY <1>2, <1>3

\* What lies below the new head goes from the list with its flags.
LEMMA DropExplained ==
  ASSUME NEW b, Sound(b), NEW seq \in Nat, b.una < seq, seq <= b.end,
         NEW limit, Explained(b, limit)
  PROVE  Explained(DropBelow(b, seq), limit)
<1> DEFINE c == DropBelow(b, seq)
           gone == b.una..(seq - 1)
<1>1. /\ Sound(c) /\ c.una = seq /\ c.starts \subseteq b.starts \cup {seq}
      /\ c.sacked = b.sacked \ gone /\ c.lost = b.lost \ gone
      /\ \A i \in b.starts : i > seq => i \in c.starts
  BY DropIsSound
<1> HIDE DEF c
<1>2. /\ b.una \in Nat /\ \A j \in b.starts : j \in Nat
      /\ \A x \in c.lost : x \in Nat /\ seq <= x
  BY <1>1 DEF Sound, Laid, Buffers, Whole, SentBytes
<1>3. ASSUME NEW x \in c.lost, \A j \in b.starts : j <= b.una \/ x < j
      PROVE  \A j \in c.starts : j <= c.una \/ x < j
  BY <1>1, <1>2, <1>3
<1>4. ASSUME NEW x \in c.lost PROVE SackedOver(b, x) \subseteq SackedOver(c, x)
  <2> SUFFICES ASSUME NEW j \in b.starts \cap b.sacked, j > x
               PROVE  j \in c.starts \cap c.sacked
    BY DEF SackedOver
  <2>1. j > seq /\ j \notin gone
    BY <1>2
  <2>2. QED BY <1>1, <2>1
<1>5. Laid(c) /\ c.lost \subseteq b.lost
  BY <1>1 DEF Sound
<1>6. Explained(c, limit)
  BY <1>3, <1>4, <1>5, StillExplained, Zenon
<1>7. QED BY <1>6 DEF c
=============================================================================
