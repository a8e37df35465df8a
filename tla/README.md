# A verification project for the TCP of tcp-fusion

The repository is the ns-3 network simulator (3.39) with one algorithm of its
own: **TCP-Fusion** (`src/src/internet/model/tcp-fusion.{h,cc}`), a congestion
control that combines delay-based growth, a bandwidth estimate and a Reno
"shadow" window, and the scenarios under `src/scratch` that measure it. What
runs when it runs is ns-3's TCP: a socket (`TcpSocketBase`), its two buffers and
the pluggable congestion control. That is what this project models. Paths below
are relative to `src/src/internet/model/` unless they say otherwise.

## 1. The system

Everything runs in one thread: the simulator executes one event (a packet
arrives, a timer fires, the application writes or reads) to its end before the
next. What is hard is therefore not the interleaving of threads but the *order of
events*: segments and ACKs that are lost, repeated and reordered, timers that
race late answers, and algorithms that are switched on and off by a state machine
with five states and some twenty transitions.

| component | state | operations | correct when |
|---|---|---|---|
| Receive buffer (`tcp-rx-buffer`) | stored packets by sequence number, RCV.NXT, FIN flag, two byte counters, SACK list | `Add`, `Extract`, `SetFinSequence`, `GetSackList` | bytes are stored once and under their own number; RCV.NXT is the first missing byte; counters equal contents; SACK blocks name stored bytes only; memory is bounded by the window |
| Transmit buffer (`tcp-tx-buffer`, `tcp-tx-item`) | sent and unsent items, flags sacked/lost/retrans, four counters | `Add`, `CopyFromSequence`, `Update`, `DiscardUpTo`, `NextSeg`, `SetSentListLost` | counters equal flags; nothing SACKed is sent again; something lost is always found |
| Congestion state machine (`tcp-socket-base`) | `m_congState`, `m_recover`, `m_recoverActive`, `m_dupAckCount`, windows | `ReceivedAck`, `ProcessAck`, `DupAck`, `EnterRecovery`, `EnterCwr`, `ReTxTimeout`, `SendPendingData` | a loss is repaired once, the window is cut once for it, and every state is left |
| TCP-Fusion (`tcp-fusion`) | RTT minima and counts, mode flag, cycle end, shadow window, bandwidth estimate, one timer | `PktsAcked`, `EstimateBW`, `CongestionStateSet`, `IncreaseWindow`, `GetSsThresh` | no decision without a measurement; off while a loss is repaired; loss never raises a window; the shadow window is a floor |
| NewReno (`tcp-congestion-ops`) | none of its own | `SlowStart`, `CongestionAvoidance`, `IncreaseWindow` | growth |
| Connection state machine (`tcp-socket-base`) | `m_state`, SYN and FIN flags, retry counters | handshake, close, `PeerClose`, `LastAckTimeout`, `TimeWait` | both ends close, nobody waits for ever |
| Flow control, timers and probes | RTO, persist, delayed-ACK and last-ACK events, the window on both sides | `UpdateWindowSize`, `AdvertisedWindowSize`, `PersistTimeout`, `DelAckTimeout` | the sender keeps to the window whatever ACKs it goes by; a timer is pending while something is owed |
| Recovery algorithms (`tcp-recovery-ops`, `tcp-prr-recovery`) | PRR counters | `EnterRecovery`, `DoRecovery`, `ExitRecovery`, `UpdateBytesSent` | never divides by zero; the window stays within a segment of what was outstanding at the loss, or the threshold |
| RTT estimator, rate sampling | smoothed values, per-packet stamps | `Measurement`, `SkbDelivered` | only unambiguous samples (Karn) |
| Segments, demultiplexing, IP, queues, devices, other congestion controls, other ns-3 modules | | | the channel and the environment here |

How they interact: `TcpSocketBase::DoForwardUp` receives a segment, which
`ReceivedAck` applies to the transmit buffer (SACK blocks, then the cumulative
ACK), to the congestion state machine (`ProcessAck`) and through it to the
congestion control (direct calls `PktsAcked`, `CongestionStateSet`,
`IncreaseWindow`, `GetSsThresh`); its payload goes to `ReceivedData` and the
receive buffer. `SendPendingData` closes every ACK. Two things run later, as
simulator events: the retransmission timer and TCP-Fusion's bandwidth
measurement. The socket and the algorithm share one structure,
`TcpSocketState` (`m_tcb`), which both write.

## 2. Modules

| module | what it is |
|---|---|
| `TcpByteStream` | abstract: what a receiver promises its application |
| `TcpRxBuffer` | the receive buffer and the checks of the socket before it; implements `TcpByteStream` |
| `TcpTxBuffer` | the transmit buffer and SACK scoreboard, as operators on a buffer |
| `TcpSender` | the sending half of a socket over `TcpTxBuffer`: fast retransmit, recovery, retransmission timer |
| `TcpPrrRecovery` | `TcpSender` with its window set by Proportional Rate Reduction in recovery |
| `TcpFlowControl` | `TcpSender` against a receiver that reads late: windows, delayed ACKs, persist timer |
| `TcpFusion` | TCP-Fusion over NewReno, inside the congestion state machine of the socket |
| `TcpConnection` | two sockets that open and close a connection |
| `TcpRxBuffer_proofs` | theorems about the receive buffer: positions, RCV.NXT, the offered edge, the refinement |
| `TcpRxReports_proofs` | theorems about what it reports: counters, memory, SACK list, end of stream |
| `TcpTxBuffer_proofs` | lemmas about every operator of the scoreboard |
| `TcpSender_proofs` | theorems about the sender, from the lemmas before |
| `TcpPrrRecovery_proofs` | theorems about the sender under Proportional Rate Reduction |
| `TcpFlowControl_proofs` | theorem about the receiver's window |
| `TcpFusion_proofs` | theorems about TCP-Fusion |
| `TcpConnection_proofs` | theorems about opening and closing |
| `MCTcpRxBuffer` | root module of its run; also the trimming loop of `Add` as written, compared with the closed form of `TcpRxBuffer` |
| `MCTcpSender`, `MCTcpPrrRecovery`, `MCTcpFlowControl`, `MCTcpFusion`, `MCTcpConnection` | root modules of the runs |

`TcpSender` extends `TcpTxBuffer`; `TcpPrrRecovery` and `TcpFlowControl` extend
`TcpSender` and call its handlers, so that what they add is composed with the
scoreboard and the congestion states and not with an abstraction of them. The other
three stand for themselves. In all of them a handler of the socket is one step, with every
call it makes in the order of the code.

### TcpRxBuffer

A byte of the peer's stream is its position. A stored packet is a record of the
key it is stored under, its length, and the stream position of its first payload
byte; a fragment cut wrongly is visible as `src # seq`. `Add` is one action,
with the whole handler in it: trimming by the window, by what was already read,
by stored packets, replacement of embedded packets, RCV.NXT, the counters, the
FIN and the SACK list. The loop over stored packets is replaced by what it
computes (`HeadSeq`, `TailSeq`, `Embedded`), and `AddMatchesLoop` compares that
with the loop in every reachable state for every segment that can reach it.

The environment may send any piece of the stream again and again, in any order
and cut differently each time, which includes everything loss, duplication and
reordering can do. `Oversend` lets a segment reach past the offered window, as a
zero-window probe does. The SACK list keeps `MaxSackBlocks` blocks, 4 in the code
and 2 in the run, so that the limit is met in a stream of nine bytes. Sequence
numbers do not wrap.

### TcpTxBuffer and TcpSender

A buffer `b` has the bytes `una..end-1` sent and `end..tail-1` waiting. Items of the
sent list are known by their first byte (`starts`); the flags `m_sacked`,
`m_lost` and `m_retrans` are the sets of bytes under them, next to the counters
`m_sackedOut`, `m_lostOut` and `m_retrans` which the model updates where the
code does, by the tests the code makes. That the two agree is then a
property (`CountersAgree`) and not the definition. Splitting and merging of items in
`GetTransmittedSegment` and `GetPacketFromList`, which can cancel flags, is
in `Mergeable` and `CutOut`; the cached iterator `m_highestSack` is `high`.

`TcpSender` has the sending members of the socket in `sock`. Its actions are
`Send`, the arrival of a segment at the receiver with its ACK heard
(`Arrive`, and `ArriveAgain` for a copy of something older) or lost (`ArriveUnheard`), and
the timer (`ReTxTimeout`, `LastTimeout`). `flight` keeps every segment ever sent that is
not acknowledged: each may arrive at any later time, more than once, or never.
The receiver is the set of the bytes it holds and reports them in up to three
SACK blocks, in any order that starts with the newest. What is abstracted:

* the window is any of `CongWindows` each time something is sent, and in `ReTxTimeout` one
  segment; `TcpFusion` and `TcpPrrRecovery` say how it moves;
* ECN, CA_CWR and limited transmit beyond what `SendPendingData` does, pacing, and
  the values of RTT and RTO: the timer fires whenever it is scheduled;
* an ACK is not delayed or reordered here (`TcpFlowControl` does both).

### TcpPrrRecovery

`prr` has the counters of the object, `m_ssThresh` and `m_cWnd`; outside
recovery they are not read, and they are reset when recovery ends. Each ACK is a step that calls the algorithm as the
socket does: `EnterRecovery` or `DoRecovery` from `DupAck`, `DoRecovery` again
from the partial-ACK branch of `ProcessAck`, then `SendPendingData` with the window it
computed, then `UpdateBytesSent` for every segment sent. `Delivered` counts, as
`SkbDelivered` does, an item once, when it is SACKed or removed. Unsigned arithmetic is modelled where
it shows: the product wraps at `WordSize` (2^32) and the comparison of a
negative difference is unsigned (`UnsignedMax`).

### TcpFlowControl

Adds the receiver's application (`rcv.read`), the advertised window in units of the
window scale, the delayed-ACK count and its timer, and a network of up to
`MaxAcks` ACKs that are lost, repeated and overtaken. At the sender
`UpdateWindowSize` decides whose window counts, and a window of zero swaps the
retransmission timer for the persist timer, whose probe takes one byte out
of the buffer and puts it back. `LossSeen` asks about the head of the sent list, SND.UNA,
where the code asks about `m_highRxAckMark`; the two differ for a while when the ACK of a probe
beyond `m_highTxMark` was ignored. The proof of `WindowIsKept` takes either answer.

### TcpFusion

`tcb` holds what the algorithm and the state machine share, `fusion` the
object, `estimate` whether the measuring event is scheduled. Each handler is a
chain of operators on `s = [t, f]` in the order of the code: `ReceivedAck` is
`Arrived` (cumulative ACK, end of CWR, ECN echo), `DupAck` if the ACK has SACK news, the
branch of `ProcessAck` for the congestion state, and `SendPendingData`.

What is abstracted:

* Segments are whole, sequence numbers count segments, SACK is on (the default)
  and the congestion control does not have `CongControl`.
* Of the scoreboard only the set of SACKed segments is kept. Where the code asks
  it (`IsLost`, `NextSeg`) the model takes every answer it could give
  (`MaySeeLoss`, `Resendable`); what it cannot give is excluded: a segment is
  declared lost only under `RetxThresh` SACKed ones.
* The window during CWR and recovery is any member of `RecoveryWindows`, because
  the recovery algorithm is pluggable.
* Times are ticks and all comparisons between real numbers are made after
  multiplying out; `winc` is seen through the whole segments it adds, 0 to
  `MaxGrowth`. In the decrease phase the decrement lies strictly between 0 and
  1, so truncation takes exactly one segment.
* `cntRtt` saturates at 3: the code asks only whether it is above 2.
* `ReTxTimeout` has data outstanding and retries left; giving up is in
  `TcpSender` and `TcpConnection`.
* `InitialSsThresh` is above the initial window (its default is the maximum).

`m_renoCwnd` changes inside `GetSsThresh`, a getter by name, so `Reduce` returns
both the socket and the object.

### TcpConnection

`end[x]` is the socket of each end: state, the members that opening and closing
read, and for each event whether it is scheduled; `retx` says which of the
four things the one `m_retxEvent` will do when it fires (repeat a SYN, a SYN+ACK or a FIN, or
`ReTxTimeout`). `sent` is everything ever sent: any of it may arrive at any
time, again, or never. B's socket starts in LISTEN and stands for the listener and
what it forks; `Connect`, `Write`, `Close` and `ShutdownSend` happen between any two
events. `Close` may also be called in the `NotifyDataRecv` and `NotifyNormalClose` callbacks, in the middle of
the handler that made the call (`Notify`; `CallbackCloses` says which of the two, and `closes` in which
of them the application does so this time); this is what makes `PeerClose` go from FIN_WAIT_1 to CLOSING, and
`DoPeerClose` schedule `LastAckTimeout` for a socket that closed in its callback. Closing in other callbacks
(`NotifySend`, those for connections and errors) is not modelled. `ForwardUp` dispatches to a handler for each state,
written flag by flag in the order of the code. Each end writes at most one segment,
so fast retransmit, SACK and windows play no part; `Close` always finds everything
read. Without its endpoint a socket receives nothing (`NoEndPointsFound` answers for A).

## 3. Runs

Every run explores its state space to the end, except the violated ones, which stop
at the counterexample.

| run | question | bounds, and why they are enough |
|---|---|---|
| `rx` | is the stream reassembled, are memory, window, counters and SACK blocks kept, does `Add` equal its loop, is the byte stream implemented? | stream 9, window 5, segments to 5, overrun 2, two SACK blocks: embedded, straddling, repeated and overrunning segments all occur, the window moves over the stream with reads in between, and three separate holes exceed the SACK list |
| `fusion` | thresholds, shadow window, mode and measurements, over all orders of duplicates, timeouts and ECN echoes | 4 segments, dup threshold 2, RTTs {none, 1, 8}, recovery windows {0, 7}: increase, steady and decrease phases all occur, and a second loss while the first is repaired |
| `tx` | is the scoreboard exact and justified, are holes repaired first, does a timeout restart cleanly, is everything acknowledged or given up? | 8 bytes in writes of 3 and 5 with segments of 2: items of one and two bytes that merge and split; dup threshold 2; windows 2, 5, 8; with and without SACK; two retries. The receiver's window is 8, all the data, so rule 2 of `NextSeg` never meets it; `tx_window` shows what happens where it does |
| `prr` | can the algorithm divide by zero, or open the window too far? | 8 bytes in writes of 3 and 5 with segments of 2, so that short segments are among those lost; dup threshold 1, windows 2 and 7, thresholds 2 and 4, both reduction bounds, with and without SACK: recoveries with several holes, and a second one after the first |
| `flow` | does the sender keep to the window, is everything acknowledged or given up? | 5 bytes, window 3, segments of one byte, writes of 1 and 3, reads of 1 and 2, two ACKs in the network: the window closes and reopens repeatedly, with old ACKs about. One segment is in flight at a time (`CongWindows = {1}`): with more the sent data can fill the window exactly, and the transfer meets the end that `tx_window` shows |
| `conn` | do both ends open and close properly in every order? | no writer, A or B writing one segment; two SYN attempts and one retry; `Close` at any time, in both callbacks too; every pair of states the handlers distinguish is met. With both writing the space grows beyond 2.3 million states and was not explored |
| `fusion_ecn` | *violated*: TCP-Fusion is enabled in CA_OPEN | ECN on |
| `conn_lastack` | *violated*: LAST_ACK is left only when the FIN was received | no data |
| `conn_shutdown` | *violated*: after `ShutdownSend` the FIN goes when the buffer empties | A writes |
| `flow_probe` | *violated*: the persist timer has a byte to probe with | 4 bytes, window 2 |
| `flow_silly` | *violated*: what is written is acknowledged or given up | segments of 2, window 3 |
| `tx_window` | *violated*: `NextSeg` never offers an empty range of bytes | 6 bytes, window 4, segments of 2, SACK |

Deadlock is not checked: a transfer that is over, or a connection that is closed, stops.

### Fairness

The simulator runs every scheduled event that is not cancelled, and events that are
rescheduled get later times; that is what all fairness assumptions say, except for
those about the network and the application in `TcpFlowControl`.

* `fusion`: weak fairness of the scheduled `EstimateBW`. Its only `Cancel`
  immediately precedes its rescheduling.
* `tx`: `TimerFairness`, weak fairness of the retransmission timer. It is written
  out as what it leaves of a behaviour: the timer is not scheduled infinitely
  often, or a retry is taken infinitely often. Nothing is assumed of the
  network: what is never acknowledged is given up.
* `conn`: weak fairness of `RetxEvent`, `LastAckTimeout`, `TimeWaitEnds` and
  `SendPendingEvent`; none of the delayed ACK, the network or the application. So
  `Settles` says only what timers can bring about.
* `flow`: `FlowFairSpec`: the timers as above; the application reads if it can
  for ever; a segment the receiver waits for, and an ACK with news for the
  sender, arrive if they are sent again and again. Without the last two
  nothing could be promised, for a window of zero is probed without limit. `AckedOrGivenUp` does not count
  a null item as an end: the probe of `flow_probe` that finds no byte comes only when
  everything has been acknowledged, and the one of `tx_window` needs two segments in flight.

### Properties with conditions

* `NoStuckEnd` says that an event is scheduled at every end that opens, closes or has data
  unacknowledged, and at every end whose application has closed. FIN_WAIT_2 is
  excluded because the code has no timer there. The second half is not claimed of an end whose
  peer writes: data that fills the gap before a FIN takes an end that has closed back to
  CLOSE_WAIT (see `FinIsFinal`), and nothing leads on from there. Nor is it claimed after `ShutdownSend`
  alone, which may leave the FIN unsent (`conn_shutdown`).
* `FinIsFinal` excludes an end whose peer writes: a data segment that fills the gap before a
  FIN leads from `ReceivedData` to `DoPeerClose`, whatever the state (2663). So it does not
  speak of that hazard; it is about what comes late or twice, timers and callbacks.
* `ConnTypeOK` admits sequence number 4, one too high, on an ACK sent in FIN_WAIT_1 after the
  FIN was acknowledged (tcp-socket-base.cc:2752).
  It is checked with one writer at most: with both writing, an application that closes in a callback
  breaks it (below).
* `WindowBounded` has the bytes outstanding at the loss as its bound beside the
  threshold: recovery starts above the threshold and comes down in proportion, and
  retransmissions made without asking for a window come on top of it. And it allows one byte less than a
  segment beyond that, because at least a whole segment may always be sent (tcp-prr-recovery.cc:120),
  also when what is to be repaired is shorter.
* `BufferBounded` allows one overrun beyond `m_maxBuffer`, because the first
  segment into an empty buffer is not trimmed (tcp-rx-buffer.cc:162). That is all it says: it is a bound on
  memory. Of the window `AdvertisedWindowSize` asserts more (`WindowNotNegative`), which is true only of a
  peer that keeps to the window; the assertion is listed below, and the theorem `WindowStaysNotNegative` has
  that condition.
* `AckedOrGivenUp` is checked where the window is not exactly full with more to send: in `tx` the window
  is as large as all the data, in `flow` one segment is in flight at a time. `flow_silly` and `tx_window`
  show how it fails elsewhere.

### Where code and documentation disagree

The six violated runs are disagreements; PROJECT.json quotes the lines. In short: a flow that
was in CA_DISORDER at an ECN reduction continues in CA_OPEN as plain NewReno;
LAST_ACK is left on any pure ACK in sequence; `ShutdownSend` with everything in
flight never sends its FIN; the persist timer can fire with nothing to send and then
dereferences a null item; a window smaller than a segment stops a transfer for
ever; and rule 2 of `NextSeg` takes a window that is exactly full for one with room and offers a
segment of zero bytes (tcp-tx-buffer.cc:1023), for which `CopyFromSequence` returns null, which
`SendDataPacket` dereferences.

Others were met while modelling and have no run:

* `AdvertisedWindowSize` asserts that MaxRxSequence is not below NextRxSequence
  (tcp-socket-base.cc:3494-3495). A peer that overruns the window can break this: with an empty buffer and a
  window of 5, bytes 2 to 6 are stored untrimmed, and bytes 0 and 1 then move NextRxSequence to 7 and
  MaxRxSequence to 5. This TCP's own sender is not such a peer: `WindowKept` shows that it goes beyond the
  window only by the byte of a probe, which `OutOfRange` refuses as long as it lies beyond the edge.
* An ACK in CA_RECOVERY that has SACK news and is also a partial ACK is given to `DoRecovery` twice, by
  `DupAck` (1744) and at 2048, and `m_prrDelivered` counts its bytes twice, where
  src/src/internet/doc/tcp.rst:1627 says "`prrDelivered` is the total bytes delivered during recovery phase".
* When both ends write and one closes in `NotifyDataRecv`, it is in FIN_WAIT_1 when `ReceivedData` goes on
  to `DoPeerClose` (2663), which takes it to CLOSE_WAIT. There `ProcessWait` (2506) records the peer's FIN again,
  if it is repeated with a number too high, and RCV.NXT runs past the end of the stream.

* `IsHeadRetransmitted` is asked after `SetSentListLost` has cleared the flag, so each
  timeout of the same segment lowers the threshold again
  (tcp-socket-base.cc:3828).
* With Nagle's rule on, `SendPendingData` after a timeout can hold back a short last
  segment while unacknowledged data exists (3363), and no timer is left. With
  `NoDelay = FALSE` TLC finds `AckedOrGivenUp` and `RestartsFromHead` violated.
* Duplicates are counted in CA_CWR, and the assertion that a first duplicate in CA_OPEN makes the
  count 1 (1719-1725) can fail after it.
* The end of a TCP-Fusion cycle is taken from SND.NXT, which after a
  retransmission points into the outstanding data (tcp-fusion.cc:206, 257): a cycle
  may last less than a round trip.
* `m_renoCwnd` is stale when slow start or CWR set the window, so the window can
  be below what the header calls its floor (tcp-fusion.cc:240-246).
* `IncreaseWindow` truncates the window to whole segments in the increase
  and steady phases too, taking the remainder off a window the header says grows or stays.
* `UpdateSackList` merges only blocks that touch exactly; after a block was
  dropped from a full list the "isolated blocks" may be adjacent.
* A probe of a zero window with data outstanding beyond SND.NXT puts back the wrong
  item (tcp-socket-base.cc:3906, tcp-tx-buffer.cc:1261); with `WindowUnit = 2`
  `CountersAgree` fails.
* `NewAck` can restart the retransmission timer that the persist state cancelled in the
  same call (3702); harmless in the runs, since it only adds a timer.
* `prrDelivered - prrOut` is unsigned in a `std::max` (tcp-prr-recovery.cc:109), so a negative
  difference makes the SSRB limit smaller than the documentation describes; the product at
  line 96 is formed in 32 bits and wraps with large windows; and the variable
  documented as `bytesInFlight` is given the unacknowledged data, which is what keeps it
  from being zero (`MutantBegin`).
* A FIN segment whose first bytes were received before is dropped without an ACK (2626).
* A duplicate SYN in ESTABLISHED has its options and window processed and sets
  the congestion window back before it is dropped (1345-1371).

## 4. Proofs

All are checked by TLAPS for every value of the constants that the named
assumptions `RxAssumption`, `TxAssumption`, `SenderAssumption`, `PrrAssumption`, `FlowAssumption`, `FusionAssumption` and
`ConnectionAssumption` allow. These say only what the code's types and defaults say: sizes are naturals, a
segment, the duplicate threshold, the number of SYN attempts and the delayed-ACK count are
not zero, nothing of zero bytes is written, and the window the sender begins with, which is what
the peer advertised in the handshake, is not above the peer's buffer (`ReceiverWindow <= MaxBuffer`).

**Receive buffer.** `PayloadStaysInPlace`, `AckIsFirstMissing`, `OfferedEdgeStays` and
`ImplementsByteStream` follow from `RxInv`. The first two are not inductive by
themselves: `Extract` takes bytes by counting from the first stored packet, so it needs
to know that packets lie inside the stream, do not overlap, and that
`availBytes` counts the in-sequence bytes exactly. `CutSegment` is the lemma
that carries the weight: the bytes `Add` stores after trimming are those of the
segment, or of the window, that were not stored yet. The refinement maps `held`
to the payload positions in the buffer; a step that adds data is `Accept`, a
read is `Deliver`. `OfferedEdgeStays` rests on `EdgeFromDelivered`: both ways in which
`MaxRxSequence` computes the edge before a FIN give the number of bytes read plus
the window, which only grows.

What the buffer reports needs more, and `TcpRxReports_proofs` adds it in three parts.
*The byte counter*: `CountersStayExact` needs that `size` is the cardinality of the
stored bytes, which survives `Add` because what it stores is disjoint from what stays
(`CutSegment` again), and `Extract` because what it removes is a prefix. *The
edge*: `BufferStaysBounded` needs that every stored byte lies below an edge, the
window's or, for the one segment that came into an empty buffer untrimmed, one overrun
beyond it. With no overrun the same edge gives `WindowStaysNotNegative`: RCV.NXT is behind a stored
byte or behind what was read, and so not above it. *The SACK list*: `SackIsHonest` and `NewestBlockFirst` need that every block
is a range of stored bytes above RCV.NXT. They do not say that every stored byte is in a block: a
full list drops its oldest block. Merging keeps the invariant because a merged block
is the union of two that touch, and clearing because it drops a block as soon as
RCV.NXT reaches its first byte. `EndOfStreamIsComplete` needs that nothing is stored at or
beyond the FIN's number once it is known.

**Scoreboard and sender.** `SenderTypeCorrect`, `CountersStayCorrect`,
`InFlightNeverWraps`, `HeadStaysUnsacked`, `ScoreboardIsHonest`, `LostStaysJustified` and the
action properties `SackedStaysUnsent` and `RepairComesFirst` follow from one invariant,
`Kept`, of the socket between any two handlers. None of them is inductive:

* The counters are updated by item and the flags are sets of bytes. They agree only if
  items are laid end to end over the sent bytes, none longer than a segment, and a flag
  changes only where an item begins (`Sound`); then an item's size is the number of its
  bytes, and adding or taking off a whole item changes counter and set alike. Every
  operator of `TcpTxBuffer` has a lemma that it keeps `Sound`. The one that carries the
  weight is `CutIsSound`: splitting and merging in `GetPacketFromList` keeps the items
  laid end to end, because `Mergeable` never takes in an item whose flags differ
  in what is not cancelled.
* `BytesInFlight` does not wrap because SACKed and lost bytes are apart. They
  stay apart only because every operator that marks an item lost asks whether it is
  SACKed, and the head, which `UpdateLostCount` does not ask about, is never SACKed. So
  `HeadNotSacked` is part of the invariant; in the middle of an ACK it
  does not hold, and `UnsackHead` is what restores it.
* Without SACK the marks are guesses. `AddRenoSack` may SACK an item that is lost, unless
  only the head is lost (`HeadOnly`), or, after a timeout, unless everything lost is below
  `recover`, where no guess is made. `Kept` says which of the two holds in which state,
  and the lemmas of the congestion states (`EnterRecoveryKeeps`, `PartialAckKeeps`,
  `FullAckKeeps`, ...) that it moves with them.
* With SACK, `ScoreboardIsHonest` needs that what the receiver holds never shrinks, that
  blocks are runs of what it holds (`BlocksAreHeld`), and that `Inside` takes only items
  wholly in a block.
* `LostIsJustified` speaks of items, and what is marked lost is later split and merged. So the
  invariant says it of bytes (`Explained`): a lost byte was sent before the timeout, or is in the
  head, or lies below `DupAckThresh` SACKed items. Sending an item again keeps this because every
  SACKed item begins where it did, since an unsacked item takes in no SACKed one, and new items
  begin only beyond what is sent (`Recut`, `RecutExplained`); an ACK that forgets items keeps it
  because those above the new head stay (`DropExplained`). Without SACK `HeadOnly` gives it.
* `RepairFirst` compares the end of a step with its beginning, and the marks change in between. So
  `Kept` has the buffer the step found as an argument, and says (`Repaired`) that if new data has
  been sent then all that is lost has been sent again. Every handler before the first offer leaves
  the end of the sent list where it was, `NextSeg` offers new data only when no lost item is open
  (`NextSegIs`), and the sending after it marks nothing lost.

What the recursive functions compute is reached without an induction theorem. If
`SendPendingData` could end in a state that is not `Kept`, there would be a least round
after which it is not (`LeastOfNaturals`), and `RoundKeeps` refutes that round. `HighestSack`
and the clearing of the SACK list are treated likewise.

**Proportional rate reduction.** `PrrNeverDividesByZero` and `ScoreboardSoundUnderPrr`
follow from `PrrKept`: the sender's invariant, the types of the object, and that in
recovery the divisor is positive. The last needs the first two. `EnterRecovery` divides
by what is unacknowledged when the duplicate ACK is handled, `m_highTxMark` minus the
head; that is more than nothing because a duplicate comes only with data outstanding
(`AfterDupKeeps`), and no later step of the recovery writes the field. The window the algorithm
computes may be negative when more was sent than its share, which the sender's lemmas allow:
they hold for every integer window, so what `TcpSender_proofs` shows of the scoreboard
is shown here again with the window computed and not chosen.

**Flow control.** `WindowIsKept` follows from `FlowKept`. Its right edge E is `MaxRxSequence`, which
only grows, and only when the application reads (`EdgeMoves`). The argument goes round the loop:

* an ACK in the network offers `ack + wnd <= E` and reports nothing at or below `ack` (`Answer`), and
  remains true as E grows, so that a late or repeated ACK does no harm;
* at the sender `una <= highRxAck` and `highRxAck + rWnd <= E`: `UpdateWindowSize` may take the window
  of an old ACK only where it keeps this;
* `NextSeg` offers new data only up to `una + rWnd` (`OfferIs`), so each segment in flight ends at or
  before E, or is a probe of one byte (`Reaches`), and a probe beyond E is taken by the receiver
  only when E has moved past it (`Holds`).

`Kept`, on which the scoreboard theorems rest, is of no use here: the probe puts an item back and
leaves its flags behind, after which counters and flags disagree. What survives is
`Fits`: the numbers are in order and the flags lie in the buffer. Every operator of the
scoreboard has a lemma that it keeps `Fits`, every handler one that it keeps `Sane`, and
`ProbedFits` that the probe never leaves the end above where it was.

**TCP-Fusion.** `FusionTypeCorrect`, `ReductionNeverRaises`,
`ShadowFollowsThreshold`, `NeverRelapses`, `NoDelayControlInRepair` and
`CountsAreMeasured` all follow from one invariant, `Sane`. It is needed because
none of them is inductive:

* that a loss never raises a window rests on `baseRtt <= currentRtt`, which
  must survive every reset of `minRtt` (`FractionBelow`, `ThresholdBounded`);
* the shadow window is above the threshold in CA_OPEN only because it already was
  in CWR, recovery and loss, and, in CA_DISORDER, if the window is above the
  threshold; and if the algorithm is off in CA_OPEN the window must be above
  it, since NewReno slow start would cross the threshold without moving the
  shadow window.

Every operator of the chain has a lemma that it keeps `Sane` (`EnterCwrSane`,
`DupAckSane`, one for each branch of `ProcessAck`, ...), and `StepSane` composes
them along the handlers.

**Connection.** `AcknowledgedWasReceived`, `EndOfStreamComesLast`, `FinWaitTwoWasHeard` and the
action property `FinStaysFinal` follow from `ConnInv`, which relates each socket to the other
one (`Kept`) and to every segment ever sent to it (`Meant`), since any of them may still
arrive. They hold for every number of attempts and also when both ends write, which
the run `conn` is too large to explore. What makes the invariant inductive:

* *A FIN follows the data* (`FinFollowsData`). The end of the stream comes last only
  if nobody sends a FIN, or keeps a timer that will, before all that was written has
  been sent and the application can write no more. Several handlers send FINs, at different
  places, and the timer may fire in a later state.
* *A number that was acknowledged was received* needs both directions: `una` against
  the peer's RCV.NXT, every ACK on its way against the RCV.NXT of who sent it, and (`Fits`)
  what the peer can have received against what was sent. From the last it follows that
  an ACK one beyond the data answers the FIN, which is what FIN_WAIT_2 rests on.
* *FINs with a number too high.* `NewAck` moves SND.NXT past an acknowledged FIN, and in FIN_WAIT_1 a
  FIN sent again then carries that number. It is harmless to the stream because the
  peer has already received what lies below: this is the last line of `Meant`.
* *Before the handshake is over* (`Young`) no timer but that of a SYN is scheduled and all
  numbers are zero, so a segment of that time, heard later, says nothing wrong.

Each handler has a lemma (`ProcessWaitKeeps`, `PeerCloseKeeps`, `ProcessSynRcvdRests`, ...) that it
keeps the relation to the peer and takes back nothing the peer relies on (`Later`); the
step lemmas turn the two into `ConnInv'`. `FinStaysFinal` adds for each that a state after the FIN leads
to another one, or to CLOSED, if no data arrives.

`NobodyIsStuck` (`NoStuckEnd`) has a second invariant beside it, `Attended`, about one end alone: which event
is scheduled in which state. A state with a timer says little by itself, because one handler
schedules, another cancels and a third changes the state. What must be known besides is

* that the retransmission timer is not about to fire for nothing: an RTO timer without data, which
  `NewAck` leaves in FIN_WAIT_1 and CLOSING, does repeat the FIN there, and is scheduled
  nowhere else before the application has closed (`Minded`);
* that in LAST_ACK one of three events repeats the FIN: its own timer if `DoPeerClose` sent it, the
  retransmission timer if `Close` did, or the data's if the FIN went with it (`Repeats`);
* that an end which has closed and is not in a closing state has read data, or has data it has not
  sent, which takes the FIN along (`Closes`).

Each handler has a lemma that it leaves its end attended; they need the sequence numbers of `ConnInv`,
for instance that an ACK which stops the timer leaves no data unsent.

`ConnTypeCorrect` (`ConnTypeOK`) is the bound on the sequence space: RCV.NXT and
SND.NXT never pass the places of the data and the FIN, and the number of a segment is at most one higher (the
ACK named in section 3). It is not a matter of types:
each FIN repeated under a number too high would move the peer's RCV.NXT on by one if the peer took
it, and the number of repetitions has no bound. The third invariant, `AllProper`, says

* that such a FIN goes only to an end that takes none (`PastEnd`, for the sockets, and the second line
  of `Fine`, for the segments): a peer which is closed or in LAST_ACK, CLOSING or TIME_WAIT
  (`Settled`) never leaves these for a state that takes one;
* that an end which received the FIN in order is in CLOSE_WAIT or beyond (`Heeds`), so
  that the FIN is not taken twice;
* that data not yet received is repeated as data (`Repeating`) and that a FIN is sent ahead of it
  only by an end that has closed or to one that is past caring (`Excused`).

As for `ConnInv`, each handler has a lemma (`ProcessWaitSound`, `LastAckPasses`, ...) that it leaves its own end
sound and takes back nothing that the peer's half of the invariant rests on (`Firm`). The theorem assumes
`CallbackCloses = {}`: an application that closes in `NotifyDataRecv` can be led back from FIN_WAIT_1 to
CLOSE_WAIT, which is not settled, and with both ends writing the bound fails (section 3). The other
theorems of this module need no such assumption.

**Model-checked only.** `AddMatchesLoop` (a fold, whose value for every input is
an induction over data); of the sender
`RestartsFromHead` (which holds only without Nagle's rule and with windows of a
segment or more); of PRR `WindowBounded`, for which the scoreboard and the counters of the object would
have to be related through a whole recovery; `FlowTypeOK`, which is no theorem: with windows told in units of two
bytes the probe's mark on an item that is put back is counted out once more than in, and TLC finds
`retransOut` below zero (with `WindowUnit = 1`, the run's, it finds none); and `MeasurementEnds`, `AckedOrGivenUp` and `Settles`:
liveness under fairness is beyond the prover, as is ENABLED.

## 5. Not modelled

Of the transport: pacing, the negotiation of window scaling (its unit is
`WindowUnit`), timestamps, header formats, simultaneous open, a
`Close` with unread data or in other callbacks than `NotifyDataRecv` and `NotifyNormalClose`, ICMP errors and IPv6, PRR during CA_CWR,
the classic recovery algorithm, sequence-number wrap, the values of the RTT
estimator, delivery-rate samples, the other congestion controls, the forking of
the algorithm for accepted connections, and the destruction of a socket with a measurement
pending (`EstimateBW` holds a raw `this`).

Of the repository: everything outside the transport. It is a complete ns-3 tree of
three quarters of a million lines, most of it upstream modules (LTE,
Wi-Fi, mesh, routing, mobility, bindings) that the repository carries unchanged and that TCP-Fusion
does not touch; to the transport they are a channel that loses, repeats,
delays and marks segments, which is what the models' environment does. The
mapped lines are therefore a small share of all the code, and the greater part of
the files TCP-Fusion runs in: `tcp-fusion.cc`, `tcp-rx-buffer.cc`,
`tcp-tx-buffer.cc`, `tcp-prr-recovery.cc` and the handlers of `tcp-socket-base.cc`.

## 6. Plan

Done: all modules above, with the proofs of section 4. Left, in this order:

1. `TcpSender` with CA_CWR and PRR during it, and with Nagle's rule beside a fixed
   expectation for it.
2. That `TcpSender` implements the congestion states of `TcpFusion`, its abstract
   choices about loss included.
