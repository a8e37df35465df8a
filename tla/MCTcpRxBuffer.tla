-------------------------- MODULE MCTcpRxBuffer --------------------------
(***************************************************************************)
(* The loop of TcpRxBuffer::Add as it is written, against the closed form  *)
(* TcpRxBuffer uses.                                                       *)
(***************************************************************************)
EXTENDS TcpRxBuffer

\* One round of the loop, for the stored packet p (lines 176-197)
LoopBody(acc, p) ==
  IF p.seq > acc.tail \/ End(p) <= acc.head THEN acc
  ELSE IF p.seq > acc.head /\ End(p) < acc.tail
       THEN [acc EXCEPT !.gone = @ \cup {p}]
       ELSE [acc EXCEPT !.head = IF p.seq <= acc.head THEN End(p) ELSE @,
                        !.tail = IF End(p) >= acc.tail THEN p.seq ELSE @]

\* The segment [h, t) trimmed by the window, then by each packet in key order
AddLoop(h, t) ==
  LET tail0 == IF data = {} THEN t ELSE MinOf(t, FirstSeq(data) + MaxBuffer)
      head0 == IF data = {} THEN MaxOf(h, nextRxSeq)
               ELSE MinOf(tail0, MaxOf(h, nextRxSeq))
  IN FoldLeft(LoopBody, [head |-> head0, tail |-> tail0, gone |-> {}],
              SetToSortSeq(data, LAMBDA p, q : p.seq < q.seq))

\* Every segment that can reach Add is trimmed to the same bytes, or refused,
\* by the loop and by the closed form, and replaces the same packets.
AddMatchesLoop ==
  \A h \in 0..StreamLen : \A t \in (h + 1)..StreamLen :
    (Sendable(h, t) /\ ~OutOfRange(h, t)) =>
      LET loop == AddLoop(h, t)
      IN /\ (loop.head < loop.tail) <=> (HeadSeq(h) < TailSeq(t))
         /\ loop.head < loop.tail => /\ loop.head = HeadSeq(h)
                                     /\ loop.tail = TailSeq(t)
                                     /\ loop.gone = Embedded(h, t)
=============================================================================
