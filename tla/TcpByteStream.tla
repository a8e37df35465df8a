--------------------------- MODULE TcpByteStream ---------------------------
(***************************************************************************)
(* What the receiving half of a TCP connection promises its application:   *)
(* the bytes of the peer's stream, identified by their position, are       *)
(* handed over once, in order and without holes, and a byte that was       *)
(* accepted is never given up.  TcpRxBuffer is shown to implement it.      *)
(***************************************************************************)
EXTENDS Integers

CONSTANT StreamLen          \* bytes in the peer's stream

VARIABLES held,             \* positions accepted and not yet handed over
          delivered         \* how many bytes the application has read

streamVars == <<held, delivered>>

StreamInit == held = {} /\ delivered = 0

\* Some bytes not yet read arrive; those already held stay.
Accept(S) == held' = held \cup S /\ UNCHANGED delivered

\* The application reads the next n bytes, all of which are held.
Deliver(n) == /\ delivered .. (delivered + n - 1) \subseteq held
              /\ held' = held \ (delivered .. (delivered + n - 1))
              /\ delivered' = delivered + n

StreamNext == \/ \E S \in SUBSET (delivered .. (StreamLen - 1)) : Accept(S)
              \/ \E n \in 1..StreamLen : Deliver(n)

StreamSpec == StreamInit /\ [][StreamNext]_streamVars
=============================================================================
