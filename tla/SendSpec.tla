------------------------------ MODULE SendSpec ------------------------------
(***************************************************************************)
(* What a cypress.Send promises to the owner of its requests, without the  *)
(* window, the buffers and the goroutines: messages are resolved once,     *)
(* oldest first, an Ack only follows the peer's decoding, and closing      *)
(* nacks whatever is unresolved, at once.  The model of ReliableSend       *)
(* composes its connections from this specification.                       *)
(***************************************************************************)
EXTENDS Integers

CONSTANT MaxMsgs   \* bound: number of Send calls

VARIABLES sent, acked, nacked, delivered, closed

vars == <<sent, acked, nacked, delivered, closed>>

Unresolved == (1 .. sent) \ (acked \cup nacked)

Init == sent = 0 /\ acked = {} /\ nacked = {} /\ delivered = 0 /\ closed = FALSE

\* A Send on a closed Send is nacked on the spot.
Submit ==
  /\ sent < MaxMsgs
  /\ sent' = sent + 1
  /\ nacked' = IF closed THEN nacked \cup {sent + 1} ELSE nacked
  /\ UNCHANGED <<acked, delivered, closed>>

\* The peer decodes in order; what it decoded late is still decoded.
Deliver ==
  /\ delivered < sent
  /\ delivered' = delivered + 1
  /\ UNCHANGED <<sent, acked, nacked, closed>>

Ack(m) ==
  /\ ~closed
  /\ m <= delivered
  /\ \A u \in Unresolved : m <= u
  /\ acked' = acked \cup {m}
  /\ UNCHANGED <<sent, nacked, delivered, closed>>

CloseSend ==
  /\ ~closed
  /\ closed' = TRUE
  /\ nacked' = nacked \cup Unresolved
  /\ UNCHANGED <<sent, acked, delivered>>

Next == Submit \/ Deliver \/ CloseSend \/ \E m \in Unresolved : Ack(m)

Spec == Init /\ [][Next]_vars
=============================================================================
