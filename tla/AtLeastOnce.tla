---------------------------- MODULE AtLeastOnce -----------------------------
(***************************************************************************)
(* What ReliableSend owes its users: messages are accepted in order, first *)
(* reach the peer in that order and without gaps, and count as done only   *)
(* after that.  A message that reaches the peer again is a stuttering step.*)
(***************************************************************************)
EXTENDS Integers

CONSTANT MaxMsgs   \* bound: number of messages

VARIABLES accepted, delivered, acked

vars == <<accepted, delivered, acked>>

\* m is the message that comes after the prefix S.
Follows(m, S) == S = 1 .. m - 1

Init == accepted = {} /\ delivered = {} /\ acked = {}

Accept ==
  \E m \in 1 .. MaxMsgs :
    /\ Follows(m, accepted)
    /\ accepted' = accepted \cup {m}
    /\ UNCHANGED <<delivered, acked>>

Deliver ==
  \E m \in accepted :
    /\ Follows(m, delivered)
    /\ delivered' = delivered \cup {m}
    /\ UNCHANGED <<accepted, acked>>

Confirm ==
  \E m \in delivered :
    /\ Follows(m, acked)
    /\ acked' = acked \cup {m}
    /\ UNCHANGED <<accepted, delivered>>

Next == Accept \/ Deliver \/ Confirm

Spec == Init /\ [][Next]_vars
=============================================================================
