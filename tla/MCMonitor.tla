----------------------------- MODULE MCMonitor -----------------------------
(* Monitor for TLC.                                                        *)
EXTENDS Monitor

\* A line more than the channel of one path holds.
TwoLines == [f \in Files |-> 2]
=============================================================================
