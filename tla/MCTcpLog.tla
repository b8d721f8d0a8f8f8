------------------------------ MODULE MCTcpLog ------------------------------
(* TcpLog for TLC.                                                         *)
EXTENDS TcpLog

CONSTANTS a, b

\* One of the callers passes in two lines, the other one.
FewCalls == [c \in Callers |-> IF c = a THEN 2 ELSE 1]
=============================================================================
