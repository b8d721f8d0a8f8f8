--------------------------- MODULE MCReliableSend ---------------------------
(* ReliableSend for TLC.                                                   *)
EXTENDS ReliableSend
=============================================================================
