---------------------------- MODULE MCLocalConn ----------------------------
(* LocalConn for TLC.                                                      *)
EXTENDS LocalConn
=============================================================================
