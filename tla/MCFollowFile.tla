---------------------------- MODULE MCFollowFile ----------------------------
(* FollowFile for TLC.                                                     *)
EXTENDS FollowFile
=============================================================================
