------------------------------ MODULE MCRouter ------------------------------
(* Router for TLC: two enabled routes, one of them with two generators,    *)
(* two filters and two receivers, and a disabled route.                    *)
EXTENDS Router

MCRoutes  == {"main", "copy", "off"}
MCEnabled == {"main", "copy"}
MCInput   == [main |-> <<"tcp", "file">>, copy |-> <<"tcp">>, off |-> <<"none">>]
MCFilter  == [main |-> <<"json", "grep">>, copy |-> << >>, off |-> << >>]
MCOutput  == [main |-> <<"spool", "s3">>, copy |-> <<"spool">>, off |-> <<"s3">>]

MCGenerators == {"tcp", "file", "spool"}
MCFilterers  == {"json", "grep"}
MCReceivers  == {"spool", "s3"}

\* json marks in place and fails on the second message, grep passes the first.
MCDrops   == [json |-> {}, grep |-> {2}]
MCFails   == [json |-> {2}, grep |-> {}]
MCInPlace == {"json"}

\* One route, whose filter drops the second message.
OneRoute  == {"main"}
OneInput  == [main |-> <<"tcp">>]
OneFilter == [main |-> <<"grep">>]
OneOutput == [main |-> <<"spool">>]
=============================================================================
