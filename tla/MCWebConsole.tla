---------------------------- MODULE MCWebConsole ----------------------------
(* WebConsole on a small instance.                                         *)
EXTENDS WebConsole

\* One admin logged in at two browsers before the process restarted.
MCFirstCookies == [b \in Browsers |-> [user |-> "ann", csrf |-> 1]]
MCEnvPair == <<"tE", "cE">>
=============================================================================
