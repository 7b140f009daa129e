--------------------------- MODULE MCConsoleIngest ---------------------------
(* ConsoleIngest on small instances.                                       *)
EXTENDS ConsoleIngest

MCAlerts == <<"alert">>

\* A record with an id, one that is not UTF-8, one that is not JSON.
MCLines == <<"identified", "undecodable", "malformed">>

\* A record with an id, then one that is not UTF-8.
MCBadLines == <<"identified", "undecodable">>
=============================================================================
