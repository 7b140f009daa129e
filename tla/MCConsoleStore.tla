--------------------------- MODULE MCConsoleStore ---------------------------
(* ConsoleStore on a small instance.                                       *)
EXTENDS ConsoleStore
=============================================================================
