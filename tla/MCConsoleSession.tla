-------------------------- MODULE MCConsoleSession --------------------------
(***************************************************************************)
(* A small instance of ConsoleSession: two commands, three chunks.         *)
(***************************************************************************)
EXTENDS ConsoleSession

CONSTANTS c1, c2

MCCommands == {c1, c2}
=============================================================================
