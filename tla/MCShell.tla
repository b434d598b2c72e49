------------------------------- MODULE MCShell -------------------------------
(* TLC instance of the shell. *)
EXTENDS ShellProps
==============================================================================
