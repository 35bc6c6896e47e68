------------------------------- MODULE MCDumpFile -------------------------------
(* A small instance of DumpFile: the two modules of a session without breakpoint. *)
EXTENDS DumpFile

MCModules == <<"perf", "hook">>

=============================================================================
