------------------------------ MODULE MCStopResume ------------------------------
(* A small instance of StopResume. *)
EXTENDS StopResume

\* --kill and c at the prompt; the signal of a point with --auto; a signal to the thread; a
\* dump.
MCConfs ==
    {[signal |-> "kill", hook |-> "syscall", auto |-> FALSE, dump |-> FALSE],
     [signal |-> "point", hook |-> "uprobe", auto |-> TRUE, dump |-> FALSE],
     [signal |-> "tkill", hook |-> "uprobe", auto |-> TRUE, dump |-> FALSE],
     [signal |-> "kill", hook |-> "syscall", auto |-> TRUE, dump |-> TRUE]}

=============================================================================
