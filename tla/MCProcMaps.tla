------------------------------- MODULE MCProcMaps -------------------------------
(* Small instances of ProcMaps. *)
EXTENDS ProcMaps

\* Two segments of one library, and what is at the first address after an update of it; a
\* library with a space in its path.
MCSegs == {[path |-> "a.so", base |-> 1, off |-> 0], [path |-> "a.so", base |-> 2, off |-> 1],
           [path |-> "a.so", base |-> 1, off |-> 2], [path |-> "b c.so", base |-> 1, off |-> 0]}

MCLoaded == {s \in MCSegs : s.path = "a.so" /\ s.base = 1 /\ s.off = 0}

MCProcPath == [p \in {"a.so", "b c.so"} |-> IF p = "b c.so" THEN "b" ELSE p]

=============================================================================
