----------------------------- MODULE MCUprobeTrace -----------------------------
(* Small instances of UprobeTrace. *)
EXTENDS UprobeTrace, TLC

\* open has an exit offset, read a uretprobe, puts neither; or read has both; and the map
\* has room for two threads that call both, or for less.
MCFunc == {"open", "read", "puts"}

Probes(read) == [f \in MCFunc |-> CASE f = "open" -> {"exit"} [] f = "read" -> read
                                     [] f = "puts" -> {}]

MCConfigs == {[probes |-> Probes({"ret"}), regs_cap |-> 4],
              [probes |-> Probes({"exit", "ret"}), regs_cap |-> 2]}

Symmetry == Permutations(Tid)

=============================================================================
