---------------------------- MODULE MCSyscallTrace ----------------------------
(* Small instances of SyscallTrace. *)
EXTENDS SyscallTrace, TLC

\* openat may be filtered by its path, execve loses its number when it succeeds, and there is
\* no argument table for gettid.
MCPoints == {"openat", "execve", "close"}
MCSys == MCPoints \cup {"gettid"}

Conf(all, syscall, no_syscall, exit_filtered, cap) ==
    [all |-> all, syscall |-> syscall, no_syscall |-> no_syscall,
     exit_filtered |-> exit_filtered, regs_cap |-> cap]

\* -s openat,execve; the same with a name that is refused again, and fewer
\* entries than threads; everything but close, with a filter on return.
MCConfigs ==
    {Conf(FALSE, {"openat", "execve"}, {}, {}, 2),
     Conf(FALSE, {"openat", "execve", "close"}, {"close"}, {}, 1),
     Conf(TRUE, {}, {"close"}, {"openat"}, 2)}

OneConfig == {Conf(FALSE, {"openat", "close"}, {}, {}, 1)}

Symmetry == Permutations(Tid)

=============================================================================
