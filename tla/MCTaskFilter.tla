----------------------------- MODULE MCTaskFilter -----------------------------
(* Small instances of TaskFilter. *)
EXTENDS TaskFilter

NoIds == [l \in List |-> {}]

\* An app, and a process whose pid is the app's uid minus 0x800: its pid, looked up in a pid
\* list, has the key of the uid in the uid list of the same colour.
AppUid == 10100
AliasPid == AppUid - 2048

\* stackplz is 1; 2 runs when it starts; AliasPid is free for a fork.
MCPid == {1, 2, AliasPid}
MCUid == {0, AppUid}

Conf(ids, black, white, groups) ==
    [ids |-> ids, black |-> black, white |-> white, groups |-> groups]

\* A pid list with a refused child; uid and tid lists with a name, and one id list that meets
\* another; names on both lists, a group, and two whitelisted pids, which fill the fork map
\* unless a child comes first; more ids than common_list takes.
MCConfigs ==
    {Conf([NoIds EXCEPT !["pid_wl"] = {2}, !["pid_bl"] = {AliasPid}], {}, {}, {}),
     Conf([NoIds EXCEPT !["uid_wl"] = {AppUid}, !["tid_bl"] = {AliasPid}, !["tid_wl"] = {2}],
          {"RenderThread"}, {}, {}),
     Conf([NoIds EXCEPT !["uid_bl"] = {AppUid}, !["pid_wl"] = {2, 4}], {"RenderThread"}, {"main"},
          {"root"}),
     Conf([NoIds EXCEPT !["uid_wl"] = {0, AppUid}, !["pid_wl"] = {2, 4}], {}, {}, {})}

\* One app by its uid, beside the process AliasPid.
UidConfigs == {Conf([NoIds EXCEPT !["uid_wl"] = {AppUid}], {}, {}, {})}
AliasPids == {1, AliasPid}

\* One whitelisted pid, whose forks may have forks of their own.
ForkConfigs == {Conf([NoIds EXCEPT !["pid_wl"] = {2}], {}, {}, {})}

=============================================================================
