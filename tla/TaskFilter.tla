------------------------------- MODULE TaskFilter -------------------------------
(*****************************************************************************)
(* Which threads the kernel side of stackplz reports.                        *)
(*                                                                           *)
(* User space attaches the BPF programs first and fills their maps           *)
(* afterwards, one update at a time (MSyscall.start, updateFilter).  While   *)
(* it does, and forever after, threads fork, exit, change their name or uid  *)
(* and reuse each other's numbers; sched_process_fork extends                *)
(* child_parent_map, and should_trace (common/filtering.h) decides from the  *)
(* maps alone whether an event of the current thread is reported.            *)
(*                                                                           *)
(* All id lists share the one map common_list: the key of an id is the start *)
(* of its list plus the id (common/consts.h, util/helper.go).                *)
(*                                                                           *)
(* The last three variables are history: no code keeps them.  They say which *)
(* processes descend from a whitelisted pid, whatever the maps hold, so that *)
(* the properties need not take the fork map's word for it.                  *)
(*****************************************************************************)
EXTENDS Naturals, FiniteSets

CONSTANTS
    Pid,            \* thread and process numbers of the pid namespace, without 0
    Uid,            \* user ids
    Comm,           \* thread names
    Configs,        \* command lines the tracer may be started with
    SelfPid,        \* process id of stackplz
    Boot,           \* processes alive when the programs are attached
    Width,          \* distance between the starts of two lists: 0x400
    ListCap,        \* max_entries of common_list: 1024
    ForkCap,        \* max_entries of child_parent_map: 512
    NameCap         \* max_entries of thread_filter: 40

\* The six id lists of the command line, in the order of their starts.
List == {"uid_wl", "uid_bl", "pid_wl", "pid_bl", "tid_wl", "tid_bl"}

Group == {"root", "system", "shell", "app", "iso"}

\* What Parse_Idlist, Parse_Namelist and the package names leave in ModuleConfig.
Config == [ids : [List -> SUBSET Nat], black : SUBSET Comm, white : SUBSET Comm,
           groups : SUBSET Group]

ASSUME FilterAssumption ==
    /\ Pid \subseteq Nat \ {0}
    /\ Uid \subseteq Nat
    /\ Configs \subseteq Config
    /\ Boot \subseteq Pid
    /\ SelfPid \in Boot
    /\ \A c \in Configs : IsFiniteSet(c.ids["pid_wl"])
    /\ Width \in Nat
    /\ ListCap \in Nat
    /\ ForkCap \in Nat
    /\ NameCap \in Nat

VARIABLES
    conf,               \* the command line, fixed at start
    stage,              \* position of the loader in Stages
    todo,               \* items of the current stage that are still to be written
    failed,             \* a map update failed: the loader panicked
    stackplz_pid,       \* base_config: 0 until it is written
    thread_whitelist,   \* base_config
    common_list,        \* keys of the map shared by all id lists
    common_filter,      \* trace_uid_group, {} until common_filter is written
    thread_filter,      \* thread name -> "black" or "white"
    child_parent_map,   \* pid -> pid of its parent, itself for a seed
    point_args,         \* the argument tables are written: a handler can emit
    task,               \* live threads: number -> tgid, uid, comm
    family,             \* history: live processes forked, over any number of generations, from
                        \* a process with a whitelisted pid
    missed,             \* history: those of them whose fork the fork map does not allow for
    spawned             \* history: numbers ever given to a fork of a whitelisted number

loader == <<conf, stage, todo, failed>>
config_maps == <<stackplz_pid, thread_whitelist, common_list, common_filter,
                 thread_filter, point_args>>
kinship == <<family, missed, spawned>>
world == <<task, kinship>>
vars == <<loader, config_maps, child_parent_map, world>>

-----------------------------------------------------------------------------
(* Loading the maps: updateFilter.                                           *)

Stages == {"base", "common", "fork", "black", "white", "points", "done"} \cup List

\* Bug variant: the argument tables are written before the thread names.
FollowingPointsEarly(s) ==
    CASE s = "base"   -> "uid_wl"   [] s = "uid_wl" -> "uid_bl"
      [] s = "uid_bl" -> "pid_wl"   [] s = "pid_wl" -> "pid_bl"
      [] s = "pid_bl" -> "tid_wl"   [] s = "tid_wl" -> "tid_bl"
      [] s = "tid_bl" -> "common"   [] s = "common" -> "fork"
      [] s = "fork"   -> "points"   [] s = "points" -> "black"
      [] s = "black"  -> "white"    [] OTHER        -> "done"

\* The order of updateFilter.
Following(s) ==
    CASE s = "base"   -> "uid_wl"   [] s = "uid_wl" -> "uid_bl"
      [] s = "uid_bl" -> "pid_wl"   [] s = "pid_wl" -> "pid_bl"
      [] s = "pid_bl" -> "tid_wl"   [] s = "tid_wl" -> "tid_bl"
      [] s = "tid_bl" -> "common"   [] s = "common" -> "fork"
      [] s = "fork"   -> "black"    [] s = "black"  -> "white"
      [] s = "white"  -> "points"   [] OTHER        -> "done"

Items(s) ==
    CASE s \in List             -> conf.ids[s]
      [] s = "fork"             -> conf.ids["pid_wl"]
      [] s = "black"            -> conf.black
      [] s = "white"            -> conf.white
      [] OTHER                  -> {}

\* SYS_WHITELIST and SYS_BLACKLIST hold slots 1 and 2.
Slot == [l \in List |-> CASE l = "uid_wl" -> 3 [] l = "uid_bl" -> 4
                          [] l = "pid_wl" -> 5 [] l = "pid_bl" -> 6
                          [] l = "tid_wl" -> 7 [] l = "tid_bl" -> 8]

Key(l, id) == Slot[l] * Width + id

\* Insert or overwrite one key of a map.
Put(m, k, v) == [x \in DOMAIN m \cup {k} |-> IF x = k THEN v ELSE m[x]]

\* Bug variant: one entry is kept free.
FitsButOne(keys, k, cap) == k \in keys \/ Cardinality(keys) + 1 < cap

\* An update of a map with these keys succeeds for a key that is present, or while there is
\* room.
Fits(keys, k, cap) == k \in keys \/ Cardinality(keys) < cap

Running(s) == stage = s /\ ~failed

\* Bug variant: the next list is written with the items of this one.
ProceedSameItems == stage' = Following(stage) /\ todo' = Items(stage)

Proceed == stage' = Following(stage) /\ todo' = Items(Following(stage))

\* A stage that writes a list is over when every item is written.
NextStage ==
    /\ stage \in List \cup {"fork", "black", "white"}
    /\ ~failed
    /\ todo = {}
    /\ Proceed
    /\ UNCHANGED <<conf, failed, config_maps, child_parent_map, world>>

update_base_config ==
    /\ Running("base")
    /\ stackplz_pid' = SelfPid
    /\ thread_whitelist' = (conf.white # {})
    /\ Proceed
    /\ UNCHANGED <<conf, failed, common_list, common_filter, thread_filter,
                   point_args, child_parent_map, world>>

update_common_list(id) ==
    /\ stage \in List
    /\ ~failed
    /\ id \in todo
    /\ IF Fits(common_list, Key(stage, id), ListCap)
       THEN /\ common_list' = common_list \cup {Key(stage, id)}
            /\ todo' = todo \ {id}
            /\ UNCHANGED failed
       ELSE /\ failed' = TRUE
            /\ UNCHANGED <<common_list, todo>>
    /\ UNCHANGED <<conf, stage, stackplz_pid, thread_whitelist, common_filter,
                   thread_filter, point_args, child_parent_map, world>>

update_common_filter ==
    /\ Running("common")
    /\ common_filter' = conf.groups
    /\ Proceed
    /\ UNCHANGED <<conf, failed, stackplz_pid, thread_whitelist, common_list,
                   thread_filter, point_args, child_parent_map, world>>

update_child_parent(id) ==
    /\ Running("fork")
    /\ id \in todo
    /\ IF Fits(DOMAIN child_parent_map, id, ForkCap)
       THEN /\ child_parent_map' = Put(child_parent_map, id, id)
            /\ todo' = todo \ {id}
            /\ UNCHANGED failed
       ELSE /\ failed' = TRUE
            /\ UNCHANGED <<child_parent_map, todo>>
    /\ UNCHANGED <<conf, stage, config_maps, world>>

update_thread_filter(name) ==
    /\ stage \in {"black", "white"}
    /\ ~failed
    /\ name \in todo
    /\ IF Fits(DOMAIN thread_filter, name, NameCap)
       THEN /\ thread_filter' = Put(thread_filter, name, stage)
            /\ todo' = todo \ {name}
            /\ UNCHANGED failed
       ELSE /\ failed' = TRUE
            /\ UNCHANGED <<thread_filter, todo>>
    /\ UNCHANGED <<conf, stage, stackplz_pid, thread_whitelist, common_list, common_filter,
                   point_args, child_parent_map, world>>

\* update_sysenter_point_args in the syscall module, update_stack_config in the other.
update_point_args ==
    /\ Running("points")
    /\ point_args' = TRUE
    /\ Proceed
    /\ UNCHANGED <<conf, failed, stackplz_pid, thread_whitelist, common_list,
                   common_filter, thread_filter, child_parent_map, world>>

Load ==
    \/ NextStage
    \/ update_base_config
    \/ update_common_filter
    \/ update_point_args
    \/ \E id \in UNION {conf.ids[l] : l \in List} :
          update_common_list(id) \/ update_child_parent(id)
    \/ \E name \in conf.black \cup conf.white : update_thread_filter(name)

-----------------------------------------------------------------------------
(* The traced world, and the handler of sched_process_fork.                  *)

\* Bug variant: key and value are swapped.
ForkSwapped(parent, child) ==
    child_parent_map' =
       IF /\ parent \in DOMAIN child_parent_map
          /\ child_parent_map[parent] = parent
          /\ Fits(DOMAIN child_parent_map, child, ForkCap)
       THEN Put(child_parent_map, parent, child)
       ELSE child_parent_map

\* tracepoint__sched__sched_process_fork: parent is the forking thread.
sched_process_fork(parent, child) ==
    child_parent_map' =
       IF /\ parent \in DOMAIN child_parent_map
          /\ child_parent_map[parent] = parent
          /\ Fits(DOMAIN child_parent_map, child, ForkCap)
       THEN Put(child_parent_map, child, parent)
       ELSE child_parent_map

Whitelisted == conf.ids["pid_wl"]

\* The fork of a number that is itself on the pid list and was not handed out to a fork
\* before, when its entry is written and the numbers handed out so far leave room.
InTime(parent, child) ==
    /\ parent \in Whitelisted \ spawned
    /\ \/ stage \in {"black", "white", "points", "done"}
       \/ stage = "fork" /\ parent \notin todo
    /\ Cardinality(Whitelisted \cup spawned \cup {child}) <= ForkCap

\* The history of a fork.
Relate(parent, child, thread) ==
    LET kin == ~thread /\ task[parent].tgid \in Whitelisted \cup family
    IN  /\ family' = IF kin THEN family \cup {child} ELSE family
        /\ missed' = IF kin /\ ~InTime(parent, child) THEN missed \cup {child} ELSE missed
        /\ spawned' = IF parent \in Whitelisted THEN spawned \cup {child} ELSE spawned

\* A new thread, or a new process, under a number no live thread has.
Fork(parent, child, thread) ==
    /\ parent \in DOMAIN task
    /\ child \notin DOMAIN task
    /\ task' = Put(task, child,
                   [task[parent] EXCEPT !.tgid = IF thread THEN @ ELSE child])
    /\ sched_process_fork(parent, child)
    /\ Relate(parent, child, thread)
    /\ UNCHANGED <<loader, config_maps>>

Without(f, S) == [x \in DOMAIN f \ S |-> f[x]]

\* A thread that is not the leader ends, or the whole process does; no handler runs.
Exit(t) ==
    /\ t \in DOMAIN task
    /\ task[t].tgid # SelfPid
    /\ task' = IF task[t].tgid = t
               THEN Without(task, {u \in DOMAIN task : task[u].tgid = t})
               ELSE Without(task, {t})
    /\ family' = family \ {t}
    /\ missed' = missed \ {t}
    /\ UNCHANGED <<loader, config_maps, child_parent_map, spawned>>

\* prctl(PR_SET_NAME), by the thread or by another through /proc.
Rename(t, name) ==
    /\ t \in DOMAIN task
    /\ task' = [task EXCEPT ![t].comm = name]
    /\ UNCHANGED <<loader, config_maps, child_parent_map, kinship>>

SetUid(t, uid) ==
    /\ t \in DOMAIN task
    /\ task' = [task EXCEPT ![t].uid = uid]
    /\ UNCHANGED <<loader, config_maps, child_parent_map, kinship>>

World ==
    \/ \E parent, child \in Pid, thread \in BOOLEAN : Fork(parent, child, thread)
    \/ \E t \in Pid : Exit(t)
    \/ \E t \in Pid, name \in Comm : Rename(t, name)
    \/ \E t \in Pid, uid \in Uid : SetUid(t, uid)

Task == [tgid : Pid, uid : Uid, comm : Comm]

Init ==
    /\ conf \in Configs
    /\ stage = "base" /\ todo = {} /\ failed = FALSE
    /\ stackplz_pid = 0
    /\ thread_whitelist = FALSE
    /\ common_list = {}
    /\ common_filter = {}
    /\ thread_filter = [name \in {} |-> "black"]
    /\ child_parent_map = [pid \in {} |-> pid]
    /\ point_args = FALSE
    /\ \E u \in [Boot -> Uid], c \in [Boot -> Comm] :
          task = [p \in Boot |-> [tgid |-> p, uid |-> u[p], comm |-> c[p]]]
    /\ family = {} /\ missed = {} /\ spawned = {}

Next == Load \/ World

Spec == Init /\ [][Next]_vars

\* updateFilter is straight-line code of the starting goroutine.
FairSpec == Spec /\ WF_vars(Load)

-----------------------------------------------------------------------------
(* should_trace.                                                             *)

UidOf(g) == CASE g = "root"   -> {0}
              [] g = "system" -> {1000}
              [] g = "shell"  -> {2000}
              [] g = "app"    -> 10000..19999
              [] g = "iso"    -> 99000..99999

Listed(l, id) == Key(l, id) \in common_list

Named(t) == task[t].comm \in DOMAIN thread_filter

\* Bug variant: stackplz is recognised by its thread id.
should_trace_by_tid(t) ==
    LET pid == task[t].tgid
    IN  /\ stackplz_pid # t
        /\ thread_whitelist => Named(t)
        /\ Named(t) => thread_filter[task[t].comm] # "black"
        /\ \/ Named(t)
           \/ Listed("tid_wl", t)
           \/ Listed("pid_wl", pid)
           \/ Listed("uid_wl", task[t].uid)
           \/ \E g \in common_filter : task[t].uid \in UidOf(g)

\* The verdict of should_trace on an event of thread t, in the order of its returns.
should_trace(t) ==
    LET pid == task[t].tgid
        uid == task[t].uid
    IN  /\ stackplz_pid # pid
        /\ thread_whitelist => Named(t)
        /\ Named(t) => thread_filter[task[t].comm] # "black"
        /\ \/ Named(t)
           \/ /\ ~Listed("tid_bl", t)
              /\ \/ Listed("tid_wl", t)
                 \/ /\ ~Listed("pid_bl", pid)
                    /\ \/ Listed("pid_wl", pid)
                       \/ pid \in DOMAIN child_parent_map
                       \/ /\ ~Listed("uid_bl", uid)
                          /\ \/ Listed("uid_wl", uid)
                             \/ \E g \in common_filter : uid \in UidOf(g)

-----------------------------------------------------------------------------
(* What the command line asks for: five levels, the first one that has an    *)
(* opinion decides, and refuses before it accepts.                           *)

Level == 1..5

\* Level i refuses thread t.
Refused(t, i) ==
    \/ i = 1 /\ task[t].tgid = SelfPid
    \/ i = 2 /\ task[t].comm \notin conf.white
             /\ (conf.white # {} \/ task[t].comm \in conf.black)
    \/ i = 3 /\ t \in conf.ids["tid_bl"]
    \/ i = 4 /\ task[t].tgid \in conf.ids["pid_bl"]
    \/ i = 5 /\ task[t].uid \in conf.ids["uid_bl"]

\* Level i accepts thread t, if it does not refuse it; kin says whether t's process counts as
\* a fork of a whitelisted pid.
Accepted(t, i, kin) ==
    \/ i = 2 /\ task[t].comm \in conf.white
    \/ i = 3 /\ t \in conf.ids["tid_wl"]
    \/ i = 4 /\ (kin \/ task[t].tgid \in Whitelisted)
    \/ i = 5 /\ \/ task[t].uid \in conf.ids["uid_wl"]
                \/ \E g \in conf.groups : task[t].uid \in UidOf(g)

Wanted(t, kin) ==
    \E i \in Level : /\ Accepted(t, i, kin)
                     /\ ~Refused(t, i)
                     /\ \A j \in Level : j < i => ~Accepted(t, j, kin) /\ ~Refused(t, j)

\* How process p may be treated: as the fork it is, as the stranger it is, or either way when
\* the fork map missed it or its number was once given to a fork.
Standing(p) ==
    IF p \in family \ missed         THEN {TRUE}
    ELSE IF p \notin family \cup spawned THEN {FALSE}
    ELSE BOOLEAN

\* The id of thread t that is looked up in list l.
LookedUp(t, l) ==
    CASE l \in {"tid_wl", "tid_bl"} -> t
      [] l \in {"pid_wl", "pid_bl"} -> task[t].tgid
      [] l \in {"uid_wl", "uid_bl"} -> task[t].uid

\* One of the six lookups for thread t hits the key of an item of another list: the ids are
\* further apart than the starts of the lists.
Aliased(t) ==
    \E l, r \in List : /\ l # r
                       /\ \E i \in conf.ids[r] : Key(l, LookedUp(t, l)) = Key(r, i)

-----------------------------------------------------------------------------
(* Properties.                                                               *)

\* Every variable keeps its type, and the loader only ever holds items of its own stage.
TypeOK ==
    /\ conf \in Configs
    /\ stage \in Stages /\ failed \in BOOLEAN
    /\ todo \subseteq Items(stage)
    /\ stackplz_pid \in {0, SelfPid}
    /\ thread_whitelist \in BOOLEAN
    /\ common_list \subseteq Nat
    /\ common_filter \subseteq Group
    /\ DOMAIN thread_filter \subseteq Comm
    /\ thread_filter \in [DOMAIN thread_filter -> {"black", "white"}]
    /\ DOMAIN child_parent_map \subseteq Nat
    /\ child_parent_map \in [DOMAIN child_parent_map -> Nat]
    /\ point_args \in BOOLEAN
    /\ DOMAIN task \subseteq Pid
    /\ task \in [DOMAIN task -> Task]
    /\ missed \subseteq family /\ family \subseteq {p \in DOMAIN task : task[p].tgid = p}
    /\ spawned \subseteq Pid

\* stackplz never reports itself, not even while its own maps are half written: base_config
\* is written before anything that could let a thread pass should_trace.
SelfNeverTraced ==
    \A t \in DOMAIN task : task[t].tgid = SelfPid => ~should_trace(t)

\* From the first moment a handler finds argument tables and can emit an event, should_trace
\* decides as the command line asks, although it looks ids up in one shared map that was
\* filled list by list while the programs were already running.  A process forked in time
\* from a whitelisted pid is treated as such and a process that has nothing to do with one is
\* not, over all forks, exits and reused numbers; the two cases in between, where the fork map
\* loses a descendant or knows the number of a dead one, are those of Standing.  It says
\* nothing of a thread whose ids meet another list's range, which ListsDoNotInterfere refutes.
PassedMeansWanted ==
    point_args => \A t \in DOMAIN task :
        ~Aliased(t) => \E kin \in Standing(task[t].tgid) : should_trace(t) <=> Wanted(t, kin)

\* Once the maps are written, no step of any other thread changes the verdict on a thread
\* that keeps its name and uid: sys_enter and sys_exit of one call see the same verdict.
VerdictIsStable ==
    [][point_args => \A t \in DOMAIN task \cap DOMAIN task' :
          task'[t] = task[t] => should_trace(t)' = should_trace(t)]_vars

\* Children of the first seeds fill the fork map before the last seed is written.
ForkBurst ==
    /\ stage = "fork" /\ failed
    /\ Cardinality(DOMAIN child_parent_map) = ForkCap
    /\ DOMAIN child_parent_map \ conf.ids["pid_wl"] # {}

\* The command line has more entries than a map has room for.
Overlong ==
    \/ Cardinality(UNION {{Key(l, id) : id \in conf.ids[l]} : l \in List}) > ListCap
    \/ Cardinality(Whitelisted) > ForkCap
    \/ Cardinality(conf.black \cup conf.white) > NameCap

\* updateFilter comes to its end, unless an update fails and the loader panics; and that
\* happens only to a command line that has too many entries for a map, or to a whitelisted
\* pid after a burst of forks.
LoadingEnds == <>(stage = "done" \/ ForkBurst \/ (failed /\ Overlong))

(* What a comment in the source says and the code does not do.               *)

\* maps.h:37-38: "give them an offset, so they lie in different ranges and do not
\* interfere": whatever is looked up in a list is found only if it was put there.
ListsDoNotInterfere ==
    /\ \A t \in DOMAIN task, l \in {"tid_wl", "tid_bl"} :
          Listed(l, t) => t \in conf.ids[l]
    /\ \A t \in DOMAIN task, l \in {"pid_wl", "pid_bl"} :
          Listed(l, task[t].tgid) => task[t].tgid \in conf.ids[l]
    /\ \A t \in DOMAIN task, l \in {"uid_wl", "uid_bl"} :
          Listed(l, task[t].uid) => task[t].uid \in conf.ids[l]

\* README.md:13 "traces the processes produced by fork", syscall.c:27-34 "the processes that a
\* single given pid produces", and syscall.c:53 "in theory this branch is not reached": once
\* the maps are written, what a process of a whitelisted pid's family forks is traced like the
\* process itself.
ForksAreTraced ==
    [][\A parent, child \in Pid :
          /\ point_args
          /\ Fork(parent, child, FALSE)
          /\ task[parent].tgid \in Whitelisted \cup family
          /\ should_trace(parent)
          => should_trace(child)']_vars

=============================================================================
