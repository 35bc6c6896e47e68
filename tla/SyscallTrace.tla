------------------------------ MODULE SyscallTrace ------------------------------
(*****************************************************************************)
(* How the enter and the exit of one system call become two events that      *)
(* belong together.                                                          *)
(*                                                                           *)
(* raw_syscalls_sys_enter stores the registers of the call in ctx_regs_map   *)
(* under the thread id; raw_syscalls_sys_exit takes them out again, because  *)
(* the arguments are gone by then.  Between the two, other threads use the   *)
(* same map, user space may still be filling the tables both handlers look   *)
(* at, the call may change the very attributes should_trace decides from,    *)
(* may be killed, or may come back without its number (the kernel erases it  *)
(* in execve and rt_sigreturn).                                              *)
(*****************************************************************************)
EXTENDS Naturals, FiniteSets

CONSTANTS
    Tid,            \* thread numbers
    Sys,            \* system calls
    Points,         \* those with argument tables: SysCallConf.PointArgs
    Configs,        \* command lines, and sizes of ctx_regs_map
    Filtered,       \* calls whose arguments carry a filter: read_args may set skip_flag
    Forgets,        \* calls the kernel may return from without their number
    MaxLive         \* threads alive at once

\* all, syscall and no_syscall are the options -s and --no-syscall; exit_filtered the calls
\* whose arguments are filtered on return too; regs_cap is max_entries of ctx_regs_map: 1024.
Config == [all : BOOLEAN, syscall : SUBSET Points, no_syscall : SUBSET Points,
           exit_filtered : SUBSET Sys, regs_cap : Nat]

ASSUME SyscallAssumption ==
    /\ Points \subseteq Sys
    /\ Configs \subseteq Config
    /\ {"user", "dead"} \cap Sys = {}
    /\ IsFiniteSet(Tid)
    /\ MaxLive \in Nat

VARIABLES
    conf,                   \* the command line, fixed at start
    stage,                  \* the table updateFilter is writing
    todo,                   \* its items that are still missing
    sysenter_point_args,
    sysexit_point_args,
    common_list,            \* its ranges SYS_WHITELIST and SYS_BLACKLIST
    call,                   \* what a thread does: a system call, "user" or "dead"
    traced,                 \* the verdict of should_trace on it
    ctx_regs_map,           \* tid -> flag, and how the call it was saved by ended
    entered,                \* the enter event of the current call was submitted
    course,                 \* what happened around the current call: see Course
    event                   \* the last event submitted

tables == <<conf, stage, todo, sysenter_point_args, sysexit_point_args, common_list>>
report == <<entered, course, event>>
vars == <<tables, call, traced, ctx_regs_map, report>>

\* Parse_Syscall: SysBlacklist is taken out of SysWhitelist.
White == (IF conf.all THEN Points ELSE conf.syscall) \ conf.no_syscall
Black == conf.no_syscall

-----------------------------------------------------------------------------
(* updateFilter, from the argument tables on.                                *)

Stages == {"enter", "exit", "white", "black", "done"}

\* Bug variant: the exit tables are written after the lists.
FollowingExitLast(s) == CASE s = "enter" -> "white" [] s = "white" -> "black"
                          [] s = "black" -> "exit"  [] OTHER       -> "done"

Following(s) == CASE s = "enter" -> "exit"  [] s = "exit" -> "white"
                  [] s = "white" -> "black" [] OTHER      -> "done"

Items(s) == CASE s \in {"enter", "exit"} -> Points
              [] s = "white"             -> White
              [] s = "black"             -> Black
              [] s = "done"              -> {}

\* Bug variant: the items of the last table are written to the next one.
NextStageSameItems ==
    /\ stage # "done" /\ todo = {}
    /\ stage' = Following(stage)
    /\ todo' = Items(stage)
    /\ UNCHANGED <<conf, sysenter_point_args, sysexit_point_args, common_list>>
    /\ UNCHANGED <<call, traced, ctx_regs_map, report>>

NextStage ==
    /\ stage # "done" /\ todo = {}
    /\ stage' = Following(stage)
    /\ todo' = Items(Following(stage))
    /\ UNCHANGED <<conf, sysenter_point_args, sysexit_point_args, common_list>>
    /\ UNCHANGED <<call, traced, ctx_regs_map, report>>

WriteItem(nr) ==
    /\ nr \in todo
    /\ todo' = todo \ {nr}
    /\ sysenter_point_args' = sysenter_point_args \cup (IF stage = "enter" THEN {nr} ELSE {})
    /\ sysexit_point_args' = sysexit_point_args \cup (IF stage = "exit" THEN {nr} ELSE {})
    /\ common_list' = [common_list EXCEPT !.white = @ \cup (IF stage = "white" THEN {nr} ELSE {}),
                                          !.black = @ \cup (IF stage = "black" THEN {nr} ELSE {})]
    /\ UNCHANGED <<conf, stage, call, traced, ctx_regs_map, report>>

-----------------------------------------------------------------------------
(* The map of registers.                                                     *)

\* A call may begin before the last table is written, or be under way while the verdict of
\* should_trace on its thread changes.
Course == {"steady", "early", "changed"}

Beginning == IF stage = "done" THEN "steady" ELSE "early"

\* How the call ended that saved an entry: not yet, without reaching sys_exit with its
\* number, or by an ordinary return.
Ending == {"running", "lost", "returned", "returned unsteady"}

save_regs(t, flag) ==
    IF t \in DOMAIN ctx_regs_map \/ Cardinality(DOMAIN ctx_regs_map) < conf.regs_cap
    THEN [u \in DOMAIN ctx_regs_map \cup {t} |->
             IF u = t THEN [flag |-> flag, call |-> "running"] ELSE ctx_regs_map[u]]
    ELSE ctx_regs_map

del_regs(t) == [u \in DOMAIN ctx_regs_map \ {t} |-> ctx_regs_map[u]]

\* The call of t is over and its entry, if there is one, stays.
Left(t, ending) ==
    [u \in DOMAIN ctx_regs_map |->
        IF u = t /\ ctx_regs_map[u].call = "running"
        THEN [ctx_regs_map[u] EXCEPT !.call = ending] ELSE ctx_regs_map[u]]

-----------------------------------------------------------------------------
(* The two handlers.                                                         *)

\* Black- and whitelist of system calls.
Selected(nr) ==
    /\ ~conf.all => nr \in common_list.white
    /\ nr \notin common_list.black

\* What a call must pass on entry before its registers are saved.
enter_filters(t, nr) == traced[t] /\ nr \in sysenter_point_args /\ Selected(nr)

\* Bug variant: the registers of a skipped call are not marked.
sys_enter_unmarked(t, nr, skip) ==
    /\ call[t] = "user"
    /\ skip => nr \in Filtered
    /\ call' = [call EXCEPT ![t] = nr]
    /\ IF enter_filters(t, nr)
       THEN /\ ctx_regs_map' = save_regs(t, 0)
            /\ entered' = [entered EXCEPT ![t] = ~skip]
            /\ event' = IF skip THEN event
                        ELSE [type |-> "enter", tid |-> t, own |-> TRUE, entered |-> TRUE,
                              course |-> Beginning]
       ELSE UNCHANGED <<ctx_regs_map, entered, event>>
    /\ course' = [course EXCEPT ![t] = Beginning]
    /\ UNCHANGED <<tables, traced>>

\* Thread t enters system call nr; skip is what read_args makes of its arguments.
sys_enter(t, nr, skip) ==
    /\ call[t] = "user"
    /\ skip => nr \in Filtered
    /\ call' = [call EXCEPT ![t] = nr]
    /\ IF enter_filters(t, nr)
       THEN /\ ctx_regs_map' = save_regs(t, IF skip THEN 1 ELSE 0)
            /\ entered' = [entered EXCEPT ![t] = ~skip]
            /\ event' = IF skip THEN event
                        ELSE [type |-> "enter", tid |-> t, own |-> TRUE, entered |-> TRUE,
                              course |-> Beginning]
       ELSE UNCHANGED <<ctx_regs_map, entered, event>>
    /\ course' = [course EXCEPT ![t] = Beginning]
    /\ UNCHANGED <<tables, traced>>

Ended(t, forgot) ==
    IF forgot THEN "lost" ELSE IF course[t] = "steady" THEN "returned" ELSE "returned unsteady"

\* The number sys_exit reads: erased by execve and rt_sigreturn.
Known(t, forgot) == ~forgot /\ call[t] \in sysexit_point_args

\* Bug variant: the flag is tested before the entry is deleted.
sys_exit_early_return(t, forgot, skip) ==
    /\ call[t] \in Sys
    /\ forgot => call[t] \in Forgets
    /\ skip => call[t] \in conf.exit_filtered
    /\ call' = [call EXCEPT ![t] = "user"]
    /\ entered' = [entered EXCEPT ![t] = FALSE]
    /\ IF traced[t] /\ Known(t, forgot) /\ t \in DOMAIN ctx_regs_map /\ ctx_regs_map[t].flag # 1
       THEN /\ ctx_regs_map' = del_regs(t)
            /\ event' = IF Selected(call[t]) /\ ~skip
                        THEN [type |-> "exit", tid |-> t, entered |-> entered[t],
                              own |-> ctx_regs_map[t].call = "running",
                              course |-> course[t]]
                        ELSE event
       ELSE /\ ctx_regs_map' = Left(t, Ended(t, forgot))
            /\ UNCHANGED event
    /\ UNCHANGED <<tables, traced, course>>

\* Thread t returns from its call, without the number of the call if it was forgotten.
sys_exit(t, forgot, skip) ==
    /\ call[t] \in Sys
    /\ forgot => call[t] \in Forgets
    /\ skip => call[t] \in conf.exit_filtered
    /\ call' = [call EXCEPT ![t] = "user"]
    /\ entered' = [entered EXCEPT ![t] = FALSE]
    /\ IF traced[t] /\ Known(t, forgot) /\ t \in DOMAIN ctx_regs_map
       THEN /\ ctx_regs_map' = del_regs(t)
            /\ event' = IF ctx_regs_map[t].flag # 1 /\ Selected(call[t]) /\ ~skip
                        THEN [type |-> "exit", tid |-> t, entered |-> entered[t],
                              own |-> ctx_regs_map[t].call = "running",
                              course |-> course[t]]
                        ELSE event
       ELSE /\ ctx_regs_map' = Left(t, Ended(t, forgot))
            /\ UNCHANGED event
    /\ UNCHANGED <<tables, traced, course>>

-----------------------------------------------------------------------------
(* The traced threads.                                                       *)

\* exit, exit_group and fatal signals: sys_exit is not reached.
Die(t) ==
    /\ call[t] # "dead"
    /\ call' = [call EXCEPT ![t] = "dead"]
    /\ entered' = [entered EXCEPT ![t] = FALSE]
    /\ ctx_regs_map' = Left(t, "lost")
    /\ UNCHANGED <<tables, traced, course, event>>

Live(c) == {t \in Tid : c[t] # "dead"}

\* The number is given to a new thread.
Birth(t, verdict) ==
    /\ call[t] = "dead"
    /\ Cardinality(Live(call)) < MaxLive
    /\ call' = [call EXCEPT ![t] = "user"]
    /\ traced' = [traced EXCEPT ![t] = verdict]
    /\ UNCHANGED <<tables, ctx_regs_map, report>>

\* prctl, setresuid, or another thread writing /proc: should_trace changes its mind, between
\* two calls or inside the call that causes it.
ChangeAttributes(t) ==
    /\ call[t] # "dead"
    /\ traced' = [traced EXCEPT ![t] = ~traced[t]]
    /\ course' = [course EXCEPT ![t] = "changed"]
    /\ UNCHANGED <<tables, call, ctx_regs_map, entered, event>>

Event == [type : {"none", "enter", "exit"}, tid : Tid, own : BOOLEAN, entered : BOOLEAN,
          course : Course]

Init ==
    /\ conf \in Configs
    /\ stage = "enter" /\ todo = Points
    /\ sysenter_point_args = {} /\ sysexit_point_args = {}
    /\ common_list = [white |-> {}, black |-> {}]
    /\ call \in [Tid -> {"user", "dead"}] /\ Cardinality(Live(call)) <= MaxLive
    /\ traced \in [Tid -> BOOLEAN]
    /\ ctx_regs_map = [t \in {} |-> [flag |-> 0, call |-> "running"]]
    /\ entered = [t \in Tid |-> FALSE]
    /\ course = [t \in Tid |-> "early"]
    /\ event \in [type : {"none"}, tid : Tid, own : {TRUE}, entered : {TRUE}, course : {"early"}]

Next ==
    \/ NextStage
    \/ \E nr \in Points : WriteItem(nr)
    \/ \E t \in Tid, nr \in Sys, skip \in BOOLEAN : sys_enter(t, nr, skip)
    \/ \E t \in Tid, forgot, skip \in BOOLEAN : sys_exit(t, forgot, skip)
    \/ \E t \in Tid : Die(t) \/ ChangeAttributes(t)
    \/ \E t \in Tid, verdict \in BOOLEAN : Birth(t, verdict)

Spec == Init /\ [][Next]_vars

-----------------------------------------------------------------------------
(* Properties.                                                               *)

\* Every variable keeps its type, and ctx_regs_map its size.
TypeOK ==
    /\ conf \in Configs
    /\ stage \in Stages /\ todo \subseteq Items(stage)
    /\ sysenter_point_args \subseteq Points /\ sysexit_point_args \subseteq Points
    /\ common_list \in [white : SUBSET Points, black : SUBSET Points]
    /\ call \in [Tid -> Sys \cup {"user", "dead"}]
    /\ traced \in [Tid -> BOOLEAN]
    /\ DOMAIN ctx_regs_map \subseteq Tid
    /\ Cardinality(DOMAIN ctx_regs_map) <= conf.regs_cap
    /\ ctx_regs_map \in [DOMAIN ctx_regs_map -> [flag : {0, 1}, call : Ending]]
    /\ entered \in [Tid -> BOOLEAN] /\ course \in [Tid -> Course]
    /\ event \in Event

\* An exit event shows the arguments of the call that returns, and follows the enter event
\* of that call: never one that a filter suppressed on entry, never the leftovers of an
\* earlier call or of a dead thread with the same number.  Only a call that began before the
\* last table was written, or that saw the verdict on its thread change, may go wrong.
ExitPairs == event.type = "exit" /\ event.course = "steady" => event.own /\ event.entered

\* A call that was reported on entry and returns with its number is reported on return,
\* whatever the other threads left in the map, if the map has room for all of them; with a
\* whitelist this is so even while the tables are being written, as updateFilter writes the
\* whitelist after the tables for the return.
ReportedCallsComplete ==
    [][conf.regs_cap >= Cardinality(Tid) =>
       \A t \in Tid :
          /\ entered[t] /\ call[t] \in Sys \ (Forgets \cup conf.exit_filtered)
          /\ course[t] = "steady" \/ (~conf.all /\ course[t] = "early")
          /\ call'[t] = "user"
          => event'.type = "exit" /\ event'.tid = t]_vars

\* A call that returns takes its entry with it, reported or skipped: only calls that never
\* come back with their number, began before the last table was written, or saw the verdict
\* change, leave one.
ReturnsLeaveNothing ==
    \A t \in DOMAIN ctx_regs_map : ctx_regs_map[t].call # "returned"

=============================================================================
