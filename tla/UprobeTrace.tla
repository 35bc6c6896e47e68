------------------------------- MODULE UprobeTrace -------------------------------
(*****************************************************************************)
(* How the probe at the entry of a function and the probes at its return     *)
(* work together.                                                            *)
(*                                                                           *)
(* The entry probe (probe_stack_warp) stores the registers in ctx_regs_map   *)
(* under the enter_key of the point and the thread id; the exit-offset point *)
(* or the uretprobe of the same function takes them out again.  There is one *)
(* slot per function and thread, while a function may be active any number   *)
(* of times in one thread, and may be left without returning (longjmp, C++   *)
(* exceptions, a dying thread).                                              *)
(*                                                                           *)
(* All threads here pass should_trace.                                       *)
(*****************************************************************************)
EXTENDS Naturals, Sequences, FiniteSets

CONSTANTS
    Tid,            \* thread numbers
    Func,           \* functions with a probe at their entry
    Configs,        \* command lines, and sizes of ctx_regs_map
    Filtered,       \* functions whose arguments carry a filter
    MaxFrames       \* bound on the active frames of all threads

\* The return probes of each function: an exit offset, a uretprobe, both or none; regs_cap
\* is max_entries of ctx_regs_map: 1024.
Config == [probes : [Func -> SUBSET {"exit", "ret"}], regs_cap : Nat]

ASSUME UprobeAssumption ==
    /\ Configs \subseteq Config
    /\ Filtered \subseteq Func
    /\ MaxFrames \in Nat

VARIABLES
    conf,           \* the command line, fixed at start
    stack,          \* active functions of each thread, the innermost last
    ctx_regs_map,   \* key -> the frame that saved the entry: its depth, 0 once it is gone
    event           \* what the last probe that ran did, and for which frame

vars == <<conf, stack, ctx_regs_map, event>>

\* A frame: its function; whether its registers were saved; whether its exit point was
\* reached; and whether the same function was called again inside it, and if so whether each
\* such call reached a return probe.
Frame == [fn : Func, saved : BOOLEAN, left : BOOLEAN, inner : {"none", "returned", "lost"}]

Event == [type : {"none", "enter", "exit", "ret", "skipped", "dropped"},
          own : BOOLEAN, frame : Frame]

-----------------------------------------------------------------------------
(* The map of registers.                                                     *)

\* Bug variant: one slot per thread.
KeyOfThread(f, t) == <<"any", t>>

\* UPROBE_ENTER + enter_key, and the thread id.
RegsKey(f, t) == <<f, t>>

\* Bug variant: an entry that is there stays there (BPF_NOEXIST).
save_regs_once(f, t, depth) ==
    IF RegsKey(f, t) \notin DOMAIN ctx_regs_map /\ Cardinality(DOMAIN ctx_regs_map) < conf.regs_cap
    THEN [k \in DOMAIN ctx_regs_map \cup {RegsKey(f, t)} |->
             IF k = RegsKey(f, t) THEN depth ELSE ctx_regs_map[k]]
    ELSE ctx_regs_map

save_regs(f, t, depth) ==
    IF RegsKey(f, t) \in DOMAIN ctx_regs_map \/ Cardinality(DOMAIN ctx_regs_map) < conf.regs_cap
    THEN [k \in DOMAIN ctx_regs_map \cup {RegsKey(f, t)} |->
             IF k = RegsKey(f, t) THEN depth ELSE ctx_regs_map[k]]
    ELSE ctx_regs_map

del_regs(f, t) == [k \in DOMAIN ctx_regs_map \ {RegsKey(f, t)} |-> ctx_regs_map[k]]

\* Map m once the frames of t from the given depth on are gone.
Gone(m, t, depth) ==
    [k \in DOMAIN m |-> IF k[2] = t /\ m[k] >= depth THEN 0 ELSE m[k]]

-----------------------------------------------------------------------------
(* The probes.                                                               *)

Active == UNION {{t} \X DOMAIN stack[t] : t \in Tid}
Depth(t) == Len(stack[t])
Top(t) == stack[t][Depth(t)]

\* Frames of which function f is called again, or such a call is lost.
Disturbed(frames, f, how) ==
    [i \in DOMAIN frames |->
        IF frames[i].fn = f /\ frames[i].inner # "lost"
        THEN [frames[i] EXCEPT !.inner = how] ELSE frames[i]]

\* Function f is called: probe_stack_warp with enter_key = point_key + 1, or 0 when nothing
\* is to be read on return.  The registers are saved before the filters of the arguments.
Call(t, f, skip) ==
    /\ Cardinality(Active) < MaxFrames
    /\ skip => f \in Filtered
    /\ ctx_regs_map' = IF conf.probes[f] = {} THEN ctx_regs_map
                       ELSE save_regs(f, t, Depth(t) + 1)
    /\ LET frame == [fn |-> f, left |-> FALSE, inner |-> "none",
                     saved |-> RegsKey(f, t) \in DOMAIN ctx_regs_map']
       IN  /\ stack' = [stack EXCEPT ![t] = Append(Disturbed(@, f, "returned"), frame)]
           /\ event' = [type |-> IF skip THEN "skipped" ELSE "enter", own |-> TRUE,
                        frame |-> frame]
    /\ UNCHANGED conf

\* load_regs, del_regs and the event of a return probe of f; without an entry the probe
\* ends silently.
Consume(f, t, type, skip) ==
    IF RegsKey(f, t) \notin DOMAIN ctx_regs_map
    THEN /\ event' = [type |-> "dropped", own |-> FALSE, frame |-> Top(t)]
         /\ UNCHANGED ctx_regs_map
    ELSE /\ event' = [type |-> IF skip THEN "skipped" ELSE type, frame |-> Top(t),
                      own |-> ctx_regs_map[RegsKey(f, t)] = Depth(t)]
         /\ ctx_regs_map' = del_regs(f, t)

\* The innermost function reaches its exit offset: probe_stack_warp of the exit point,
\* whose enter_key names another point.
ExitPoint(t, skip) ==
    /\ Depth(t) > 0
    /\ "exit" \in conf.probes[Top(t).fn]
    /\ ~Top(t).left
    /\ skip => Top(t).fn \in Filtered
    /\ Consume(Top(t).fn, t, "exit", skip)
    /\ stack' = [stack EXCEPT ![t][Depth(t)].left = TRUE]
    /\ UNCHANGED conf

\* It returns: uretprobe_stack_warp.
Return(t, skip) ==
    /\ Depth(t) > 0
    /\ "ret" \in conf.probes[Top(t).fn]
    /\ skip => Top(t).fn \in Filtered
    /\ Consume(Top(t).fn, t, "ret", skip)
    /\ stack' = [stack EXCEPT ![t] = SubSeq(@, 1, Depth(t) - 1)]
    /\ UNCHANGED conf

\* The innermost n frames are gone and no probe runs.
Leave(t, n) ==
    LET rest == SubSeq(stack[t], 1, Depth(t) - n)
        lost == {stack[t][i].fn : i \in {j \in DOMAIN stack[t] : j > Depth(t) - n
                                                               /\ ~stack[t][j].left}}
    IN  /\ stack' = [stack EXCEPT ![t] =
                [i \in DOMAIN rest |-> IF rest[i].fn \in lost
                                       THEN [rest[i] EXCEPT !.inner = "lost"] ELSE rest[i]]]
        /\ ctx_regs_map' = Gone(ctx_regs_map, t, Depth(t) - n + 1)
        /\ UNCHANGED <<conf, event>>

\* It returns without a uretprobe; its exit point may have been passed by.
ReturnSilently(t) ==
    /\ Depth(t) > 0
    /\ "ret" \notin conf.probes[Top(t).fn]
    /\ Leave(t, 1)

\* longjmp or an exception; or, if all frames go, the end of the thread, whose number is
\* then reused.
Unwind(t, n) ==
    /\ n \in 1..Depth(t)
    /\ Leave(t, n)

Init ==
    /\ conf \in Configs
    /\ stack = [t \in Tid |-> << >>]
    /\ ctx_regs_map = [k \in {} |-> 0]
    /\ event \in [type : {"none"}, own : {TRUE},
                  frame : [fn : Func, saved : {FALSE}, left : {FALSE}, inner : {"none"}]]

Next ==
    \E t \in Tid :
        \/ \E f \in Func, skip \in BOOLEAN : Call(t, f, skip)
        \/ \E skip \in BOOLEAN : ExitPoint(t, skip) \/ Return(t, skip)
        \/ ReturnSilently(t)
        \/ \E n \in 1..MaxFrames : Unwind(t, n)

Spec == Init /\ [][Next]_vars

-----------------------------------------------------------------------------
(* Properties.                                                               *)

\* Every variable keeps its type; an entry is of a frame that exists, of the function it is
\* filed under, or of none.
TypeOK ==
    /\ conf \in Configs
    /\ stack \in [Tid -> Seq(Frame)]
    /\ \A t \in Tid : Depth(t) <= MaxFrames
    /\ DOMAIN ctx_regs_map \subseteq Func \X Tid
    /\ Cardinality(DOMAIN ctx_regs_map) <= conf.regs_cap
    /\ \A k \in DOMAIN ctx_regs_map :
          ctx_regs_map[k] # 0 => /\ ctx_regs_map[k] \in 1..Depth(k[2])
                                 /\ stack[k[2]][ctx_regs_map[k]].fn = k[1]
    /\ event \in Event

\* The arguments an event on return shows are those of the very activation that returns,
\* although all activations of the function in the thread share one slot; the one exception
\* is an activation inside which the same function was left without a return probe.
ReturnShowsOwnArguments ==
    event.type \in {"exit", "ret"} => event.own \/ event.frame.inner = "lost"

\* A return goes unreported only if ctx_regs_map was full at the entry, if the function was
\* called again in between, or if its exit point has taken the entry already.
ReturnsReported ==
    event.type = "dropped" =>
       ~event.frame.saved \/ event.frame.inner # "none" \/ event.frame.left

=============================================================================
