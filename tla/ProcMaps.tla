-------------------------------- MODULE ProcMaps --------------------------------
(*****************************************************************************)
(* The cache of memory maps of the traced processes (event_mmap2.go), from   *)
(* which addresses are named in the log.                                     *)
(*                                                                           *)
(* Processes map, unmap, fork and exit, and their numbers are used again.    *)
(* The kernel reports mappings and forks in a ring for each CPU, so the      *)
(* records arrive in any order, late, or not at all.  Three goroutines use   *)
(* the cache: the dispatcher of the PERF module handles the records, that of *)
(* the hook module handles hits and, with --mstack, replaces what is cached  *)
(* for a process, and workers ask for the offset of an address.  maps_lock   *)
(* makes each of these calls one step; pid_list is used without a lock, and  *)
(* --mstack reads the maps of a process before it takes the lock.            *)
(*                                                                           *)
(* A mapping is as long as one address.  What is cached for a process is a   *)
(* set: the code keeps lists by path, but asks for no order between them.    *)
(* The path of a mapping is the one its record has.  /proc/<pid>/maps may    *)
(* show another: what is anonymous has none there, and its line is not read; *)
(* a path is read up to its first space.                                     *)
(*****************************************************************************)
EXTENDS Naturals, FiniteSets

CONSTANTS
    Pid,            \* process numbers
    Boot,           \* processes that may be alive when stackplz starts
    Whitelist,      \* PidWhitelist
    Segs,           \* mappings a process may make: records of path, base and off
    ProcPath,       \* what is read in /proc for a path, for the paths whose lines are read
    Loaded,         \* mappings the processes may have when stackplz starts
    Modes,          \* how stackplz may be started: see Mode
    MaxSteps,       \* bound on what the processes do
    MaxPending      \* bound on the records that wait in the rings

\* "hook": system calls or uprobes; "manual": the same with --stack --mstack; "brk": a
\* breakpoint with --stack --mstack, where the PERF module does not run.
Mode == {"hook", "manual", "brk"}

\* A mapping that /proc shows under the path of its record.
Shown(s) == s.path \in DOMAIN ProcPath /\ ProcPath[s.path] = s.path

\* The mappings that are read from a content of /proc/<pid>/maps, by the lines with seven
\* fields.
ReadBack(content) ==
    {[path |-> ProcPath[s.path], base |-> s.base, off |-> s.off] :
        s \in {o \in content : o.path \in DOMAIN ProcPath}}

\* What may be cached of the mappings segs: from their records, or from /proc.
Seen(segs) == segs \cup ReadBack(segs)

ASSUME MapsAssumption ==
    /\ Pid # {}
    /\ Boot \subseteq Pid
    /\ Whitelist \subseteq Pid
    /\ Loaded \subseteq Segs
    /\ Modes \subseteq Mode
    /\ MaxSteps \in Nat
    /\ MaxPending \in Nat

VARIABLES
    mode,               \* fixed at start
    alive,              \* processes that are alive
    maps,               \* the real mappings of each process
    steps,              \* what the processes have done so far
    attached,           \* the modules run
    pending,            \* records in the rings and channels of the PERF module
    pid_maps,           \* the cache: process -> mappings
    child_parent_map,   \* process -> parent, as far as fork records told
    pid_list,           \* processes with a hit
    hook,               \* the dispatcher of the hook module
    had,                \* history: mappings made under each number
    family,             \* history: each number with those it descends from
    gap                 \* history: why a process's cached maps may be incomplete

world == <<alive, maps, steps, attached, had, family>>
vars == <<mode, world, pending, pid_maps, child_parent_map, pid_list, hook, gap>>

Mmap2Record == [type : {"mmap2"}, pid : Pid, seg : Segs]
ForkRecord == [type : {"fork"}, pid : Pid, ppid : Pid]

\* "read": the content of /proc/<pid>/maps is in hand; raced: since then the processes or the
\* PERF module did what that content does not know of.
Hook == [at : {"idle", "append", "listed", "read"}, pid : Pid, content : SUBSET Segs,
         raced : BOOLEAN]

Idle == [at |-> "idle", pid |-> CHOOSE p \in Pid : TRUE, content |-> {}, raced |-> FALSE]

\* "inherited": nobody has read the maps since the process was forked; "unseen": it made a
\* mapping before the modules ran; "unlisted": a record was ignored because the process had
\* no hit yet; "lost": a record was lost; "older": the maps were replaced by older ones.
Gap == {"none", "inherited", "unseen", "unlisted", "lost", "older"}

SameBase(a, b) == a.path = b.path /\ a.base = b.base

Known(s, segs) == \E o \in segs : SameBase(o, s)

\* Insert or overwrite one key of a Go map.
Put(m, k, v) == [x \in DOMAIN m \cup {k} |-> IF x = k THEN v ELSE m[x]]

Cached(cache, p) == IF p \in DOMAIN cache THEN cache[p] ELSE {}

-----------------------------------------------------------------------------
(* MapsHelper: each operator yields the cache that a call leaves.            *)

\* Bug variant: no check for what is there.
Merge_append(old, new) == old \cup new

\* Add what has a new base for its path.
Merge(old, new) == old \cup {s \in new : ~Known(s, old)}

ParseMapsContent(cache, p, content, del_old) ==
    Put(cache, p, Merge(IF del_old THEN {} ELSE Cached(cache, p), ReadBack(content)))

\* /proc/<pid>/maps cannot be read once the process is gone.
ParseMaps(cache, p, del_old) ==
    IF p \in alive THEN ParseMapsContent(cache, p, maps[p], del_old) ELSE cache

\* Bug variant: only the mapping of the record.
UpdateMaps_record(cache, r) ==
    IF \E o \in Cached(cache, r.pid) : o.path = r.seg.path
    THEN cache
    ELSE Put(cache, r.pid, Cached(cache, r.pid) \cup {r.seg})

\* The mapping of the record is added only if its path is new: the loop that looks for the
\* base declares an info of its own and compares it with itself.
UpdateMaps(cache, r) ==
    LET parsed == ParseMaps(cache, r.pid, FALSE)
        old == Cached(parsed, r.pid)
    IN  Put(parsed, r.pid, IF \E o \in old : o.path = r.seg.path THEN old ELSE old \cup {r.seg})

CloneMaps(cache, p, parent) ==
    LET parsed == IF parent \in DOMAIN cache THEN cache ELSE ParseMaps(cache, parent, FALSE)
    IN  IF parent \in DOMAIN parsed THEN Put(parsed, p, parsed[parent]) ELSE parsed

-----------------------------------------------------------------------------
(* The processes.                                                            *)

Report(r) == pending' = IF attached THEN pending \cup {r} ELSE pending

Step ==
    /\ steps < MaxSteps
    /\ Cardinality(pending) < MaxPending
    /\ steps' = steps + 1

cache_vars == <<mode, attached, pid_maps, child_parent_map, pid_list>>

\* The content in hand knows nothing of the process that gets the number now.
Outdate(p) == hook' = [hook EXCEPT !.raced = @ \/ (hook.at = "read" /\ hook.pid = p)]

Fork(p, c) ==
    /\ Step
    /\ p \in alive
    /\ c \in Pid \ alive
    /\ alive' = alive \cup {c}
    /\ maps' = [maps EXCEPT ![c] = maps[p]]
    /\ had' = [had EXCEPT ![c] = @ \cup maps[p]]
    /\ family' = [d \in Pid |-> IF c \in family[d] THEN family[d] \cup family[p] ELSE family[d]]
    /\ gap' = [gap EXCEPT ![c] = "inherited"]
    /\ Outdate(c)
    /\ Report([type |-> "fork", pid |-> c, ppid |-> p])
    /\ UNCHANGED cache_vars

\* A thread is reported as a fork of the process by itself.
NewThread(p) ==
    /\ Step
    /\ p \in alive
    /\ attached
    /\ Report([type |-> "fork", pid |-> p, ppid |-> p])
    /\ UNCHANGED <<cache_vars, alive, maps, had, family, gap, hook>>

\* A mapping takes the place of what was mapped there.
Mmap(p, s) ==
    /\ Step
    /\ p \in alive
    /\ s \notin maps[p]
    /\ maps' = [maps EXCEPT ![p] = {o \in @ : o.base # s.base} \cup {s}]
    /\ had' = [had EXCEPT ![p] = @ \cup {s}]
    /\ gap' = IF attached THEN gap ELSE [gap EXCEPT ![p] = "unseen"]
    /\ Report([type |-> "mmap2", pid |-> p, seg |-> s])
    /\ UNCHANGED <<cache_vars, alive, family, hook>>

\* No record tells of it.
Munmap(p, s) ==
    /\ Step
    /\ p \in alive
    /\ s \in maps[p]
    /\ maps' = [maps EXCEPT ![p] = @ \ {s}]
    /\ UNCHANGED <<cache_vars, alive, had, family, gap, pending, hook>>

\* The exit record is decoded and changes nothing, so it is not among those that wait.
Exit(p) ==
    /\ Step
    /\ p \in alive
    /\ alive' = alive \ {p}
    /\ maps' = [maps EXCEPT ![p] = {}]
    /\ UNCHANGED <<cache_vars, had, family, gap, pending, hook>>

-----------------------------------------------------------------------------
(* Start: the library search asks for the maps of the processes on the       *)
(* command line, then the modules are started.                               *)

FindLib(p) ==
    /\ ~attached
    /\ p \in Whitelist
    /\ pid_maps' = IF p \in DOMAIN pid_maps THEN pid_maps ELSE ParseMaps(pid_maps, p, FALSE)
    /\ gap' = IF p \in alive \ DOMAIN pid_maps THEN [gap EXCEPT ![p] = "none"] ELSE gap
    /\ UNCHANGED <<mode, world, pending, child_parent_map, pid_list, hook>>

Attach ==
    /\ ~attached
    /\ mode # "brk"
    /\ attached' = TRUE
    /\ UNCHANGED <<mode, alive, maps, steps, had, family, pending, pid_maps, child_parent_map,
                   pid_list, hook, gap>>

-----------------------------------------------------------------------------
(* The dispatcher of the PERF module.                                        *)

\* A ring that is full drops the record.
Lose(r) ==
    /\ pending' = pending \ {r}
    /\ gap' = IF r.type = "mmap2" THEN [gap EXCEPT ![r.pid] = "lost"] ELSE gap
    /\ IF r.type = "mmap2" THEN Outdate(r.pid) ELSE UNCHANGED hook
    /\ UNCHANGED <<mode, world, pid_maps, child_parent_map, pid_list>>

\* The search in pid_list may meet an append: a new length with an old array ends in memory
\* of any content, so that any number may be found.
Listed(p) == {p \in pid_list} \cup (IF hook.at = "append" THEN {TRUE} ELSE {})

HandleMmap2(r, listed) ==
    /\ r.type = "mmap2"
    /\ listed \in Listed(r.pid)
    /\ pending' = pending \ {r}
    /\ pid_maps' = IF listed THEN UpdateMaps(pid_maps, r) ELSE pid_maps
    /\ gap' = IF ~listed THEN [gap EXCEPT ![r.pid] = "unlisted"]
              ELSE IF r.pid \in alive THEN [gap EXCEPT ![r.pid] = "none"]
              ELSE gap
    /\ Outdate(r.pid)
    /\ UNCHANGED <<mode, world, child_parent_map, pid_list>>

\* The whitelist, or the name the process has by now.
Watched(p) == {p \in Whitelist} \cup (IF p \in alive THEN {TRUE} ELSE {})

Clones(r) == r.pid \notin DOMAIN child_parent_map /\ r.pid # r.ppid

\* Bug variant: a number that was seen before gets the maps of the parent as well.
UpdateForkEvent_always(r) ==
    /\ child_parent_map' = Put(child_parent_map, r.pid, r.ppid)
    /\ pid_maps' = IF r.pid # r.ppid THEN CloneMaps(pid_maps, r.pid, r.ppid) ELSE pid_maps

\* Bug variant: the parent gets the maps of the child.
UpdateForkEvent_swapped(r) ==
    /\ child_parent_map' = Put(child_parent_map, r.pid, r.ppid)
    /\ pid_maps' = IF Clones(r) THEN CloneMaps(pid_maps, r.ppid, r.pid) ELSE pid_maps

\* Bug variant: a thread has no parent.
UpdateForkEvent_orphan(r) ==
    /\ child_parent_map' = Put(child_parent_map, r.pid, IF r.pid = r.ppid THEN 0 ELSE r.ppid)
    /\ pid_maps' = IF Clones(r) THEN CloneMaps(pid_maps, r.pid, r.ppid) ELSE pid_maps

\* Maps are copied when a number is seen for the first time.
UpdateForkEvent(r) ==
    /\ child_parent_map' = Put(child_parent_map, r.pid, r.ppid)
    /\ pid_maps' = IF Clones(r) THEN CloneMaps(pid_maps, r.pid, r.ppid) ELSE pid_maps

HandleFork(r, watched) ==
    /\ r.type = "fork"
    /\ watched \in Watched(r.pid)
    /\ pending' = pending \ {r}
    /\ IF watched THEN UpdateForkEvent(r) ELSE UNCHANGED <<child_parent_map, pid_maps>>
    /\ gap' = [q \in Pid |->
                 IF watched /\ Clones(r) /\ q = r.pid THEN "inherited"
                 ELSE IF /\ watched /\ Clones(r) /\ q = r.ppid
                         /\ q \in alive \ DOMAIN pid_maps THEN "none"
                 ELSE gap[q]]
    /\ UNCHANGED <<mode, world, pid_list, hook>>

-----------------------------------------------------------------------------
(* The dispatcher of the hook module, and the workers.                       *)

\* A number that a process has had: a hit may be handled long after it.
Ran(p) == p \in alive \/ had[p] # {}

\* UpdatePidList.
Hit(p) ==
    /\ attached
    /\ hook.at = "idle"
    /\ Ran(p)
    /\ hook' = [hook EXCEPT !.at = IF p \in pid_list THEN "listed" ELSE "append", !.pid = p]
    /\ UNCHANGED <<mode, world, pending, pid_maps, child_parent_map, pid_list, gap>>

Append ==
    /\ hook.at = "append"
    /\ pid_list' = pid_list \cup {hook.pid}
    /\ hook' = [hook EXCEPT !.at = "listed"]
    /\ UNCHANGED <<mode, world, pending, pid_maps, child_parent_map, gap>>

\* ParseContextStack: without --mstack the content goes to the unwinder; if it cannot be read
\* the cache is only asked.
ReadMapsByPid ==
    /\ hook.at = "listed"
    /\ hook' = IF mode = "manual" /\ hook.pid \in alive
               THEN [hook EXCEPT !.at = "read", !.content = maps[hook.pid], !.raced = FALSE]
               ELSE Idle
    /\ UNCHANGED <<mode, world, pending, pid_maps, child_parent_map, pid_list, gap>>

TryManualUpdateMaps ==
    /\ hook.at = "read"
    /\ pid_maps' = ParseMapsContent(pid_maps, hook.pid, hook.content, TRUE)
    /\ gap' = [gap EXCEPT ![hook.pid] = IF hook.raced THEN "older" ELSE "none"]
    /\ hook' = Idle
    /\ UNCHANGED <<mode, world, pending, child_parent_map, pid_list>>

\* A worker prints an event of a process.
GetOffset(p) ==
    /\ p \in pid_list
    /\ p \notin DOMAIN pid_maps
    /\ pid_maps' = ParseMaps(pid_maps, p, FALSE)
    /\ gap' = IF p \in alive THEN [gap EXCEPT ![p] = "none"] ELSE gap
    /\ UNCHANGED <<mode, world, pending, child_parent_map, pid_list, hook>>

\* A breakpoint is hit, or set by RPC.
CacheMaps(p) ==
    /\ mode = "brk"
    /\ Ran(p)
    /\ pid_maps' = ParseMaps(pid_maps, p, TRUE)
    /\ gap' = IF p \in alive THEN [gap EXCEPT ![p] = "none"] ELSE gap
    /\ UNCHANGED <<mode, world, pending, child_parent_map, pid_list, hook>>

-----------------------------------------------------------------------------

Init ==
    /\ mode \in Modes
    /\ alive \in SUBSET Boot
    /\ maps \in [Pid -> SUBSET Loaded]
    /\ \A p \in Pid : \A s, o \in maps[p] : s.base = o.base => s = o
    /\ \A p \in Pid \ alive : maps[p] = {}
    /\ steps = 0
    /\ attached = FALSE
    /\ pending = {}
    /\ pid_maps = [p \in {} |-> {}]
    /\ child_parent_map = [p \in {} |-> p]
    /\ pid_list = {}
    /\ hook = Idle
    /\ had = maps
    /\ family = [p \in Pid |-> {p}]
    /\ gap = [p \in Pid |-> "unseen"]

Process(p) ==
    \/ \E c \in Pid : Fork(p, c)
    \/ NewThread(p)
    \/ \E s \in Segs : Mmap(p, s) \/ Munmap(p, s)
    \/ Exit(p)

Handle(r) ==
    \/ Lose(r)
    \/ \E listed \in BOOLEAN : HandleMmap2(r, listed)
    \/ \E watched \in BOOLEAN : HandleFork(r, watched)

Ask(p) == FindLib(p) \/ Hit(p) \/ GetOffset(p) \/ CacheMaps(p)

Next ==
    \/ \E p \in Pid : Process(p) \/ Ask(p)
    \/ \E r \in pending : Handle(r)
    \/ Attach \/ Append \/ ReadMapsByPid \/ TryManualUpdateMaps

Spec == Init /\ [][Next]_vars

-----------------------------------------------------------------------------

TypeOK ==
    /\ mode \in Mode
    /\ alive \subseteq Pid
    /\ maps \in [Pid -> SUBSET Segs]
    /\ steps \in Nat
    /\ attached \in BOOLEAN
    /\ pending \subseteq Mmap2Record \cup ForkRecord
    /\ DOMAIN pid_maps \subseteq Pid
    /\ pid_maps \in [DOMAIN pid_maps -> SUBSET Seen(Segs)]
    /\ DOMAIN child_parent_map \subseteq Pid
    /\ child_parent_map \in [DOMAIN child_parent_map -> Pid]
    /\ pid_list \subseteq Pid
    /\ hook \in Hook
    /\ had \in [Pid -> SUBSET Segs]
    /\ family \in [Pid -> SUBSET Pid]
    /\ gap \in [Pid -> Gap]

\* The comments at event_mmap2.go:353 and 296 ask for it: a path is cached once for each base,
\* though records, whole files and copies of a parent's maps are merged in any order.
NoDuplicates ==
    \A p \in DOMAIN pid_maps : \A s, o \in pid_maps[p] : SameBase(s, o) => s = o

\* An address is never named after a library that no process ever mapped under the number, or
\* under a number it descends from: copies, late records and content read too early bring in
\* what is old, never what is foreign.  It speaks of numbers: the cache is not cleared when a
\* process ends, so one that has its number later is named after its libraries, too: the
\* copy of its parent's maps is made for the first fork record of a number only.
OnlyFromFamily ==
    \A p \in DOMAIN pid_maps : pid_maps[p] \subseteq Seen(UNION {had[q] : q \in family[p]})

\* Once the records of a process are handled, each of its mappings is cached, unless one of
\* the five causes in gap prevented it.  Of a mapping that /proc does not show under its own
\* path there is only its record, and UpdateMaps passes over one whose path is cached already,
\* whatever its base (event_mmap2.go:356): a second anonymous mapping is never cached.
HandledIsKnown ==
    \A p \in alive \cap DOMAIN pid_maps : \A s \in maps[p] :
        \/ Known(s, pid_maps[p])
        \/ \E r \in pending : r.type = "mmap2" /\ r.pid = p
        \/ gap[p] # "none"
        \/ ~Shown(s)

\* What is cached of a mapping that stays is kept, unless the first fork record with the
\* number of its process is handled, or content that was read before it was mapped or does
\* not show it.
KnownStaysKnown ==
    [][\A p \in DOMAIN pid_maps : \A s \in maps[p] \cap maps'[p] :
         Known(s, pid_maps[p]) =>
            \/ Known(s, pid_maps'[p])
            \/ p \in DOMAIN child_parent_map' \ DOMAIN child_parent_map
            \/ hook.at = "read" /\ hook.pid = p /\ ~Known(s, ReadBack(hook.content))
            \/ mode = "brk" /\ ~Shown(s)]_vars

=============================================================================
