# stackplz in TLA+

stackplz traces system calls and functions of Android processes: BPF programs in the kernel
(`src/src/`) report events through a perf ring, and a Go program (`src/user/`, `src/cli/`)
configures them, reads the events, decodes them and prints a log. This directory holds TLA+
models of the parts of it whose correctness depends on what happens in which order, the TLC
configurations that check them, and TLAPS proofs of the results that hold for every instance.

All source paths below start at the root of the repository; `src/src/` is its C code.

## The system

| part | state it keeps | operations | talks to |
|---|---|---|---|
| thread filter (`common/filtering.h`, fork handlers, `updateFilter`) | `base_config`, `common_list`, `common_filter`, `thread_filter`, `child_parent_map` | the updates of the loader, `sched_process_fork`, `should_trace` | every handler asks it; user space writes it while they run |
| system call events (`syscall.c`, `common/arguments.h`) | `ctx_regs_map`, `sysenter_point_args`, `sysexit_point_args` | `sys_enter`, `sys_exit` | filter, interpreter, ring |
| uprobe events (`stack.c`) | `ctx_regs_map`, `uprobe_point_args`, `uretprobe_point_args` | entry point, exit-offset point, uretprobe | filter, interpreter, ring |
| argument interpreter (`utils.h`, `common/buffer.h`) | per-CPU `op_ctx_map`, `op_list`, `arg_filter`, `str_buf`, the event buffer | `read_args`, the `save_*` functions | called by the handlers; its bytes are read by the decoders |
| argument programs and decoders (`argtype/`, `config_point_arg.go`) | registry of opcodes and types | `GetOpList`, `Parse` | produce the interpreter's program, read its output |
| configuration (`config/`) | points, filters, lists | parsing of options and config files | loader, decoders |
| event pipeline (`event_processor/`, `imodule.go`) | channel `incoming`, `workerQueue`, each worker's channel and `tickerCount` | `Write`, `Serve`/`dispatch`, `Run`, `Close` | reader goroutines in front, log and dump file behind |
| event decoding (`event/`) | the event being decoded | `ParseEvent`, `ParseContext` | runs in the dispatcher and the workers; stop/resume, maps cache |
| memory map cache (`event_mmap2.go`, `perf_mmap.go`) | maps per pid, `pid_list` | `UpdateMaps`, `CloneMaps`, `FindLib` | fed by MMAP2, FORK, EXIT events, asked by the workers |
| stop and resume (`ievent.go`, `event_context.go`) | list of stopped pids | `AddStopped`, `LetItRun`, `LetItResume` | workers, prompt |
| dump file (`DumpOpen`, `DumpRecord`, `parser.go`) | file, buffer | append, close, parse | workers of both modules |
| breakpoints and RPC (`brk.go`, `rpc.go`) | one module per request | `BrkIt`, connection handler | life cycle |
| life cycle (`root.go`, `imodule.go`) | started modules, context | start, cancel, `Close` | all of user space |

### What makes it hard

* **The maps are filled while the programs run.** `MSyscall.start` and `MStack.start` attach
  first and call `updateFilter` afterwards. Every handler can see every prefix of its writes.
* **Threads are not objects, numbers are.** Threads die at any point, numbers are reused, names
  and uids change between, and inside, two events of one call.
* **An event is built from something saved at another time** (`ctx_regs_map`), under a key that
  does not name the call or activation it belongs to.
* **User space is a set of goroutines** with a lock that covers single map accesses, timers
  that end a worker while an event is on its way to it, and blocking channels.
* **Maps have limits**, and the results of most updates made by the BPF programs are ignored.

The hazards this leads to are listed, each at its line, in `PROJECT.json`. Those no property
covers yet carry a note.

## The modules

| module | models | checked by | proved in |
|---|---|---|---|
| `TaskFilter` | thread filter | `TaskFilter.cfg`, `TaskFilterAlias.cfg`, `TaskFilterForks.cfg` | `TaskFilterProofs` |
| `SyscallTrace` | system call events | `SyscallTrace.cfg` | `SyscallTraceProofs` |
| `UprobeTrace` | uprobe events | `UprobeTrace.cfg` | `UprobeTraceProofs` |
| `ArgTypes` | opcode lists of types and arguments, what a log promises of them | (through `ReadArgs`) | |
| `ArgDecode` | the parsers of user space | (through `ReadArgs`) | |
| `ReadArgs` | the interpreter `read_args` | `ReadArgs.cfg`, `ReadArgsRet.cfg` | `ReadArgsProofs` |
| `StrCompare` | `strcmp_by_map` on several CPUs | `StrCompare.cfg` | `ReadArgsProofs` |
| `EventLog` | what the event pipeline promises | (property of `EventPipeline`) | |
| `EventPipeline` | reader, dispatcher, workers | `EventPipeline.cfg` | `EventPipelineProofs` |
| `ProcMaps` | memory map cache, as the PERF and hook modules, workers, `--mstack` and breakpoints use it | `ProcMaps.cfg` | `ProcMapsProofs` |
| `StopResume` | SIGSTOP, the list of stopped processes, `--auto`, the prompt | `StopResume.cfg` | `StopResumeProofs` |
| `DumpFile` | start and end of the program with `--dump`, the file, `--parse` | `DumpFile.cfg` | `DumpFileProofs` |

Each `MC*` module gives values to the constants of one model. Operators named "Bug variant" in
a comment are plausible mistakes in the operation defined just below them. No specification
uses them: each one, put in the place of that operation, breaks a property, and is listed with
it under `mutants` in `PROJECT.json`.

### TaskFilter

*State.* The command line `conf` (six id lists, two lists of thread names, uid groups), the position
of the loader (`stage`, `todo`, `failed`), the BPF maps, and `task`, the live threads with process,
uid and name. *Loader.* `stage` goes through the calls of `updateFilter` in their order. A stage that
writes a list writes one item per step, in any order (the order within a list is that of the command
line, and any is possible). A full map makes `update_map` and `update_common_list` panic: `failed`.
*World.* `Fork` includes the handler of `sched_process_fork`, `Exit`, `Rename` and `SetUid` run no
handler. *Verdict.* `should_trace` is the function of `filtering.h`, return by return. All list
lookups go through `Key`, the sum of the list's start and the id in one map.

*Properties.* `Wanted` states what the command line asks for without maps or return order: five
levels, the first with an opinion decides. At the level of forks it takes `kin`, whether the
process counts as one of the whitelisted pids, and `Standing` says which answers are right, from
the history of the forks alone (`family`: the live descendants of a whitelisted process;
`missed`: those of them that the fork handler does not enter, or not in time; `spawned`: numbers
that were given to a fork). A descendant that was not missed counts, a process with an unrelated
number does not; for a missed descendant, and for a stranger that has the number of a dead one,
both answers are allowed. `PassedMeansWanted` says that `should_trace` agrees with `Wanted` from the
moment the argument tables exist, before which no handler emits; it exempts only a thread one of
whose ids meets the range of another list (`Aliased`, the subject of `task_filter_alias`).
`SelfNeverTraced` says stackplz is never reported, even before that. `VerdictIsStable` says that,
once loaded, nobody else's step changes a verdict. `LoadingEnds` is liveness: `updateFilter` comes
to its end, or panics because the command line has more entries than a map has room for
(`Overlong`) or because a burst of forks has filled the fork map under it (`ForkBurst`).

*Against the documents.* README.md:13 says that what fork produces is traced, and the comments at
`syscall.c:27-34` and 53 that descendants are entered. The handler enters the forks of a pid of the
command line and not the forks of those. `ForksAreTraced` states the sentence, and the run
`task_filter_forks` refutes it.

*Abstractions.* One order of loading stands for both modules: they write the same filters in the
same order, and the argument tables after them. Opcode and filter tables are not in the model.
The child of a fork handler runs with the number of the forking *thread* as parent, as in the
code (`BPF_CORE_READ(parent, pid)`); the fork map is asked for the *process* number.

### SyscallTrace

*State.* `call[t]` is what a thread does; `traced[t]` the verdict on it; `ctx_regs_map` maps a
thread to the flag of its entry and, as a history variable, to how the call ended that saved
it. `entered`, `course` and `event` are history variables too. *Actions.* `sys_enter` and
`sys_exit` are the whole handlers: filters, table lookups, save or load and delete, read_args as
a choice `skip` for calls with argument filters, submission. `WriteItem` and `NextStage` write
the tables from the argument tables on. `Die` ends a thread anywhere, `Birth` reuses its
number, `ChangeAttributes` flips the verdict. Calls in `Forgets` (execve, rt_sigreturn) may
return with another number in `regs->syscallno`, so that the exit handler does not find them.

*Properties.* `ExitPairs`: an exit event shows the arguments of its own call and follows that
call's enter event. `ReportedCallsComplete`: a reported call that returns is reported again.
`ReturnsLeaveNothing`: ordinary returns clean up. Each names the cases in which it may fail:
calls that began before the last table was written, or saw the verdict change (a thread that is
renamed inside a call may be reported with the arguments of an earlier one).

### UprobeTrace

*State.* `stack[t]`, the active functions of a thread, and `ctx_regs_map` with one slot for
each function and thread; the value is the depth of the frame that saved it, 0 once that frame
is gone. *Actions.* `Call`, `ExitPoint` and `Return` are the entry probe, the exit-offset probe
and the uretprobe; `ReturnSilently` and `Unwind` are returns without a probe, `longjmp` and
exceptions. *Properties.* `ReturnShowsOwnArguments` and `ReturnsReported`, with the exceptions
the code has: an inner activation that was lost, a full map, recursion, two return probes.

### ArgTypes, ReadArgs and ArgDecode

User space compiles the arguments of a hook point to a list of opcodes (`GetOpList`), the BPF
programs run it (`read_args`) and append elements to the event, and user space walks the same
arguments again and takes from the bytes what each type expects (`Parse`). The three parts agree
by convention only: elements carry an index, but no parser looks at it.

*Data.* An element is the value of a register, or a block known by its length and the address it
was copied from. A wrong length, a wrong address, one element more or less are therefore visible,
the bytes themselves are not. The traced memory is a function from addresses to words and one to
lengths of strings.

*ArgTypes* holds the opcode lists of every kind of type (`TypeOps`, with the loops of string
arrays, iovecs and msghdrs), `GetOpList`, and `Promise`: what the log should show of an argument,
computed from the registers and the memory without any opcode. *ReadArgs* is `read_args`, one
turn of its loop per step: `Ctx` is the context of the program, `op_key_list` the list of the point
that was hit, `Fetched` the context after the fetch (a pending `post_code` goes first), `Turn`
the end of a turn, and there is one action for each group of opcodes. `Hit` is a program up to
the call, `Skip` and `Submit` its end. `op_ctx` has the two slots of the per-CPU
array and is never reset except for what `Cleared` names, which is what `memset` with the size
of a pointer covers. *ArgDecode* folds the parsers over the elements of an event.

*Properties.* `AsPromised`: the elements of a submitted event are those promised.
`ShownAsPromised`: the parsers read back every argument with its own value and content and
nothing is left. `VerdictIsOwn`: an event is skipped if and only if its own values break the rules.
`WithinBuffer`: nothing is written behind the end. The code does not keep the first three
unconditionally, and each way in which it fails has a name:

* `"cut"`: `MAX_OP_COUNT` bounds the turns, while `AddPointArg` counts opcodes, and an opcode may
  take two turns, a loop many; the first turn on a new CPU is lost, because a zeroed context is
  not `OP_SKIP`;
* `"haunted"`: the event before was cut between the two halves of an opcode, and the second half
  (its `post_code`) is still pending and runs first in the next event on the CPU;
* `"full"`: an element found no room and was left out;
* `ReturnsContent`: a return value of a type with content (run `read_args_ret`);
* `WalksRegisters`: a `read_op` with a second register. `docs/CONFIG.md:45-47` allows it and
  `config_file.go:190-198` compiles it, but the `MOVE_REG_VALUE` behind the read of that register
  moves the address to it before `OP_ADD_REG` or `OP_SUB_REG`: `x0+x1` is read at twice `x1`, `x0-x1+8`
  at 8. The opcodes are in the model, and the promise is that of the document;
* `Misjudged`: a number that the code and `docs/CONFIG.md:61-63` judge differently. The code takes `lt`
  for `gt`, and it compares the register read last, so that with `int:x0+8.` and `eq:6` it compares
  `x0` and not the value. `Rejected` is what the document says, about the value of the argument;
* `OddIovCount`: an iovec array of no element, of which the kernel writes one, or of more than
  `MAX_IOV_COUNT`, of which it writes up to `MAX_LOOP_COUNT` and the parser reads fewer;
* `Unparsable`: iovecs and msghdrs that cannot be read (saved as an empty block, read as a whole
  one), `dirent` (read by the parser of `pollfd`), a structure of a configuration file (never
  given a group, so not saved, but read), an array, pointer or structure larger than `MAX_BYTES_LEN`,
  of which that much is saved and all of it read.

The causes in `spoilt`, `ReturnsContent`, `WalksRegisters` and `OddIovCount` spoil `AsPromised` and
`ShownAsPromised`, `Unparsable` only the latter; `VerdictIsOwn` exempts `Misjudged` numbers and events
that were spoilt or read elsewhere. In every other case the properties hold.

*Abstractions.* One CPU, so `strcmp_by_map` is a comparison (`StrCompare` opens it). Address tags are
masked in the code, and absent here. `reg_index` and `save_index` are left out as nothing depends on
them.

### StrCompare

BPF programs cannot compare strings, so `strcmp_by_map` inserts the rule in the hash map `str_buf`,
looks the string up and deletes the rule. A program is not preempted on its CPU, but the map is
shared by all. *State.* For each CPU the access that comes next, the rule, the string that was saved
in the event and the one read again for the comparison, and the result; the keys of the map;
`rivals`, the rules other CPUs had in the map meanwhile. *Actions.* `Compare` is where the
interpreter comes to a filter with the string it has just saved, `ReadAgain` the test of `str_len`
(which counts the NUL) and the second read, before which the program may write to the string;
`Insert`, `Lookup` and `Delete` are the map accesses. *Properties.* The comment in the code says
that a string that is found matches and one that is not found does not. `MatchesAreTrue` and
`MissesAreTrue` are that sentence with the two exceptions the sharing brings: the entry of another
CPU answers, or another CPU with the same rule has deleted the entry. `BufIsClean` says that no rule
stays behind, so that the 256 entries suffice for as many CPUs and results never depend on a
comparison that is over.

### EventPipeline and EventLog

*State.* The channels, the dispatcher's program counter (`receive`, `lookup`, `register`,
`write`: one for each stretch between two accesses to shared state), the registered workers, and
the worker objects, which live on after they left `workerQueue`. *Actions.* `Write` is the
reader, `Receive`, `Lookup`, `Register`, `Deliver` the parts of `Serve` and `dispatch`, `Parse`,
`Tick`, `Close` those of a worker, `ProcessorClose` the loop of `EventProcessor.Close`, which
sets counters without a lock: a worker's own write may win, so any subset is set.

*Refinement.* `EventLog` numbers the records as they are read and keeps for each uuid the set of
numbers that may still be printed. It prints the least of them, or loses all up to some number, and
so prints in order, each once. `EventPipeline` implements it (`ImplementsLog`); the set of a uuid
maps to what its running worker holds, what is in the dispatcher's hands and what is on
`incoming`. *More properties.* `OneWorkerPrints`, `WorkersEnd`, and `EventsLeave`,
which names the only way in which everything can stop: `Stuck`, the dispatcher blocked on the
full channel of a worker that has ended.

### ProcMaps

*State.* The processes with their real mappings; the records of the PERF module that wait in the
rings (`pending`, a set: there is a ring for each CPU, so any order is possible); the cache
`pid_maps`, `child_parent_map` and `pid_list`; the dispatcher of the hook module between its
steps; and history: `had` and `family`, what was ever mapped under a number and from which
numbers it descends, and `gap`, why the cached maps of a process may be incomplete. *Operators.*
`Merge`, `ParseMapsContent`, `ParseMaps`, `UpdateMaps`, `CloneMaps` and `UpdateForkEvent` are the
functions of `MapsHelper`, as maps from the cache to the cache. *Actions.* `Fork`, `NewThread`,
`Mmap`, `Munmap`, `Exit` are the processes; `HandleMmap2`, `HandleFork` and `Lose` the PERF module;
`Hit`, `Append`, `ReadMapsByPid` and `TryManualUpdateMaps` the hook module, which appends to
`pid_list` without a lock and reads `/proc` before it takes `maps_lock`; `GetOffset`, `CacheMaps`
and `FindLib` everybody else who fills the cache. The unlocked search in `pid_list` may give any
answer while an append is under way (`Listed`).

*Properties.* `NoDuplicates`: merged files, records and copies never hold a path and base twice.
`OnlyFromFamily`: an address is never named after a library that was not mapped under the number
of its process or one of those it descends from, however late a record comes. It speaks of
numbers: nothing is removed when a process ends, and the copy of the parent's maps is made for the
first fork record of a number only, so a process with a reused number is named after the libraries
of its predecessor. `HandledIsKnown`: when the records of a process are handled, those of its mappings
that `/proc` shows under their own path are cached, unless one of five named causes prevented it: the
maps are a copy of the parent's (`"inherited"`), older than the modules (`"unseen"`), reported
before the first hit (`"unlisted"`), lost in the ring (`"lost"`), or replaced by a file that was
read too early (`"older"`). `KnownStaysKnown`: nothing else takes a mapping out of the cache.

`/proc/<pid>/maps` is read by lines of seven fields (`ReadBack`): a mapping without a path is skipped and
a path is cut at its first space. The constant `ProcPath` says what is read for a path, and a
mapping is `Shown` if that is the path itself. The record of another mapping is the only source for
it, and `UpdateMaps` passes over a record whose path is cached with any base (`event_mmap2.go:356`,
where `info` shadows the record): the second anonymous mapping of a process is never cached.

*Abstractions.* A mapping is one address long, and the offset within it, the frame-pointer walk and
the text made of both, which change nothing, are left out. The cached mappings of a path are a set,
where the code has a list that could hold two identical entries.

### StopResume

*State.* The processes (running, stopped, gone), the events with what became of their record and
of their signal, the dispatcher, the goroutine of the prompt, `stopped_pid_list` and its lock.
`by` (which event's signal stopped a process) and `mistaken` (numbers taken off the list while a
new process has them) are history. *Actions.* `Submit` and `Signal` are the two halves of a BPF
program; `Receive`, `BeginAdd`, `AddStopped`, `LetItResume`, `BeginDel`, `EndDel` the dispatcher;
`Enter`, `LetItRun`, `PromptBeginDel`, `PromptEndDel`, `EndRange` the prompt, whose walk goes in the
order of a Go map and may or may not meet what is added during it; `Fatal` is what the Go runtime
does when it sees a map walked and written at once; `Block` the dispatcher that `EventPipeline`
shows can hang. `Exit` and `Spawn` reuse numbers at any time.

*Properties.* `StoppedAreListed`, `StoppedHaveReason` (with `--auto` a process is stopped only if the
record is under way or lost, or the signal came after it was handled), and as liveness
`AutoResumed` and `PromptResumes`: what was stopped is resumed, by `--auto` or by the letter c,
except in the cases they name.

### DumpFile

*State.* `runFunc` from the start of the modules to the exit, each module's reader, channel and
dispatcher, `file_lock`, the file as a sequence of parts of records, and the parser of a later
run; as history `dumped`, the records that were written to their end, and `cut`, how many of them
were when one was left incomplete in front of others. *Actions.* `DumpRecord` is `Lock` and five
`Write`s, of which the last unlocks. `WriteFails` is a closed file or a full disk, which may have taken
part of the bytes: the deferred `Unlock` runs, and until `Panic` ends the program another dispatcher
may write behind the torn record. `Terminate`, `CloseModule`, `DumpClose` and `Exit` are the orderly end,
which waits for no dispatcher; `StartFails`, `Kill` and failing writes the others. `ParseRecord` is one
turn of `ParseDump` over the file that is left; behind a record that is incomplete in the middle of
the file it may take other bytes for the rest and go on (`"astray"`). *Properties.* `DumpReadsBack`: what
is read back is a beginning of what was dumped, record for record, and complete up to the first
record that was cut; the parser gives up early only at a record that does not decode or one
that a failed write or the end of the program has cut. `AcceptedAreDumped` is liveness: two dispatchers
under one lock never wait for each other for ever.

## Runs and bounds

| run | instance | states | shows |
|---|---|---|---|
| `task_filter` | 3 numbers, 2 processes at start, 2 uids (one of an app), 2 names, 4 command lines, fork map of 2, id map of 3 | 78,888 | all of the above hold |
| `task_filter_alias` | one app uid, a process with the aliased pid | | lists interfere |
| `task_filter_forks` | one whitelisted pid, 4 numbers | | forks of forks are not traced |
| `syscall_trace` | 2 threads, 4 calls, 3 command lines, register maps of 1 and 2 | 1,484,561 | pairing holds |
| `uprobe_trace` | 2 threads, 3 functions, 3 frames, maps of 2 and 4 | 148,619 | pairing holds |
| `read_args` | 49 calls of 19 points in four objects, see below | 42,050 | logged is what was promised |
| `read_args_ret` | the same | | a returned string is read elsewhere |
| `event_pipeline` | 2 uuids, 3 records, channels of 2 and 1, 3 workers, `MaxTick` 1 | 92,712 | refinement, liveness |
| `str_compare` | 3 CPUs, 2 rules, 3 strings | 1,065,381 | results are true but for two races |
| `proc_maps` | 2 processes, 4 segments, 3 steps, 2 records waiting | 6,596,959 | cached maps are right but for five causes |
| `stop_resume` | 2 processes, 2 events, 4 command lines | 389,726 | who is stopped is found and resumed |
| `dump_file` | 2 modules, 2 records, channels of 1 | 569,692 | what is dumped reads back |

The bounds are small where the code's limits are large (512 forks, 1024 registers, 256 events), so
that limits are reached: two numbers of which one fills the fork map, one entry fewer than threads in
a register map, a channel of one. Three thread numbers are enough for a seed, its child, a stranger,
and the reuse of any number by a fork of any other; one of them is the number that the app's uid meets
in the shared id map. A fourth is needed only for the fork of a fork. Three frames give recursion with
a frame between or around; a run with four passes as well (3 million states) but adds no new case.
Three records let a worker's channel be full while another event is in the dispatcher's hands, and
three worker objects are all that can exist at once for two uuids (two registered, one in the
dispatcher's hands). Symmetry is used only in runs with safety properties, over thread numbers.

In the `read_args` runs every limit of the code shrinks and keeps its order: blocks of 64 bytes
(4096), the magic length 128, 3 turns of a loop (32), 2 iovecs (6), 49 opcodes (64 and 256), a buffer
of 341 bytes (32000), 16 bytes for the largest element (110). Thus a list that is accepted can be cut,
three full blocks fit and a fourth does not, an iovec array can be longer than what is parsed and than
what is read. Any call of an object can follow any other on the CPU, in any context they leave, which
is where stale contexts come from. The calls cover every type, null pointers, strings behind the end
of memory, walks over one register and over two, each rule met and not met, and reads at the entry, at
the return and at both.

In `proc_maps` the first two segments belong to one library and the third is mapped where the
first was, so a path with two bases and a base with two contents occur; the fourth has a path that
`/proc` shows cut; three steps of the
processes are enough for a fork, the exit of either process and a reuse of its number, or for a
mapping made, removed and made again, each with its records in any order. In `stop_resume` two
numbers, reused without limit, and two events give every order of two records and two signals
against the walk of the prompt; an event of a dead process and one of its successor are among
them. In `dump_file` one record may be half written while the other waits for the lock or in a
channel, or is written whole behind the half of the first after a failed write, and the program
may end at each of these moments. In `str_compare` one rule is
the beginning of the other and the strings have every relation to them; the third CPU lets one
comparison meet an entry that a second has deleted under a third.

`CHECK_DEADLOCK FALSE` stands in `event_pipeline`, `proc_maps`, `stop_resume` and `dump_file`: when
all bounded records, steps or events are used, or the program has ended, nothing is left to do.

The three runs that end with a violation check sentences of the repository that the code does
not keep; `findings` in `PROJECT.json` quotes each of them.

## Fairness

`TaskFilter`: weak fairness of `Load`. `updateFilter` is straight-line code of a goroutine that
blocks on nothing. Nothing is assumed of the threads it runs beside.
`EventPipeline`: weak fairness of the dispatcher and of each worker, because Go runs a goroutine
that is not blocked and a ticker ticks. A worker's choice between event and tick is *not* fair,
as `select` promises nothing about a single choice; `WorkersEnd` and `EventsLeave` hold without.
Nothing is assumed of the reader or of `ProcessorClose`.
`StopResume`: weak fairness of the dispatcher and of the walk of the prompt, and strong fairness of
every acquisition of `stopped_lock`, because a Go mutex that is free again and again hands itself
to whoever has waited longest. Nobody has to type, no process has to reach a hook, no signal
has to be sent. `DumpFile`: the same of the dispatchers and `file_lock`, and weak fairness of the
parser. `ProcMaps` and `StrCompare` have only safety properties and assume nothing.

## What is proved

All proofs hold for every value of the constants under the `ASSUME` of each module. They give the
constants their types and, for the pipeline, capacities of at least one; for system calls,
finitely many thread numbers; for the interpreter, what the constants of the code fulfil (a block
holds a msghdr, the buffer holds the largest element and a block, the magic length is a multiple
of the largest block) and that no string is shorter than a rule it begins with.

* **`TaskFilterProofs`.** `MapsFollowLoading` is the inductive invariant: every map holds exactly the
  items of the stages already passed, plus those of the current stage that are no longer in `todo`. It
  is needed because none of the properties is inductive: whether a lookup is right depends on what was
  written in stages long gone. From it: `TypeCorrect`, `SelfIsSilent` (the argument: before
  `base_config` every map is empty, so nothing passes; afterwards the process number is compared
  first), and `VerdictAsWanted`, for all uids and pids, however large. A lookup of a thread whose ids
  meet no other list finds exactly what was put into its own (`LookupExact`), and `ForkForks` and
  `ForkMapFits` relate `child_parent_map` to the history: a process that is in `family` and not in
  `missed` has its entry, as the handler had room, and what has an entry is whitelisted or was
  `spawned`. `VerdictStays` is about steps: once the tables are written only a fork changes a map, and
  the key it adds is the number of no live process, because the leader of every live thread is alive
  (`LeaderInv`).
* **`SyscallTraceProofs`.** `RegsTypeCorrect`, `EventsPair`, `MapIsCleaned`, `ReturnsReported`. The
  inductive invariant adds to the properties what a map entry stands for: an entry saved by a running
  call belongs to the call its thread is in, is marked if and only if its enter event was suppressed,
  and a call on a steady course finds either its own entry or, if the map was full, none or a leftover
  that the properties name. `ReturnsReported` is an action property. `ReportInv` says of a call that
  was reported what its return needs: the verdict, the unmarked entry, which `save_regs` had room for
  as there are at most as many entries as threads, the table for the return, and a place in the lists
  that the stages still to come leave alone.
* **`ReadArgsProofs`.** All five invariants of `ReadArgs`, for any hook points, arguments of any
  type, opcode lists, registers, memories and size of the buffer, and the four of `StrCompare`.
  - `TypeCorrect` and `StaysInBuffer` are in the inductive invariant `IInv`, with `Known` (the list is
    that of the point that was hit, so no register is read that the call has not): what a save adds
    to `buf_off` is bounded by the room its guard leaves (`SaveStays`), because the guard is about the
    largest element and the length of a block is reduced before the copy (`BytesType`); and the counts
    of a loop stay within `MAX_LOOP_COUNT` because every opcode that sets one caps it
    (`BreakCountType`, `LoopedType`). That `GetOpList` yields a list of opcodes is a lemma.
  - `SubmittedAsPromised` and `VerdictOfOwnRules` need more: nothing in either property
    tells what a context between two opcodes means. The second invariant, `RunInv`, does. As long as
    nothing has spoilt the event, no argument walks over two registers and none is returned content, the
    program is at a *place*: before an argument, in its walk
    (`read_op`), at its value, in its content, at a turn of a loop in its content, at its rules. Each place
    fixes what has been saved (the promise of the arguments before it, and of this one as far as it
    got), where the list goes on, what the registers of the context hold, and which flags stand. The
    proof shows that every turn of the interpreter leads from a place to the place after it
    (`Leads`, `Proceeds`), argument type by argument type. The invariant held in all states of
    `read_args` before it was proved. It says that an event is skipped exactly if the comparisons the
    code makes condemn it (`Condemned`); `RejectedIs` shows that for numbers the code does not misjudge
    this is what the document asks for.
  - `ReadBackAsPromised` follows from `SubmittedAsPromised`: every parser takes from a sequence that
    begins with what is promised for its type exactly that (`ParsesPairs`, `ParsesIovec`, `ParsesMsghdr`,
    `ParsesStrings`, `ParsesContent`), and so, argument by argument, nothing is left.
  - `CompareTypeCorrect`, `MatchesHold`, `MissesHold`, `NothingStaysInBuf`. The invariant `CompareInv` says
    that a CPU between its insertion and its deletion has the rules of all others there among its
    `rivals`, and that its own rule is in the map unless a rival with the same rule has deleted it.
  - `GetOpList`, the promises and the parsers are recursive functions and folds. The induction
    theorems of the library take an operator as a parameter and cannot be used, but induction over the
    members of a *set* of numbers can (`NumberInduction`, from the well-founded order on the
    naturals): the first part of the module derives from it that a recursive function over the
    naturals exists and obeys its equation (`IterationExists`) and what `FlattenSeq` adds for one more
    sequence (`FlatStep`).
* **`EventPipelineProofs`.** `OneWorker`, `TypeCorrect` and `Implements`. The invariant `WorkerInv`: a
  worker that has not stopped is registered, or is the one the dispatcher has created and is about to
  register, and in that case no other is registered for its uuid. `Close` removes what is registered
  under the uuid of the worker, and the invariant is why that is the worker itself. For the types
  `DispatcherInv`, `ChannelInv` and `DeadInv` are added: what the dispatcher holds at each of its
  places, that a channel is written only below its capacity, and that a worker that is neither
  registered nor in the dispatcher's hands is out of use. The refinement rests on two more conjuncts:
  `OrderInv`, that a channel is in the order of reading and that a worker holds only what is older
  than the event in the dispatcher's hands, which is older than what is on `incoming`; and `OwnerInv`,
  that before the dispatcher writes nobody but its target is registered for the uuid. With the second,
  an event written to a worker that has ended is lost while no other worker of its uuid is running,
  and with the first it is then the oldest one pending. One lemma for each action names the step of
  `EventLog` it is. `PrintsInOrder` says what the refinement means for a reader: the log of a thread
  is in the order of reading and says nothing twice. It is proved of `EventLog` alone (`OldestFirst`:
  what is pending is younger than what is printed) and carried over.
* **`UprobeTraceProofs`.** `TypeCorrect`, `ShowsOwnArguments`, `AllReported`, for any functions,
  probes, threads and depth of recursion. None of the three says anything of a frame that is not at
  the top, so the invariant does, for each thread: `Slots` (a slot holds 0 or the depth of a frame of
  its function), `Again` and `Owner` (a frame below another activation of its function knows of it; a
  taken slot belongs to the frame itself, or a later activation has still to reach its exit point and
  will free it), `Stored` (what a frame without inner activation has saved is still there). The bound
  on the depth and the capacity of the map are about cardinalities and are kept apart (`ShapeInv`).
* **`ProcMapsProofs`.** `TypeCorrect`, `CacheHasNoDuplicates`, `NothingForeign`, `HandledAreKnown`
  and, as an action property, `KnownIsKept`. The invariant adds what the properties need of the world:
  `MapsInv` (two mappings never share a base, and everything mapped is remembered in `had`),
  `FamilyInv` (descent is transitive), `PendingInv` (a record on its way speaks of a mapping its
  number had, or of a parent in the family), `HookInv` (content in hand that is not outdated lacks
  only what a record still reports). `ReadBackFacts` says what reading `/proc` back keeps of a
  content: the mappings shown under their own path, and each base once. `Good` is what every operator
  of `MapsHelper` preserves; one lemma for each says so, and the actions are proved from these lemmas.
* **`StopResumeProofs`.** `TypeCorrect`, `ListIsComplete`, `AutoLeavesNobody`. The invariant says
  that what the dispatcher holds and what sends a signal has been submitted (`Submitted`), that a
  process was stopped by an event of its own (`StoppedBy`), that an event whose process has not
  died finds it alive (`OwnersLive`), and `EnteredAreListed`: a number is on the list from the moment
  it is entered, stopped or not, which is what `StoppedAreListed` needs to be inductive.
* **`DumpFileProofs`.** `TypeCorrect` and `ReadsBack`, for any number of modules and records. `WriterInv`
  ties the lock to the one dispatcher that writes; `FileInv` says that the file is the dumped
  records, whole and in order, followed by the parts the writer has written, and, once a write has
  failed, that it begins with the records dumped until then and that what follows can never be
  read as a record (`Stuck`): either it ends too early, or a torn part or one with the number of
  another field stands where the next part should be, whatever other dispatchers write behind it.
  `ParserInv` says that nothing is read before the program has ended.

Every safety and action property of a passing run is a theorem. Only model-checked are the liveness
properties (`LoadingEnds`, `WorkersEnd`, `EventsLeave`, `AutoResumed`, `PromptResumes`,
`AcceptedAreDumped`), because the prover handles neither fairness nor `ENABLED`, and the three
violations, which are counterexamples.

## What is not modelled

`components` in `PROJECT.json` lists every part with its status.

* *Point and filter configuration* is sequential code that runs before anything else; the models
  take the parsed points, filters and lists as constants. Its one known hazard, points that are
  numbered twice, is listed as such.
* *The native unwinding library* has no source here, and *build scripts, assets, preloaded
  libraries and the wrappers around Android commands* have no logic of their own.
* *Text*: padding, colours, names of flags, formatting of arguments and stacks.
* *Real time*: the two seconds `EventProcessor.Close` waits, and the length of a tick.
* *Several CPUs inside one `read_args`* other than in `StrCompare`, and `op_list` being written while
  events are read.
* *Headers*: nearly all lines under `src/src/` are the generated kernel types of `vmlinux_510.h`
  (110,543 lines) and the libbpf headers (`bpf/`), which declare types and helpers and hold no
  program logic. The models cover the BPF programs and the parts of the Go program that
  keep state; they leave the headers alone, so the share of all lines that is mapped is small.

Abstracted in the modules: the contents of events, the verdict of `read_args` in `SyscallTrace` and
`UprobeTrace` (a free choice there), attaching of probes, loss of samples in the perf ring where
the pipeline starts at the records that are read (`ProcMaps` and `StopResume` have the loss), the test
for 32-bit tasks (`syscall.c:67-73`, `177-183`), and in `EventPipeline` the fatal error of the Go runtime
when `EventProcessor.Close` walks `workerQueue` while a worker deletes itself.

What the properties leave out on purpose, because the code does not do it:

* `PassedMeansWanted`: threads whose ids meet another list (`Aliased`), and forks of forks (`missed`).
* `ReturnsLeaveNothing`: entries of threads that die inside a call. They stay in `ctx_regs_map`; what
  they do to later calls is in `ExitPairs`.
* `AsPromised`, `ShownAsPromised`, `VerdictIsOwn`: the causes listed under `ReadArgs`.
* `HandledIsKnown`: mappings that `/proc` does not show under their path, and the five gaps.
  `OnlyFromFamily`: the libraries of a dead process with the same number.
* `AutoResumed`, `StoppedHaveReason`: signals that come after the event was handled, lost records, a
  hanging dispatcher and the fatal end of the program. `StoppedAreListed`, `PromptResumes`: processes
  that were stopped by a point whose signal is not entered in the list (system calls with a signal
  of their own, `--tkill`).
* No property compares enter and exit events in the log after the ring has dropped one of them.

## Plan

The modules were written in the order in which one part rests on another: which events are
reported (`TaskFilter`), how two of them belong together (`SyscallTrace`, `UprobeTrace`), what they
contain (`ArgTypes`, `ReadArgs`, `StrCompare`, `ArgDecode`), how they reach the log (`EventLog`,
`EventPipeline`), how addresses in them get names (`ProcMaps`), and what the program does beside
the log (`StopResume`, `DumpFile`).

Worth adding: the numbering of points across configuration files and command line, from option
to map key; the window in which `op_list` is incomplete; and, as theorems, the safety halves of the
liveness properties (that nobody but a fork burst can fill a map, that only `Stuck` blocks the
dispatcher), which would leave fairness alone to TLC.
