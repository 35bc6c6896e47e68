------------------------------- MODULE StopResume -------------------------------
(*****************************************************************************)
(* Stopping and resuming traced processes: --kill, --tkill and the signal of *)
(* a point with SIGSTOP, --auto, and the letter c at the prompt.             *)
(*                                                                           *)
(* The BPF programs submit an event and then send the signal.  The           *)
(* dispatcher of the hook module enters the process in stopped_pid_list and, *)
(* with --auto, sends SIGCONT.  The goroutine of the prompt walks the list   *)
(* and sends SIGCONT to every process in it.  stopped_lock covers the        *)
(* changes of the list and not the walk.  Numbers of dead processes are used *)
(* again, and a process that dies is taken off the list only when a signal   *)
(* to it fails.                                                              *)
(*****************************************************************************)
EXTENDS Naturals, FiniteSets

CONSTANTS
    Proc,           \* process numbers
    Hit,            \* bound on the events: each is used once
    Confs           \* command lines: see Conf

\* signal: where SIGSTOP comes from, --kill, --tkill or the configuration of a point;
\* hook: what the module hooks; auto: --auto; dump: --dump.
Conf == [signal : {"kill", "tkill", "point"}, hook : {"uprobe", "syscall"},
         auto : BOOLEAN, dump : BOOLEAN]

ASSUME StopAssumption == Proc # {} /\ Confs \subseteq Conf

VARIABLES
    conf,               \* fixed at start
    state,              \* the traced processes
    hits,               \* each event: its process, its record and its signal
    disp,               \* the dispatcher of the hook module
    prompt,             \* the goroutine that reads the terminal
    stopped_pid_list,
    stopped_lock,       \* {} or {holder}: a holder is changing the list
    end,                \* how the program ended, or "no"
    by,                 \* history: {hit whose signal stopped the process}, or {}
    mistaken            \* history: numbers taken off the list for a predecessor

vars == <<conf, state, hits, disp, prompt, stopped_pid_list, stopped_lock, end, by, mistaken>>

\* rec: "ring" until the dispatcher has it, "taken" until it is done with it.  sig: "due"
\* between submit and signal; "late" when the dispatcher was done before; "none" for the
\* events of returns.  own: the process it comes from still has the number.
HitState == [pid : Proc, rec : {"none", "ring", "lost", "taken", "done"},
             sig : {"none", "due", "sent", "late"}, own : BOOLEAN]

Dispatcher == [at : {"receive", "add", "adding", "resume", "del", "deleting", "blocked"},
               hit : SUBSET Hit]

\* known: what has been on the list since the walk began; done: what it has been at.
Prompt == [at : {"wait", "range", "del", "deleting"}, pid : SUBSET Proc,
           known : SUBSET Proc, done : SUBSET Proc]

\* ContextEvent adds for --kill, UprobeEvent for the signal of its point, and nobody else.
Registers == conf.signal = "kill" \/ (conf.signal = "point" /\ conf.hook = "uprobe")

Running == end = "no"

Pid(h) == hits[h].pid

\* kill(2) fails for a number without a process.
Alive(p) == state[p] # "gone"

\* SIGCONT: nothing happens to a process that is not stopped.
Continue(p) ==
    /\ state' = [state EXCEPT ![p] = IF @ = "stopped" THEN "running" ELSE @]
    /\ by' = [by EXCEPT ![p] = {}]

-----------------------------------------------------------------------------
(* The traced processes and the BPF programs in their threads.               *)

\* A thread of p comes to a hook; the record goes to the ring or, if that is full, nowhere.
Submit(h, p, rec, sig) ==
    /\ Running
    /\ hits[h].rec = "none"
    /\ state[p] = "running"
    /\ rec \in {"ring", "lost"}
    /\ sig \in {"none", "due"}
    /\ hits' = [hits EXCEPT ![h] = [pid |-> p, rec |-> rec, sig |-> sig, own |-> TRUE]]
    /\ UNCHANGED <<conf, state, disp, prompt, stopped_pid_list, stopped_lock, end, by, mistaken>>

\* bpf_send_signal: also when another thread has stopped the process meanwhile.
Signal(h) ==
    /\ hits[h].sig = "due"
    /\ hits' = [hits EXCEPT ![h].sig = IF hits[h].rec = "done" THEN "late" ELSE "sent"]
    /\ LET p == Pid(h)
       IN  IF state[p] = "running"
           THEN /\ state' = [state EXCEPT ![p] = "stopped"]
                /\ by' = [by EXCEPT ![p] = {h}]
           ELSE UNCHANGED <<state, by>>
    /\ UNCHANGED <<conf, disp, prompt, stopped_pid_list, stopped_lock, end, mistaken>>

\* A process dies once its threads have left the BPF programs.
Exit(p) ==
    /\ Running
    /\ Alive(p)
    /\ \A h \in Hit : Pid(h) = p => hits[h].sig # "due"
    /\ state' = [state EXCEPT ![p] = "gone"]
    /\ by' = [by EXCEPT ![p] = {}]
    /\ hits' = [h \in Hit |-> [hits[h] EXCEPT !.own = @ /\ Pid(h) # p]]
    /\ UNCHANGED <<conf, disp, prompt, stopped_pid_list, stopped_lock, end, mistaken>>

Spawn(p) ==
    /\ Running
    /\ ~Alive(p)
    /\ state' = [state EXCEPT ![p] = "running"]
    /\ UNCHANGED <<conf, hits, disp, prompt, stopped_pid_list, stopped_lock, end, by, mistaken>>

-----------------------------------------------------------------------------
(* stopped_pid_list.  A change has a begin and an end, between which the     *)
(* holder of the lock writes the map.                                        *)

\* Bug variant: nobody waits.
Lock_shared(who) == stopped_lock' = stopped_lock \cup {who}

Lock(who) == stopped_lock = {} /\ stopped_lock' = {who}

Unlock(who) == stopped_lock = {who} /\ stopped_lock' = {}

\* DelStopped, for a number that a signal could not reach.
DelStopped(p) ==
    /\ stopped_pid_list' = stopped_pid_list \ {p}
    /\ mistaken' = IF Alive(p) THEN mistaken \cup {p} ELSE mistaken

-----------------------------------------------------------------------------
(* The dispatcher.                                                           *)

\* DumpRecord takes all there is to do for an event.
Receive(h) ==
    /\ Running
    /\ disp.at = "receive"
    /\ hits[h].rec = "ring"
    /\ hits' = [hits EXCEPT ![h].rec = IF conf.dump THEN "done" ELSE "taken"]
    /\ disp' = IF conf.dump THEN disp
               ELSE [at |-> IF Registers THEN "add" ELSE "resume", hit |-> {h}]
    /\ UNCHANGED <<conf, state, prompt, stopped_pid_list, stopped_lock, end, by, mistaken>>

BeginAdd ==
    /\ Running
    /\ disp.at = "add"
    /\ Lock("disp")
    /\ disp' = [disp EXCEPT !.at = "adding"]
    /\ UNCHANGED <<conf, state, hits, prompt, stopped_pid_list, end, by, mistaken>>

\* Bug variant: with --auto a process is not entered.
AddStopped_unlessAuto ==
    /\ Running
    /\ disp.at = "adding"
    /\ Unlock("disp")
    /\ LET pids == {Pid(h) : h \in disp.hit}
       IN  /\ stopped_pid_list' = IF conf.auto THEN stopped_pid_list ELSE stopped_pid_list \cup pids
           /\ mistaken' = mistaken \ pids
    /\ disp' = [disp EXCEPT !.at = "resume"]
    /\ UNCHANGED <<conf, state, hits, prompt, end, by>>

AddStopped ==
    /\ Running
    /\ disp.at = "adding"
    /\ Unlock("disp")
    /\ LET pids == {Pid(h) : h \in disp.hit}
       IN  /\ stopped_pid_list' = stopped_pid_list \cup pids
           /\ mistaken' = mistaken \ pids
    /\ disp' = [disp EXCEPT !.at = "resume"]
    /\ UNCHANGED <<conf, state, hits, prompt, end, by>>

Done(h) == hits' = [hits EXCEPT ![h].rec = "done"]

\* Bug variant: only what is on the list is resumed.
LetItResume_listed(h) ==
    /\ Running
    /\ disp.at = "resume" /\ h \in disp.hit
    /\ Done(h)
    /\ IF conf.auto /\ Pid(h) \in stopped_pid_list THEN Continue(Pid(h)) ELSE UNCHANGED <<state, by>>
    /\ disp' = [at |-> "receive", hit |-> {}]
    /\ UNCHANGED <<conf, prompt, stopped_pid_list, stopped_lock, end, mistaken>>

\* The end of ParseContext: LetItResume with --auto.
LetItResume(h) ==
    /\ Running
    /\ disp.at = "resume" /\ h \in disp.hit
    /\ Done(h)
    /\ IF conf.auto THEN Continue(Pid(h)) ELSE UNCHANGED <<state, by>>
    /\ disp' = IF conf.auto /\ ~Alive(Pid(h)) THEN [disp EXCEPT !.at = "del"]
               ELSE [at |-> "receive", hit |-> {}]
    /\ UNCHANGED <<conf, prompt, stopped_pid_list, stopped_lock, end, mistaken>>

BeginDel ==
    /\ Running
    /\ disp.at = "del"
    /\ Lock("disp")
    /\ disp' = [disp EXCEPT !.at = "deleting"]
    /\ UNCHANGED <<conf, state, hits, prompt, stopped_pid_list, end, by, mistaken>>

EndDel ==
    /\ Running
    /\ disp.at = "deleting"
    /\ Unlock("disp")
    /\ \E h \in disp.hit : /\ DelStopped(Pid(h))
                           /\ prompt' = [prompt EXCEPT !.known = @ \ {Pid(h)}]
    /\ disp' = [at |-> "receive", hit |-> {}]
    /\ UNCHANGED <<conf, state, hits, end, by>>

\* The channel of a worker that is gone is full: see EventPipeline.
Block ==
    /\ Running
    /\ disp.at = "receive"
    /\ ~conf.dump
    /\ disp' = [disp EXCEPT !.at = "blocked"]
    /\ UNCHANGED <<conf, state, hits, prompt, stopped_pid_list, stopped_lock, end, by, mistaken>>

-----------------------------------------------------------------------------
(* The prompt.                                                               *)

\* The line is c.
Enter ==
    /\ Running
    /\ prompt.at = "wait"
    /\ prompt' = [at |-> "range", pid |-> {}, known |-> stopped_pid_list, done |-> {}]
    /\ UNCHANGED <<conf, state, hits, disp, stopped_pid_list, stopped_lock, end, by, mistaken>>

\* The goroutines and their memory are gone; the processes are as they were.
End(how) ==
    /\ end' = how
    /\ disp' = [at |-> "receive", hit |-> {}]
    /\ prompt' = [at |-> "wait", pid |-> {}, known |-> {}, done |-> {}]
    /\ stopped_pid_list' = {}
    /\ stopped_lock' = {}
    /\ UNCHANGED <<conf, state, hits, by, mistaken>>

\* The runtime ends a program that walks a map while another goroutine writes it.
Fatal ==
    /\ Running
    /\ prompt.at = "range"
    /\ stopped_lock # {}
    /\ End("fatal")

\* Bug variant: the walk stops at the first process that is gone.
LetItRun_break(p) ==
    /\ Running
    /\ prompt.at = "range"
    /\ stopped_lock = {}
    /\ p \in stopped_pid_list \ prompt.done
    /\ Continue(p)
    /\ prompt' = IF Alive(p) THEN [prompt EXCEPT !.done = @ \cup {p}]
                 ELSE [at |-> "wait", pid |-> {}, known |-> {}, done |-> {}]
    /\ UNCHANGED <<conf, hits, disp, stopped_pid_list, stopped_lock, end, mistaken>>

\* The next entry, in any order; one that was added during the walk may be met or not.
LetItRun(p) ==
    /\ Running
    /\ prompt.at = "range"
    /\ stopped_lock = {}
    /\ p \in stopped_pid_list \ prompt.done
    /\ Continue(p)
    /\ prompt' = [prompt EXCEPT !.at = IF Alive(p) THEN "range" ELSE "del",
                                !.pid = {p}, !.done = @ \cup {p}]
    /\ UNCHANGED <<conf, hits, disp, stopped_pid_list, stopped_lock, end, mistaken>>

PromptBeginDel ==
    /\ Running
    /\ prompt.at = "del"
    /\ Lock("prompt")
    /\ prompt' = [prompt EXCEPT !.at = "deleting"]
    /\ UNCHANGED <<conf, state, hits, disp, stopped_pid_list, end, by, mistaken>>

PromptEndDel ==
    /\ Running
    /\ prompt.at = "deleting"
    /\ Unlock("prompt")
    /\ \E p \in prompt.pid : /\ DelStopped(p)
                             /\ prompt' = [prompt EXCEPT !.at = "range", !.pid = {},
                                                         !.known = @ \ {p}]
    /\ UNCHANGED <<conf, state, hits, disp, end, by>>

EndRange ==
    /\ Running
    /\ prompt.at = "range"
    /\ stopped_lock = {}
    /\ prompt.known \subseteq prompt.done
    /\ prompt' = [at |-> "wait", pid |-> {}, known |-> {}, done |-> {}]
    /\ UNCHANGED <<conf, state, hits, disp, stopped_pid_list, stopped_lock, end, by, mistaken>>

\* SIGTERM: nobody is resumed.
Quit == Running /\ End("quit")

-----------------------------------------------------------------------------

Init ==
    /\ conf \in Confs
    /\ state = [p \in Proc |-> "running"]
    /\ hits = [h \in Hit |-> [pid |-> CHOOSE p \in Proc : TRUE, rec |-> "none", sig |-> "none",
                             own |-> FALSE]]
    /\ disp = [at |-> "receive", hit |-> {}]
    /\ prompt = [at |-> "wait", pid |-> {}, known |-> {}, done |-> {}]
    /\ stopped_pid_list = {}
    /\ stopped_lock = {}
    /\ end = "no"
    /\ by = [p \in Proc |-> {}]
    /\ mistaken = {}

Process ==
    \/ \E h \in Hit, p \in Proc, rec \in {"ring", "lost"}, sig \in {"none", "due"} :
          Submit(h, p, rec, sig)
    \/ \E p \in Proc : Exit(p) \/ Spawn(p)

Bpf == \E h \in Hit : Signal(h)

Dispatch ==
    \/ \E h \in Hit : Receive(h) \/ LetItResume(h)
    \/ BeginAdd \/ AddStopped \/ BeginDel \/ EndDel

Walk ==
    \/ \E p \in Proc : LetItRun(p)
    \/ Fatal \/ PromptBeginDel \/ PromptEndDel \/ EndRange

Next == Process \/ Bpf \/ Dispatch \/ Block \/ Enter \/ Walk \/ Quit

\* Goroutines that can run do, and Go's mutex lets everyone in who waits; nobody has to type,
\* and no process has to come to a hook.
Fairness ==
    /\ WF_vars(Dispatch) /\ WF_vars(Walk)
    /\ SF_vars(BeginAdd) /\ SF_vars(BeginDel) /\ SF_vars(PromptBeginDel)

Spec == Init /\ [][Next]_vars /\ Fairness

-----------------------------------------------------------------------------

TypeOK ==
    /\ conf \in Conf
    /\ state \in [Proc -> {"running", "stopped", "gone"}]
    /\ hits \in [Hit -> HitState]
    /\ disp \in Dispatcher
    /\ prompt \in Prompt
    /\ stopped_pid_list \subseteq Proc
    /\ stopped_lock \in {{}, {"disp"}, {"prompt"}}
    /\ end \in {"no", "quit", "fatal"}
    /\ by \in [Proc -> SUBSET Hit]
    /\ mistaken \subseteq Proc

\* The list is what c works on: once the event of a stopped process was handled, its number is
\* there, unless the dead process before it was taken off the list after it came.
StoppedAreListed ==
    \A h \in Hit :
        /\ Running /\ Registers /\ ~conf.dump
        /\ hits[h].rec = "done" /\ hits[h].own
        /\ state[Pid(h)] = "stopped"
        => Pid(h) \in stopped_pid_list \cup mistaken

\* With --auto a process stays stopped for a reason: the record of the event that stopped it
\* is on the way, was lost, or was handled before the signal was sent; or it is dumped.
StoppedHaveReason ==
    \A p \in Proc : conf.auto /\ state[p] = "stopped" =>
        \E h \in by[p] : \/ hits[h].rec \in {"ring", "taken", "lost"}
                         \/ hits[h].sig = "late"
                         \/ conf.dump

\* README.md:115: --auto resumes what was stopped, as long as the record is read after the
\* signal and the dispatcher is not held by a dead worker.
AutoResumed ==
    \A h \in Hit :
        /\ conf.auto /\ ~conf.dump
        /\ hits[h].rec \in {"ring", "taken"} /\ hits[h].sig = "sent"
        /\ state[Pid(h)] = "stopped"
        ~> \/ state[Pid(h)] # "stopped"
           \/ disp.at = "blocked" \/ ~Running

\* README.md:229: c lets every process go on that is on the list, unless it is taken off it
\* for a predecessor; one that is gone does not end the walk.
PromptResumes ==
    \A p \in Proc :
        prompt.at # "wait" /\ p \in prompt.known \ prompt.done /\ state[p] = "stopped"
        ~> state[p] # "stopped" \/ p \in mistaken \/ ~Running

=============================================================================
