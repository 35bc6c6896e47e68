------------------------------ MODULE EventPipeline ------------------------------
(*****************************************************************************)
(* From the perf reader to the log: the goroutines and channels of user      *)
(* space.                                                                    *)
(*                                                                           *)
(* Every record read is put on the channel incoming.  One dispatcher takes   *)
(* the records off it, parses them and hands each event to the worker of its *)
(* uuid, which it creates when there is none.  A worker prints what is on    *)
(* its own channel; a ticker counts up while nothing comes, and in the end   *)
(* the worker takes itself out of workerQueue and stops.  The lock of the    *)
(* processor covers single accesses to workerQueue: between the lookup and   *)
(* the write of the dispatcher, the worker may be gone.                      *)
(*****************************************************************************)
EXTENDS Naturals, Sequences, FiniteSets

CONSTANTS
    Uuid,           \* pid, tid and name of a thread
    Id,             \* worker objects
    MaxEvents,      \* bound on the records read
    InCap,          \* MAX_INCOMING_CHAN_LEN: 1024
    ChanCap,        \* MAX_CHAN_LEN: 256
    MaxTick         \* MAX_TICKER_COUNT: 10

ASSUME PipelineAssumption ==
    /\ Uuid # {}
    /\ MaxEvents \in Nat
    /\ InCap \in Nat \ {0} /\ ChanCap \in Nat \ {0}
    /\ MaxTick \in Nat

VARIABLES
    accepted,       \* number of records put on incoming
    incoming,       \* channel of the processor
    pc,             \* the dispatcher: "receive", "lookup", "register" or "write"
    current,        \* <<event>> in its hands, or << >>
    target,         \* {worker it has created or looked up}, or {}
    workerQueue,    \* uuid -> worker
    worker,         \* the worker objects
    closed,         \* EventProcessor.Close was called
    printed         \* uuid -> events printed so far

dispatcher == <<pc, current, target>>
vars == <<accepted, incoming, dispatcher, workerQueue, worker, closed, printed>>

\* What becomes of a record: an event that is printed; one that is not (COMM, MMAP2, EXIT
\* and FORK); or no event at all, because ParseEvent returns an error or nil.
Kind == {"sample", "common", "none"}

Event == [seq : 1..MaxEvents, uuid : Uuid, kind : Kind]

Worker == [state : {"none", "running", "closing", "dead"}, uuid : Uuid,
           incoming : Seq(Event), tickerCount : 0..MaxTick + 1]

Blank == [state |-> "none", uuid |-> CHOOSE u \in Uuid : TRUE,
          incoming |-> << >>, tickerCount |-> 0]

-----------------------------------------------------------------------------
(* The reader and the dispatcher.                                            *)

\* perfEventReader: the next record is prepared and written to the processor, which blocks
\* while incoming is full.
Write(uuid, kind) ==
    /\ accepted < MaxEvents
    /\ Len(incoming) < InCap
    /\ accepted' = accepted + 1
    /\ incoming' = Append(incoming, [seq |-> accepted + 1, uuid |-> uuid, kind |-> kind])
    /\ UNCHANGED <<dispatcher, workerQueue, worker, closed, printed>>

\* Serve takes the next record, and ParseEvent makes an event of it or not.
Receive ==
    /\ pc = "receive"
    /\ incoming # << >>
    /\ incoming' = Tail(incoming)
    /\ IF Head(incoming).kind = "none"
       THEN UNCHANGED <<pc, current>>
       ELSE pc' = "lookup" /\ current' = <<Head(incoming)>>
    /\ UNCHANGED <<accepted, target, workerQueue, worker, closed, printed>>

Unused == {i \in Id : worker[i].state = "none"}

Started(u) == [state |-> "running", uuid |-> u, incoming |-> << >>, tickerCount |-> 0]

\* Bug variant: a worker is created for every event.
Lookup_never ==
    /\ pc = "lookup"
    /\ Unused # {}
    /\ LET id == CHOOSE i \in Unused : TRUE
       IN  /\ pc' = "register" /\ target' = {id}
           /\ worker' = [worker EXCEPT ![id] = Started(current[1].uuid)]
    /\ UNCHANGED <<accepted, incoming, current, workerQueue, closed, printed>>

\* getWorkerByUUID; without a worker, NewEventWorker, whose goroutine runs from now on.
Lookup ==
    /\ pc = "lookup"
    /\ LET u == current[1].uuid
       IN  IF u \in DOMAIN workerQueue
           THEN pc' = "write" /\ target' = {workerQueue[u]} /\ UNCHANGED worker
           ELSE /\ Unused # {}
                /\ LET id == CHOOSE i \in Unused : TRUE
                   IN  /\ pc' = "register" /\ target' = {id}
                       /\ worker' = [worker EXCEPT ![id] = Started(u)]
    /\ UNCHANGED <<accepted, incoming, current, workerQueue, closed, printed>>

\* Bug variant: addWorkerByUUID is not called.
Register_nothing ==
    /\ pc = "register"
    /\ pc' = "write"
    /\ UNCHANGED <<accepted, incoming, current, target, workerQueue, worker, closed, printed>>

\* addWorkerByUUID, whatever the worker has done since it was created.
Register ==
    /\ pc = "register"
    /\ pc' = "write"
    /\ \E id \in target :
          workerQueue' = [u \in DOMAIN workerQueue \cup {worker[id].uuid} |->
                             IF u = worker[id].uuid THEN id ELSE workerQueue[u]]
    /\ UNCHANGED <<accepted, incoming, current, target, worker, closed, printed>>

\* Worker objects that can be collected: dead and known to nobody.
Collected(w, registered) ==
    [i \in Id |-> IF w[i].state = "dead" /\ i \notin registered THEN Blank ELSE w[i]]

Registered(q) == {q[u] : u \in DOMAIN q}

\* eventWorker.Write blocks while the channel is full, and does not mind a worker that has
\* stopped.
Deliver ==
    /\ pc = "write"
    /\ \E id \in target :
          /\ Len(worker[id].incoming) < ChanCap
          /\ worker' = Collected([worker EXCEPT ![id].incoming = Append(@, current[1])],
                                 Registered(workerQueue))
    /\ pc' = "receive" /\ current' = << >> /\ target' = {}
    /\ UNCHANGED <<accepted, incoming, workerQueue, closed, printed>>

Dispatch == Receive \/ Lookup \/ Register \/ Deliver

-----------------------------------------------------------------------------
(* The workers.                                                              *)

\* Run receives an event, resets the counter and prints what parserEvent prints.
Parse(id) ==
    /\ worker[id].state = "running"
    /\ worker[id].incoming # << >>
    /\ LET e == Head(worker[id].incoming)
       IN  printed' = IF e.kind = "sample"
                      THEN [printed EXCEPT ![e.uuid] = Append(@, e.seq)] ELSE printed
    /\ worker' = [worker EXCEPT ![id].incoming = Tail(@), ![id].tickerCount = 0]
    /\ UNCHANGED <<accepted, incoming, dispatcher, workerQueue, closed>>

\* Bug variant: the counter starts again instead of closing the worker.
Tick_restarts(id) ==
    /\ worker[id].state = "running"
    /\ worker' = IF worker[id].tickerCount > MaxTick
                 THEN [worker EXCEPT ![id].tickerCount = 0]
                 ELSE [worker EXCEPT ![id].tickerCount = @ + 1]
    /\ UNCHANGED <<accepted, incoming, dispatcher, workerQueue, closed, printed>>

\* Run sees the ticker first, which it may do even if an event waits.
Tick(id) ==
    /\ worker[id].state = "running"
    /\ worker' = IF worker[id].tickerCount > MaxTick
                 THEN [worker EXCEPT ![id].state = "closing", ![id].tickerCount = 0]
                 ELSE [worker EXCEPT ![id].tickerCount = @ + 1]
    /\ UNCHANGED <<accepted, incoming, dispatcher, workerQueue, closed, printed>>

\* Bug variant: Run does not return after Close.
Close_continues(id) ==
    /\ worker[id].state = "closing"
    /\ workerQueue' = [u \in DOMAIN workerQueue \ {worker[id].uuid} |-> workerQueue[u]]
    /\ worker' = [worker EXCEPT ![id].state = "running"]
    /\ UNCHANGED <<accepted, incoming, dispatcher, closed, printed>>

\* delWorkerByUUID: whatever is registered under the uuid is removed.
Close(id) ==
    /\ worker[id].state = "closing"
    /\ workerQueue' = [u \in DOMAIN workerQueue \ {worker[id].uuid} |-> workerQueue[u]]
    /\ worker' = Collected([worker EXCEPT ![id].state = "dead"],
                           target \cup Registered(workerQueue'))
    /\ UNCHANGED <<accepted, incoming, dispatcher, closed, printed>>

\* EventProcessor.Close sets the counters, without a lock: the write of a worker may win.
ProcessorClose ==
    /\ ~closed
    /\ closed' = TRUE
    /\ \E S \in SUBSET Registered(workerQueue) :
          worker' = [i \in Id |-> IF i \in S THEN [worker[i] EXCEPT !.tickerCount = MaxTick + 1]
                                            ELSE worker[i]]
    /\ UNCHANGED <<accepted, incoming, dispatcher, workerQueue, printed>>

Work(id) == Parse(id) \/ Tick(id) \/ Close(id)

Init ==
    /\ accepted = 0
    /\ incoming = << >>
    /\ pc = "receive" /\ current = << >> /\ target = {}
    /\ workerQueue = [u \in {} |-> 0]
    /\ worker = [i \in Id |-> Blank]
    /\ closed = FALSE
    /\ printed = [u \in Uuid |-> << >>]

Next ==
    \/ \E uuid \in Uuid, kind \in Kind : Write(uuid, kind)
    \/ Receive \/ Lookup \/ Register \/ Deliver
    \/ \E id \in Id : Parse(id) \/ Tick(id) \/ Close(id)
    \/ ProcessorClose

Spec == Init /\ [][Next]_vars

\* Goroutines that can run do run, and tickers tick.
FairSpec == Spec /\ WF_vars(Dispatch) /\ \A id \in Id : WF_vars(Work(id))

-----------------------------------------------------------------------------
(* The promise: EventLog.                                                    *)

\* Numbers of the events of u in s that are to be printed.
Samples(s, u) == {s[i].seq : i \in {j \in DOMAIN s : s[j].uuid = u /\ s[j].kind = "sample"}}

RunningFor(u) == {i \in Id : worker[i].state = "running" /\ worker[i].uuid = u}

\* The events of u that may still be printed: those of its running worker, the one in the
\* hands of the dispatcher, and those on incoming.
Pending(u) ==
    (UNION {Samples(worker[i].incoming, u) : i \in RunningFor(u)})
       \cup Samples(current, u) \cup Samples(incoming, u)

Log == INSTANCE EventLog WITH pending <- [u \in Uuid |-> Pending(u)]

-----------------------------------------------------------------------------
(* Properties.                                                               *)

\* Every variable keeps its type, no channel exceeds its capacity, and only registered or
\* targeted workers survive.
TypeOK ==
    /\ accepted \in 0..MaxEvents
    /\ incoming \in Seq(Event) /\ Len(incoming) <= InCap
    /\ pc \in {"receive", "lookup", "register", "write"}
    /\ current \in Seq(Event) /\ Len(current) = (IF pc = "receive" THEN 0 ELSE 1)
    /\ target \subseteq Id
    /\ Cardinality(target) = (IF pc \in {"register", "write"} THEN 1 ELSE 0)
    /\ DOMAIN workerQueue \subseteq Uuid
    /\ workerQueue \in [DOMAIN workerQueue -> Id]
    /\ worker \in [Id -> Worker]
    /\ \A i \in Id : /\ Len(worker[i].incoming) <= ChanCap
                     /\ worker[i].state # "none" => i \in target \cup Registered(workerQueue)
    /\ closed \in BOOLEAN
    /\ printed \in [Uuid -> Seq(1..MaxEvents)]

\* However workers come and go between the lookup of the dispatcher and its write, the
\* events of one uuid are printed in the order they were read, none of them twice, and only
\* the oldest ones can be lost, with the worker that had them or was given them too late.
ImplementsLog == Log!Spec

\* No two goroutines ever print for the same uuid: a worker is out of workerQueue only when
\* it will not print again.
OneWorkerPrints == \A u \in Uuid : Cardinality(RunningFor(u)) <= 1

\* A worker runs until it is idle for long enough, or is told to close, and then ends.
WorkersEnd == \A id \in Id : (worker[id].state = "running") ~> (worker[id].state # "running")

\* The dispatcher waits for a worker that no longer runs.
Stuck ==
    /\ pc = "write"
    /\ \E id \in target : worker[id].state = "dead" /\ Len(worker[id].incoming) = ChanCap

\* Every event that is read is printed or lost in the end, unless the dispatcher is stuck on
\* a dead worker whose channel is full: the one way in which everything stops.
EventsLeave ==
    <>[](\A u \in Uuid : Pending(u) = {}) \/ <>[]Stuck

=============================================================================
