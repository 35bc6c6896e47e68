-------------------------- MODULE EventPipelineProofs --------------------------
(*****************************************************************************)
(* At most one goroutine prints for a uuid, no channel is ever longer than   *)
(* it may be, and the pipeline implements EventLog, for any number of uuids, *)
(* workers and records, any capacity of the channels and number of ticks;    *)
(* therefore a thread's log is in order and says nothing twice.              *)
(*****************************************************************************)
EXTENDS EventPipeline, FiniteSetTheorems, TLAPS

ShapeInv ==
    /\ accepted \in 0..MaxEvents
    /\ incoming \in Seq(Event)
    /\ current \in Seq(Event)
    /\ pc \in {"lookup", "register", "write"} => current # << >>
    /\ target \subseteq Id
    /\ pc = "register" => \E i \in Id : target = {i}
    /\ DOMAIN workerQueue \subseteq Uuid
    /\ workerQueue \in [DOMAIN workerQueue -> Id]
    /\ worker \in [Id -> Worker]

Alive(i) == worker[i].state \in {"running", "closing"}

\* Worker i is the one that workerQueue has for its uuid.
IsRegistered(i) ==
    worker[i].uuid \in DOMAIN workerQueue /\ workerQueue[worker[i].uuid] = i

\* Worker i was created by the dispatcher, which has still to register it.
IsFresh(i) == pc = "register" /\ target = {i}

\* A worker that has not stopped is registered, or about to be; in the second case nothing
\* else is registered for its uuid.
WorkerInv ==
    \A i \in Id : /\ Alive(i) => IsRegistered(i) \/ IsFresh(i)
                  /\ IsFresh(i) => worker[i].uuid \notin DOMAIN workerQueue

IInv == ShapeInv /\ WorkerInv

LEMMA BlankType == Blank \in Worker /\ \A u \in Uuid : Started(u) \in Worker
BY PipelineAssumption DEF Blank, Started, Worker

\* Two workers that have not stopped are for two uuids.
LEMMA AliveApart ==
    ASSUME WorkerInv, NEW i \in Id, NEW j \in Id, Alive(i), Alive(j),
           worker[i].uuid = worker[j].uuid
    PROVE  i = j
BY DEF WorkerInv, IsRegistered, IsFresh

LEMMA InitInv == Init => IInv
<1> SUFFICES ASSUME Init PROVE IInv
  OBVIOUS
<1>1. \A i \in Id : worker[i] = Blank
  BY DEF Init
<1>2. ShapeInv
  BY <1>1, BlankType, PipelineAssumption DEF Init, ShapeInv
<1>3. WorkerInv
  BY <1>1 DEF Init, WorkerInv, Alive, IsFresh, Blank
<1> QED
  BY <1>2, <1>3 DEF IInv

LEMMA WriteInv ==
    ASSUME IInv, NEW uuid \in Uuid, NEW kind \in Kind, Write(uuid, kind)
    PROVE  IInv'
<1>1. /\ accepted < MaxEvents /\ accepted' = accepted + 1
      /\ incoming' = Append(incoming, [seq |-> accepted + 1, uuid |-> uuid, kind |-> kind])
      /\ UNCHANGED <<dispatcher, workerQueue, worker>>
  BY DEF Write
<1>2. accepted' \in 0..MaxEvents
      /\ [seq |-> accepted + 1, uuid |-> uuid, kind |-> kind] \in Event
  BY <1>1, PipelineAssumption DEF IInv, ShapeInv, Event
<1>3. incoming' \in Seq(Event)
  BY <1>1, <1>2 DEF IInv, ShapeInv
<1>4. ShapeInv'
  BY <1>1, <1>2, <1>3 DEF IInv, ShapeInv, dispatcher
<1>5. WorkerInv'
  BY <1>1 DEF IInv, WorkerInv, Alive, IsRegistered, IsFresh, dispatcher
<1> QED
  BY <1>4, <1>5 DEF IInv

LEMMA ReceiveInv ==
    ASSUME IInv, Receive
    PROVE  IInv'
<1>1. /\ pc = "receive" /\ incoming # << >> /\ incoming' = Tail(incoming)
      /\ \/ pc' = "receive" /\ current' = current
         \/ pc' = "lookup" /\ current' = <<Head(incoming)>>
      /\ UNCHANGED <<accepted, target, workerQueue, worker>>
  BY DEF Receive
<1>2. incoming' \in Seq(Event) /\ Head(incoming) \in Event
  BY <1>1 DEF IInv, ShapeInv
<1>3. ShapeInv'
  <2>1. <<Head(incoming)>> \in Seq(Event) /\ <<Head(incoming)>> # << >>
    BY <1>2
  <2> QED
    BY <1>1, <1>2, <2>1 DEF IInv, ShapeInv
<1>4. WorkerInv'
  BY <1>1 DEF IInv, WorkerInv, Alive, IsRegistered, IsFresh
<1> QED
  BY <1>3, <1>4 DEF IInv

LEMMA LookupInv ==
    ASSUME IInv, Lookup
    PROVE  IInv'
<1> DEFINE u == current[1].uuid
           id == CHOOSE i \in Unused : TRUE
<1>0. pc = "lookup" /\ UNCHANGED <<accepted, incoming, current, workerQueue>>
  BY DEF Lookup
<1>1. u \in Uuid
  <2>1. current \in Seq(Event) /\ current # << >>
    BY <1>0 DEF IInv, ShapeInv
  <2>2. current[1] \in Event
    BY <2>1
  <2> QED
    BY <2>2 DEF Event
<1>2. CASE u \in DOMAIN workerQueue
  <2>1. pc' = "write" /\ target' = {workerQueue[u]} /\ worker' = worker
    BY <1>2 DEF Lookup
  <2>2. workerQueue[u] \in Id
    BY <1>2 DEF IInv, ShapeInv
  <2>3. ShapeInv'
    BY <1>0, <2>1, <2>2 DEF IInv, ShapeInv
  <2>4. WorkerInv'
    BY <1>0, <2>1 DEF IInv, WorkerInv, Alive, IsRegistered, IsFresh
  <2> QED
    BY <2>3, <2>4 DEF IInv
<1>3. CASE u \notin DOMAIN workerQueue
  <2>1. /\ Unused # {} /\ pc' = "register" /\ target' = {id}
        /\ worker' = [worker EXCEPT ![id] = Started(u)]
    BY <1>3 DEF Lookup
  <2>2. id \in Unused /\ id \in Id
    BY <2>1 DEF Unused
  <2> HIDE DEF id, u
  <2>3. /\ worker'[id] = Started(u) /\ worker'[id].uuid = u
        /\ \A i \in Id : i # id => worker'[i] = worker[i]
    BY <2>1, <2>2 DEF IInv, ShapeInv, Started
  <2>4. worker' \in [Id -> Worker]
    BY <1>1, <2>1, <2>2, BlankType DEF IInv, ShapeInv
  <2>5. ShapeInv'
    BY <1>0, <2>1, <2>2, <2>4 DEF IInv, ShapeInv
  <2>6. WorkerInv'
    BY <1>0, <1>3, <2>1, <2>3 DEF IInv, WorkerInv, Alive, IsRegistered, IsFresh
  <2> QED
    BY <2>5, <2>6 DEF IInv
<1> QED
  BY <1>2, <1>3

LEMMA RegisterInv ==
    ASSUME IInv, Register
    PROVE  IInv'
<1>1. /\ pc = "register" /\ pc' = "write"
      /\ UNCHANGED <<accepted, incoming, current, target, worker>>
  BY DEF Register
<1>2. PICK id \in Id : target = {id}
  BY <1>1 DEF IInv, ShapeInv
<1> DEFINE u == worker[id].uuid
<1>3. workerQueue' = [v \in DOMAIN workerQueue \cup {u} |->
                        IF v = u THEN id ELSE workerQueue[v]]
  BY <1>2 DEF Register
<1>4. u \in Uuid /\ u \notin DOMAIN workerQueue
  BY <1>1, <1>2 DEF IInv, ShapeInv, WorkerInv, IsFresh, Worker
<1> HIDE DEF u
<1>5. ShapeInv'
  BY <1>1, <1>2, <1>3, <1>4 DEF IInv, ShapeInv
<1>6. WorkerInv'
  BY <1>1, <1>2, <1>3, <1>4 DEF IInv, WorkerInv, Alive, IsRegistered, IsFresh, u
<1> QED
  BY <1>5, <1>6 DEF IInv

\* The end of an action that changes counters, channels or the state of workers: nobody comes
\* alive or changes uuid, except that dead workers may be collected.
LEMMA WorkKept ==
    ASSUME IInv, NEW w \in [Id -> Worker],
           \A i \in Id : /\ w[i].uuid = worker[i].uuid
                         /\ w[i].state \in {"running", "closing"} => Alive(i),
           worker' = w,
           UNCHANGED <<accepted, incoming, dispatcher, workerQueue>>
    PROVE  IInv'
<1>1. ShapeInv'
  BY DEF IInv, ShapeInv, dispatcher
<1>2. WorkerInv'
  BY DEF IInv, WorkerInv, Alive, IsRegistered, IsFresh, dispatcher
<1> QED
  BY <1>1, <1>2 DEF IInv

LEMMA DeliverInv ==
    ASSUME IInv, Deliver
    PROVE  IInv'
<1>1. /\ pc = "write" /\ pc' = "receive" /\ current' = << >> /\ target' = {}
      /\ UNCHANGED <<accepted, incoming, workerQueue>>
  BY DEF Deliver
<1>2. PICK id \in target :
         worker' = Collected([worker EXCEPT ![id].incoming = Append(@, current[1])],
                             Registered(workerQueue))
  BY DEF Deliver
<1> DEFINE w == [worker EXCEPT ![id].incoming = Append(@, current[1])]
<1>3. /\ w \in [Id -> Worker]
      /\ \A i \in Id : w[i].uuid = worker[i].uuid /\ w[i].state = worker[i].state
  <2>1. id \in Id /\ current[1] \in Event
    BY <1>1 DEF IInv, ShapeInv
  <2>2. Append(worker[id].incoming, current[1]) \in Seq(Event)
    BY <2>1 DEF IInv, ShapeInv, Worker
  <2> QED
    BY <2>1, <2>2 DEF IInv, ShapeInv, Worker
<1> HIDE DEF w
<1>4. /\ worker' \in [Id -> Worker]
      /\ \A i \in Id : worker'[i] = w[i] \/ worker'[i] = Blank
  BY <1>2, <1>3, BlankType DEF Collected, w
<1>5. ShapeInv'
  BY <1>1, <1>4 DEF IInv, ShapeInv
<1>6. WorkerInv'
  BY <1>1, <1>3, <1>4 DEF IInv, WorkerInv, Alive, IsRegistered, IsFresh, Blank
<1> QED
  BY <1>5, <1>6 DEF IInv

LEMMA ParseInv ==
    ASSUME IInv, NEW id \in Id, Parse(id)
    PROVE  IInv'
<1> DEFINE w == [worker EXCEPT ![id].incoming = Tail(@), ![id].tickerCount = 0]
<1>1. /\ worker[id].incoming # << >> /\ worker' = w
      /\ UNCHANGED <<accepted, incoming, dispatcher, workerQueue>>
  BY DEF Parse
<1>2. worker[id].incoming \in Seq(Event) /\ 0 \in 0..MaxTick + 1
  BY PipelineAssumption DEF IInv, ShapeInv, Worker
<1>3. Tail(worker[id].incoming) \in Seq(Event)
  BY <1>1, <1>2
<1>4. /\ w \in [Id -> Worker]
      /\ \A i \in Id : w[i].uuid = worker[i].uuid /\ w[i].state = worker[i].state
  BY <1>2, <1>3 DEF IInv, ShapeInv, Worker
<1> QED
  BY <1>1, <1>4, WorkKept DEF Alive

LEMMA TickInv ==
    ASSUME IInv, NEW id \in Id, Tick(id)
    PROVE  IInv'
<1>1. /\ worker[id].state = "running"
      /\ UNCHANGED <<accepted, incoming, dispatcher, workerQueue>>
  BY DEF Tick
<1>2. worker[id].tickerCount \in 0..MaxTick + 1 /\ 0 \in 0..MaxTick + 1 /\ MaxTick \in Nat
  BY PipelineAssumption DEF IInv, ShapeInv, Worker
<1>3. CASE worker[id].tickerCount > MaxTick
  <2> DEFINE w == [worker EXCEPT ![id].state = "closing", ![id].tickerCount = 0]
  <2>1. worker' = w
    BY <1>3 DEF Tick
  <2>2. /\ w \in [Id -> Worker]
        /\ \A i \in Id : /\ w[i].uuid = worker[i].uuid
                         /\ w[i].state \in {"running", "closing"} => Alive(i)
    BY <1>1, <1>2 DEF IInv, ShapeInv, Worker, Alive
  <2> QED
    BY <1>1, <2>1, <2>2, WorkKept
<1>4. CASE ~(worker[id].tickerCount > MaxTick)
  <2> DEFINE w == [worker EXCEPT ![id].tickerCount = @ + 1]
  <2>1. worker' = w
    BY <1>4 DEF Tick
  <2>2. worker[id].tickerCount + 1 \in 0..MaxTick + 1
    BY <1>2, <1>4
  <2>3. /\ w \in [Id -> Worker]
        /\ \A i \in Id : /\ w[i].uuid = worker[i].uuid
                         /\ w[i].state \in {"running", "closing"} => Alive(i)
    BY <2>2 DEF IInv, ShapeInv, Worker, Alive
  <2> QED
    BY <1>1, <2>1, <2>3, WorkKept
<1> QED
  BY <1>3, <1>4

LEMMA ProcessorCloseInv ==
    ASSUME IInv, ProcessorClose
    PROVE  IInv'
<1>1. UNCHANGED <<accepted, incoming, dispatcher, workerQueue>>
  BY DEF ProcessorClose
<1>2. PICK S \in SUBSET Registered(workerQueue) :
         worker' = [i \in Id |-> IF i \in S
                                 THEN [worker[i] EXCEPT !.tickerCount = MaxTick + 1]
                                 ELSE worker[i]]
  BY DEF ProcessorClose
<1>3. MaxTick + 1 \in 0..MaxTick + 1
  BY PipelineAssumption
<1>4. /\ worker' \in [Id -> Worker]
      /\ \A i \in Id : /\ worker'[i].uuid = worker[i].uuid
                       /\ worker'[i].state = worker[i].state
  BY <1>2, <1>3 DEF IInv, ShapeInv, Worker
<1> QED
  BY <1>1, <1>4, WorkKept DEF Alive

LEMMA CloseInv ==
    ASSUME IInv, NEW id \in Id, Close(id)
    PROVE  IInv'
<1> DEFINE u == worker[id].uuid
           w == [worker EXCEPT ![id].state = "dead"]
<1>1. /\ worker[id].state = "closing"
      /\ workerQueue' = [v \in DOMAIN workerQueue \ {u} |-> workerQueue[v]]
      /\ worker' = Collected(w, target \cup Registered(workerQueue'))
      /\ UNCHANGED <<accepted, incoming, dispatcher>>
  BY DEF Close
<1>2. /\ w \in [Id -> Worker] /\ w[id].state = "dead"
      /\ \A i \in Id : w[i].uuid = worker[i].uuid
      /\ \A i \in Id : i # id => w[i] = worker[i]
  BY DEF IInv, ShapeInv, Worker
<1> HIDE DEF w
<1>3. \A i \in Id : \/ worker'[i] = w[i]
                    \/ worker'[i] = Blank /\ i \notin target
  BY <1>1 DEF Collected
<1>4. worker' \in [Id -> Worker]
  BY <1>1, <1>2, BlankType DEF Collected
<1>5. ShapeInv'
  BY <1>1, <1>4 DEF IInv, ShapeInv, dispatcher
<1>6. WorkerInv'
  <2> SUFFICES ASSUME NEW i \in Id
               PROVE  /\ Alive(i)' => IsRegistered(i)' \/ IsFresh(i)'
                      /\ IsFresh(i)' => worker'[i].uuid \notin DOMAIN workerQueue'
    BY DEF WorkerInv
  <2>1. ASSUME Alive(i)' PROVE IsRegistered(i)' \/ IsFresh(i)'
    <3>0. worker'[i].state \in {"running", "closing"} /\ Blank.state = "none"
      BY <2>1 DEF Alive, Blank
    <3>1. worker'[i] = worker[i] /\ i # id /\ Alive(i)
      BY <1>2, <1>3, <3>0 DEF Alive
    <3>2. Alive(id)
      BY <1>1 DEF Alive
    <3>3. worker[i].uuid # u
      BY <3>1, <3>2, AliveApart DEF IInv
    <3> HIDE DEF u
    <3>4. IsRegistered(i) \/ IsFresh(i)
      BY <3>1 DEF IInv, WorkerInv
    <3> QED
      BY <1>1, <3>1, <3>3, <3>4 DEF IsRegistered, IsFresh, dispatcher
  <2>2. ASSUME IsFresh(i)' PROVE worker'[i].uuid \notin DOMAIN workerQueue'
    <3>1. IsFresh(i) /\ i \in target
      BY <1>1, <2>2 DEF IsFresh, dispatcher
    <3>2. worker'[i].uuid = worker[i].uuid
      BY <1>2, <1>3, <3>1
    <3> QED
      BY <1>1, <3>1, <3>2 DEF IInv, WorkerInv
  <2> QED
    BY <2>1, <2>2
<1> QED
  BY <1>5, <1>6 DEF IInv

LEMMA StepInv == IInv /\ [Next]_vars => IInv'
<1> SUFFICES ASSUME IInv, [Next]_vars PROVE IInv'
  OBVIOUS
<1>1. CASE UNCHANGED vars
  BY <1>1 DEF IInv, ShapeInv, WorkerInv, Alive, IsRegistered, IsFresh, vars, dispatcher
<1> QED
  BY <1>1, WriteInv, ReceiveInv, LookupInv, RegisterInv, DeliverInv, ParseInv, TickInv, CloseInv,
     ProcessorCloseInv DEF Next

\* No two workers that have not stopped are for the same uuid, so the lines of one uuid come
\* from one goroutine at a time.
THEOREM OneWorker == Spec => []OneWorkerPrints
<1>1. IInv => OneWorkerPrints
  <2> SUFFICES ASSUME IInv, NEW u \in Uuid PROVE Cardinality(RunningFor(u)) <= 1
    BY DEF OneWorkerPrints
  <2>1. \A i, j \in RunningFor(u) : i = j
    BY AliveApart DEF RunningFor, Alive, IInv
  <2>2. CASE RunningFor(u) = {}
    BY <2>2, FS_EmptySet
  <2>3. CASE RunningFor(u) # {}
    <3>1. PICK i \in RunningFor(u) : TRUE
      BY <2>3
    <3>2. RunningFor(u) = {i}
      BY <2>1, <3>1
    <3> QED
      BY <3>2, FS_Singleton
  <2> QED
    BY <2>2, <2>3
<1> QED
  BY InitInv, StepInv, <1>1, PTL DEF Spec

-----------------------------------------------------------------------------
(* What TypeOK asks for beyond that: the bounds of the channels, and that    *)
(* nobody but the dispatcher and workerQueue keeps a dead worker.            *)

DispatcherInv ==
    /\ pc \in {"receive", "lookup", "register", "write"}
    /\ pc = "receive" => current = << >>
    /\ pc # "receive" => Len(current) = 1
    /\ pc \in {"receive", "lookup"} => target = {}
    /\ pc \in {"register", "write"} => \E i \in Id : target = {i}

ChannelInv ==
    /\ Len(incoming) <= InCap
    /\ \A i \in Id : Len(worker[i].incoming) <= ChanCap

DeadInv == \A i \in Id : worker[i].state = "dead" => i \in target \cup Registered(workerQueue)

PrintedInv == closed \in BOOLEAN /\ printed \in [Uuid -> Seq(1..MaxEvents)]

FullInv == IInv /\ DispatcherInv /\ ChannelInv /\ DeadInv /\ PrintedInv

LEMMA FullTypeOK == FullInv => TypeOK
<1> SUFFICES ASSUME FullInv PROVE TypeOK
  OBVIOUS
<1>1. Len(current) = (IF pc = "receive" THEN 0 ELSE 1)
  BY DEF FullInv, DispatcherInv
<1>2. Cardinality(target) = (IF pc \in {"register", "write"} THEN 1 ELSE 0)
  BY FS_Singleton, FS_EmptySet DEF FullInv, DispatcherInv
<1>3. ASSUME NEW i \in Id, worker[i].state # "none" PROVE i \in target \cup Registered(workerQueue)
  <2>1. worker[i].state = "dead" \/ Alive(i)
    BY <1>3 DEF FullInv, IInv, ShapeInv, Worker, Alive
  <2> QED
    BY <2>1 DEF FullInv, IInv, WorkerInv, IsRegistered, IsFresh, DeadInv, Registered
<1> QED
  BY <1>1, <1>2, <1>3 DEF FullInv, IInv, ShapeInv, DispatcherInv, ChannelInv, PrintedInv, TypeOK

LEMMA FullInit == Init => FullInv
<1> SUFFICES ASSUME Init PROVE FullInv
  OBVIOUS
<1>1. \A i \in Id : worker[i].state = "none" /\ Len(worker[i].incoming) = 0
  BY DEF Init, Blank
<1>2. DispatcherInv /\ DeadInv
  BY <1>1 DEF Init, DispatcherInv, DeadInv
<1>3. ChannelInv
  BY <1>1, PipelineAssumption DEF Init, ChannelInv
<1>4. PrintedInv
  <2>1. << >> \in Seq(1..MaxEvents)
    OBVIOUS
  <2> QED
    BY <2>1 DEF Init, PrintedInv
<1> QED
  BY <1>2, <1>3, <1>4, InitInv DEF FullInv

LEMMA FullDispatch ==
    ASSUME FullInv, (\E uuid \in Uuid, kind \in Kind : Write(uuid, kind)) \/ Receive \/ Register
    PROVE  (DispatcherInv /\ ChannelInv /\ DeadInv /\ PrintedInv)'
<1>1. incoming \in Seq(Event) /\ InCap \in Nat
  BY PipelineAssumption DEF FullInv, IInv, ShapeInv
<1>2. ASSUME NEW uuid \in Uuid, NEW kind \in Kind, Write(uuid, kind)
      PROVE  (DispatcherInv /\ ChannelInv /\ DeadInv /\ PrintedInv)'
  <2>1. Len(incoming') = Len(incoming) + 1 /\ Len(incoming) < InCap
    BY <1>1, <1>2 DEF Write
  <2>2. Len(incoming') <= InCap
    BY <1>1, <2>1
  <2> QED
    BY <1>2, <2>2 DEF Write, dispatcher, FullInv, DispatcherInv, ChannelInv, DeadInv, PrintedInv
<1>3. CASE Receive
  <2>1. Len(incoming') <= InCap
    BY <1>1, <1>3 DEF Receive, FullInv, ChannelInv
  <2>2. \/ pc' = "receive" /\ current' = << >>
        \/ pc' = "lookup" /\ Len(current') = 1
    BY <1>3 DEF Receive, FullInv, DispatcherInv
  <2>3. target = {} /\ target' = {}
    BY <1>3 DEF Receive, FullInv, DispatcherInv
  <2> QED
    BY <1>3, <2>1, <2>2, <2>3
    DEF Receive, FullInv, DispatcherInv, ChannelInv, DeadInv, PrintedInv
<1>4. CASE Register
  <2>1. \A v \in DOMAIN workerQueue : v \in DOMAIN workerQueue' /\ workerQueue'[v] = workerQueue[v]
    <3>1. PICK id \in Id : target = {id}
      BY <1>4 DEF Register, FullInv, DispatcherInv
    <3>2. worker[id].uuid \notin DOMAIN workerQueue
      BY <1>4, <3>1 DEF Register, FullInv, IInv, WorkerInv, IsFresh
    <3> QED
      BY <1>4, <3>1, <3>2 DEF Register
  <2>2. Registered(workerQueue) \subseteq Registered(workerQueue')
    BY <2>1 DEF Registered
  <2> QED
    BY <1>4, <2>2 DEF Register, FullInv, DispatcherInv, ChannelInv, DeadInv, PrintedInv
<1> QED
  BY <1>2, <1>3, <1>4

LEMMA FullLookup ==
    ASSUME FullInv, Lookup
    PROVE  (DispatcherInv /\ ChannelInv /\ DeadInv /\ PrintedInv)'
<1> DEFINE u == current[1].uuid
<1>1. /\ pc = "lookup" /\ UNCHANGED <<accepted, incoming, current, workerQueue, closed, printed>>
      /\ target = {}
  BY DEF Lookup, FullInv, DispatcherInv
<1>2. CASE u \in DOMAIN workerQueue
  <2>1. pc' = "write" /\ target' = {workerQueue[u]} /\ worker' = worker
    BY <1>2 DEF Lookup
  <2>2. workerQueue[u] \in Id
    BY <1>2 DEF FullInv, IInv, ShapeInv
  <2> QED
    BY <1>1, <2>1, <2>2 DEF FullInv, DispatcherInv, ChannelInv, DeadInv, PrintedInv
<1>3. CASE u \notin DOMAIN workerQueue
  <2>1. PICK id \in Id : /\ pc' = "register" /\ target' = {id}
                         /\ worker' = [worker EXCEPT ![id] = Started(u)]
    BY <1>3 DEF Lookup, Unused
  <2>2. Started(u).state = "running" /\ Len(Started(u).incoming) = 0
    BY DEF Started
  <2>3. worker'[id] = Started(u) /\ \A i \in Id : i # id => worker'[i] = worker[i]
    BY <2>1 DEF FullInv, IInv, ShapeInv
  <2>4. ChannelInv'
    BY <1>1, <2>2, <2>3, PipelineAssumption DEF FullInv, ChannelInv
  <2> QED
    BY <1>1, <2>1, <2>2, <2>3, <2>4 DEF FullInv, DispatcherInv, DeadInv, PrintedInv
<1> QED
  BY <1>2, <1>3

LEMMA FullDeliver ==
    ASSUME FullInv, Deliver
    PROVE  (DispatcherInv /\ ChannelInv /\ DeadInv /\ PrintedInv)'
<1>1. /\ pc' = "receive" /\ current' = << >> /\ target' = {}
      /\ UNCHANGED <<accepted, incoming, workerQueue, closed, printed>>
  BY DEF Deliver
<1>2. PICK id \in target :
         /\ Len(worker[id].incoming) < ChanCap
         /\ worker' = Collected([worker EXCEPT ![id].incoming = Append(@, current[1])],
                                Registered(workerQueue))
  BY DEF Deliver
<1> DEFINE w == [worker EXCEPT ![id].incoming = Append(@, current[1])]
<1>3. id \in Id /\ worker[id].incoming \in Seq(Event) /\ ChanCap \in Nat
  BY PipelineAssumption DEF FullInv, IInv, ShapeInv, Worker
<1>4. current[1] \in Event
  BY DEF Deliver, FullInv, IInv, ShapeInv
<1>5. Len(Append(worker[id].incoming, current[1])) <= ChanCap
  BY <1>2, <1>3, <1>4
<1>6. \A i \in Id : Len(w[i].incoming) <= ChanCap
  BY <1>3, <1>5 DEF FullInv, IInv, ShapeInv, Worker, ChannelInv
<1> HIDE DEF w
<1>7. \A i \in Id : worker'[i] = IF w[i].state = "dead" /\ i \notin Registered(workerQueue)
                                 THEN Blank ELSE w[i]
  BY <1>2 DEF Collected, w
<1>8. Blank.state = "none" /\ Len(Blank.incoming) = 0
  BY DEF Blank
<1>9. ChannelInv'
  BY <1>1, <1>3, <1>6, <1>7, <1>8 DEF FullInv, ChannelInv
<1>10. DeadInv'
  BY <1>1, <1>7, <1>8 DEF DeadInv
<1> QED
  BY <1>1, <1>9, <1>10 DEF FullInv, DispatcherInv, PrintedInv

LEMMA FullWork ==
    ASSUME FullInv, NEW id \in Id, Parse(id) \/ Tick(id) \/ Close(id)
    PROVE  (DispatcherInv /\ ChannelInv /\ DeadInv /\ PrintedInv)'
<1>1. worker[id] \in Worker /\ worker[id].incoming \in Seq(Event)
  BY DEF FullInv, IInv, ShapeInv, Worker
<1>2. CASE Parse(id)
  <2>1. Head(worker[id].incoming) \in Event /\ Len(Tail(worker[id].incoming)) <= ChanCap
    BY <1>1, <1>2, PipelineAssumption DEF Parse, FullInv, ChannelInv
  <2>2. PrintedInv'
    <3>1. PICK e \in Event : e = Head(worker[id].incoming)
      BY <2>1
    <3>2. printed' = (IF e.kind = "sample"
                      THEN [printed EXCEPT ![e.uuid] = Append(@, e.seq)] ELSE printed)
      BY <1>2, <3>1 DEF Parse
    <3>3. e.uuid \in Uuid /\ e.seq \in 1..MaxEvents
      BY DEF Event
    <3>4. Append(printed[e.uuid], e.seq) \in Seq(1..MaxEvents)
      BY <3>3 DEF FullInv, PrintedInv
    <3>5. printed' \in [Uuid -> Seq(1..MaxEvents)]
      BY <3>2, <3>3, <3>4 DEF FullInv, PrintedInv
    <3> QED
      BY <1>2, <3>5 DEF Parse, FullInv, PrintedInv
  <2>3. \A i \in Id : worker'[i].state = worker[i].state /\ Len(worker'[i].incoming) <= ChanCap
    BY <1>2, <2>1 DEF Parse, FullInv, IInv, ShapeInv, Worker, ChannelInv
  <2> QED
    BY <1>2, <2>2, <2>3 DEF Parse, dispatcher, FullInv, DispatcherInv, ChannelInv, DeadInv
<1>3. CASE Tick(id)
  <2>1. \A i \in Id : /\ worker'[i].incoming = worker[i].incoming
                      /\ worker'[i].state = "dead" => worker[i].state = "dead"
    BY <1>3 DEF Tick, FullInv, IInv, ShapeInv, Worker
  <2> QED
    BY <1>3, <2>1 DEF Tick, dispatcher, FullInv, DispatcherInv, ChannelInv, DeadInv, PrintedInv
<1>4. CASE Close(id)
  <2> DEFINE w == [worker EXCEPT ![id].state = "dead"]
  <2>1. \A i \in Id : Len(w[i].incoming) <= ChanCap
    BY DEF FullInv, IInv, ShapeInv, Worker, ChannelInv
  <2> HIDE DEF w
  <2>2. \A i \in Id : worker'[i] =
           IF w[i].state = "dead" /\ i \notin target \cup Registered(workerQueue')
           THEN Blank ELSE w[i]
    BY <1>4 DEF Close, Collected, w
  <2>3. Blank.state = "none" /\ Len(Blank.incoming) = 0 /\ ChanCap \in Nat
    BY PipelineAssumption DEF Blank
  <2>4. ChannelInv'
    <3>1. \A i \in Id : worker'[i] = Blank \/ worker'[i] = w[i]
      BY <2>2
    <3>2. 0 <= ChanCap
      BY <2>3
    <3>3. \A i \in Id : Len(worker'[i].incoming) <= ChanCap
      BY <2>1, <2>3, <3>1, <3>2
    <3>4. incoming' = incoming
      BY <1>4 DEF Close
    <3> QED
      BY <3>3, <3>4 DEF FullInv, ChannelInv
  <2>5. DeadInv'
    <3>1. target' = target
      BY <1>4 DEF Close, dispatcher
    <3> QED
      BY <2>2, <2>3, <3>1 DEF DeadInv
  <2> QED
    BY <1>4, <2>4, <2>5 DEF Close, dispatcher, FullInv, DispatcherInv, PrintedInv
<1> QED
  BY <1>2, <1>3, <1>4

LEMMA FullProcessorClose ==
    ASSUME FullInv, ProcessorClose
    PROVE  (DispatcherInv /\ ChannelInv /\ DeadInv /\ PrintedInv)'
<1>1. \A i \in Id : worker'[i].state = worker[i].state /\ worker'[i].incoming = worker[i].incoming
  BY DEF ProcessorClose, FullInv, IInv, ShapeInv, Worker
<1> QED
  BY <1>1 DEF ProcessorClose, dispatcher, FullInv, DispatcherInv, ChannelInv, DeadInv, PrintedInv

LEMMA FullStep == FullInv /\ [Next]_vars => FullInv'
<1> SUFFICES ASSUME FullInv, [Next]_vars PROVE FullInv'
  OBVIOUS
<1>1. IInv'
  BY StepInv DEF FullInv
<1>2. CASE UNCHANGED vars
  BY <1>1, <1>2 DEF vars, dispatcher, FullInv, DispatcherInv, ChannelInv, DeadInv, PrintedInv
<1>3. CASE Next
  <2>1. (DispatcherInv /\ ChannelInv /\ DeadInv /\ PrintedInv)'
    BY <1>3, FullDispatch, FullLookup, FullDeliver, FullWork, FullProcessorClose DEF Next
  <2> QED
    BY <1>1, <2>1 DEF FullInv
<1> QED
  BY <1>2, <1>3

\* No channel exceeds its capacity, and a worker that stopped is kept only while the dispatcher
\* or workerQueue still refers to it (NewEventWorker, addWorkerByUUID, delWorkerByUUID).
THEOREM TypeCorrect == Spec => []TypeOK
BY FullTypeOK, FullInit, FullStep, PTL DEF Spec

-----------------------------------------------------------------------------
(* The pipeline implements EventLog.  Events are numbered as they are read,  *)
(* so what a worker holds is older than what the dispatcher holds, and that  *)
(* is older than what waits on incoming.                                     *)

Increasing(s) == \A i, j \in DOMAIN s : i < j => s[i].seq < s[j].seq

Before(s, t) == \A i \in DOMAIN s, j \in DOMAIN t : s[i].seq < t[j].seq

Read(s) == \A i \in DOMAIN s : s[i].seq <= accepted

\* The channel of a worker: in order, older than the rest, and of its own uuid.
Line(w) ==
    /\ Increasing(w.incoming) /\ Read(w.incoming)
    /\ Before(w.incoming, current) /\ Before(w.incoming, incoming)
    /\ \A j \in DOMAIN w.incoming : w.incoming[j].uuid = w.uuid

OrderInv ==
    /\ Increasing(incoming) /\ Read(incoming)
    /\ Read(current) /\ Before(current, incoming)
    /\ \A i \in Id : Line(worker[i])

\* Worker i is in use, for u.
For(i, u) == worker[i].state # "none" /\ worker[i].uuid = u

\* Who is registered or in the dispatcher's hands is for the right uuid; before the dispatcher
\* writes, nobody else is registered for the uuid of its event.
OwnerInv ==
    /\ \A u \in DOMAIN workerQueue : For(workerQueue[u], u)
    /\ \A i \in target : For(i, current[1].uuid)
    /\ pc = "write" /\ current[1].uuid \in DOMAIN workerQueue
          => workerQueue[current[1].uuid] \in target

LogInv == FullInv /\ OrderInv /\ OwnerInv

LEMMA AppendItems ==
    ASSUME NEW s \in Seq(Event), NEW e \in Event
    PROVE  /\ DOMAIN Append(s, e) = DOMAIN s \cup {Len(s) + 1}
           /\ Append(s, e)[Len(s) + 1] = e
           /\ \A i \in DOMAIN s : i < Len(s) + 1 /\ Append(s, e)[i] = s[i]
OBVIOUS

LEMMA TailItems ==
    ASSUME NEW s \in Seq(Event), s # << >>
    PROVE  /\ Tail(s) \in Seq(Event) /\ Head(s) = s[1] /\ 1 \in DOMAIN s
           /\ \A i \in DOMAIN Tail(s) : i + 1 \in DOMAIN s /\ Tail(s)[i] = s[i + 1]
           /\ \A i \in DOMAIN s \ {1} : i - 1 \in DOMAIN Tail(s) /\ Tail(s)[i - 1] = s[i]
           /\ DOMAIN Tail(s) \subseteq Nat /\ DOMAIN s \subseteq Nat \ {0}
OBVIOUS

LEMMA OneItem ==
    ASSUME NEW e PROVE DOMAIN <<e>> = {1} /\ <<e>>[1] = e
OBVIOUS

\* A channel stays in order when its first event is taken, or one that is newer is put on it.
LEMMA TailLine ==
    ASSUME NEW s \in Seq(Event), s # << >>, Increasing(s)
    PROVE  /\ Increasing(Tail(s))
           /\ \A i \in DOMAIN Tail(s) : s[1].seq < Tail(s)[i].seq
           /\ Read(s) => Read(Tail(s))
<1>1. \A i \in DOMAIN Tail(s) : i \in Nat /\ i + 1 \in DOMAIN s /\ Tail(s)[i] = s[i + 1] /\ 1 < i + 1
  <2>1. \A i \in DOMAIN Tail(s) : i \in Nat \ {0}
    BY TailItems
  <2> QED
    BY <2>1, TailItems
<1>2. 1 \in DOMAIN s
  BY TailItems
<1>3. \A i, j \in DOMAIN Tail(s) : i < j => i + 1 < j + 1
  BY <1>1
<1> QED
  BY <1>1, <1>2, <1>3 DEF Increasing, Read

LEMMA AppendLine ==
    ASSUME NEW s \in Seq(Event), NEW e \in Event, Increasing(s),
           \A i \in DOMAIN s : s[i].seq < e.seq
    PROVE  Increasing(Append(s, e))
<1>1. \A i \in DOMAIN s : i \in Nat /\ i < Len(s) + 1
  OBVIOUS
<1>2. Len(s) \in Nat
  OBVIOUS
<1> QED
  BY <1>1, <1>2, AppendItems DEF Increasing

-----------------------------------------------------------------------------
(* Order and owners are kept.                                                *)

LEMMA LogTypes ==
    ASSUME FullInv
    PROVE  /\ incoming \in Seq(Event) /\ current \in Seq(Event) /\ accepted \in Nat
           /\ \A i \in Id : worker[i] \in Worker /\ worker[i].incoming \in Seq(Event)
           /\ worker \in [Id -> Worker] /\ target \subseteq Id
           /\ \A u \in DOMAIN workerQueue : workerQueue[u] \in Id
           /\ pc # "receive" => DOMAIN current = {1} /\ current[1] \in Event
           /\ pc = "receive" => current = << >>
<1>1. pc # "receive" => DOMAIN current = {1} /\ current[1] \in Event
  BY DEF FullInv, IInv, ShapeInv, DispatcherInv
<1> QED
  BY <1>1, PipelineAssumption DEF FullInv, IInv, ShapeInv, DispatcherInv, Worker

LEMMA BlankLine == Blank.state = "none" /\ Blank.incoming = << >> /\ DOMAIN Blank.incoming = {}
BY DEF Blank

LEMMA WriteOrder ==
    ASSUME LogInv, NEW uuid \in Uuid, NEW kind \in Kind, Write(uuid, kind)
    PROVE  OrderInv' /\ OwnerInv'
<1> DEFINE e == [seq |-> accepted + 1, uuid |-> uuid, kind |-> kind]
<1>1. /\ accepted < MaxEvents /\ accepted' = accepted + 1 /\ incoming' = Append(incoming, e)
      /\ UNCHANGED <<pc, current, target, workerQueue, worker>>
  BY DEF Write, dispatcher
<1>2. e \in Event /\ e.seq = accepted + 1 /\ accepted \in Nat /\ incoming \in Seq(Event)
  BY <1>1, LogTypes, PipelineAssumption DEF LogInv, Event
<1> HIDE DEF e
<1>3. \A s \in Seq(Event) : Read(s) =>
         \A i \in DOMAIN s : s[i].seq < e.seq /\ s[i].seq <= accepted'
  <2>1. \A s \in Seq(Event) : \A i \in DOMAIN s : s[i] \in Event /\ s[i].seq \in Nat
    <3>1. \A d \in Event : d.seq \in Nat
      BY PipelineAssumption DEF Event
    <3> QED
      BY <3>1
  <2> QED
    BY <1>1, <1>2, <2>1 DEF Read
<1>4. \A s \in Seq(Event) : Read(s) /\ Before(s, incoming) => Before(s, incoming')
  BY <1>1, <1>2, <1>3, AppendItems DEF Before
<1>5. Increasing(incoming') /\ Read(incoming)'
  <2>1. Increasing(incoming')
    BY <1>1, <1>2, <1>3, AppendLine DEF LogInv, OrderInv
  <2>2. \A i \in DOMAIN incoming : incoming[i].seq <= accepted'
    BY <1>2, <1>3 DEF LogInv, OrderInv, Read
  <2>3. Read(incoming)'
    BY <1>1, <1>2, <2>2, AppendItems DEF Read
  <2> QED
    BY <2>1, <2>3
<1>6. Read(current)' /\ Before(current, incoming)'
  <2>1. current \in Seq(Event) /\ Read(current) /\ Before(current, incoming)
    BY LogTypes DEF LogInv, OrderInv
  <2>2. \A i \in DOMAIN current : current[i].seq <= accepted'
    BY <1>3, <2>1 DEF Read
  <2> QED
    BY <1>1, <1>4, <2>1, <2>2 DEF Read
<1>7. ASSUME NEW i \in Id PROVE Line(worker[i])'
  <2>1. /\ worker[i].incoming \in Seq(Event) /\ Line(worker[i]) /\ worker'[i] = worker[i]
        /\ current' = current
    BY <1>1, LogTypes DEF LogInv, OrderInv
  <2>2. \A j \in DOMAIN worker[i].incoming : worker[i].incoming[j].seq <= accepted'
    BY <1>3, <2>1 DEF Read, Line
  <2> QED
    BY <1>4, <2>1, <2>2 DEF Line, Read
<1>8. OwnerInv'
  BY <1>1 DEF LogInv, OwnerInv, For
<1> QED
  BY <1>5, <1>6, <1>7, <1>8 DEF OrderInv

LEMMA ReceiveOrder ==
    ASSUME LogInv, Receive
    PROVE  OrderInv' /\ OwnerInv'
<1>1. /\ pc = "receive" /\ incoming # << >> /\ incoming' = Tail(incoming)
      /\ current = << >> /\ target = {}
      /\ UNCHANGED <<accepted, target, workerQueue, worker>>
      /\ pc' # "write"
  BY LogTypes DEF Receive, LogInv, FullInv, DispatcherInv
<1>2. incoming \in Seq(Event) /\ Increasing(incoming) /\ Read(incoming)
  BY LogTypes DEF LogInv, OrderInv
<1>3. current' = current \/ (current' = <<Head(incoming)>>)
  BY DEF Receive
<1>4. Head(incoming) = incoming[1] /\ 1 \in DOMAIN incoming
  BY <1>1, <1>2, TailItems
<1>5. \A j \in DOMAIN current' : current'[j] = incoming[1]
  BY <1>1, <1>3, <1>4, OneItem
<1>6. Increasing(incoming') /\ Read(incoming)' /\ Read(current)' /\ Before(current, incoming)'
  <2>1. /\ Increasing(Tail(incoming)) /\ Read(Tail(incoming))
        /\ \A i \in DOMAIN Tail(incoming) : incoming[1].seq < Tail(incoming)[i].seq
    BY <1>1, <1>2, TailLine
  <2> QED
    BY <1>1, <1>2, <1>4, <1>5, <2>1 DEF Read, Before
<1>7. ASSUME NEW i \in Id PROVE Line(worker[i])'
  <2>1. Line(worker[i]) /\ worker'[i] = worker[i] /\ accepted' = accepted
    BY <1>1 DEF LogInv, OrderInv
  <2>2. Before(worker[i].incoming, incoming')
    <3>1. \A j \in DOMAIN Tail(incoming) :
             j + 1 \in DOMAIN incoming /\ Tail(incoming)[j] = incoming[j + 1]
      BY <1>1, <1>2, TailItems
    <3> QED
      BY <1>1, <2>1, <3>1 DEF Line, Before
  <2>3. Before(worker[i].incoming, current')
    BY <1>4, <1>5, <2>1 DEF Line, Before
  <2> QED
    BY <2>1, <2>2, <2>3 DEF Line, Read
<1>8. OwnerInv'
  BY <1>1 DEF LogInv, OwnerInv, For
<1> QED
  BY <1>6, <1>7, <1>8 DEF OrderInv

LEMMA LookupOrder ==
    ASSUME LogInv, Lookup
    PROVE  OrderInv' /\ OwnerInv'
<1> DEFINE u == current[1].uuid
<1>1. pc = "lookup" /\ UNCHANGED <<accepted, incoming, current, workerQueue>>
  BY DEF Lookup
<1>2. CASE u \in DOMAIN workerQueue
  <2>1. pc' = "write" /\ target' = {workerQueue[u]} /\ worker' = worker
    BY <1>2 DEF Lookup
  <2>2. OrderInv'
    BY <1>1, <2>1 DEF LogInv, OrderInv, Line, Read
  <2>3. OwnerInv'
    BY <1>1, <1>2, <2>1 DEF LogInv, OwnerInv, For
  <2> QED
    BY <2>2, <2>3
<1>3. CASE u \notin DOMAIN workerQueue
  <2>1. PICK id \in Id : /\ worker[id].state = "none" /\ pc' = "register" /\ target' = {id}
                         /\ worker' = [worker EXCEPT ![id] = Started(u)]
    BY <1>3 DEF Lookup, Unused
  <2>2. worker'[id] = Started(u) /\ \A i \in Id : i # id => worker'[i] = worker[i]
    BY <2>1, LogTypes DEF LogInv
  <2>3. Started(u).state = "running" /\ Started(u).uuid = u /\ DOMAIN Started(u).incoming = {}
    BY DEF Started
  <2>4. ASSUME NEW i \in Id PROVE Line(worker[i])'
    <3>1. CASE i = id
      BY <2>2, <2>3, <3>1 DEF Line, Increasing, Read, Before
    <3>2. CASE i # id
      BY <1>1, <2>2, <3>2 DEF LogInv, OrderInv, Line, Read
    <3> QED
      BY <3>1, <3>2
  <2>5. OrderInv'
    BY <1>1, <2>4 DEF LogInv, OrderInv, Read
  <2>6. OwnerInv'
    BY <1>1, <2>1, <2>2, <2>3, LogTypes DEF LogInv, OwnerInv, For
  <2> QED
    BY <2>5, <2>6
<1> QED
  BY <1>2, <1>3

LEMMA RegisterOrder ==
    ASSUME LogInv, Register
    PROVE  OrderInv' /\ OwnerInv'
<1>1. /\ pc = "register" /\ pc' = "write"
      /\ UNCHANGED <<accepted, incoming, current, target, worker>>
  BY DEF Register
<1>2. PICK id \in Id : target = {id}
  BY <1>1 DEF LogInv, FullInv, DispatcherInv
<1>3. workerQueue' = [v \in DOMAIN workerQueue \cup {worker[id].uuid} |->
                        IF v = worker[id].uuid THEN id ELSE workerQueue[v]]
  BY <1>2 DEF Register
<1>4. OrderInv'
  BY <1>1 DEF LogInv, OrderInv, Line, Read
<1>5. For(id, current[1].uuid)
  BY <1>2 DEF LogInv, OwnerInv
<1>6. OwnerInv'
  BY <1>1, <1>2, <1>3, <1>5 DEF LogInv, OwnerInv, For
<1> QED
  BY <1>4, <1>6

LEMMA DeliverOrder ==
    ASSUME LogInv, Deliver
    PROVE  OrderInv' /\ OwnerInv'
<1> DEFINE e == current[1]
<1>1. /\ pc = "write" /\ pc' = "receive" /\ current' = << >> /\ target' = {}
      /\ UNCHANGED <<accepted, incoming, workerQueue>>
  BY DEF Deliver
<1>2. PICK id \in target :
         worker' = Collected([worker EXCEPT ![id].incoming = Append(@, e)],
                             Registered(workerQueue))
  BY DEF Deliver
<1>3. /\ id \in Id /\ e \in Event /\ DOMAIN current = {1}
      /\ worker[id] \in Worker /\ worker[id].incoming \in Seq(Event)
      /\ Line(worker[id]) /\ For(id, e.uuid)
  BY <1>1, <1>2, LogTypes DEF LogInv, OrderInv, OwnerInv
<1> DEFINE s == worker[id].incoming
           w == [worker EXCEPT ![id].incoming = Append(@, e)]
<1>4. /\ w[id].incoming = Append(s, e) /\ w[id].uuid = worker[id].uuid
      /\ w[id].state = worker[id].state
      /\ \A i \in Id : i # id => w[i] = worker[i]
  BY <1>3, LogTypes DEF LogInv, Worker
<1>5. \A i \in Id : worker'[i] = IF w[i].state = "dead" /\ i \notin Registered(workerQueue)
                                 THEN Blank ELSE w[i]
  BY <1>2 DEF Collected
<1> HIDE DEF w, s
<1>6. \A i \in DOMAIN s : s[i].seq < e.seq /\ s[i].seq <= accepted /\ s[i].uuid = e.uuid
  BY <1>3 DEF Line, Before, Read, For, s
<1>7. e.seq <= accepted /\ \A j \in DOMAIN incoming : e.seq < incoming[j].seq
  BY <1>3 DEF LogInv, OrderInv, Read, Before
<1>8. \A j \in DOMAIN Append(s, e) : \/ j \in DOMAIN s /\ Append(s, e)[j] = s[j]
                                   \/ Append(s, e)[j] = e
  BY <1>3, AppendItems DEF s
<1> HIDE DEF e
<1>9. ASSUME NEW i \in Id, worker'[i] # Blank PROVE Line(worker[i])'
  <2>1. worker'[i] = w[i]
    BY <1>5, <1>9
  <2>2. Before(w[i].incoming, current')
    BY <1>1 DEF Before
  <2>3. CASE i = id
    <3>1. Increasing(Append(s, e))
      BY <1>3, <1>6, AppendLine DEF Line, s
    <3>2. \A j \in DOMAIN Append(s, e) :
             /\ Append(s, e)[j].seq <= accepted'
             /\ Append(s, e)[j].uuid = worker[id].uuid
      BY <1>1, <1>3, <1>6, <1>7, <1>8 DEF For
    <3>3. Before(Append(s, e), incoming')
      BY <1>1, <1>3, <1>7, <1>8 DEF Line, Before, s
    <3> QED
      BY <1>4, <2>1, <2>2, <2>3, <3>1, <3>2, <3>3 DEF Line, Read
  <2>4. CASE i # id
    <3>1. Line(worker[i]) /\ worker'[i] = worker[i]
      BY <1>4, <2>1, <2>4 DEF LogInv, OrderInv
    <3> QED
      BY <1>1, <2>1, <2>2, <3>1 DEF Line, Read
  <2> QED
    BY <2>3, <2>4
<1>10. ASSUME NEW i \in Id, worker'[i] = Blank PROVE Line(worker[i])'
  BY <1>10, BlankLine DEF Line, Increasing, Read, Before
<1>11. OrderInv'
  <2>1. Read(current)' /\ Before(current, incoming)'
    BY <1>1 DEF Read, Before
  <2>2. Increasing(incoming)' /\ Read(incoming)'
    BY <1>1 DEF LogInv, OrderInv, Read
  <2> QED
    BY <1>9, <1>10, <2>1, <2>2 DEF OrderInv
<1>12. OwnerInv'
  <2> SUFFICES ASSUME NEW u \in DOMAIN workerQueue PROVE For(workerQueue[u], u)'
    BY <1>1 DEF OwnerInv
  <2>1. workerQueue[u] \in Id /\ For(workerQueue[u], u) /\ workerQueue[u] \in Registered(workerQueue)
    BY LogTypes DEF LogInv, OwnerInv, Registered
  <2>2. worker'[workerQueue[u]] = w[workerQueue[u]]
    BY <1>5, <2>1
  <2> QED
    BY <1>1, <1>4, <2>1, <2>2 DEF For
<1> QED
  BY <1>11, <1>12

\* A step that leaves the dispatcher, its channel and workerQueue alone.
LEMMA WorkOrder ==
    ASSUME LogInv, UNCHANGED <<accepted, incoming, dispatcher, workerQueue>>,
           \A i \in Id : /\ worker[i].state # "none" => worker'[i].state # "none"
                         /\ worker'[i].uuid = worker[i].uuid
                         /\ \/ worker'[i].incoming = worker[i].incoming
                            \/ /\ worker[i].incoming # << >>
                               /\ worker'[i].incoming = Tail(worker[i].incoming)
    PROVE  OrderInv' /\ OwnerInv'
<1>1. UNCHANGED <<pc, current, target>>
  BY DEF dispatcher
<1>2. ASSUME NEW i \in Id PROVE Line(worker[i])'
  <2>1. Line(worker[i]) /\ worker[i].incoming \in Seq(Event)
    BY LogTypes DEF LogInv, OrderInv
  <2>2. CASE worker'[i].incoming = worker[i].incoming
    BY <1>1, <2>1, <2>2 DEF Line, Read
  <2>3. CASE worker[i].incoming # << >> /\ worker'[i].incoming = Tail(worker[i].incoming)
    <3> DEFINE s == worker[i].incoming
    <3>1. s \in Seq(Event) /\ s # << >> /\ Increasing(s) /\ Read(s)
      BY <2>1, <2>3 DEF Line
    <3> HIDE DEF s
    <3>2. Increasing(Tail(s)) /\ Read(Tail(s))
      BY <3>1, TailLine
    <3>3. \A j \in DOMAIN Tail(s) : j + 1 \in DOMAIN s /\ Tail(s)[j] = s[j + 1]
      BY <3>1, TailItems
    <3>4. Before(Tail(s), current) /\ Before(Tail(s), incoming)
      BY <2>1, <3>3 DEF Line, Before, s
    <3>5. \A j \in DOMAIN Tail(s) : Tail(s)[j].uuid = worker[i].uuid
      BY <2>1, <3>3 DEF Line, s
    <3> QED
      BY <1>1, <2>3, <3>2, <3>4, <3>5 DEF Line, Read, s
  <2> QED
    BY <2>2, <2>3
<1>3. OrderInv'
  BY <1>1, <1>2 DEF LogInv, OrderInv, Read
<1>4. \A i \in Id : \A u : For(i, u) => For(i, u)'
  BY DEF For
<1>5. OwnerInv'
  BY <1>1, <1>4, LogTypes DEF LogInv, OwnerInv
<1> QED
  BY <1>3, <1>5

LEMMA CloseOrder ==
    ASSUME LogInv, NEW id \in Id, Close(id)
    PROVE  OrderInv' /\ OwnerInv'
<1> DEFINE w == [worker EXCEPT ![id].state = "dead"]
<1>1. /\ UNCHANGED <<accepted, incoming, pc, current, target>>
      /\ workerQueue' = [u \in DOMAIN workerQueue \ {worker[id].uuid} |-> workerQueue[u]]
      /\ worker' = Collected(w, target \cup Registered(workerQueue'))
      /\ worker[id].state = "closing"
  BY DEF Close, dispatcher
<1>2. \A i \in Id : /\ w[i].incoming = worker[i].incoming /\ w[i].uuid = worker[i].uuid
                    /\ worker[i].state # "none" => w[i].state # "none"
  BY <1>1, LogTypes DEF LogInv, Worker
<1> HIDE DEF w
<1>3. \A i \in Id : \/ worker'[i] = w[i]
                    \/ worker'[i] = Blank /\ i \notin target \cup Registered(workerQueue')
  BY <1>1 DEF Collected
<1>4. ASSUME NEW i \in Id PROVE Line(worker[i])'
  <2>1. CASE worker'[i] = w[i]
    <3>1. /\ worker'[i].incoming = worker[i].incoming /\ worker'[i].uuid = worker[i].uuid
          /\ Line(worker[i])
      BY <1>2, <2>1 DEF LogInv, OrderInv
    <3> QED
      BY <1>1, <3>1 DEF Line, Read
  <2>2. CASE worker'[i] = Blank
    BY <2>2, BlankLine DEF Line, Increasing, Read, Before
  <2> QED
    BY <1>3, <2>1, <2>2
<1>5. OrderInv'
  BY <1>1, <1>4 DEF LogInv, OrderInv, Read
<1>6. OwnerInv'
  <2>1. \A i \in Id : \A u : i \in target \cup Registered(workerQueue') /\ For(i, u) => For(i, u)'
    BY <1>2, <1>3 DEF For
  <2>2. \A u \in DOMAIN workerQueue' : /\ u \in DOMAIN workerQueue
                                        /\ workerQueue'[u] = workerQueue[u]
                                        /\ workerQueue'[u] \in Registered(workerQueue')
    BY <1>1 DEF Registered
  <2>3. ASSUME NEW u \in DOMAIN workerQueue' PROVE For(workerQueue[u], u)'
    <3>1. workerQueue[u] \in Id /\ For(workerQueue[u], u)
      BY <2>2, LogTypes DEF LogInv, OwnerInv
    <3> QED
      BY <2>1, <2>2, <3>1 DEF For
  <2>4. \A i \in target' : For(i, current[1].uuid)'
    <3>1. target \subseteq Id /\ target' = target /\ current' = current
      BY <1>1, LogTypes DEF LogInv
    <3> QED
      BY <2>1, <3>1 DEF LogInv, OwnerInv, For
  <2> QED
    BY <1>1, <2>2, <2>3, <2>4 DEF LogInv, OwnerInv
<1> QED
  BY <1>5, <1>6

LEMMA LogInit == Init => LogInv
<1> SUFFICES ASSUME Init PROVE LogInv
  OBVIOUS
<1>1. /\ incoming = << >> /\ current = << >> /\ target = {} /\ DOMAIN workerQueue = {}
      /\ \A i \in Id : worker[i] = Blank
  BY DEF Init
<1>2. OrderInv
  BY <1>1, BlankLine DEF OrderInv, Line, Increasing, Read, Before
<1>3. OwnerInv
  BY <1>1 DEF OwnerInv
<1> QED
  BY <1>2, <1>3, FullInit DEF LogInv

LEMMA LogStep == LogInv /\ [Next]_vars => LogInv'
<1> SUFFICES ASSUME LogInv, [Next]_vars PROVE LogInv'
  OBVIOUS
<1>1. FullInv'
  BY FullStep DEF LogInv
<1>2. CASE UNCHANGED vars
  BY <1>1, <1>2 DEF vars, dispatcher, LogInv, OrderInv, OwnerInv, Line, Read, For
<1>3. CASE Next
  <2>1. ASSUME NEW id \in Id, Parse(id) PROVE OrderInv' /\ OwnerInv'
    <3>1. /\ worker[id].incoming # << >>
          /\ worker' = [worker EXCEPT ![id].incoming = Tail(@), ![id].tickerCount = 0]
          /\ UNCHANGED <<accepted, incoming, dispatcher, workerQueue>>
      BY <2>1 DEF Parse
    <3> QED
      BY <3>1, LogTypes, WorkOrder DEF LogInv, Worker
  <2>2. ASSUME NEW id \in Id, Tick(id) PROVE OrderInv' /\ OwnerInv'
    <3>1. /\ \/ worker' = [worker EXCEPT ![id].state = "closing", ![id].tickerCount = 0]
             \/ worker' = [worker EXCEPT ![id].tickerCount = @ + 1]
          /\ UNCHANGED <<accepted, incoming, dispatcher, workerQueue>>
      BY <2>2 DEF Tick
    <3>2. \A i \in Id : /\ worker[i].state # "none" => worker'[i].state # "none"
                        /\ worker'[i].uuid = worker[i].uuid
                        /\ worker'[i].incoming = worker[i].incoming
      <4>1. CASE worker' = [worker EXCEPT ![id].state = "closing", ![id].tickerCount = 0]
        BY <4>1, LogTypes DEF LogInv, Worker
      <4>2. CASE worker' = [worker EXCEPT ![id].tickerCount = @ + 1]
        BY <4>2, LogTypes DEF LogInv, Worker
      <4> QED
        BY <3>1, <4>1, <4>2
    <3> QED
      BY <3>1, <3>2, WorkOrder
  <2>3. ASSUME ProcessorClose PROVE OrderInv' /\ OwnerInv'
    BY <2>3, LogTypes, WorkOrder DEF ProcessorClose, LogInv, Worker
  <2> QED
    BY <1>1, <1>3, <2>1, <2>2, <2>3, WriteOrder, ReceiveOrder, LookupOrder, RegisterOrder,
       DeliverOrder, CloseOrder DEF Next, LogInv
<1> QED
  BY <1>2, <1>3

-----------------------------------------------------------------------------
(* What is pending after a change of a channel.                              *)

Mine(e, u) == IF e.uuid = u /\ e.kind = "sample" THEN {e.seq} ELSE {}

LEMMA SamplesEmpty == \A u : Samples(<< >>, u) = {}
BY DEF Samples

LEMMA SamplesOne ==
    ASSUME NEW e, NEW u PROVE Samples(<<e>>, u) = Mine(e, u)
BY OneItem DEF Samples, Mine

LEMMA SamplesAppend ==
    ASSUME NEW s \in Seq(Event), NEW e \in Event, NEW u
    PROVE  Samples(Append(s, e), u) = Samples(s, u) \cup Mine(e, u)
<1>1. /\ \A i \in DOMAIN Append(s, e) :
            (i \in DOMAIN s /\ Append(s, e)[i] = s[i]) \/ Append(s, e)[i] = e
      /\ \A i \in DOMAIN s : i \in DOMAIN Append(s, e) /\ Append(s, e)[i] = s[i]
      /\ \E i \in DOMAIN Append(s, e) : Append(s, e)[i] = e
  BY AppendItems
<1> QED
  BY <1>1 DEF Samples, Mine

LEMMA SamplesTail ==
    ASSUME NEW s \in Seq(Event), s # << >>, NEW u
    PROVE  Samples(s, u) = Mine(s[1], u) \cup Samples(Tail(s), u)
<1>1. /\ \A i \in DOMAIN s :
            s[i] = s[1] \/ (\E j \in DOMAIN Tail(s) : Tail(s)[j] = s[i])
      /\ \A j \in DOMAIN Tail(s) : \E i \in DOMAIN s : Tail(s)[j] = s[i]
      /\ \E i \in DOMAIN s : s[i] = s[1]
  BY TailItems
<1> QED
  BY <1>1 DEF Samples, Mine

LEMMA SamplesOf ==
    ASSUME NEW s, NEW u, NEW n \in Samples(s, u)
    PROVE  \E i \in DOMAIN s : s[i].seq = n /\ s[i].uuid = u
BY DEF Samples

\* What worker i still has to print for u, and what all workers have.
Own(i, u) == IF i \in RunningFor(u) THEN Samples(worker[i].incoming, u) ELSE {}

Held(u) == UNION {Samples(worker[i].incoming, u) : i \in RunningFor(u)}

LEMMA HeldParts ==
    ASSUME NEW u
    PROVE  /\ \A n : n \in Held(u) <=> \E i \in Id : n \in Own(i, u)
           /\ \A n : n \in Held(u)' <=> \E i \in Id : n \in Own(i, u)'
<1>1. RunningFor(u) \subseteq Id /\ RunningFor(u)' \subseteq Id
  BY DEF RunningFor
<1> QED
  BY <1>1 DEF Held, Own

LEMMA HeldKept ==
    ASSUME NEW u, \A i \in Id : Own(i, u)' = Own(i, u)
    PROVE  Held(u)' = Held(u)
BY HeldParts

\* One goroutine holds them all.
LEMMA HeldByOne ==
    ASSUME LogInv, NEW u, NEW id \in RunningFor(u),
           \A i \in Id : i # id => Own(i, u)' = Own(i, u)
    PROVE  Held(u) = Samples(worker[id].incoming, u) /\ Held(u)' = Own(id, u)'
<1>1. \A i \in RunningFor(u) : i = id
  BY AliveApart DEF RunningFor, Alive, LogInv, FullInv, IInv
<1>2. id \in Id /\ \A i \in Id : i # id => Own(i, u) = {} /\ Own(i, u)' = {}
  BY <1>1 DEF RunningFor, Own
<1>3. \A n : n \in Held(u) <=> n \in Own(id, u)
  BY <1>2, HeldParts
<1>4. \A n : n \in Held(u)' <=> n \in Own(id, u)'
  BY <1>2, HeldParts
<1>5. Own(id, u) = Samples(worker[id].incoming, u)
  BY DEF Own
<1> QED
  BY <1>3, <1>4, <1>5

LEMMA PendingParts ==
    ASSUME NEW u
    PROVE  /\ Pending(u) = Held(u) \cup Samples(current, u) \cup Samples(incoming, u)
           /\ Pending(u)' = Held(u)' \cup Samples(current', u) \cup Samples(incoming', u)
BY DEF Pending, Held

-----------------------------------------------------------------------------
(* Steps of EventLog.                                                        *)

LEMMA LogStutters ==
    ASSUME \A u \in Uuid : Pending(u)' = Pending(u), UNCHANGED <<accepted, printed>>
    PROVE  UNCHANGED Log!vars
<1>1. [u \in Uuid |-> Pending(u)]' = [u \in Uuid |-> Pending(u)]
  OBVIOUS
<1> QED
  BY <1>1 DEF Log!vars

LEMMA LogAccepts ==
    ASSUME NEW u \in Uuid, accepted' = accepted + 1, UNCHANGED printed,
           \A v \in Uuid : Pending(v)' = Pending(v) \cup (IF v = u THEN {accepted + 1} ELSE {})
    PROVE  Log!Next
<1>1. [v \in Uuid |-> Pending(v)]' =
        [[v \in Uuid |-> Pending(v)] EXCEPT ![u] = @ \cup {accepted + 1}]
  OBVIOUS
<1>2. Log!Accept(u)
  BY <1>1 DEF Log!Accept
<1> QED
  BY <1>2 DEF Log!Next

LEMMA LogIgnores ==
    ASSUME accepted' = accepted + 1, UNCHANGED printed, \A u \in Uuid : Pending(u)' = Pending(u)
    PROVE  Log!Next
<1>1. [u \in Uuid |-> Pending(u)]' = [u \in Uuid |-> Pending(u)]
  OBVIOUS
<1> QED
  BY <1>1 DEF Log!Next, Log!Ignore

LEMMA LogEmits ==
    ASSUME NEW u \in Uuid, NEW n \in Pending(u), \A m \in Pending(u) : n <= m,
           printed' = [printed EXCEPT ![u] = Append(@, n)], UNCHANGED accepted,
           Pending(u)' = Pending(u) \ {n},
           \A v \in Uuid : v # u => Pending(v)' = Pending(v)
    PROVE  Log!Next
<1>1. [v \in Uuid |-> Pending(v)]' = [[v \in Uuid |-> Pending(v)] EXCEPT ![u] = @ \ {n}]
  OBVIOUS
<1>2. Log!Emit(u)
  BY <1>1 DEF Log!Emit
<1> QED
  BY <1>2 DEF Log!Next

LEMMA LogLoses ==
    ASSUME NEW u \in Uuid, NEW n \in 1..accepted, UNCHANGED <<accepted, printed>>,
           Pending(u)' = {m \in Pending(u) : m > n},
           \A v \in Uuid : v # u => Pending(v)' = Pending(v)
    PROVE  Log!Next
<1>1. [v \in Uuid |-> Pending(v)]' =
        [[v \in Uuid |-> Pending(v)] EXCEPT ![u] = {m \in @ : m > n}]
  OBVIOUS
<1>2. Log!Lose(u, n)
  BY <1>1 DEF Log!Lose
<1> QED
  BY <1>2 DEF Log!Next

-----------------------------------------------------------------------------
(* Every action is a step of EventLog or leaves it alone.                    *)

LEMMA WriteLog ==
    ASSUME LogInv, NEW uuid \in Uuid, NEW kind \in Kind, Write(uuid, kind)
    PROVE  Log!Next
<1> DEFINE e == [seq |-> accepted + 1, uuid |-> uuid, kind |-> kind]
<1>1. /\ accepted < MaxEvents /\ accepted' = accepted + 1 /\ incoming' = Append(incoming, e)
      /\ UNCHANGED <<current, worker, printed>>
  BY DEF Write, dispatcher
<1>2. /\ e \in Event /\ e.seq = accepted + 1 /\ e.uuid = uuid /\ e.kind = kind
      /\ incoming \in Seq(Event)
  BY <1>1, LogTypes, PipelineAssumption DEF LogInv, Event
<1> HIDE DEF e
<1>3. ASSUME NEW u \in Uuid PROVE Pending(u)' = Pending(u) \cup Mine(e, u)
  <2>1. Held(u)' = Held(u)
    BY <1>1 DEF Held, RunningFor
  <2>2. Samples(incoming', u) = Samples(incoming, u) \cup Mine(e, u)
    BY <1>1, <1>2, SamplesAppend
  <2> QED
    BY <1>1, <2>1, <2>2, PendingParts
<1>4. CASE kind = "sample"
  <2>1. \A u \in Uuid : Pending(u)' = Pending(u) \cup (IF u = uuid THEN {accepted + 1} ELSE {})
    BY <1>2, <1>3, <1>4 DEF Mine
  <2> QED
    BY <1>1, <2>1, LogAccepts
<1>5. CASE kind # "sample"
  <2>1. \A u \in Uuid : Pending(u)' = Pending(u)
    BY <1>2, <1>3, <1>5 DEF Mine
  <2> QED
    BY <1>1, <2>1, LogIgnores
<1> QED
  BY <1>4, <1>5

LEMMA ReceiveLog ==
    ASSUME LogInv, Receive
    PROVE  UNCHANGED Log!vars
<1> DEFINE e == incoming[1]
<1>1. /\ pc = "receive" /\ incoming # << >> /\ incoming' = Tail(incoming)
      /\ IF Head(incoming).kind = "none" THEN current' = current
                                         ELSE current' = <<Head(incoming)>>
      /\ UNCHANGED <<accepted, worker, printed>>
  BY DEF Receive
<1>2. incoming \in Seq(Event) /\ current = << >> /\ Head(incoming) = e
  BY <1>1, LogTypes DEF LogInv
<1> HIDE DEF e
<1>3. ASSUME NEW u \in Uuid PROVE Pending(u)' = Pending(u)
  <2>1. Held(u)' = Held(u)
    BY <1>1 DEF Held, RunningFor
  <2>2. Samples(incoming, u) = Mine(e, u) \cup Samples(incoming', u)
    BY <1>1, <1>2, SamplesTail DEF e
  <2>3. Samples(current, u) = {}
    BY <1>2, SamplesEmpty
  <2>4. Samples(current', u) = Mine(e, u)
    <3>1. CASE e.kind = "none"
      BY <1>1, <1>2, <2>3, <3>1 DEF Mine
    <3>2. CASE e.kind # "none"
      BY <1>1, <1>2, <3>2, SamplesOne
    <3> QED
      BY <3>1, <3>2
  <2> QED
    BY <2>1, <2>2, <2>3, <2>4, PendingParts
<1> QED
  BY <1>1, <1>3, LogStutters

\* A step of a worker that changes neither what is to be printed nor who prints it.
LEMMA HeldLog ==
    ASSUME \A u \in Uuid : \A i \in Id : Own(i, u)' = Own(i, u),
           UNCHANGED <<accepted, incoming, current, printed>>
    PROVE  UNCHANGED Log!vars
<1>1. ASSUME NEW u \in Uuid PROVE Pending(u)' = Pending(u)
  BY HeldKept, PendingParts
<1> QED
  BY <1>1, LogStutters

LEMMA LookupLog ==
    ASSUME LogInv, Lookup
    PROVE  UNCHANGED Log!vars
<1> DEFINE id == CHOOSE i \in Unused : TRUE
           u == current[1].uuid
<1>1. UNCHANGED <<accepted, incoming, current, printed>>
  BY DEF Lookup
<1>2. CASE worker' = worker
  BY <1>1, <1>2, HeldLog DEF Own, RunningFor
<1>3. CASE Unused # {} /\ worker' = [worker EXCEPT ![id] = Started(u)]
  <2>1. id \in Id /\ worker[id].state = "none"
    BY <1>3 DEF Unused
  <2> HIDE DEF id, u
  <2>2. /\ worker'[id].incoming = << >>
        /\ \A i \in Id : i # id => worker'[i] = worker[i]
    BY <1>3, <2>1, LogTypes DEF LogInv, Started
  <2>3. ASSUME NEW v \in Uuid, NEW i \in Id PROVE Own(i, v)' = Own(i, v)
    <3>1. CASE i = id
      BY <2>1, <2>2, <3>1, SamplesEmpty DEF Own, RunningFor
    <3>2. CASE i # id
      BY <2>2, <3>2 DEF Own, RunningFor
    <3> QED
      BY <3>1, <3>2
  <2> QED
    BY <1>1, <2>3, HeldLog
<1> QED
  BY <1>2, <1>3 DEF Lookup

\* What waits behind s is newer than anything in s.
LEMMA Later ==
    ASSUME NEW s, NEW t, Before(s, t), NEW u
    PROVE  \A i \in DOMAIN s, n \in Samples(t, u) : s[i].seq < n
BY DEF Before, Samples

LEMMA SeqTypes ==
    ASSUME NEW s \in Seq(Event)
    PROVE  /\ \A i \in DOMAIN s : s[i] \in Event /\ s[i].seq \in Nat \ {0}
           /\ \A u : Samples(s, u) \subseteq Nat
<1>1. \A e \in Event : e.seq \in Nat \ {0}
  BY PipelineAssumption DEF Event
<1>2. \A i \in DOMAIN s : s[i] \in Event /\ s[i].seq \in Nat \ {0}
  BY <1>1
<1> QED
  BY <1>2 DEF Samples

LEMMA DeliverLog ==
    ASSUME LogInv, LogInv', Deliver
    PROVE  [Log!Next]_(Log!vars)
<1>1. /\ pc = "write" /\ current' = << >> /\ target' = {}
      /\ UNCHANGED <<accepted, incoming, workerQueue, printed>>
  BY DEF Deliver
<1>e. PICK e \in Event : current = <<e>>
  <2>1. current \in Seq(Event) /\ DOMAIN current = {1} /\ current[1] \in Event
    BY <1>1, LogTypes DEF LogInv
  <2>2. current = <<current[1]>>
    BY <2>1
  <2> QED
    BY <2>1, <2>2
<1>u. PICK u \in Uuid : u = e.uuid
  BY DEF Event
<1>2. PICK id \in target :
         worker' = Collected([worker EXCEPT ![id].incoming = Append(@, e)],
                             Registered(workerQueue))
  <2>1. current[1] = e
    BY <1>e
  <2> QED
    BY <2>1 DEF Deliver
<1> DEFINE s == worker[id].incoming
           w == [worker EXCEPT ![id].incoming = Append(@, e)]
<1>3. /\ id \in Id /\ current[1] = e /\ 1 \in DOMAIN current
      /\ worker[id].uuid = u /\ s \in Seq(Event) /\ target = {id}
  <2>1. id \in Id /\ current[1] = e /\ 1 \in DOMAIN current
    BY <1>e, <1>2, OneItem, LogTypes DEF LogInv
  <2>2. worker[id].uuid = u /\ s \in Seq(Event)
    BY <1>u, <1>2, <2>1, LogTypes DEF LogInv, OwnerInv, For
  <2>3. target = {id}
    BY <1>1, <1>2 DEF LogInv, FullInv, DispatcherInv
  <2> QED
    BY <2>1, <2>2, <2>3
<1>4. /\ w[id].incoming = Append(s, e) /\ w[id].uuid = u /\ w[id].state = worker[id].state
      /\ \A i \in Id : i # id => w[i] = worker[i]
  BY <1>3, LogTypes DEF LogInv, Worker
<1>5. \A i \in Id : \/ worker'[i] = w[i]
                    \/ worker'[i] = Blank /\ w[i].state = "dead"
  BY <1>2 DEF Collected
<1> HIDE DEF w, s
<1>6. e.seq \in 1..accepted
  <2>1. e.seq <= accepted /\ accepted \in Nat
    BY <1>3, LogTypes DEF LogInv, OrderInv, Read
  <2>2. e.seq \in Nat \ {0}
    BY PipelineAssumption DEF Event
  <2> QED
    BY <2>1, <2>2
<1>7. ASSUME NEW v \in Uuid, NEW i \in Id, i # id \/ v # u PROVE Own(i, v)' = Own(i, v)
  <2>1. CASE i # id
    <3>1. w[i] = worker[i]
      BY <1>4, <2>1
    <3>2. CASE worker'[i] = worker[i]
      BY <3>2 DEF Own, RunningFor
    <3>3. CASE worker'[i] = Blank /\ worker[i].state = "dead"
      BY <3>3, BlankLine DEF Own, RunningFor
    <3> QED
      BY <1>5, <3>1, <3>2, <3>3
  <2>2. CASE i = id /\ v # u
    <3>1. i \notin RunningFor(v)
      BY <1>3, <2>2 DEF RunningFor
    <3>2. worker'[i].state # "running" \/ worker'[i].uuid = u
      BY <1>4, <1>5, <2>2, BlankLine
    <3>3. i \notin RunningFor(v)'
      BY <2>2, <3>2 DEF RunningFor
    <3> QED
      BY <3>1, <3>3 DEF Own
  <2> QED
    BY <1>7, <2>1, <2>2
<1>8. ASSUME NEW v \in Uuid
      PROVE  /\ Pending(v) = Held(v) \cup Mine(e, v) \cup Samples(incoming, v)
             /\ Pending(v)' = Held(v)' \cup Samples(incoming, v)
  <2>1. Samples(current, v) = Mine(e, v) /\ Samples(current', v) = {}
    BY <1>1, <1>e, SamplesOne, SamplesEmpty
  <2> QED
    BY <1>1, <2>1, PendingParts
<1>9. ASSUME NEW v \in Uuid, v # u PROVE Pending(v)' = Pending(v)
  <2>1. Held(v)' = Held(v)
    BY <1>7, <1>9, HeldKept
  <2>2. Mine(e, v) = {}
    BY <1>u, <1>9 DEF Mine
  <2> QED
    BY <1>8, <2>1, <2>2
<1>10. CASE worker[id].state = "running"
  <2>1. id \in RunningFor(u) /\ worker'[id] = w[id]
    BY <1>3, <1>4, <1>5, <1>10 DEF RunningFor
  <2>2. id \in RunningFor(u)'
    BY <1>3, <1>4, <1>10, <2>1 DEF RunningFor
  <2>3. Held(u) = Samples(s, u) /\ Held(u)' = Own(id, u)'
    BY <1>7, <2>1, HeldByOne DEF s
  <2>4. Own(id, u)' = Samples(Append(s, e), u)
    BY <1>4, <2>1, <2>2 DEF Own
  <2>5. Held(u)' = Held(u) \cup Mine(e, u)
    BY <1>3, <2>3, <2>4, SamplesAppend
  <2>6. Pending(u)' = Pending(u)
    BY <1>6, <1>8, <2>5
  <2> QED
    BY <1>1, <1>9, <2>6, LogStutters
<1>11. CASE worker[id].state # "running"
  <2>1. RunningFor(u) = {}
    <3> SUFFICES ASSUME NEW i \in RunningFor(u) PROVE FALSE
      OBVIOUS
    <3>1. i \in Id /\ worker[i].uuid = u /\ Alive(i) /\ i # id
      BY <1>11 DEF RunningFor, Alive
    <3>2. IsRegistered(i)
      BY <1>1, <3>1 DEF LogInv, FullInv, IInv, WorkerInv, IsFresh
    <3>3. u \in DOMAIN workerQueue /\ workerQueue[u] = i
      BY <3>1, <3>2 DEF IsRegistered
    <3>4. i \in target
      BY <1>1, <1>u, <1>3, <3>3 DEF LogInv, OwnerInv
    <3> QED
      BY <1>3, <3>1, <3>4
  <2>2. Held(u) = {} /\ Held(u)' = {}
    <3>1. \A i \in Id : Own(i, u) = {}
      BY <2>1 DEF Own
    <3>2. worker'[id].state # "running"
      BY <1>3, <1>4, <1>5, <1>11, BlankLine
    <3>3. \A i \in Id : Own(i, u)' = {}
      BY <1>6, <1>7, <3>1, <3>2 DEF Own, RunningFor
    <3> QED
      BY <3>1, <3>3, HeldParts
  <2>3. Pending(u) = Mine(e, u) \cup Samples(incoming, u) /\ Pending(u)' = Samples(incoming, u)
    BY <1>6, <1>8, <2>2
  <2>4. CASE e.kind = "sample"
    <3>1. Mine(e, u) = {e.seq}
      BY <1>u, <2>4 DEF Mine
    <3>2. \A n \in Samples(incoming, u) : e.seq < n
      BY <1>3, Later DEF LogInv, OrderInv
    <3>3. Samples(incoming, u) \subseteq Nat /\ e.seq \in Nat
      BY <1>6, LogTypes, SeqTypes DEF LogInv
    <3>4. Pending(u)' = {m \in Pending(u) : m > e.seq}
      BY <2>3, <3>1, <3>2, <3>3
    <3> QED
      BY <1>1, <1>6, <1>9, <3>4, LogLoses
  <2>5. CASE e.kind # "sample"
    <3>1. Pending(u)' = Pending(u)
      BY <2>3, <2>5 DEF Mine
    <3> QED
      BY <1>1, <1>9, <3>1, LogStutters
  <2> QED
    BY <2>4, <2>5
<1> QED
  BY <1>10, <1>11

\* What is pending for u besides what its worker i holds is newer than all that i holds.
LEMMA Behind ==
    ASSUME LogInv, NEW u, NEW i \in Id, NEW j \in DOMAIN worker[i].incoming
    PROVE  \A n \in Samples(current, u) \cup Samples(incoming, u) :
              worker[i].incoming[j].seq < n
<1>1. Before(worker[i].incoming, current) /\ Before(worker[i].incoming, incoming)
  BY DEF LogInv, OrderInv, Line
<1> QED
  BY <1>1, Later

LEMMA LeastGone ==
    ASSUME NEW n \in Nat, NEW newer \in SUBSET Nat, \A m \in newer : n < m
    PROVE  (\A m \in {n} \cup newer : n <= m) /\ newer = ({n} \cup newer) \ {n}
<1>1. n \notin newer
  OBVIOUS
<1> QED
  BY <1>1

LEMMA OlderGone ==
    ASSUME NEW n \in Nat, NEW older \in SUBSET Nat, NEW newer \in SUBSET Nat,
           \A m \in older : m <= n, \A m \in newer : n < m
    PROVE  newer = {m \in older \cup newer : m > n}
<1>1. \A m \in older : ~(m > n)
  OBVIOUS
<1>2. \A m \in newer : m > n
  OBVIOUS
<1> QED
  BY <1>1, <1>2

LEMMA ParseLog ==
    ASSUME LogInv, LogInv', NEW id \in Id, Parse(id)
    PROVE  [Log!Next]_(Log!vars)
<1>1. PICK s \in Seq(Event) : s = worker[id].incoming
  BY LogTypes DEF LogInv
<1>2. /\ s # << >> /\ worker[id].state = "running"
      /\ worker' = [worker EXCEPT ![id].incoming = Tail(@), ![id].tickerCount = 0]
      /\ printed' = IF Head(s).kind = "sample"
                    THEN [printed EXCEPT ![Head(s).uuid] = Append(@, Head(s).seq)]
                    ELSE printed
      /\ UNCHANGED <<accepted, incoming, current>>
  BY <1>1 DEF Parse, dispatcher
<1>3. PICK e \in Event : e = Head(s) /\ e = s[1]
  BY <1>2, TailItems
<1>4. PICK u \in Uuid : u = worker[id].uuid /\ u = e.uuid
  <2>1. 1 \in DOMAIN s
    BY <1>2, TailItems
  <2>2. e.uuid = worker[id].uuid
    BY <1>1, <1>3, <2>1 DEF LogInv, OrderInv, Line
  <2> QED
    BY <2>2 DEF Event
<1>5. /\ worker'[id].incoming = Tail(s) /\ worker'[id].uuid = u
      /\ worker'[id].state = "running"
      /\ \A i \in Id : i # id => worker'[i] = worker[i]
  BY <1>1, <1>2, <1>4, LogTypes DEF LogInv, Worker
<1>6. id \in RunningFor(u) /\ id \in RunningFor(u)'
  BY <1>2, <1>4, <1>5 DEF RunningFor
<1>7. ASSUME NEW v \in Uuid, NEW i \in Id, i # id \/ v # u PROVE Own(i, v)' = Own(i, v)
  <2>1. CASE i # id
    BY <1>5, <2>1 DEF Own, RunningFor
  <2>2. CASE i = id /\ v # u
    BY <1>4, <1>5, <2>2 DEF Own, RunningFor
  <2> QED
    BY <1>7, <2>1, <2>2
<1>8. ASSUME NEW v \in Uuid, v # u PROVE Pending(v)' = Pending(v)
  <2>1. Held(v)' = Held(v)
    BY <1>7, <1>8, HeldKept
  <2> QED
    BY <1>2, <2>1, PendingParts
<1>b. PICK behind : behind = Samples(current, u) \cup Samples(incoming, u)
  OBVIOUS
<1>9. Pending(u) = Samples(s, u) \cup behind /\ Pending(u)' = Samples(Tail(s), u) \cup behind
  <2>1. Held(u) = Samples(s, u) /\ Held(u)' = Own(id, u)'
    BY <1>1, <1>6, <1>7, HeldByOne
  <2>2. Own(id, u)' = Samples(Tail(s), u)
    BY <1>5, <1>6 DEF Own
  <2> QED
    BY <1>2, <1>b, <2>1, <2>2, PendingParts
<1>10. Samples(s, u) = Mine(e, u) \cup Samples(Tail(s), u)
  BY <1>2, <1>3, SamplesTail
<1>11. CASE e.kind = "sample"
  <2>1. Mine(e, u) = {e.seq}
    BY <1>4, <1>11 DEF Mine
  <2>2. \A m \in behind : e.seq < m
    <3>1. 1 \in DOMAIN worker[id].incoming /\ worker[id].incoming[1] = e
      BY <1>1, <1>2, <1>3, TailItems
    <3> QED
      BY <1>b, <3>1, Behind
  <2>3. \A m \in Samples(Tail(s), u) : e.seq < m
    <3>1. \A i \in DOMAIN Tail(s) : e.seq < Tail(s)[i].seq
      BY <1>1, <1>2, <1>3, TailLine DEF LogInv, OrderInv, Line
    <3> QED
      BY <3>1 DEF Samples
  <2>4. /\ e.seq \in Nat /\ behind \subseteq Nat /\ Samples(Tail(s), u) \subseteq Nat
    <3>1. Tail(s) \in Seq(Event) /\ current \in Seq(Event) /\ incoming \in Seq(Event)
      BY <1>2, LogTypes, TailItems DEF LogInv
    <3>2. e.seq \in Nat
      BY PipelineAssumption DEF Event
    <3> QED
      BY <1>b, <3>1, <3>2, SeqTypes
  <2>5. /\ e.seq \in Pending(u) /\ \A m \in Pending(u) : e.seq <= m
        /\ Pending(u)' = Pending(u) \ {e.seq}
    <3>1. PICK newer \in SUBSET Nat : newer = Samples(Tail(s), u) \cup behind
      BY <2>4
    <3>2. Pending(u) = {e.seq} \cup newer /\ Pending(u)' = newer
      BY <1>9, <1>10, <2>1, <3>1
    <3>3. \A m \in newer : e.seq < m
      BY <2>2, <2>3, <3>1
    <3> QED
      BY <2>4, <3>2, <3>3, LeastGone
  <2>6. printed' = [printed EXCEPT ![u] = Append(@, e.seq)]
    BY <1>2, <1>3, <1>4, <1>11
  <2> QED
    BY <1>2, <1>8, <2>5, <2>6, LogEmits
<1>12. CASE e.kind # "sample"
  <2>1. Pending(u)' = Pending(u)
    BY <1>9, <1>10, <1>12 DEF Mine
  <2>2. printed' = printed
    BY <1>2, <1>3, <1>12
  <2> QED
    BY <1>2, <1>8, <2>1, <2>2, LogStutters
<1> QED
  BY <1>11, <1>12

LEMMA TickLog ==
    ASSUME LogInv, LogInv', NEW id \in Id, Tick(id)
    PROVE  [Log!Next]_(Log!vars)
<1>1. PICK s \in Seq(Event) : s = worker[id].incoming
  BY LogTypes DEF LogInv
<1>2. PICK u \in Uuid : u = worker[id].uuid
  BY LogTypes DEF LogInv, Worker
<1>3. /\ worker[id].state = "running"
      /\ UNCHANGED <<accepted, incoming, current, printed>>
  BY DEF Tick, dispatcher
<1>4. CASE worker' = [worker EXCEPT ![id].tickerCount = @ + 1]
  <2>1. \A i \in Id : /\ worker'[i].incoming = worker[i].incoming
                      /\ worker'[i].uuid = worker[i].uuid /\ worker'[i].state = worker[i].state
    BY <1>4, LogTypes DEF LogInv, Worker
  <2>2. ASSUME NEW v \in Uuid, NEW i \in Id PROVE Own(i, v)' = Own(i, v)
    BY <2>1 DEF Own, RunningFor
  <2> QED
    BY <1>3, <2>2, HeldLog
<1>5. CASE worker' = [worker EXCEPT ![id].state = "closing", ![id].tickerCount = 0]
  <2>1. worker'[id].state = "closing" /\ \A i \in Id : i # id => worker'[i] = worker[i]
    BY <1>5, LogTypes DEF LogInv, Worker
  <2>2. id \in RunningFor(u)
    BY <1>2, <1>3 DEF RunningFor
  <2>3. ASSUME NEW v \in Uuid, NEW i \in Id, i # id \/ v # u PROVE Own(i, v)' = Own(i, v)
    <3>1. CASE i # id
      BY <2>1, <3>1 DEF Own, RunningFor
    <3>2. CASE i = id /\ v # u
      BY <1>2, <2>1, <3>2 DEF Own, RunningFor
    <3> QED
      BY <2>3, <3>1, <3>2
  <2>4. ASSUME NEW v \in Uuid, v # u PROVE Pending(v)' = Pending(v)
    <3>1. Held(v)' = Held(v)
      BY <2>3, <2>4, HeldKept
    <3> QED
      BY <1>3, <3>1, PendingParts
  <2>b. PICK behind : behind = Samples(current, u) \cup Samples(incoming, u)
    OBVIOUS
  <2>5. Pending(u) = Samples(s, u) \cup behind /\ Pending(u)' = behind
    <3>1. Held(u) = Samples(s, u) /\ Held(u)' = Own(id, u)'
      BY <1>1, <2>2, <2>3, HeldByOne
    <3>2. Own(id, u)' = {}
      BY <2>1 DEF Own, RunningFor
    <3> QED
      BY <1>3, <2>b, <3>1, <3>2, PendingParts
  <2>6. CASE s = << >>
    <3>1. Pending(u)' = Pending(u)
      BY <2>5, <2>6, SamplesEmpty
    <3> QED
      BY <1>3, <2>4, <3>1, LogStutters
  <2>7. CASE s # << >>
    <3>1. Len(s) \in DOMAIN s /\ \A i \in DOMAIN s : i < Len(s) \/ i = Len(s)
      BY <2>7
    <3>2. PICK n : n = s[Len(s)].seq
      OBVIOUS
    <3>3. n \in 1..accepted
      <4>1. n <= accepted /\ accepted \in Nat
        BY <1>1, <3>1, <3>2, LogTypes DEF LogInv, OrderInv, Line, Read
      <4>2. n \in Nat \ {0}
        BY <3>1, <3>2, SeqTypes
      <4> QED
        BY <4>1, <4>2
    <3>4. \A m \in Samples(s, u) : m <= n
      <4>1. \A i \in DOMAIN s : s[i].seq \in Nat /\ n \in Nat
        BY <3>3, SeqTypes, LogTypes DEF LogInv
      <4>2. \A i \in DOMAIN s : s[i].seq <= n
        BY <1>1, <3>1, <3>2, <4>1 DEF LogInv, OrderInv, Line, Increasing
      <4> QED
        BY <4>2, SamplesOf
    <3>5. \A m \in behind : n < m
      BY <1>1, <2>b, <3>1, <3>2, Behind
    <3>6. behind \subseteq Nat /\ Samples(s, u) \subseteq Nat /\ n \in Nat
      BY <2>b, <3>3, SeqTypes, LogTypes DEF LogInv
    <3>7. Pending(u)' = {m \in Pending(u) : m > n}
      BY <2>5, <3>4, <3>5, <3>6, OlderGone
    <3> QED
      BY <1>3, <2>4, <3>3, <3>7, LogLoses
  <2> QED
    BY <2>6, <2>7
<1> QED
  BY <1>4, <1>5 DEF Tick

LEMMA CloseLog ==
    ASSUME LogInv, NEW id \in Id, Close(id)
    PROVE  UNCHANGED Log!vars
<1> DEFINE w == [worker EXCEPT ![id].state = "dead"]
<1>1. /\ worker[id].state = "closing"
      /\ worker' = Collected(w, target \cup Registered(workerQueue'))
      /\ UNCHANGED <<accepted, incoming, current, printed>>
  BY DEF Close, dispatcher
<1>2. w[id].state = "dead" /\ \A i \in Id : i # id => w[i] = worker[i]
  BY LogTypes DEF LogInv, Worker
<1> HIDE DEF w
<1>3. \A i \in Id : worker'[i] = w[i] \/ (worker'[i] = Blank /\ w[i].state = "dead")
  BY <1>1 DEF Collected
<1>4. ASSUME NEW u \in Uuid, NEW i \in Id PROVE Own(i, u)' = Own(i, u)
  <2>1. CASE worker'[i] = worker[i]
    BY <2>1 DEF Own, RunningFor
  <2>2. CASE worker[i].state # "running" /\ worker'[i].state # "running"
    BY <2>2 DEF Own, RunningFor
  <2> QED
    BY <1>1, <1>2, <1>3, <2>1, <2>2, BlankLine
<1> QED
  BY <1>1, <1>4, HeldLog

LEMMA ProcessorCloseLog ==
    ASSUME LogInv, ProcessorClose
    PROVE  UNCHANGED Log!vars
<1>1. /\ \A i \in Id : /\ worker'[i].incoming = worker[i].incoming
                       /\ worker'[i].uuid = worker[i].uuid
                       /\ worker'[i].state = worker[i].state
      /\ UNCHANGED <<accepted, incoming, current, printed>>
  BY LogTypes DEF ProcessorClose, LogInv, Worker, dispatcher
<1>2. ASSUME NEW u \in Uuid, NEW i \in Id PROVE Own(i, u)' = Own(i, u)
  BY <1>1 DEF Own, RunningFor
<1> QED
  BY <1>1, <1>2, HeldLog

\* The events of a uuid are printed in the order they were read, none of them twice, and only
\* the oldest ones are lost (Serve, dispatch, EventWorker.Run and Close), for any number of
\* uuids, workers and records and channels of any capacity.
THEOREM Implements == Spec => ImplementsLog
<1>1. Init => Log!Init
  <2> SUFFICES ASSUME Init PROVE Log!Init
    OBVIOUS
  <2>1. ASSUME NEW u \in Uuid PROVE Pending(u) = {}
    <3>1. incoming = << >> /\ current = << >> /\ \A i \in Id : worker[i] = Blank
      BY DEF Init
    <3>2. RunningFor(u) = {}
      BY <3>1, BlankLine DEF RunningFor
    <3> QED
      BY <3>1, <3>2, SamplesEmpty DEF Pending
  <2> QED
    BY <2>1 DEF Init, Log!Init
<1>2. LogInv /\ LogInv' /\ [Next]_vars => [Log!Next]_(Log!vars)
  <2> SUFFICES ASSUME LogInv, LogInv', [Next]_vars PROVE [Log!Next]_(Log!vars)
    OBVIOUS
  <2>1. CASE UNCHANGED vars
    <3>1. ASSUME NEW u \in Uuid PROVE Pending(u)' = Pending(u)
      BY <2>1 DEF vars, dispatcher, Pending, RunningFor
    <3> QED
      BY <2>1, <3>1, LogStutters DEF vars
  <2>2. ASSUME Register PROVE UNCHANGED Log!vars
    BY <2>2, HeldLog DEF Register, Own, RunningFor
  <2> QED
    BY <2>1, <2>2, WriteLog, ReceiveLog, LookupLog, DeliverLog, ParseLog, TickLog, CloseLog,
       ProcessorCloseLog DEF Next
<1> QED
  BY LogInit, LogStep, <1>1, <1>2, PTL DEF Spec, ImplementsLog, Log!Spec

-----------------------------------------------------------------------------
(* What the refinement says of the log itself.                               *)

\* What is printed for a uuid carries growing numbers.
InOrder ==
    \A u \in Uuid : \A j, k \in DOMAIN printed[u] :
       j < k => printed[u][j] < printed[u][k]

\* What may still be printed is younger than what was.
OldestFirst ==
    /\ accepted \in Nat
    /\ printed \in [Uuid -> Seq(Nat)]
    /\ \A u \in Uuid :
          /\ Pending(u) \subseteq 1..accepted
          /\ \A k \in DOMAIN printed[u] :
                /\ printed[u][k] <= accepted
                /\ \A n \in Pending(u) : printed[u][k] < n
    /\ InOrder

LEMMA EmitKeepsOrder ==
    ASSUME OldestFirst, NEW u \in Uuid, Log!Emit(u)
    PROVE  OldestFirst'
<1> DEFINE pending == [v \in Uuid |-> Pending(v)]
<1>1. PICK n \in Pending(u) :
        /\ \A m \in Pending(u) : n <= m
        /\ printed' = [printed EXCEPT ![u] = Append(@, n)]
        /\ pending' = [pending EXCEPT ![u] = @ \ {n}]
        /\ accepted' = accepted
  BY DEF Log!Emit
<1>2. \A v \in Uuid : Pending(v)' = IF v = u THEN Pending(v) \ {n} ELSE Pending(v)
  BY <1>1
<1>3. \A v \in Uuid \ {u} : printed'[v] = printed[v]
  BY <1>1 DEF OldestFirst
<1> DEFINE s == printed[u]
<1>4. s \in Seq(Nat) /\ printed'[u] = Append(s, n) /\ n \in Nat /\ n <= accepted
  BY <1>1 DEF OldestFirst
<1>5. /\ DOMAIN printed'[u] = 1 .. Len(s) + 1
      /\ \A k \in DOMAIN s : printed'[u][k] = s[k] /\ k \in 1 .. Len(s) /\ s[k] \in Nat
      /\ \A k \in 1 .. Len(s) : k \in DOMAIN s
      /\ printed'[u][Len(s) + 1] = n /\ Len(s) \in Nat
  BY <1>4
<1>6. \A k \in DOMAIN s : s[k] < n
  BY DEF OldestFirst
<1>7. \A m \in Pending(u) \ {n} : n < m
  BY <1>1 DEF OldestFirst
<1>8. printed' \in [Uuid -> Seq(Nat)]
  BY <1>1, <1>4 DEF OldestFirst
<1>9. InOrder'
  <2> SUFFICES ASSUME NEW v \in Uuid, NEW j \in DOMAIN printed'[v],
                      NEW k \in DOMAIN printed'[v], j < k
               PROVE  printed'[v][j] < printed'[v][k]
    BY DEF InOrder
  <2>1. CASE v # u
    BY <2>1, <1>3 DEF OldestFirst, InOrder
  <2>2. CASE v = u
    <3>1. j \in DOMAIN s
      BY <1>5, <2>2
    <3>2. CASE k = Len(s) + 1
      BY <1>5, <1>6, <2>2, <3>1, <3>2
    <3>3. CASE k \in DOMAIN s
      BY <1>5, <2>2, <3>1, <3>3 DEF OldestFirst, InOrder
    <3> QED
      BY <1>5, <2>2, <3>2, <3>3
  <2> QED
    BY <2>1, <2>2
<1>10. ASSUME NEW v \in Uuid
       PROVE  /\ Pending(v)' \subseteq 1..accepted'
              /\ \A k \in DOMAIN printed'[v] :
                    /\ printed'[v][k] <= accepted'
                    /\ \A m \in Pending(v)' : printed'[v][k] < m
  <2>1. CASE v # u
    BY <2>1, <1>1, <1>2, <1>3 DEF OldestFirst
  <2>2. CASE v = u
    <3>1. \A m \in Pending(u) : m \in Nat
      BY DEF OldestFirst
    <3>2. ASSUME NEW k \in DOMAIN printed'[u]
          PROVE  printed'[u][k] <= accepted /\ \A m \in Pending(u) \ {n} : printed'[u][k] < m
      <4>1. CASE k = Len(s) + 1
        BY <1>4, <1>5, <1>7, <4>1
      <4>2. CASE k \in DOMAIN s
        BY <1>5, <4>2 DEF OldestFirst
      <4> QED
        BY <1>5, <4>1, <4>2
    <3> QED
      BY <1>1, <1>2, <2>2, <3>2 DEF OldestFirst
  <2> QED
    BY <2>1, <2>2
<1> QED
  BY <1>1, <1>8, <1>9, <1>10 DEF OldestFirst

LEMMA StepKeepsOrder ==
    ASSUME OldestFirst, [Log!Next]_(Log!vars)
    PROVE  OldestFirst'
<1> DEFINE pending == [v \in Uuid |-> Pending(v)]
<1> USE DEF OldestFirst
<1>1. CASE UNCHANGED Log!vars
  <2>1. accepted' = accepted /\ pending' = pending /\ printed' = printed
    BY <1>1 DEF Log!vars
  <2>2. \A v \in Uuid : Pending(v)' = Pending(v)
    BY <2>1
  <2> QED
    BY <2>1, <2>2 DEF InOrder
<1>2. CASE Log!Ignore
  <2>1. accepted' = accepted + 1 /\ pending' = pending /\ printed' = printed
    BY <1>2 DEF Log!Ignore
  <2>2. \A v \in Uuid : Pending(v)' = Pending(v)
    BY <2>1
  <2>3. ASSUME NEW v \in Uuid, NEW k \in DOMAIN printed[v]
        PROVE  printed[v][k] <= accepted'
    <3>1. printed[v][k] \in Nat
      OBVIOUS
    <3> QED
      BY <2>1, <3>1
  <2> QED
    BY <2>1, <2>2, <2>3 DEF InOrder
<1>3. ASSUME NEW u \in Uuid, Log!Accept(u) PROVE OldestFirst'
  <2>1. /\ accepted' = accepted + 1 /\ printed' = printed
        /\ pending' = [pending EXCEPT ![u] = @ \cup {accepted + 1}]
    BY <1>3 DEF Log!Accept
  <2>2. \A v \in Uuid :
          Pending(v)' = IF v = u THEN Pending(v) \cup {accepted + 1} ELSE Pending(v)
    BY <2>1
  <2>3. ASSUME NEW v \in Uuid, NEW k \in DOMAIN printed[v]
        PROVE  printed[v][k] <= accepted' /\ printed[v][k] < accepted + 1
    <3>1. printed[v][k] \in Nat
      OBVIOUS
    <3> QED
      BY <2>1, <3>1
  <2>4. \A v \in Uuid : Pending(v)' \subseteq 1..accepted'
    BY <2>1, <2>2
  <2>5. InOrder'
    BY <2>1 DEF InOrder
  <2>6. ASSUME NEW v \in Uuid, NEW k \in DOMAIN printed'[v]
        PROVE  printed'[v][k] <= accepted' /\ \A m \in Pending(v)' : printed'[v][k] < m
    BY <2>1, <2>2, <2>3
  <2> QED
    BY <2>1, <2>4, <2>5, <2>6
<1>4. ASSUME NEW u \in Uuid, NEW n \in 1..accepted, Log!Lose(u, n) PROVE OldestFirst'
  <2>1. /\ accepted' = accepted /\ printed' = printed
        /\ pending' = [pending EXCEPT ![u] = {m \in @ : m > n}]
    BY <1>4 DEF Log!Lose
  <2>2. \A v \in Uuid : Pending(v)' \subseteq Pending(v)
    BY <2>1
  <2>3. InOrder'
    BY <2>1 DEF InOrder
  <2>4. ASSUME NEW v \in Uuid
        PROVE  /\ Pending(v)' \subseteq 1..accepted'
               /\ \A k \in DOMAIN printed'[v] :
                     /\ printed'[v][k] <= accepted'
                     /\ \A m \in Pending(v)' : printed'[v][k] < m
    BY <2>1, <2>2
  <2> QED
    BY <2>1, <2>3, <2>4
<1> QED
  BY <1>1, <1>2, <1>3, <1>4, EmitKeepsOrder DEF Log!Next

\* The log of a thread is in the order of reading and never says a thing twice, whichever
\* workers printed it (Serve, dispatch, EventWorker.Run).
THEOREM PrintsInOrder == Spec => []InOrder
<1>1. Log!Init => OldestFirst
  <2> SUFFICES ASSUME Log!Init PROVE OldestFirst
    OBVIOUS
  <2>1. /\ accepted = 0 /\ printed = [u \in Uuid |-> << >>]
        /\ [u \in Uuid |-> Pending(u)] = [u \in Uuid |-> {}]
    BY DEF Log!Init
  <2>2. \A u \in Uuid : Pending(u) = {} /\ printed[u] = << >>
    BY <2>1
  <2> QED
    BY <2>1, <2>2 DEF OldestFirst, InOrder
<1>2. OldestFirst => InOrder
  BY DEF OldestFirst
<1> QED
  BY <1>1, <1>2, StepKeepsOrder, Implements, PTL DEF ImplementsLog, Log!Spec

=============================================================================
