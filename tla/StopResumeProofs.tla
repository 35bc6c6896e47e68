---------------------------- MODULE StopResumeProofs ----------------------------
(*****************************************************************************)
(* For any number of processes and events: a process whose event is handled  *)
(* is on the list that the prompt walks, and with --auto a process is only   *)
(* stopped for one of the named reasons.                                     *)
(*****************************************************************************)
EXTENDS StopResume, TLAPS

\* A record in the hands of the dispatcher has been submitted, and so has every signal.
Submitted ==
    \A h \in Hit :
        /\ h \in disp.hit => hits[h].rec \in {"taken", "done"}
        /\ hits[h].sig # "none" => hits[h].rec # "none"

\* Whoever stopped a process came from it.
StoppedBy ==
    \A p \in Proc : \A h \in by[p] : hits[h].pid = p /\ hits[h].rec # "none"

\* A process that has not died since its event still has its number.
OwnersLive == \A h \in Hit : hits[h].own => Alive(Pid(h))

\* Stronger than StoppedAreListed: the process need not be stopped, and its event need not be
\* done, only entered.
EnteredAreListed ==
    \A h \in Hit :
        /\ Running /\ Registers /\ ~conf.dump /\ hits[h].own
        /\ hits[h].rec = "done" \/ (disp.at = "resume" /\ h \in disp.hit)
        => Pid(h) \in stopped_pid_list \cup mistaken

IInv ==
    /\ TypeOK
    /\ Submitted
    /\ StoppedBy
    /\ OwnersLive
    /\ EnteredAreListed
    /\ StoppedHaveReason

LEMMA SomeProcess == (CHOOSE p \in Proc : TRUE) \in Proc
BY StopAssumption

LEMMA InitInv == Init => IInv
<1> SUFFICES ASSUME Init PROVE IInv
  OBVIOUS
<1>1. hits \in [Hit -> HitState]
  BY SomeProcess DEF Init, HitState
<1>2. conf \in Conf
  BY StopAssumption DEF Init
<1>3. TypeOK
  BY <1>1, <1>2 DEF Init, TypeOK, Dispatcher, Prompt
<1>4. \A h \in Hit : hits[h].rec = "none" /\ hits[h].sig = "none" /\ hits[h].own = FALSE
  BY DEF Init
<1>5. Submitted /\ StoppedBy /\ OwnersLive /\ EnteredAreListed
  BY <1>4 DEF Init, Submitted, StoppedBy, OwnersLive, EnteredAreListed
<1>6. StoppedHaveReason
  BY DEF Init, StoppedHaveReason
<1> QED
  BY <1>3, <1>5, <1>6 DEF IInv

-----------------------------------------------------------------------------
(* The traced processes.                                                     *)

LEMMA SubmitInv ==
    ASSUME IInv, NEW h \in Hit, NEW p \in Proc, NEW rec \in {"ring", "lost"},
           NEW sig \in {"none", "due"}, Submit(h, p, rec, sig)
    PROVE  IInv'
<1> DEFINE new == [pid |-> p, rec |-> rec, sig |-> sig, own |-> TRUE]
<1> USE DEF IInv
<1>1. /\ hits[h].rec = "none" /\ state[p] = "running"
      /\ hits' = [hits EXCEPT ![h] = new]
      /\ UNCHANGED <<conf, state, disp, prompt, stopped_pid_list, stopped_lock, end, by, mistaken>>
  BY DEF Submit
<1>2. new \in HitState /\ new.rec # "none" /\ new.rec # "done"
  BY DEF HitState
<1>3. hits \in [Hit -> HitState]
  BY DEF TypeOK
<1>4. hits'[h] = new /\ \A g \in Hit : g # h => hits'[g] = hits[g]
  BY <1>1, <1>3
<1>5. TypeOK'
  BY <1>1, <1>2 DEF TypeOK
<1>6. h \notin disp.hit /\ \A q \in Proc : h \notin by[q]
  BY <1>1 DEF Submitted, StoppedBy
<1>7. Submitted'
  BY <1>1, <1>2, <1>4, <1>6 DEF Submitted
<1>8. StoppedBy'
  <2> SUFFICES ASSUME NEW q \in Proc, NEW g \in by'[q]
               PROVE  hits'[g].pid = q /\ hits'[g].rec # "none"
    BY DEF StoppedBy
  <2>1. g \in Hit /\ g # h
    BY <1>1, <1>6 DEF TypeOK
  <2> QED
    BY <1>1, <1>4, <2>1 DEF StoppedBy
<1>9. OwnersLive'
  <2>1. new.pid = p
    OBVIOUS
  <2> QED
    BY <1>1, <1>4, <2>1 DEF OwnersLive, Pid, Alive
<1>10. EnteredAreListed'
  BY <1>1, <1>2, <1>4, <1>6 DEF EnteredAreListed, Pid, Running, Registers
<1>11. StoppedHaveReason'
  BY <1>1, <1>4, <1>6 DEF StoppedHaveReason, TypeOK
<1> QED
  BY <1>5, <1>7, <1>8, <1>9, <1>10, <1>11

LEMMA SignalInv ==
    ASSUME IInv, NEW h \in Hit, Signal(h)
    PROVE  IInv'
<1> USE DEF IInv
<1>1. /\ hits[h].sig = "due"
      /\ hits' = [hits EXCEPT ![h].sig = IF hits[h].rec = "done" THEN "late" ELSE "sent"]
      /\ UNCHANGED <<conf, disp, prompt, stopped_pid_list, stopped_lock, end, mistaken>>
  BY DEF Signal
<1>2. hits \in [Hit -> HitState] /\ Pid(h) \in Proc
  BY DEF TypeOK, HitState, Pid
<1>3. /\ hits' \in [Hit -> HitState]
      /\ \A g \in Hit : /\ hits'[g].pid = hits[g].pid /\ hits'[g].rec = hits[g].rec
                        /\ hits'[g].own = hits[g].own
                        /\ g # h => hits'[g] = hits[g]
      /\ hits[h].rec = "done" => hits'[h].sig = "late"
      /\ hits'[h].sig # "none" /\ hits[h].rec # "none"
  BY <1>1, <1>2 DEF HitState, Submitted
<1>4. CASE state[Pid(h)] = "running"
  <2>1. /\ state' = [state EXCEPT ![Pid(h)] = "stopped"]
        /\ by' = [by EXCEPT ![Pid(h)] = {h}]
    BY <1>4 DEF Signal
  <2>2. TypeOK'
    BY <1>1, <1>3, <2>1 DEF TypeOK
  <2>3. Submitted'
    BY <1>1, <1>3 DEF Submitted
  <2>4. StoppedBy'
    BY <1>2, <1>3, <2>1 DEF StoppedBy, TypeOK, Pid
  <2>5. OwnersLive'
    BY <1>2, <1>3, <2>1 DEF OwnersLive, Alive, Pid, TypeOK
  <2>6. EnteredAreListed'
    BY <1>1, <1>3 DEF EnteredAreListed, Pid, Running, Registers
  <2>7. StoppedHaveReason'
    <3> SUFFICES ASSUME NEW p \in Proc, conf.auto, state'[p] = "stopped"
                 PROVE  \E g \in by'[p] : \/ hits'[g].rec \in {"ring", "taken", "lost"}
                                          \/ hits'[g].sig = "late" \/ conf.dump
      BY <1>1 DEF StoppedHaveReason
    <3>1. CASE p = Pid(h)
      <4>1. h \in by'[p]
        BY <2>1, <3>1, <1>2 DEF TypeOK
      <4>2. hits[h].rec \in {"ring", "lost", "taken", "done"}
        BY <1>2, <1>3 DEF HitState
      <4> QED
        BY <1>3, <4>1, <4>2
    <3>2. CASE p # Pid(h)
      <4>1. by'[p] = by[p] /\ state[p] = "stopped"
        BY <2>1, <3>2 DEF TypeOK
      <4>2. PICK g \in by[p] : \/ hits[g].rec \in {"ring", "taken", "lost"}
                               \/ hits[g].sig = "late" \/ conf.dump
        BY <4>1 DEF StoppedHaveReason
      <4>3. g \in Hit /\ g # h
        BY <3>2, <4>2 DEF StoppedBy, Pid, TypeOK
      <4> QED
        BY <1>3, <4>1, <4>2, <4>3
    <3> QED
      BY <3>1, <3>2
  <2> QED
    BY <2>2, <2>3, <2>4, <2>5, <2>6, <2>7
<1>5. CASE state[Pid(h)] # "running"
  <2>1. state' = state /\ by' = by
    BY <1>5 DEF Signal
  <2>2. TypeOK'
    BY <1>1, <1>3, <2>1 DEF TypeOK
  <2>3. Submitted'
    BY <1>1, <1>3 DEF Submitted
  <2>4. StoppedBy'
    BY <1>3, <2>1 DEF StoppedBy, TypeOK
  <2>5. OwnersLive'
    BY <1>3, <2>1 DEF OwnersLive, Alive, Pid
  <2>6. EnteredAreListed'
    BY <1>1, <1>3 DEF EnteredAreListed, Pid, Running, Registers
  <2>7. StoppedHaveReason'
    <3> SUFFICES ASSUME NEW p \in Proc, conf.auto, state[p] = "stopped"
                 PROVE  \E g \in by[p] : \/ hits'[g].rec \in {"ring", "taken", "lost"}
                                         \/ hits'[g].sig = "late" \/ conf.dump
      BY <1>1, <2>1 DEF StoppedHaveReason
    <3>1. PICK g \in by[p] : \/ hits[g].rec \in {"ring", "taken", "lost"}
                             \/ hits[g].sig = "late" \/ conf.dump
      BY DEF StoppedHaveReason
    <3>2. g \in Hit
      BY DEF TypeOK
    <3>3. CASE g = h
      BY <1>1, <1>3, <3>1, <3>2, <3>3
    <3>4. CASE g # h
      BY <1>3, <3>1, <3>2, <3>4
    <3> QED
      BY <3>3, <3>4
  <2> QED
    BY <2>2, <2>3, <2>4, <2>5, <2>6, <2>7
<1> QED
  BY <1>4, <1>5

LEMMA ExitInv ==
    ASSUME IInv, NEW p \in Proc, Exit(p)
    PROVE  IInv'
<1> USE DEF IInv
<1>1. /\ state' = [state EXCEPT ![p] = "gone"]
      /\ by' = [by EXCEPT ![p] = {}]
      /\ hits' = [h \in Hit |-> [hits[h] EXCEPT !.own = @ /\ Pid(h) # p]]
      /\ UNCHANGED <<conf, disp, prompt, stopped_pid_list, stopped_lock, end, mistaken>>
  BY DEF Exit
<1>2. hits \in [Hit -> HitState] /\ state \in [Proc -> {"running", "stopped", "gone"}]
  BY DEF TypeOK
<1>3. \A h \in Hit : hits[h].own \in BOOLEAN
  BY <1>2 DEF HitState
<1>4. \A h \in Hit : /\ hits'[h].pid = hits[h].pid /\ hits'[h].rec = hits[h].rec
                     /\ hits'[h].sig = hits[h].sig
                     /\ hits'[h].own = (hits[h].own /\ Pid(h) # p)
  BY <1>1, <1>2 DEF HitState
<1>5. hits' \in [Hit -> HitState]
  BY <1>1, <1>2, <1>3 DEF HitState
<1>6. TypeOK'
  BY <1>1, <1>5 DEF TypeOK
<1>7. Submitted'
  BY <1>1, <1>4 DEF Submitted
<1>8. StoppedBy'
  BY <1>1, <1>4 DEF StoppedBy, TypeOK
<1>9. OwnersLive'
  <2> SUFFICES ASSUME NEW h \in Hit, hits'[h].own PROVE state'[hits'[h].pid] # "gone"
    BY DEF OwnersLive, Pid, Alive
  <2>1. hits[h].own /\ hits[h].pid # p
    BY <1>4 DEF Pid
  <2>2. state[hits[h].pid] # "gone" /\ hits[h].pid \in Proc
    BY <1>2, <2>1 DEF OwnersLive, Pid, Alive, HitState
  <2> QED
    BY <1>1, <1>2, <1>4, <2>1, <2>2
<1>10. EnteredAreListed'
  BY <1>1, <1>4 DEF EnteredAreListed, Pid, Running, Registers
<1>11. StoppedHaveReason'
  <2> SUFFICES ASSUME NEW q \in Proc, conf.auto, state'[q] = "stopped"
               PROVE  \E g \in by'[q] : \/ hits'[g].rec \in {"ring", "taken", "lost"}
                                        \/ hits'[g].sig = "late" \/ conf.dump
    BY <1>1 DEF StoppedHaveReason
  <2>1. q # p /\ state[q] = "stopped" /\ by'[q] = by[q] /\ by[q] \subseteq Hit
    BY <1>1, <1>2 DEF TypeOK
  <2> QED
    BY <1>4, <2>1 DEF StoppedHaveReason
<1> QED
  BY <1>6, <1>7, <1>8, <1>9, <1>10, <1>11

LEMMA SpawnInv ==
    ASSUME IInv, NEW p \in Proc, Spawn(p)
    PROVE  IInv'
<1> USE DEF IInv
<1>1. /\ state[p] = "gone" /\ state' = [state EXCEPT ![p] = "running"]
      /\ UNCHANGED <<conf, hits, disp, prompt, stopped_pid_list, stopped_lock, end, by, mistaken>>
  BY DEF Spawn, Alive
<1>2. TypeOK'
  BY <1>1 DEF TypeOK
<1>3. Submitted' /\ StoppedBy'
  BY <1>1 DEF Submitted, StoppedBy
<1>4. OwnersLive'
  BY <1>1 DEF OwnersLive, Pid, Alive, TypeOK
<1>5. EnteredAreListed'
  BY <1>1 DEF EnteredAreListed, Pid, Running, Registers
<1>6. StoppedHaveReason'
  BY <1>1 DEF StoppedHaveReason, TypeOK
<1> QED
  BY <1>2, <1>3, <1>4, <1>5, <1>6

-----------------------------------------------------------------------------
(* The dispatcher.                                                           *)

\* What every step keeps that leaves the processes and their events alone.
LEMMA KeepsProcesses ==
    ASSUME IInv, UNCHANGED <<conf, state, hits, by>>
    PROVE  /\ StoppedBy' /\ OwnersLive' /\ StoppedHaveReason'
           /\ disp'.hit \subseteq disp.hit => Submitted'
BY DEF IInv, StoppedBy, OwnersLive, StoppedHaveReason, Submitted, Pid, Alive

LEMMA ReceiveInv ==
    ASSUME IInv, NEW h \in Hit, Receive(h)
    PROVE  IInv'
<1> USE DEF IInv
<1>1. /\ hits[h].rec = "ring" /\ disp.at = "receive"
      /\ hits' = [hits EXCEPT ![h].rec = IF conf.dump THEN "done" ELSE "taken"]
      /\ conf.dump => disp' = disp
      /\ ~conf.dump => disp' = [at |-> IF Registers THEN "add" ELSE "resume", hit |-> {h}]
      /\ UNCHANGED <<conf, state, prompt, stopped_pid_list, stopped_lock, end, by, mistaken>>
  BY DEF Receive
<1>2. hits \in [Hit -> HitState]
  BY DEF TypeOK
<1>3. /\ hits' \in [Hit -> HitState]
      /\ \A g \in Hit : /\ hits'[g].pid = hits[g].pid /\ hits'[g].sig = hits[g].sig
                        /\ hits'[g].own = hits[g].own
                        /\ g # h => hits'[g] = hits[g]
      /\ hits'[h].rec = IF conf.dump THEN "done" ELSE "taken"
  BY <1>1, <1>2 DEF HitState
<1>4. TypeOK'
  BY <1>1, <1>3 DEF TypeOK, Dispatcher
<1>5. Submitted'
  <2>1. CASE conf.dump
    BY <1>1, <1>3, <2>1 DEF Submitted
  <2>2. CASE ~conf.dump
    <3>1. disp'.hit = {h}
      BY <1>1, <2>2
    <3> QED
      BY <1>3, <2>2, <3>1 DEF Submitted
  <2> QED
    BY <2>1, <2>2
<1>6. StoppedBy'
  BY <1>1, <1>3 DEF StoppedBy, TypeOK
<1>7. OwnersLive'
  BY <1>1, <1>3 DEF OwnersLive, Pid, Alive
<1>8. EnteredAreListed'
  <2> SUFFICES ASSUME NEW g \in Hit, Running, Registers, ~conf.dump, hits'[g].own,
                      hits'[g].rec = "done" \/ (disp'.at = "resume" /\ g \in disp'.hit)
               PROVE  Pid(g) \in stopped_pid_list \cup mistaken
    BY <1>1, <1>3 DEF EnteredAreListed, Pid, Running, Registers
  <2>1. disp'.at = "add" /\ g # h
    BY <1>1, <1>3
  <2> QED
    BY <1>1, <1>3, <2>1 DEF EnteredAreListed
<1>9. StoppedHaveReason'
  <2> SUFFICES ASSUME NEW q \in Proc, conf.auto, state[q] = "stopped"
               PROVE  \E g \in by[q] : \/ hits'[g].rec \in {"ring", "taken", "lost"}
                                       \/ hits'[g].sig = "late" \/ conf.dump
    BY <1>1 DEF StoppedHaveReason
  <2>1. PICK g \in by[q] : \/ hits[g].rec \in {"ring", "taken", "lost"}
                           \/ hits[g].sig = "late" \/ conf.dump
    BY DEF StoppedHaveReason
  <2>2. g \in Hit
    BY DEF TypeOK
  <2>3. CASE g = h
    BY <1>3, <2>1, <2>2, <2>3
  <2>4. CASE g # h
    BY <1>3, <2>1, <2>2, <2>4
  <2> QED
    BY <2>3, <2>4
<1> QED
  BY <1>4, <1>5, <1>6, <1>7, <1>8, <1>9

LEMMA BeginAddInv ==
    ASSUME IInv, BeginAdd
    PROVE  IInv'
<1> USE DEF IInv
<1>1. /\ disp.at = "add" /\ disp' = [disp EXCEPT !.at = "adding"]
      /\ stopped_lock' = {"disp"}
      /\ UNCHANGED <<conf, state, hits, prompt, stopped_pid_list, end, by, mistaken>>
  BY DEF BeginAdd, Lock
<1>2. disp' \in Dispatcher /\ disp'.at = "adding" /\ disp'.hit = disp.hit
  BY <1>1 DEF TypeOK, Dispatcher
<1>3. TypeOK'
  BY <1>1, <1>2 DEF TypeOK
<1>4. EnteredAreListed'
  BY <1>1, <1>2 DEF EnteredAreListed, Pid, Running, Registers
<1> QED
  BY <1>1, <1>2, <1>3, <1>4, KeepsProcesses

LEMMA AddStoppedInv ==
    ASSUME IInv, AddStopped
    PROVE  IInv'
<1> DEFINE pids == {Pid(h) : h \in disp.hit}
<1> USE DEF IInv
<1>1. /\ disp.at = "adding" /\ disp' = [disp EXCEPT !.at = "resume"]
      /\ stopped_lock' = {}
      /\ stopped_pid_list' = stopped_pid_list \cup pids
      /\ mistaken' = mistaken \ pids
      /\ UNCHANGED <<conf, state, hits, prompt, end, by>>
  BY DEF AddStopped, Unlock
<1>2. disp' \in Dispatcher /\ disp'.at = "resume" /\ disp'.hit = disp.hit
  BY <1>1 DEF TypeOK, Dispatcher
<1>3. pids \subseteq Proc
  BY DEF TypeOK, Dispatcher, HitState, Pid
<1>4. TypeOK'
  BY <1>1, <1>2, <1>3 DEF TypeOK
<1>5. EnteredAreListed'
  <2> SUFFICES ASSUME NEW h \in Hit, Running, Registers, ~conf.dump, hits[h].own,
                      hits[h].rec = "done" \/ h \in disp.hit
               PROVE  Pid(h) \in stopped_pid_list' \cup mistaken'
    BY <1>1, <1>2 DEF EnteredAreListed, Pid, Running, Registers
  <2>1. CASE h \in disp.hit
    BY <1>1, <2>1
  <2>2. CASE hits[h].rec = "done"
    BY <1>1, <2>2 DEF EnteredAreListed
  <2> QED
    BY <2>1, <2>2
<1> QED
  BY <1>1, <1>2, <1>4, <1>5, KeepsProcesses

LEMMA LetItResumeInv ==
    ASSUME IInv, NEW h \in Hit, LetItResume(h)
    PROVE  IInv'
<1> USE DEF IInv
<1>1. /\ disp.at = "resume" /\ h \in disp.hit
      /\ hits' = [hits EXCEPT ![h].rec = "done"]
      /\ \/ disp' = [disp EXCEPT !.at = "del"]
         \/ disp' = [at |-> "receive", hit |-> {}]
      /\ conf.auto => /\ state' = [state EXCEPT ![Pid(h)] = IF @ = "stopped" THEN "running" ELSE @]
                      /\ by' = [by EXCEPT ![Pid(h)] = {}]
      /\ ~conf.auto => state' = state /\ by' = by
      /\ UNCHANGED <<conf, prompt, stopped_pid_list, stopped_lock, end, mistaken>>
  BY DEF LetItResume, Done, Continue
<1>2. hits \in [Hit -> HitState] /\ state \in [Proc -> {"running", "stopped", "gone"}]
  BY DEF TypeOK
<1>3. /\ hits' \in [Hit -> HitState]
      /\ \A g \in Hit : /\ hits'[g].pid = hits[g].pid /\ hits'[g].sig = hits[g].sig
                        /\ hits'[g].own = hits[g].own
                        /\ g # h => hits'[g] = hits[g]
      /\ hits'[h].rec = "done" /\ Pid(h) \in Proc
  BY <1>1, <1>2 DEF HitState, Pid
<1>4. /\ disp' \in Dispatcher /\ disp'.hit \subseteq disp.hit /\ disp'.at # "resume"
  BY <1>1 DEF TypeOK, Dispatcher
<1>5. /\ state' \in [Proc -> {"running", "stopped", "gone"}]
      /\ by' \in [Proc -> SUBSET Hit]
      /\ \A q \in Proc : by'[q] \subseteq by[q] /\ (state'[q] = "gone" <=> state[q] = "gone")
  BY <1>1, <1>2, <1>3 DEF TypeOK
<1>6. TypeOK'
  BY <1>1, <1>3, <1>4, <1>5 DEF TypeOK
<1>7. Submitted'
  BY <1>3, <1>4 DEF Submitted
<1>8. StoppedBy'
  BY <1>3, <1>5 DEF StoppedBy, TypeOK
<1>9. OwnersLive'
  <2> SUFFICES ASSUME NEW g \in Hit, hits'[g].own PROVE state'[hits'[g].pid] # "gone"
    BY DEF OwnersLive, Pid, Alive
  <2>1. hits[g].own
    BY <1>3
  <2>2. state[hits[g].pid] # "gone" /\ hits[g].pid \in Proc
    BY <1>2, <2>1 DEF OwnersLive, Pid, Alive, HitState
  <2> QED
    BY <1>3, <1>5, <2>2
<1>10. EnteredAreListed'
  <2> SUFFICES ASSUME NEW g \in Hit, Running, Registers, ~conf.dump, hits'[g].own,
                      hits'[g].rec = "done"
               PROVE  Pid(g) \in stopped_pid_list \cup mistaken
    BY <1>1, <1>3, <1>4 DEF EnteredAreListed, Pid, Running, Registers
  <2>1. hits[g].own /\ (hits[g].rec = "done" \/ g \in disp.hit)
    BY <1>1, <1>3
  <2> QED
    BY <1>1, <2>1 DEF EnteredAreListed
<1>11. StoppedHaveReason'
  <2> SUFFICES ASSUME NEW q \in Proc, conf.auto, state'[q] = "stopped"
               PROVE  \E g \in by'[q] : \/ hits'[g].rec \in {"ring", "taken", "lost"}
                                        \/ hits'[g].sig = "late" \/ conf.dump
    BY <1>1 DEF StoppedHaveReason
  <2>1. q # Pid(h)
    BY <1>1, <1>2, <1>3
  <2>2. by'[q] = by[q] /\ state[q] = "stopped"
    BY <1>1, <1>2, <2>1 DEF TypeOK
  <2>3. PICK g \in by[q] : \/ hits[g].rec \in {"ring", "taken", "lost"}
                           \/ hits[g].sig = "late" \/ conf.dump
    BY <2>2 DEF StoppedHaveReason
  <2>4. g \in Hit /\ g # h
    BY <2>1, <2>3 DEF StoppedBy, Pid, TypeOK
  <2> QED
    BY <1>3, <2>2, <2>3, <2>4
<1> QED
  BY <1>6, <1>7, <1>8, <1>9, <1>10, <1>11

LEMMA BeginDelInv ==
    ASSUME IInv, BeginDel
    PROVE  IInv'
<1> USE DEF IInv
<1>1. /\ disp.at = "del" /\ disp' = [disp EXCEPT !.at = "deleting"]
      /\ stopped_lock' = {"disp"}
      /\ UNCHANGED <<conf, state, hits, prompt, stopped_pid_list, end, by, mistaken>>
  BY DEF BeginDel, Lock
<1>2. disp' \in Dispatcher /\ disp'.at = "deleting" /\ disp'.hit = disp.hit
  BY <1>1 DEF TypeOK, Dispatcher
<1>3. TypeOK'
  BY <1>1, <1>2 DEF TypeOK
<1>4. EnteredAreListed'
  BY <1>1, <1>2 DEF EnteredAreListed, Pid, Running, Registers
<1> QED
  BY <1>1, <1>2, <1>3, <1>4, KeepsProcesses

\* A number taken off the list is that of a dead process, or remembered as a mistake.
LEMMA DelStoppedKeeps ==
    ASSUME IInv, NEW p \in Proc, DelStopped(p), UNCHANGED <<conf, state, hits, end>>,
           disp'.at = "resume" => disp' = disp
    PROVE  EnteredAreListed' /\ stopped_pid_list' \subseteq Proc /\ mistaken' \subseteq Proc
<1> USE DEF IInv
<1>1. /\ stopped_pid_list' = stopped_pid_list \ {p}
      /\ Alive(p) => mistaken' = mistaken \cup {p}
      /\ ~Alive(p) => mistaken' = mistaken
  BY DEF DelStopped
<1>2. EnteredAreListed'
  <2> SUFFICES ASSUME NEW h \in Hit, Running, Registers, ~conf.dump, hits[h].own,
                      hits[h].rec = "done" \/ (disp.at = "resume" /\ h \in disp.hit)
               PROVE  Pid(h) \in stopped_pid_list' \cup mistaken'
    BY DEF EnteredAreListed, Pid, Running, Registers
  <2>1. Pid(h) \in stopped_pid_list \cup mistaken /\ Alive(Pid(h))
    BY DEF EnteredAreListed, OwnersLive
  <2> QED
    BY <1>1, <2>1
<1> QED
  BY <1>1, <1>2 DEF TypeOK

LEMMA EndDelInv ==
    ASSUME IInv, EndDel
    PROVE  IInv'
<1> USE DEF IInv
<1>1. /\ disp' = [at |-> "receive", hit |-> {}] /\ stopped_lock' = {}
      /\ UNCHANGED <<conf, state, hits, end, by>>
  BY DEF EndDel, Unlock
<1>2. PICK h \in disp.hit : /\ DelStopped(Pid(h))
                            /\ prompt' = [prompt EXCEPT !.known = @ \ {Pid(h)}]
  BY DEF EndDel
<1>3. Pid(h) \in Proc
  BY <1>2 DEF TypeOK, Dispatcher, HitState, Pid
<1>4. EnteredAreListed' /\ stopped_pid_list' \subseteq Proc /\ mistaken' \subseteq Proc
  BY <1>1, <1>2, <1>3, DelStoppedKeeps
<1>5. prompt' \in Prompt
  BY <1>2 DEF TypeOK, Prompt
<1>6. TypeOK'
  BY <1>1, <1>4, <1>5 DEF TypeOK, Dispatcher
<1> QED
  BY <1>1, <1>4, <1>6, KeepsProcesses

LEMMA BlockInv ==
    ASSUME IInv, Block
    PROVE  IInv'
<1> USE DEF IInv
<1>1. /\ disp.at = "receive" /\ disp' = [disp EXCEPT !.at = "blocked"]
      /\ UNCHANGED <<conf, state, hits, prompt, stopped_pid_list, stopped_lock, end, by, mistaken>>
  BY DEF Block
<1>2. disp' \in Dispatcher /\ disp'.at = "blocked" /\ disp'.hit = disp.hit
  BY <1>1 DEF TypeOK, Dispatcher
<1>3. TypeOK'
  BY <1>1, <1>2 DEF TypeOK
<1>4. EnteredAreListed'
  BY <1>1, <1>2 DEF EnteredAreListed, Pid, Running, Registers
<1> QED
  BY <1>1, <1>2, <1>3, <1>4, KeepsProcesses

-----------------------------------------------------------------------------
(* The prompt.                                                               *)

\* Steps of the prompt that touch only its own state and the lock.
LEMMA PromptInv ==
    ASSUME IInv, prompt' \in Prompt, stopped_lock' \in {{}, {"disp"}, {"prompt"}},
           UNCHANGED <<conf, state, hits, disp, stopped_pid_list, end, by, mistaken>>
    PROVE  IInv'
<1> USE DEF IInv
<1>1. TypeOK'
  BY DEF TypeOK
<1>2. EnteredAreListed'
  BY DEF EnteredAreListed, Pid, Running, Registers
<1> QED
  BY <1>1, <1>2, KeepsProcesses

LEMMA EnterInv ==
    ASSUME IInv, Enter
    PROVE  IInv'
<1>1. prompt' \in Prompt
  BY DEF Enter, IInv, TypeOK, Prompt
<1> QED
  BY <1>1, PromptInv DEF Enter, IInv, TypeOK

LEMMA EndInv ==
    ASSUME IInv, NEW how \in {"quit", "fatal"}, End(how)
    PROVE  IInv'
<1> USE DEF IInv
<1>1. /\ end' = how /\ disp' = [at |-> "receive", hit |-> {}]
      /\ prompt' = [at |-> "wait", pid |-> {}, known |-> {}, done |-> {}]
      /\ stopped_pid_list' = {} /\ stopped_lock' = {}
      /\ UNCHANGED <<conf, state, hits, by, mistaken>>
  BY DEF End
<1>2. TypeOK'
  BY <1>1 DEF TypeOK, Dispatcher, Prompt
<1>3. EnteredAreListed'
  BY <1>1 DEF EnteredAreListed, Running
<1> QED
  BY <1>1, <1>2, <1>3, KeepsProcesses

LEMMA LetItRunInv ==
    ASSUME IInv, NEW p \in Proc, LetItRun(p)
    PROVE  IInv'
<1> USE DEF IInv
<1>1. /\ state' = [state EXCEPT ![p] = IF @ = "stopped" THEN "running" ELSE @]
      /\ by' = [by EXCEPT ![p] = {}]
      /\ prompt' = [prompt EXCEPT !.at = IF Alive(p) THEN "range" ELSE "del",
                                  !.pid = {p}, !.done = @ \cup {p}]
      /\ UNCHANGED <<conf, hits, disp, stopped_pid_list, stopped_lock, end, mistaken>>
  BY DEF LetItRun, Continue
<1>2. prompt' \in Prompt
  <2>1. (IF Alive(p) THEN "range" ELSE "del") \in {"range", "del"}
    OBVIOUS
  <2> QED
    BY <1>1, <2>1 DEF TypeOK, Prompt
<1>3. /\ state' \in [Proc -> {"running", "stopped", "gone"}]
      /\ by' \in [Proc -> SUBSET Hit]
      /\ \A q \in Proc : /\ by'[q] \subseteq by[q]
                         /\ state'[q] = "gone" <=> state[q] = "gone"
                         /\ state'[q] = "stopped" => state[q] = "stopped" /\ by'[q] = by[q]
  BY <1>1 DEF TypeOK
<1>4. TypeOK'
  BY <1>1, <1>2, <1>3 DEF TypeOK
<1>5. Submitted'
  BY <1>1 DEF Submitted
<1>6. StoppedBy'
  BY <1>1, <1>3 DEF StoppedBy
<1>7. OwnersLive'
  <2> SUFFICES ASSUME NEW h \in Hit, hits[h].own PROVE state'[hits[h].pid] # "gone"
    BY <1>1 DEF OwnersLive, Pid, Alive
  <2>1. state[hits[h].pid] # "gone" /\ hits[h].pid \in Proc
    BY DEF OwnersLive, Pid, Alive, TypeOK, HitState
  <2> QED
    BY <1>3, <2>1
<1>8. EnteredAreListed'
  BY <1>1 DEF EnteredAreListed, Pid, Running, Registers
<1>9. StoppedHaveReason'
  BY <1>1, <1>3 DEF StoppedHaveReason
<1> QED
  BY <1>4, <1>5, <1>6, <1>7, <1>8, <1>9

LEMMA PromptBeginDelInv ==
    ASSUME IInv, PromptBeginDel
    PROVE  IInv'
<1>1. prompt' \in Prompt
  BY DEF PromptBeginDel, IInv, TypeOK, Prompt
<1> QED
  BY <1>1, PromptInv DEF PromptBeginDel, Lock

LEMMA PromptEndDelInv ==
    ASSUME IInv, PromptEndDel
    PROVE  IInv'
<1> USE DEF IInv
<1>1. stopped_lock' = {} /\ UNCHANGED <<conf, state, hits, disp, end, by>>
  BY DEF PromptEndDel, Unlock
<1>2. PICK p \in prompt.pid : /\ DelStopped(p)
                              /\ prompt' = [prompt EXCEPT !.at = "range", !.pid = {},
                                                          !.known = @ \ {p}]
  BY DEF PromptEndDel
<1>3. p \in Proc
  BY <1>2 DEF TypeOK, Prompt
<1>4. EnteredAreListed' /\ stopped_pid_list' \subseteq Proc /\ mistaken' \subseteq Proc
  BY <1>1, <1>2, <1>3, DelStoppedKeeps
<1>5. prompt' \in Prompt
  BY <1>2 DEF TypeOK, Prompt
<1>6. TypeOK'
  BY <1>1, <1>4, <1>5 DEF TypeOK
<1> QED
  BY <1>1, <1>4, <1>6, KeepsProcesses

LEMMA EndRangeInv ==
    ASSUME IInv, EndRange
    PROVE  IInv'
<1>1. prompt' \in Prompt
  BY DEF EndRange, Prompt
<1> QED
  BY <1>1, PromptInv DEF EndRange, IInv, TypeOK

LEMMA StutterInv ==
    ASSUME IInv, UNCHANGED vars
    PROVE  IInv'
BY PromptInv DEF IInv, TypeOK, vars

LEMMA NextInv == IInv /\ [Next]_vars => IInv'
<1> SUFFICES ASSUME IInv, [Next]_vars PROVE IInv'
  OBVIOUS
<1>1. CASE Process
  BY <1>1, SubmitInv, ExitInv, SpawnInv DEF Process
<1>2. CASE Bpf
  BY <1>2, SignalInv DEF Bpf
<1>3. CASE Dispatch
  BY <1>3, ReceiveInv, LetItResumeInv, BeginAddInv, AddStoppedInv, BeginDelInv, EndDelInv
     DEF Dispatch
<1>4. CASE Block
  BY <1>4, BlockInv
<1>5. CASE Enter
  BY <1>5, EnterInv
<1>6. CASE Walk
  <2>1. ASSUME Fatal PROVE IInv'
    BY <2>1, EndInv DEF Fatal
  <2> QED
    BY <1>6, <2>1, LetItRunInv, PromptBeginDelInv, PromptEndDelInv, EndRangeInv DEF Walk
<1>7. CASE Quit
  BY <1>7, EndInv DEF Quit
<1>8. CASE UNCHANGED vars
  BY <1>8, StutterInv
<1> QED
  BY <1>1, <1>2, <1>3, <1>4, <1>5, <1>6, <1>7, <1>8 DEF Next

-----------------------------------------------------------------------------

\* What holds in every state of every session (ievent.go:201-245, stack.c:108-118).
THEOREM Invariance == Spec => []IInv
BY InitInv, NextInv, PTL DEF Spec

\* Every variable keeps its type, and the lock has at most one holder.
THEOREM TypeCorrect == Spec => []TypeOK
<1>1. IInv => TypeOK
  BY DEF IInv
<1> QED
  BY <1>1, Invariance, PTL

\* AddStopped, DelStopped: whoever is stopped, still lives and was handled is on the list, unless
\* the failure of a signal to its predecessor took it off.
THEOREM ListIsComplete == Spec => []StoppedAreListed
<1>1. IInv => StoppedAreListed
  BY DEF IInv, EnteredAreListed, StoppedAreListed
<1> QED
  BY <1>1, Invariance, PTL

\* LetItResume: with --auto nobody is stopped but for a record on the way or lost, a signal that
\* came after its record was handled, or --dump.
THEOREM AutoLeavesNobody == Spec => []StoppedHaveReason
<1>1. IInv => StoppedHaveReason
  BY DEF IInv
<1> QED
  BY <1>1, Invariance, PTL

=============================================================================
