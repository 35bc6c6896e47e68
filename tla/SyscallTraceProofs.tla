-------------------------- MODULE SyscallTraceProofs --------------------------
(*****************************************************************************)
(* Pairing of the enter and exit events, for any number of threads and calls *)
(* and any capacity of ctx_regs_map.                                         *)
(*****************************************************************************)
EXTENDS SyscallTrace, FiniteSetTheorems, TLAPS

\* How far the tables are written.
LoadInv ==
    /\ stage \in Stages /\ todo \subseteq Items(stage)
    /\ sysenter_point_args = IF stage = "enter" THEN Points \ todo ELSE Points
    /\ sysexit_point_args = CASE stage = "enter" -> {}
                              [] stage = "exit"  -> Points \ todo
                              [] OTHER           -> Points
    /\ common_list = [white |-> CASE stage \in {"enter", "exit"} -> {}
                                  [] stage = "white"            -> White \ todo
                                  [] OTHER                      -> White,
                      black |-> CASE stage = "black" -> Black \ todo
                                  [] stage = "done"  -> Black
                                  [] OTHER           -> {}]

ShapeInv ==
    /\ call \in [Tid -> Sys \cup {"user", "dead"}]
    /\ traced \in [Tid -> BOOLEAN]
    /\ entered \in [Tid -> BOOLEAN]
    /\ course \in [Tid -> Course]
    /\ DOMAIN ctx_regs_map \subseteq Tid
    /\ ctx_regs_map \in [DOMAIN ctx_regs_map -> [flag : {0, 1}, call : Ending]]

\* Thread t is in a call that began with complete tables and saw no change of the verdict.
Steady(t) == call[t] \in Sys /\ course[t] = "steady"

\* The entry of t counts as running only while t is in a call, and, if the call is steady,
\* exactly if the call passed the filters; then it is unmarked only if the enter event was
\* submitted.
EntryOf(t) ==
    /\ ctx_regs_map[t].call = "running" =>
          call[t] \in Sys /\ (Steady(t) => enter_filters(t, call[t]))
    /\ Steady(t) /\ enter_filters(t, call[t]) =>
          /\ ctx_regs_map[t].call = "running"
          /\ ctx_regs_map[t].flag # 1 => entered[t]

EntryInv ==
    /\ \A t \in Tid : Steady(t) => stage = "done"
    /\ \A t \in DOMAIN ctx_regs_map : EntryOf(t)

IInv == LoadInv /\ ShapeInv /\ EntryInv /\ ReturnsLeaveNothing /\ ExitPairs

LEMMA InitInv == Init => IInv
<1> SUFFICES ASSUME Init PROVE IInv
  OBVIOUS
<1>1. LoadInv
  BY DEF Init, LoadInv, Stages, Items
<1>2. ShapeInv
  BY DEF Init, ShapeInv, Course
<1>3. EntryInv /\ ReturnsLeaveNothing /\ ExitPairs
  BY SyscallAssumption DEF Init, EntryInv, EntryOf, Steady, ReturnsLeaveNothing, ExitPairs
<1> QED
  BY <1>1, <1>2, <1>3 DEF IInv

\* save_regs writes one entry or nothing at all, and nothing only when there is none yet.
LEMMA SaveRegs ==
    ASSUME ShapeInv, NEW t \in Tid, NEW flag \in {0, 1}
    PROVE  LET m == save_regs(t, flag) IN
           /\ DOMAIN m \subseteq Tid
           /\ m \in [DOMAIN m -> [flag : {0, 1}, call : Ending]]
           /\ \A u \in DOMAIN m : u # t => u \in DOMAIN ctx_regs_map /\ m[u] = ctx_regs_map[u]
           /\ t \in DOMAIN m => m[t] = [flag |-> flag, call |-> "running"]
BY DEF save_regs, ShapeInv, Ending

\* A thread whose own attributes and entry do not change keeps what EntryInv says of it.
LEMMA OtherKept ==
    ASSUME EntryInv, UNCHANGED tables, NEW u \in Tid,
           call'[u] = call[u], traced'[u] = traced[u], course'[u] = course[u],
           entered'[u] = entered[u],
           u \in DOMAIN ctx_regs_map' =>
              u \in DOMAIN ctx_regs_map /\ ctx_regs_map'[u] = ctx_regs_map[u]
    PROVE  /\ (Steady(u) => stage = "done")'
           /\ u \in DOMAIN ctx_regs_map' => EntryOf(u)'
<1>1. (Steady(u) <=> Steady(u)') /\ stage' = stage
  BY DEF Steady, tables
<1>2. enter_filters(u, call[u])' <=> enter_filters(u, call[u])
  BY DEF enter_filters, Selected, tables
<1>3. u \in DOMAIN ctx_regs_map' => EntryOf(u)
  BY DEF EntryInv
<1> QED
  BY <1>1, <1>2, <1>3 DEF EntryOf, EntryInv

\* User space writes the tables while no steady call is under way.
LEMMA LoadStep ==
    ASSUME IInv, NextStage \/ \E nr \in Points : WriteItem(nr)
    PROVE  IInv'
<1>1. stage # "done" /\ UNCHANGED <<conf, call, traced, ctx_regs_map, report>>
  BY DEF NextStage, WriteItem, IInv, LoadInv, Items
<1>2. ShapeInv' /\ ReturnsLeaveNothing' /\ ExitPairs'
  BY <1>1 DEF IInv, ShapeInv, ReturnsLeaveNothing, ExitPairs, report
<1>3. \A t \in Tid : ~Steady(t) /\ ~Steady(t)'
  BY <1>1 DEF IInv, EntryInv, Steady, report
<1>4. EntryInv'
  BY <1>1, <1>3 DEF IInv, EntryInv, EntryOf, ShapeInv
<1>5. White' = White /\ Black' = Black
  BY <1>1 DEF White, Black
<1>6. LoadInv'
  <2>1. CASE NextStage
    <3>1. /\ todo = {} /\ stage' = Following(stage) /\ stage # "done"
          /\ todo' = Items(Following(stage))
          /\ UNCHANGED <<sysenter_point_args, sysexit_point_args, common_list>>
      BY <2>1 DEF NextStage
    <3>2. (todo \subseteq Items(stage))'
      BY <1>5, <3>1 DEF Items
    <3> QED
      BY <1>5, <3>1, <3>2 DEF IInv, LoadInv, Stages, Following, Items
  <2>2. ASSUME NEW nr \in Points, WriteItem(nr) PROVE LoadInv'
    <3>1. nr \in todo /\ todo' = todo \ {nr} /\ stage' = stage
      BY <2>2 DEF WriteItem
    <3>2. (todo \subseteq Items(stage))'
      BY <1>5, <3>1 DEF IInv, LoadInv, Items
    <3>3. /\ sysenter_point_args' = sysenter_point_args \cup (IF stage = "enter" THEN {nr} ELSE {})
          /\ sysexit_point_args' = sysexit_point_args \cup (IF stage = "exit" THEN {nr} ELSE {})
          /\ common_list' =
                [white |-> common_list.white \cup (IF stage = "white" THEN {nr} ELSE {}),
                 black |-> common_list.black \cup (IF stage = "black" THEN {nr} ELSE {})]
      BY <2>2 DEF WriteItem, IInv, LoadInv
    <3>4. nr \in Items(stage) /\ todo \ {nr} \subseteq Items(stage)
      BY <3>1 DEF IInv, LoadInv
    <3>5. (sysenter_point_args = IF stage = "enter" THEN Points \ todo ELSE Points)'
      BY <3>1, <3>3, <3>4 DEF IInv, LoadInv, Items
    <3>6. (sysexit_point_args = CASE stage = "enter" -> {} [] stage = "exit" -> Points \ todo
                                  [] OTHER -> Points)'
      BY <3>1, <3>3, <3>4 DEF IInv, LoadInv, Items
    <3>7. common_list'.white = CASE stage \in {"enter", "exit"} -> {}
                                 [] stage = "white"            -> White \ (todo \ {nr})
                                 [] OTHER                      -> White
      BY <3>3, <3>4 DEF IInv, LoadInv, Items
    <3>8. common_list'.black = CASE stage = "black" -> Black \ (todo \ {nr})
                                 [] stage = "done"  -> Black
                                 [] OTHER           -> {}
      BY <3>3, <3>4 DEF IInv, LoadInv, Items
    <3> QED
      BY <1>5, <3>1, <3>2, <3>3, <3>5, <3>6, <3>7, <3>8 DEF IInv, LoadInv
  <2> QED
    BY <2>1, <2>2
<1> QED
  BY <1>2, <1>4, <1>6 DEF IInv

\* Handlers and threads leave the tables alone.
LEMMA TablesKept ==
    ASSUME LoadInv, UNCHANGED tables
    PROVE  LoadInv'
BY DEF LoadInv, tables, Items, White, Black

\* A system call that is entered.
LEMMA EnterInv ==
    ASSUME IInv, NEW t \in Tid, NEW nr \in Sys, NEW skip \in BOOLEAN, sys_enter(t, nr, skip)
    PROVE  IInv'
<1>0. /\ call[t] = "user" /\ call' = [call EXCEPT ![t] = nr]
      /\ course' = [course EXCEPT ![t] = Beginning]
      /\ UNCHANGED <<tables, traced>>
  BY DEF sys_enter
<1>1. LoadInv'
  BY <1>0, TablesKept DEF IInv
<1>2. /\ call'[t] = nr /\ course'[t] = Beginning
      /\ \A u \in Tid : u # t => call'[u] = call[u] /\ course'[u] = course[u]
  BY <1>0 DEF IInv, ShapeInv
<1>3. Steady(t)' => stage' = "done"
  BY <1>0, <1>2 DEF Steady, Beginning, tables
<1>4. (enter_filters(t, call[t]))' <=> enter_filters(t, nr)
  BY <1>0, <1>2 DEF enter_filters, Selected, tables
<1>5. CASE enter_filters(t, nr)
  <2> DEFINE flag == IF skip THEN 1 ELSE 0
             m == save_regs(t, flag)
  <2>1. /\ ctx_regs_map' = m
        /\ entered' = [entered EXCEPT ![t] = ~skip]
        /\ event' = event \/ event'.type = "enter"
    BY <1>5 DEF sys_enter
  <2>2. /\ DOMAIN m \subseteq Tid
        /\ m \in [DOMAIN m -> [flag : {0, 1}, call : Ending]]
        /\ \A u \in DOMAIN m : u # t => u \in DOMAIN ctx_regs_map /\ m[u] = ctx_regs_map[u]
        /\ t \in DOMAIN m => m[t] = [flag |-> flag, call |-> "running"]
    BY SaveRegs DEF IInv
  <2> HIDE DEF m
  <2>3. ShapeInv'
    BY <1>0, <2>1, <2>2 DEF IInv, ShapeInv, Beginning, Course
  <2>4. /\ (Steady(t) => stage = "done")'
        /\ t \in DOMAIN ctx_regs_map' => EntryOf(t)'
    <3>1. (skip => flag = 1) /\ (~skip => entered'[t])
      BY <2>1 DEF IInv, ShapeInv
    <3>2. t \in DOMAIN m => m[t].call = "running" /\ (m[t].flag # 1 => entered'[t])
      BY <2>2, <3>1
    <3> QED
      BY <1>2, <1>3, <1>4, <1>5, <2>1, <3>2 DEF EntryOf
  <2>5. ASSUME NEW u \in Tid, u # t
        PROVE  /\ (Steady(u) => stage = "done")'
               /\ u \in DOMAIN ctx_regs_map' => EntryOf(u)'
    BY <1>0, <1>2, <2>1, <2>2, <2>5, OtherKept DEF IInv, ShapeInv
  <2>6. EntryInv'
    BY <2>1, <2>2, <2>4, <2>5 DEF EntryInv
  <2>7. ReturnsLeaveNothing'
    BY <2>1, <2>2 DEF IInv, ReturnsLeaveNothing
  <2>8. ExitPairs'
    BY <2>1 DEF IInv, ExitPairs
  <2> QED
    BY <1>1, <2>3, <2>6, <2>7, <2>8 DEF IInv
<1>6. CASE ~enter_filters(t, nr)
  <2>1. UNCHANGED <<ctx_regs_map, entered, event>>
    BY <1>6 DEF sys_enter
  <2>2. ShapeInv' /\ ReturnsLeaveNothing' /\ ExitPairs'
    BY <1>0, <2>1 DEF IInv, ShapeInv, ReturnsLeaveNothing, ExitPairs, Beginning, Course
  <2>3. t \in DOMAIN ctx_regs_map' => EntryOf(t)'
    <3>1. t \in DOMAIN ctx_regs_map => ctx_regs_map[t].call # "running"
      BY <1>0, SyscallAssumption DEF IInv, EntryInv, EntryOf
    <3> QED
      BY <1>4, <1>6, <2>1, <3>1 DEF EntryOf
  <2>4. ASSUME NEW u \in Tid, u # t
        PROVE  /\ (Steady(u) => stage = "done")'
               /\ u \in DOMAIN ctx_regs_map' => EntryOf(u)'
    BY <1>0, <1>2, <2>1, <2>4, OtherKept DEF IInv
  <2>5. EntryInv'
    BY <1>3, <2>2, <2>3, <2>4 DEF EntryInv, ShapeInv
  <2> QED
    BY <1>1, <2>2, <2>5 DEF IInv
<1> QED
  BY <1>5, <1>6

\* A call that returns.
LEMMA ExitInv ==
    ASSUME IInv, NEW t \in Tid, NEW forgot \in BOOLEAN, NEW skip \in BOOLEAN,
           sys_exit(t, forgot, skip)
    PROVE  IInv'
<1>0. /\ call[t] \in Sys /\ call' = [call EXCEPT ![t] = "user"]
      /\ entered' = [entered EXCEPT ![t] = FALSE]
      /\ UNCHANGED <<tables, traced, course>>
  BY DEF sys_exit
<1>1. LoadInv'
  BY <1>0, TablesKept DEF IInv
<1>2. /\ call'[t] \notin Sys
      /\ \A u \in Tid : u # t => call'[u] = call[u] /\ entered'[u] = entered[u]
  BY <1>0, SyscallAssumption DEF IInv, ShapeInv
<1>3. Steady(t) => sysenter_point_args = Points /\ sysexit_point_args = Points
  BY DEF IInv, EntryInv, LoadInv
<1>4. CASE traced[t] /\ Known(t, forgot) /\ t \in DOMAIN ctx_regs_map
  <2>1. ctx_regs_map' = del_regs(t)
    BY <1>4 DEF sys_exit
  <2>2. /\ DOMAIN ctx_regs_map' = DOMAIN ctx_regs_map \ {t}
        /\ \A u \in DOMAIN ctx_regs_map' : ctx_regs_map'[u] = ctx_regs_map[u]
        /\ ctx_regs_map' \in [DOMAIN ctx_regs_map' -> [flag : {0, 1}, call : Ending]]
    BY <2>1 DEF del_regs, IInv, ShapeInv
  <2>3. ShapeInv'
    BY <1>0, <2>2 DEF IInv, ShapeInv
  <2>4. EntryInv'
    <3>1. ASSUME NEW u \in Tid, u # t
          PROVE  /\ (Steady(u) => stage = "done")'
                 /\ u \in DOMAIN ctx_regs_map' => EntryOf(u)'
      BY <1>0, <1>2, <2>2, <3>1, OtherKept DEF IInv
    <3> QED
      BY <1>2, <2>2, <2>3, <3>1 DEF EntryInv, Steady, ShapeInv
  <2>5. ReturnsLeaveNothing'
    BY <2>2 DEF IInv, ReturnsLeaveNothing
  <2>6. ExitPairs'
    <3>1. CASE event' = event
      BY <3>1 DEF IInv, ExitPairs
    <3>2. CASE /\ ctx_regs_map[t].flag # 1 /\ Selected(call[t])
               /\ event' = [type |-> "exit", tid |-> t, entered |-> entered[t],
                            own |-> ctx_regs_map[t].call = "running",
                            course |-> course[t]]
      <4> SUFFICES ASSUME course[t] = "steady"
                   PROVE  ctx_regs_map[t].call = "running" /\ entered[t]
        BY <3>2 DEF ExitPairs
      <4>1. Steady(t)
        BY <1>0 DEF Steady
      <4>2. enter_filters(t, call[t])
        BY <1>3, <1>4, <3>2, <4>1 DEF enter_filters, Known
      <4> QED
        BY <1>4, <3>2, <4>1, <4>2 DEF IInv, EntryInv, EntryOf
    <3> QED
      BY <1>4, <3>1, <3>2 DEF sys_exit
  <2> QED
    BY <1>1, <2>3, <2>4, <2>5, <2>6 DEF IInv
<1>5. CASE ~(traced[t] /\ Known(t, forgot) /\ t \in DOMAIN ctx_regs_map)
  <2> DEFINE ending == Ended(t, forgot)
  <2>1. ctx_regs_map' = Left(t, ending) /\ event' = event
    BY <1>5 DEF sys_exit
  <2>2. ending \in Ending \ {"running"}
    BY DEF Ended, Ending
  <2> HIDE DEF ending
  <2>3. /\ DOMAIN ctx_regs_map' = DOMAIN ctx_regs_map
        /\ \A u \in DOMAIN ctx_regs_map : u # t => ctx_regs_map'[u] = ctx_regs_map[u]
        /\ ctx_regs_map' \in [DOMAIN ctx_regs_map' -> [flag : {0, 1}, call : Ending]]
        /\ t \in DOMAIN ctx_regs_map =>
              ctx_regs_map'[t].call = IF ctx_regs_map[t].call = "running" THEN ending
                                      ELSE ctx_regs_map[t].call
    BY <2>1, <2>2 DEF Left, IInv, ShapeInv
  <2>4. ShapeInv'
    BY <1>0, <2>3 DEF IInv, ShapeInv
  <2>5. t \in DOMAIN ctx_regs_map => ctx_regs_map'[t].call # "returned"
    <3>1. ASSUME t \in DOMAIN ctx_regs_map, ctx_regs_map[t].call = "running", Steady(t)
          PROVE  forgot
      <4>1. traced[t] /\ call[t] \in sysexit_point_args
        BY <1>3, <3>1 DEF IInv, EntryInv, EntryOf, enter_filters
      <4> QED
        BY <1>5, <3>1, <4>1 DEF Known
    <3>2. ending = "returned" => ~forgot /\ Steady(t)
      BY <1>0 DEF ending, Ended, Steady
    <3> QED
      BY <2>3, <3>1, <3>2 DEF IInv, ReturnsLeaveNothing
  <2>6. EntryInv'
    <3>1. ASSUME NEW u \in Tid, u # t
          PROVE  /\ (Steady(u) => stage = "done")'
                 /\ u \in DOMAIN ctx_regs_map' => EntryOf(u)'
      BY <1>0, <1>2, <2>3, <3>1, OtherKept DEF IInv
    <3>2. ~Steady(t)' /\ (t \in DOMAIN ctx_regs_map' => EntryOf(t)')
      BY <1>2, <2>2, <2>3 DEF Steady, EntryOf
    <3> QED
      BY <2>4, <3>1, <3>2 DEF EntryInv, ShapeInv
  <2>7. ReturnsLeaveNothing'
    BY <2>3, <2>5 DEF IInv, ReturnsLeaveNothing
  <2>8. ExitPairs'
    BY <2>1 DEF IInv, ExitPairs
  <2> QED
    BY <1>1, <2>4, <2>6, <2>7, <2>8 DEF IInv
<1> QED
  BY <1>4, <1>5

\* A thread that dies, in a call or outside.
LEMMA DieInv ==
    ASSUME IInv, NEW t \in Tid, Die(t)
    PROVE  IInv'
<1>0. /\ call' = [call EXCEPT ![t] = "dead"]
      /\ entered' = [entered EXCEPT ![t] = FALSE]
      /\ ctx_regs_map' = Left(t, "lost")
      /\ UNCHANGED <<tables, traced, course, event>>
  BY DEF Die
<1>1. LoadInv' /\ ExitPairs'
  BY <1>0, TablesKept DEF IInv, ExitPairs
<1>2. /\ call'[t] \notin Sys
      /\ \A u \in Tid : u # t => call'[u] = call[u] /\ entered'[u] = entered[u]
  BY <1>0, SyscallAssumption DEF IInv, ShapeInv
<1>3. /\ DOMAIN ctx_regs_map' = DOMAIN ctx_regs_map
      /\ \A u \in DOMAIN ctx_regs_map : u # t => ctx_regs_map'[u] = ctx_regs_map[u]
      /\ ctx_regs_map' \in [DOMAIN ctx_regs_map' -> [flag : {0, 1}, call : Ending]]
      /\ t \in DOMAIN ctx_regs_map =>
            ctx_regs_map'[t].call = IF ctx_regs_map[t].call = "running" THEN "lost"
                                    ELSE ctx_regs_map[t].call
  BY <1>0 DEF Left, IInv, ShapeInv, Ending
<1>4. ShapeInv'
  BY <1>0, <1>3 DEF IInv, ShapeInv
<1>5. EntryInv'
  <2>1. ASSUME NEW u \in Tid, u # t
        PROVE  /\ (Steady(u) => stage = "done")'
               /\ u \in DOMAIN ctx_regs_map' => EntryOf(u)'
    BY <1>0, <1>2, <1>3, <2>1, OtherKept DEF IInv
  <2>2. ~Steady(t)' /\ (t \in DOMAIN ctx_regs_map' => EntryOf(t)')
    BY <1>2, <1>3 DEF Steady, EntryOf
  <2> QED
    BY <1>4, <2>1, <2>2 DEF EntryInv, ShapeInv
<1>6. ReturnsLeaveNothing'
  BY <1>3 DEF IInv, ReturnsLeaveNothing
<1> QED
  BY <1>1, <1>4, <1>5, <1>6 DEF IInv

\* A thread that is born with the number of a dead one has no running entry.
LEMMA BirthInv ==
    ASSUME IInv, NEW t \in Tid, NEW verdict \in BOOLEAN, Birth(t, verdict)
    PROVE  IInv'
<1>0. /\ call[t] = "dead" /\ call' = [call EXCEPT ![t] = "user"]
      /\ traced' = [traced EXCEPT ![t] = verdict]
      /\ UNCHANGED <<tables, ctx_regs_map, report>>
  BY DEF Birth
<1>1. LoadInv' /\ ExitPairs' /\ ShapeInv' /\ ReturnsLeaveNothing'
  BY <1>0, TablesKept DEF IInv, ExitPairs, ShapeInv, ReturnsLeaveNothing, report
<1>2. call[t] \notin Sys /\ call'[t] \notin Sys
  BY <1>0, SyscallAssumption DEF IInv, ShapeInv
<1>3. ~Steady(t)' /\ (t \in DOMAIN ctx_regs_map' => EntryOf(t)')
  BY <1>0, <1>2 DEF IInv, EntryInv, EntryOf, Steady
<1>4. ASSUME NEW u \in Tid, u # t
      PROVE  /\ (Steady(u) => stage = "done")'
             /\ u \in DOMAIN ctx_regs_map' => EntryOf(u)'
  <2>1. call'[u] = call[u] /\ traced'[u] = traced[u]
    BY <1>0, <1>4 DEF IInv, ShapeInv
  <2> QED
    BY <1>0, <2>1, OtherKept DEF IInv, report
<1>5. EntryInv'
  BY <1>1, <1>3, <1>4 DEF EntryInv, ShapeInv
<1> QED
  BY <1>1, <1>5 DEF IInv

\* A call that sees the verdict change is no longer steady.
LEMMA ChangeInv ==
    ASSUME IInv, NEW t \in Tid, ChangeAttributes(t)
    PROVE  IInv'
<1>0. /\ traced' = [traced EXCEPT ![t] = ~traced[t]]
      /\ course' = [course EXCEPT ![t] = "changed"]
      /\ UNCHANGED <<tables, call, ctx_regs_map, entered, event>>
  BY DEF ChangeAttributes
<1>1. LoadInv' /\ ExitPairs' /\ ReturnsLeaveNothing'
  BY <1>0, TablesKept DEF IInv, ExitPairs, ReturnsLeaveNothing
<1>2. ShapeInv'
  BY <1>0 DEF IInv, ShapeInv, Course
<1>3. ~Steady(t)' /\ (t \in DOMAIN ctx_regs_map' => EntryOf(t)')
  <2>1. course'[t] = "changed"
    BY <1>0 DEF IInv, ShapeInv
  <2> QED
    BY <1>0, <2>1 DEF IInv, EntryInv, EntryOf, Steady
<1>4. ASSUME NEW u \in Tid, u # t
      PROVE  /\ (Steady(u) => stage = "done")'
             /\ u \in DOMAIN ctx_regs_map' => EntryOf(u)'
  <2>1. course'[u] = course[u] /\ traced'[u] = traced[u]
    BY <1>0, <1>4 DEF IInv, ShapeInv
  <2> QED
    BY <1>0, <2>1, OtherKept DEF IInv
<1>5. EntryInv'
  BY <1>2, <1>3, <1>4 DEF EntryInv, ShapeInv
<1> QED
  BY <1>1, <1>2, <1>5 DEF IInv

LEMMA StepInv == IInv /\ [Next]_vars => IInv'
<1> SUFFICES ASSUME IInv, [Next]_vars PROVE IInv'
  OBVIOUS
<1>1. CASE UNCHANGED vars
  <2>1. UNCHANGED <<tables, call, traced, ctx_regs_map, entered, course, event>>
    BY <1>1 DEF vars, report
  <2>2. LoadInv' /\ ShapeInv' /\ ReturnsLeaveNothing' /\ ExitPairs'
    BY <2>1, TablesKept DEF IInv, ShapeInv, ReturnsLeaveNothing, ExitPairs
  <2>3. EntryInv'
    BY <2>1, <2>2, OtherKept DEF IInv, EntryInv, ShapeInv
  <2> QED
    BY <2>2, <2>3 DEF IInv
<1> QED
  BY <1>1, LoadStep, EnterInv, ExitInv, DieInv, BirthInv, ChangeInv DEF Next

\* ctx_regs_map keeps to its size.
FitInv ==
    /\ conf \in Configs
    /\ event \in Event
    /\ IsFiniteSet(DOMAIN ctx_regs_map)
    /\ Cardinality(DOMAIN ctx_regs_map) <= conf.regs_cap

\* save_regs adds an entry only while there is room.
LEMMA SaveFits ==
    ASSUME FitInv, NEW t \in Tid, NEW flag \in {0, 1}
    PROVE  LET m == save_regs(t, flag) IN
           IsFiniteSet(DOMAIN m) /\ Cardinality(DOMAIN m) <= conf.regs_cap
<1> DEFINE D == DOMAIN ctx_regs_map
<1>0. conf.regs_cap \in Nat /\ Cardinality(D) \in Nat
  BY SyscallAssumption, FS_CardinalityType DEF FitInv, Config
<1>1. CASE t \in D \/ Cardinality(D) < conf.regs_cap
  <2>1. DOMAIN save_regs(t, flag) = D \cup {t}
    BY <1>1 DEF save_regs
  <2>2. /\ IsFiniteSet(D \cup {t})
        /\ Cardinality(D \cup {t}) = IF t \in D THEN Cardinality(D) ELSE Cardinality(D) + 1
    BY FS_AddElement DEF FitInv
  <2> QED
    BY <1>0, <1>1, <2>1, <2>2 DEF FitInv
<1>2. CASE ~(t \in D \/ Cardinality(D) < conf.regs_cap)
  BY <1>2 DEF save_regs, FitInv
<1> QED
  BY <1>1, <1>2

LEMMA FitStep == FitInv /\ IInv /\ [Next]_vars => FitInv'
<1> SUFFICES ASSUME FitInv, IInv, [Next]_vars PROVE FitInv'
  OBVIOUS
<1>1. conf' = conf
  BY DEF Next, NextStage, WriteItem, sys_enter, sys_exit, Die, Birth, ChangeAttributes, vars, tables
<1>2. \A t \in Tid : call[t] \in Sys => course[t] \in Course /\ entered[t] \in BOOLEAN
  BY DEF IInv, ShapeInv
<1>3. CASE UNCHANGED <<ctx_regs_map, event>>
  BY <1>1, <1>3 DEF FitInv
<1>4. ASSUME NEW t \in Tid, NEW nr \in Sys, NEW skip \in BOOLEAN, sys_enter(t, nr, skip)
      PROVE  FitInv'
  <2> DEFINE flag == IF skip THEN 1 ELSE 0
  <2>1. event' \in Event
    <3>1. [type |-> "enter", tid |-> t, own |-> TRUE, entered |-> TRUE, course |-> Beginning]
             \in Event
      BY DEF Event, Beginning, Course
    <3>2. event \in Event
      BY DEF FitInv
    <3> QED
      BY <1>4, <3>1, <3>2 DEF sys_enter
  <2>2. ctx_regs_map' = save_regs(t, flag) \/ ctx_regs_map' = ctx_regs_map
    BY <1>4 DEF sys_enter
  <2>3. flag \in {0, 1}
    OBVIOUS
  <2> HIDE DEF flag
  <2> QED
    BY <1>1, <2>1, <2>2, <2>3, SaveFits DEF FitInv
<1>5. ASSUME NEW t \in Tid, NEW forgot \in BOOLEAN, NEW skip \in BOOLEAN,
             sys_exit(t, forgot, skip)
      PROVE  FitInv'
  <2>1. event' \in Event
    <3>1. call[t] \in Sys
      BY <1>5 DEF sys_exit
    <3>2. \A own \in BOOLEAN :
             [type |-> "exit", tid |-> t, entered |-> entered[t], own |-> own,
              course |-> course[t]] \in Event
      BY <1>2, <3>1 DEF Event
    <3>3. (ctx_regs_map[t].call = "running") \in BOOLEAN
      OBVIOUS
    <3>4. event \in Event
      BY DEF FitInv
    <3> QED
      BY <1>5, <3>2, <3>3, <3>4 DEF sys_exit
  <2>2. DOMAIN ctx_regs_map' = DOMAIN ctx_regs_map \ {t}
        \/ DOMAIN ctx_regs_map' = DOMAIN ctx_regs_map
    BY <1>5 DEF sys_exit, del_regs, Left
  <2>3. /\ IsFiniteSet(DOMAIN ctx_regs_map \ {t})
        /\ Cardinality(DOMAIN ctx_regs_map \ {t}) <= Cardinality(DOMAIN ctx_regs_map)
    BY FS_Subset DEF FitInv
  <2>4. /\ Cardinality(DOMAIN ctx_regs_map \ {t}) \in Nat
        /\ Cardinality(DOMAIN ctx_regs_map) \in Nat
        /\ conf.regs_cap \in Nat
    BY <2>3, FS_CardinalityType, SyscallAssumption DEF FitInv, Config
  <2> QED
    BY <1>1, <2>1, <2>2, <2>3, <2>4 DEF FitInv
<1>6. ASSUME NEW t \in Tid, Die(t) PROVE FitInv'
  <2>1. DOMAIN ctx_regs_map' = DOMAIN ctx_regs_map /\ event' = event
    BY <1>6 DEF Die, Left
  <2> QED
    BY <1>1, <2>1 DEF FitInv
<1>7. (NextStage \/ (\E nr \in Points : WriteItem(nr)) \/ (\E t \in Tid : ChangeAttributes(t))
       \/ (\E t \in Tid, verdict \in BOOLEAN : Birth(t, verdict)) \/ UNCHANGED vars)
      => UNCHANGED <<ctx_regs_map, event>>
  BY DEF NextStage, WriteItem, Birth, ChangeAttributes, vars, report
<1> QED
  BY <1>3, <1>4, <1>5, <1>6, <1>7 DEF Next

LEMMA FitInit == Init => FitInv
<1> SUFFICES ASSUME Init PROVE FitInv
  OBVIOUS
<1>1. DOMAIN ctx_regs_map = {} /\ conf.regs_cap \in Nat
  BY SyscallAssumption DEF Init, Config
<1>2. event \in Event
  BY DEF Init, Event, Course
<1> QED
  BY <1>1, <1>2, FS_EmptySet DEF Init, FitInv

\* Every variable keeps its type, and ctx_regs_map never holds more than max_entries.
THEOREM RegsTypeCorrect == Spec => []TypeOK
<1>1. IInv /\ FitInv => TypeOK
  <2> SUFFICES ASSUME IInv, FitInv PROVE TypeOK
    OBVIOUS
  <2>1. White \subseteq Points /\ Black \subseteq Points
    BY SyscallAssumption DEF FitInv, Config, White, Black
  <2>2. /\ sysenter_point_args \subseteq Points /\ sysexit_point_args \subseteq Points
        /\ common_list \in [white : SUBSET Points, black : SUBSET Points]
    BY <2>1 DEF IInv, LoadInv
  <2> QED
    BY <2>2 DEF IInv, LoadInv, ShapeInv, FitInv, TypeOK
<1> QED
  BY InitInv, StepInv, FitInit, FitStep, <1>1, PTL DEF Spec

\* An exit event of a call that began with complete tables and saw no change of the verdict
\* shows the arguments of that call and follows its enter event.
THEOREM EventsPair == Spec => []ExitPairs
<1>1. IInv => ExitPairs
  BY DEF IInv
<1> QED
  BY InitInv, StepInv, <1>1, PTL DEF Spec

\* Such a call, if it returns with its number, leaves no entry behind.
THEOREM MapIsCleaned == Spec => []ReturnsLeaveNothing
<1>1. IInv => ReturnsLeaveNothing
  BY DEF IInv
<1> QED
  BY InitInv, StepInv, <1>1, PTL DEF Spec

-----------------------------------------------------------------------------
(* A call reported on entry is reported on return, if the map has room.      *)

Room == conf.regs_cap >= Cardinality(Tid)

\* The call of t was reported, and its return is to be.
Watched(t) == entered[t] /\ (course[t] = "steady" \/ (~conf.all /\ course[t] = "early"))

\* Nothing is in the way of the exit event, whichever tables are still being written.
Ready(t) ==
    /\ traced[t]
    /\ t \in DOMAIN ctx_regs_map /\ ctx_regs_map[t].flag # 1
    /\ call[t] \in sysexit_point_args /\ Selected(call[t])
    /\ course[t] = "early" => call[t] \in White

ReportInv ==
    /\ \A t \in Tid : entered[t] => call[t] \in Sys
    /\ Room => \A t \in Tid : Watched(t) => Ready(t)

CompleteInv == IInv /\ FitInv /\ ReportInv

\* While there are fewer entries than threads, save_regs finds room.
LEMMA RoomForAll ==
    ASSUME FitInv, Room, NEW t \in Tid, DOMAIN ctx_regs_map \subseteq Tid, NEW flag
    PROVE  LET m == save_regs(t, flag) IN
           /\ DOMAIN m = DOMAIN ctx_regs_map \cup {t}
           /\ m[t].flag = flag
           /\ \A u \in DOMAIN ctx_regs_map : u # t => m[u] = ctx_regs_map[u]
<1> DEFINE D == DOMAIN ctx_regs_map
<1>1. t \in D \/ Cardinality(D) < conf.regs_cap
  <2> SUFFICES ASSUME t \notin D PROVE Cardinality(D) < conf.regs_cap
    OBVIOUS
  <2>1. IsFiniteSet(Tid) /\ IsFiniteSet(Tid \ {t}) /\ conf.regs_cap \in Nat
    BY SyscallAssumption, FS_RemoveElement DEF FitInv, Config
  <2>2. Cardinality(Tid \ {t}) = Cardinality(Tid) - 1
    BY <2>1, FS_RemoveElement
  <2>3. Cardinality(D) <= Cardinality(Tid \ {t})
    BY <2>1, FS_Subset
  <2>4. Cardinality(D) \in Nat /\ Cardinality(Tid) \in Nat
    BY <2>1, FS_CardinalityType DEF FitInv
  <2> QED
    BY <2>1, <2>2, <2>3, <2>4 DEF Room
<1> QED
  BY <1>1 DEF save_regs

\* A thread whose own attributes and entry do not change.
LEMMA ReadyKept ==
    ASSUME UNCHANGED tables, NEW u \in Tid,
           call'[u] = call[u], traced'[u] = traced[u], course'[u] = course[u],
           entered'[u] = entered[u],
           u \in DOMAIN ctx_regs_map =>
              u \in DOMAIN ctx_regs_map' /\ ctx_regs_map'[u] = ctx_regs_map[u],
           Watched(u) => Ready(u)
    PROVE  (Watched(u) => Ready(u))'
BY DEF Watched, Ready, Selected, White, tables

LEMMA LoadComplete ==
    ASSUME CompleteInv, IInv', NextStage \/ \E nr \in Points : WriteItem(nr)
    PROVE  ReportInv'
<1>1. stage # "done" /\ UNCHANGED <<conf, call, traced, ctx_regs_map, entered, course, event>>
  BY DEF NextStage, WriteItem, report, CompleteInv, IInv, LoadInv, Items
<1>2. White' = White /\ Black' = Black /\ White \cap Black = {}
  BY <1>1 DEF White, Black
<1>3. /\ sysexit_point_args \subseteq sysexit_point_args'
      /\ common_list.white \subseteq common_list'.white
      /\ common_list'.black \subseteq Black
  <2>1. common_list'.black \subseteq Black
    BY <1>2 DEF IInv, LoadInv
  <2>2. CASE NextStage
    BY <2>1, <2>2 DEF NextStage
  <2>3. ASSUME NEW nr \in Points, WriteItem(nr)
        PROVE  /\ sysexit_point_args \subseteq sysexit_point_args'
               /\ common_list.white \subseteq common_list'.white
    <3>1. common_list'.white = common_list.white \cup (IF stage = "white" THEN {nr} ELSE {})
      BY <2>3 DEF WriteItem, CompleteInv, IInv, LoadInv
    <3> QED
      BY <2>3, <3>1 DEF WriteItem
  <2> QED
    BY <2>1, <2>2, <2>3
<1>4. ASSUME Room, NEW t \in Tid, Watched(t) PROVE Ready(t)'
  <2>1. Ready(t) /\ entered[t] /\ call[t] \in Sys
    BY <1>4 DEF CompleteInv, ReportInv, Watched
  <2>2. course[t] = "early" /\ ~conf.all
    BY <1>1, <1>4, <2>1 DEF Watched, CompleteInv, IInv, EntryInv, Steady
  <2>3. call[t] \in White /\ call[t] \in common_list.white
    BY <2>1, <2>2 DEF Ready, Selected
  <2>4. Selected(call[t])'
    BY <1>1, <1>2, <1>3, <2>2, <2>3 DEF Selected
  <2> QED
    BY <1>1, <1>2, <1>3, <2>1, <2>4 DEF Ready
<1> QED
  BY <1>1, <1>4 DEF ReportInv, CompleteInv, Room, Watched

LEMMA EnterComplete ==
    ASSUME CompleteInv, NEW t \in Tid, NEW nr \in Sys, NEW skip \in BOOLEAN,
           sys_enter(t, nr, skip)
    PROVE  ReportInv'
<1>1. /\ call[t] = "user" /\ call' = [call EXCEPT ![t] = nr]
      /\ course' = [course EXCEPT ![t] = Beginning]
      /\ UNCHANGED <<tables, traced>>
  BY DEF sys_enter
<1>2. /\ call'[t] = nr /\ course'[t] = Beginning /\ ~entered[t] /\ conf' = conf
      /\ \A u \in Tid : u # t => call'[u] = call[u] /\ course'[u] = course[u]
  BY <1>1, SyscallAssumption DEF CompleteInv, ReportInv, IInv, ShapeInv, tables
<1>3. CASE ~enter_filters(t, nr)
  <2>1. UNCHANGED <<ctx_regs_map, entered>>
    BY <1>3 DEF sys_enter
  <2>2. ASSUME Room, NEW u \in Tid PROVE (Watched(u) => Ready(u))'
    <3>1. CASE u = t
      BY <1>2, <2>1, <3>1 DEF Watched
    <3>2. CASE u # t
      BY <1>1, <1>2, <2>1, <2>2, <3>2, ReadyKept DEF CompleteInv, ReportInv
    <3> QED
      BY <3>1, <3>2
  <2> QED
    BY <1>2, <2>1, <2>2 DEF CompleteInv, ReportInv, Room
<1>4. CASE enter_filters(t, nr)
  <2> DEFINE flag == IF skip THEN 1 ELSE 0
             m == save_regs(t, flag)
  <2>1. ctx_regs_map' = m /\ entered' = [entered EXCEPT ![t] = ~skip]
    BY <1>4 DEF sys_enter
  <2>2. entered'[t] = ~skip /\ \A u \in Tid : u # t => entered'[u] = entered[u]
    BY <2>1 DEF CompleteInv, IInv, ShapeInv
  <2>3. ASSUME Room
        PROVE  /\ t \in DOMAIN m /\ m[t].flag = flag
               /\ \A u \in DOMAIN ctx_regs_map : u # t => u \in DOMAIN m /\ m[u] = ctx_regs_map[u]
    <3>1. FitInv /\ DOMAIN ctx_regs_map \subseteq Tid
      BY DEF CompleteInv, IInv, ShapeInv
    <3>2. /\ DOMAIN m = DOMAIN ctx_regs_map \cup {t}
          /\ m[t].flag = flag
          /\ \A u \in DOMAIN ctx_regs_map : u # t => m[u] = ctx_regs_map[u]
      <4> HIDE DEF flag
      <4> QED
        BY <2>3, <3>1, RoomForAll
    <3> HIDE DEF m, flag
    <3> QED
      BY <3>2
  <2> HIDE DEF m
  <2>4. ASSUME Room, Watched(t)' PROVE Ready(t)'
    <3>1. ~skip /\ flag = 0
      BY <2>2, <2>4 DEF Watched
    <3>2. traced[t] /\ nr \in sysenter_point_args /\ Selected(nr)
      BY <1>4 DEF enter_filters
    <3>3. nr \in Points
      BY <3>2 DEF CompleteInv, IInv, LoadInv
    <3>4. stage = "done" \/ (~conf.all /\ Beginning = "early")
      BY <1>2, <2>4 DEF Watched, Beginning
    <3>5. nr \in sysexit_point_args
      <4>1. CASE stage = "done"
        BY <3>3, <4>1 DEF CompleteInv, IInv, LoadInv
      <4>2. CASE ~conf.all
        <5>1. nr \in common_list.white
          BY <3>2, <4>2 DEF Selected
        <5>2. stage \notin {"enter", "exit"}
          BY <5>1 DEF CompleteInv, IInv, LoadInv
        <5> QED
          BY <3>3, <5>2 DEF CompleteInv, IInv, LoadInv
      <4> QED
        BY <3>4, <4>1, <4>2
    <3>6. Beginning = "early" => nr \in White
      <4>1. Beginning = "early" => ~conf.all
        BY <3>4 DEF Beginning
      <4>2. common_list.white \subseteq White
        BY DEF CompleteInv, IInv, LoadInv
      <4> QED
        BY <3>2, <4>1, <4>2 DEF Selected
    <3>7. White' = White /\ (Selected(nr)' <=> Selected(nr)) /\ UNCHANGED <<traced, sysexit_point_args>>
      BY <1>1 DEF White, Selected, tables
    <3>8. call'[t] \in sysexit_point_args' /\ Selected(call[t])' /\ (course'[t] = "early" => call'[t] \in White')
      BY <1>2, <3>2, <3>5, <3>6, <3>7 DEF Selected
    <3> QED
      BY <2>1, <2>3, <2>4, <3>1, <3>2, <3>7, <3>8 DEF Ready
  <2>5. ASSUME Room, NEW u \in Tid, u # t PROVE (Watched(u) => Ready(u))'
    BY <1>1, <1>2, <2>1, <2>2, <2>3, <2>5, ReadyKept DEF CompleteInv, ReportInv
  <2>6. \A u \in Tid : entered'[u] => call'[u] \in Sys
    BY <1>2, <2>2 DEF CompleteInv, ReportInv
  <2> QED
    BY <1>2, <2>4, <2>5, <2>6 DEF ReportInv, Room
<1> QED
  BY <1>3, <1>4

\* A call of t that ends, on return or with the thread.
LEMMA EndComplete ==
    ASSUME CompleteInv, NEW t \in Tid,
           entered' = [entered EXCEPT ![t] = FALSE],
           \A u \in Tid : u # t => call'[u] = call[u],
           \A u \in DOMAIN ctx_regs_map : u # t =>
              u \in DOMAIN ctx_regs_map' /\ ctx_regs_map'[u] = ctx_regs_map[u],
           UNCHANGED <<tables, traced, course>>
    PROVE  ReportInv'
<1>1. ~entered'[t] /\ \A u \in Tid : u # t => entered'[u] = entered[u]
  BY DEF CompleteInv, IInv, ShapeInv
<1>2. conf' = conf
  BY DEF tables
<1>3. ASSUME Room, NEW u \in Tid PROVE (Watched(u) => Ready(u))'
  <2>1. CASE u = t
    BY <1>1, <2>1 DEF Watched
  <2>2. CASE u # t
    BY <1>1, <1>3, <2>2, ReadyKept DEF CompleteInv, ReportInv
  <2> QED
    BY <2>1, <2>2
<1> QED
  BY <1>1, <1>2, <1>3 DEF CompleteInv, ReportInv, Room

LEMMA CompleteStep == CompleteInv /\ [Next]_vars => CompleteInv'
<1> SUFFICES ASSUME CompleteInv, [Next]_vars PROVE CompleteInv'
  OBVIOUS
<1>1. IInv' /\ FitInv'
  BY StepInv, FitStep DEF CompleteInv
<1>2. CASE UNCHANGED vars
  <2>1. UNCHANGED <<tables, call, traced, ctx_regs_map, entered, course>> /\ conf' = conf
    BY <1>2 DEF vars, report, tables
  <2>2. ASSUME Room, NEW u \in Tid PROVE (Watched(u) => Ready(u))'
    BY <2>1, <2>2, ReadyKept DEF CompleteInv, ReportInv
  <2> QED
    BY <1>1, <2>1, <2>2 DEF CompleteInv, ReportInv, Room
<1>3. ASSUME NEW t \in Tid, NEW forgot \in BOOLEAN, NEW skip \in BOOLEAN, sys_exit(t, forgot, skip)
      PROVE  ReportInv'
  <2>1. /\ call' = [call EXCEPT ![t] = "user"] /\ entered' = [entered EXCEPT ![t] = FALSE]
        /\ UNCHANGED <<tables, traced, course>>
        /\ ctx_regs_map' = del_regs(t) \/ ctx_regs_map' = Left(t, Ended(t, forgot))
    BY <1>3 DEF sys_exit
  <2>2. \A u \in DOMAIN ctx_regs_map : u # t =>
           u \in DOMAIN ctx_regs_map' /\ ctx_regs_map'[u] = ctx_regs_map[u]
    BY <2>1 DEF del_regs, Left
  <2>3. \A u \in Tid : u # t => call'[u] = call[u]
    BY <2>1 DEF CompleteInv, IInv, ShapeInv
  <2> QED
    BY <2>1, <2>2, <2>3, EndComplete
<1>4. ASSUME NEW t \in Tid, Die(t) PROVE ReportInv'
  <2>1. /\ call' = [call EXCEPT ![t] = "dead"] /\ entered' = [entered EXCEPT ![t] = FALSE]
        /\ UNCHANGED <<tables, traced, course>> /\ ctx_regs_map' = Left(t, "lost")
    BY <1>4 DEF Die
  <2>2. \A u \in DOMAIN ctx_regs_map : u # t =>
           u \in DOMAIN ctx_regs_map' /\ ctx_regs_map'[u] = ctx_regs_map[u]
    BY <2>1 DEF Left
  <2>3. \A u \in Tid : u # t => call'[u] = call[u]
    BY <2>1 DEF CompleteInv, IInv, ShapeInv
  <2> QED
    BY <2>1, <2>2, <2>3, EndComplete
<1>5. ASSUME NEW t \in Tid, NEW verdict \in BOOLEAN, Birth(t, verdict) PROVE ReportInv'
  <2>1. /\ call[t] = "dead" /\ call' = [call EXCEPT ![t] = "user"]
        /\ traced' = [traced EXCEPT ![t] = verdict]
        /\ UNCHANGED <<tables, ctx_regs_map, entered, course>>
    BY <1>5 DEF Birth, report
  <2>2. ~entered[t] /\ conf' = conf
        /\ \A u \in Tid : u # t => call'[u] = call[u] /\ traced'[u] = traced[u]
    BY <2>1, SyscallAssumption DEF CompleteInv, ReportInv, IInv, ShapeInv, tables
  <2>3. ASSUME Room, NEW u \in Tid PROVE (Watched(u) => Ready(u))'
    <3>1. CASE u = t
      BY <2>1, <2>2, <3>1 DEF Watched
    <3>2. CASE u # t
      BY <2>1, <2>2, <2>3, <3>2, ReadyKept DEF CompleteInv, ReportInv
    <3> QED
      BY <3>1, <3>2
  <2> QED
    BY <2>1, <2>2, <2>3 DEF CompleteInv, ReportInv, Room
<1>6. ASSUME NEW t \in Tid, ChangeAttributes(t) PROVE ReportInv'
  <2>1. /\ traced' = [traced EXCEPT ![t] = ~traced[t]]
        /\ course' = [course EXCEPT ![t] = "changed"]
        /\ UNCHANGED <<tables, call, ctx_regs_map, entered>> /\ conf' = conf
    BY <1>6 DEF ChangeAttributes, tables
  <2>2. course'[t] = "changed"
        /\ \A u \in Tid : u # t => course'[u] = course[u] /\ traced'[u] = traced[u]
    BY <2>1 DEF CompleteInv, IInv, ShapeInv
  <2>3. ASSUME Room, NEW u \in Tid PROVE (Watched(u) => Ready(u))'
    <3>1. CASE u = t
      BY <2>2, <3>1 DEF Watched
    <3>2. CASE u # t
      BY <2>1, <2>2, <2>3, <3>2, ReadyKept DEF CompleteInv, ReportInv
    <3> QED
      BY <3>1, <3>2
  <2> QED
    BY <2>1, <2>3 DEF CompleteInv, ReportInv, Room
<1> QED
  BY <1>1, <1>2, <1>3, <1>4, <1>5, <1>6, LoadComplete, EnterComplete DEF Next, CompleteInv

\* A call that was reported on entry and returns with its number is reported on return, if
\* ctx_regs_map has an entry for every thread; with a whitelist, even while the tables are
\* being written (raw_syscalls_sys_enter and _sys_exit, updateFilter).
THEOREM ReturnsReported == Spec => ReportedCallsComplete
<1>1. Init => CompleteInv
  <2> SUFFICES ASSUME Init PROVE CompleteInv
    OBVIOUS
  <2>1. IInv /\ FitInv
    BY InitInv, FitInit
  <2>2. ReportInv
    BY DEF Init, ReportInv, Watched
  <2> QED
    BY <2>1, <2>2 DEF CompleteInv
<1> DEFINE Complete ==
      conf.regs_cap >= Cardinality(Tid) =>
         \A t \in Tid :
            /\ entered[t] /\ call[t] \in Sys \ (Forgets \cup conf.exit_filtered)
            /\ course[t] = "steady" \/ (~conf.all /\ course[t] = "early")
            /\ call'[t] = "user"
            => event'.type = "exit" /\ event'.tid = t
<1>2. CompleteInv /\ [Next]_vars => [Complete]_vars
  <2> SUFFICES ASSUME CompleteInv, Next, Room, NEW t \in Tid, Watched(t),
                      call[t] \in Sys \ (Forgets \cup conf.exit_filtered), call'[t] = "user"
               PROVE  event'.type = "exit" /\ event'.tid = t
    BY DEF Room, Watched
  <2>1. Ready(t) /\ call \in [Tid -> Sys \cup {"user", "dead"}] /\ call[t] # "user"
    BY SyscallAssumption DEF CompleteInv, ReportInv, IInv, ShapeInv
  <2>2. PICK u \in Tid, forgot \in BOOLEAN, skip \in BOOLEAN : sys_exit(u, forgot, skip)
    <3>1. \A u \in Tid : ~Die(u)
      BY <2>1, SyscallAssumption DEF Die
    <3>2. \A u \in Tid, verdict \in BOOLEAN : ~Birth(u, verdict)
      BY <2>1, SyscallAssumption DEF Birth
    <3>3. \A u \in Tid, nr \in Sys, skip \in BOOLEAN : ~sys_enter(u, nr, skip)
      BY <2>1, SyscallAssumption DEF sys_enter
    <3>4. /\ NextStage => call' = call
          /\ \A nr \in Points : WriteItem(nr) => call' = call
          /\ \A u \in Tid : ChangeAttributes(u) => call' = call
      <4>1. NextStage => call' = call
        BY DEF NextStage
      <4>2. \A nr \in Points : WriteItem(nr) => call' = call
        BY DEF WriteItem
      <4>3. \A u \in Tid : ChangeAttributes(u) => call' = call
        BY DEF ChangeAttributes
      <4> QED
        BY <4>1, <4>2, <4>3
    <3> QED
      BY <2>1, <3>1, <3>2, <3>3, <3>4 DEF Next
  <2>3. u = t
    BY <2>1, <2>2 DEF sys_exit
  <2>4. forgot = FALSE /\ skip = FALSE
    BY <2>2, <2>3 DEF sys_exit
  <2>5. traced[t] /\ Known(t, forgot) /\ t \in DOMAIN ctx_regs_map /\ ctx_regs_map[t].flag # 1
        /\ Selected(call[t])
    BY <2>1, <2>4 DEF Ready, Known
  <2> QED
    BY <2>2, <2>3, <2>4, <2>5 DEF sys_exit
<1> QED
  BY <1>1, <1>2, CompleteStep, PTL DEF Spec, ReportedCallsComplete

=============================================================================
