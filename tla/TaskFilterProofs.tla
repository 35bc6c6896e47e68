--------------------------- MODULE TaskFilterProofs ---------------------------
(*****************************************************************************)
(* Theorems about TaskFilter, for every set of numbers, uids, names, command *)
(* lines and every capacity.                                                 *)
(*****************************************************************************)
EXTENDS TaskFilter, FiniteSetTheorems, TLAPS

-----------------------------------------------------------------------------
(* Maps and stages.                                                          *)

\* Put adds one key and writes one value.
LEMMA PutType ==
    ASSUME NEW K, NEW V, NEW m, DOMAIN m \subseteq K, m \in [DOMAIN m -> V],
           NEW k \in K, NEW v \in V
    PROVE  /\ DOMAIN Put(m, k, v) = DOMAIN m \cup {k}
           /\ DOMAIN Put(m, k, v) \subseteq K
           /\ Put(m, k, v) \in [DOMAIN Put(m, k, v) -> V]
BY DEF Put

\* Removing keys keeps the type of the rest.
LEMMA WithoutType ==
    ASSUME NEW K, NEW V, NEW m, DOMAIN m \subseteq K, m \in [DOMAIN m -> V], NEW S
    PROVE  /\ DOMAIN Without(m, S) \subseteq K
           /\ Without(m, S) \in [DOMAIN Without(m, S) -> V]
BY DEF Without

LEMMA FollowingType == \A s \in Stages : Following(s) \in Stages
BY DEF Following, Stages, List

-----------------------------------------------------------------------------
(* Type correctness.                                                         *)

\* A step of the loader keeps the types.
LEMMA LoadType == TypeOK /\ Load => TypeOK'
<1> SUFFICES ASSUME TypeOK, Load PROVE TypeOK'
  OBVIOUS
<1>0. conf \in Config
  BY FilterAssumption DEF TypeOK
<1>1. CASE NextStage
  BY <1>1, FollowingType
     DEF TypeOK, NextStage, Proceed, Items, config_maps, world, kinship
<1>2. CASE update_base_config
  BY <1>2, FollowingType DEF TypeOK, update_base_config, Proceed, Items, world, kinship
<1>3. CASE update_common_filter
  <2>1. common_filter' \subseteq Group
    BY <1>0, <1>3 DEF update_common_filter, Config
  <2> QED
    BY <1>3, <2>1, FollowingType DEF TypeOK, update_common_filter, Proceed, Items, world, kinship
<1>4. CASE update_point_args
  BY <1>4, FollowingType DEF TypeOK, update_point_args, Proceed, Items, world, kinship
<1>5. ASSUME NEW id, update_common_list(id) PROVE TypeOK'
  <2>1. Key(stage, id) \in Nat
    <3>1. stage \in List /\ id \in conf.ids[stage]
      BY <1>5 DEF update_common_list, TypeOK, Items, List
    <3>2. id \in Nat /\ Slot[stage] \in Nat
      BY <1>0, <3>1 DEF Config, Slot, List
    <3> QED
      BY <3>2, FilterAssumption DEF Key
  <2>2. common_list' \subseteq Nat
    BY <1>5, <2>1 DEF update_common_list, TypeOK
  <2>3. (todo \subseteq Items(stage))' /\ failed' \in BOOLEAN
    BY <1>5 DEF update_common_list, TypeOK, Items
  <2> QED
    BY <1>5, <2>2, <2>3 DEF update_common_list, TypeOK, world, kinship
<1>6. ASSUME NEW id, update_child_parent(id) PROVE TypeOK'
  <2>1. id \in Nat
    BY <1>0, <1>6 DEF update_child_parent, Running, TypeOK, Items, Config, List
  <2>2. /\ DOMAIN child_parent_map' \subseteq Nat
        /\ child_parent_map' \in [DOMAIN child_parent_map' -> Nat]
    <3>0. DOMAIN child_parent_map \subseteq Nat /\ child_parent_map \in [DOMAIN child_parent_map -> Nat]
      BY DEF TypeOK
    <3>1. CASE child_parent_map' = Put(child_parent_map, id, id)
      BY <3>0, <3>1, <2>1, PutType
    <3>2. CASE child_parent_map' = child_parent_map
      BY <3>2 DEF TypeOK
    <3> QED
      BY <1>6, <3>1, <3>2 DEF update_child_parent
  <2>3. (todo \subseteq Items(stage))' /\ failed' \in BOOLEAN
    BY <1>6 DEF update_child_parent, TypeOK, Items
  <2> QED
    BY <1>6, <2>2, <2>3 DEF update_child_parent, TypeOK, config_maps, world, kinship
<1>7. ASSUME NEW name, update_thread_filter(name) PROVE TypeOK'
  <2>1. name \in Comm /\ stage \in {"black", "white"}
    BY <1>0, <1>7 DEF update_thread_filter, TypeOK, Items, Config, List
  <2>2. /\ DOMAIN thread_filter' \subseteq Comm
        /\ thread_filter' \in [DOMAIN thread_filter' -> {"black", "white"}]
    <3> DEFINE Colour == {"black", "white"}
    <3>0. DOMAIN thread_filter \subseteq Comm /\ thread_filter \in [DOMAIN thread_filter -> Colour]
      BY DEF TypeOK
    <3>1. CASE thread_filter' = Put(thread_filter, name, stage)
      <4>1. stage \in Colour
        BY <2>1
      <4> HIDE DEF Colour
      <4>2. /\ DOMAIN thread_filter' \subseteq Comm
            /\ thread_filter' \in [DOMAIN thread_filter' -> Colour]
        BY <2>1, <3>0, <3>1, <4>1, PutType
      <4> QED
        BY <4>2 DEF Colour
    <3>2. CASE thread_filter' = thread_filter
      BY <3>2 DEF TypeOK
    <3> QED
      BY <1>7, <3>1, <3>2 DEF update_thread_filter
  <2>3. (todo \subseteq Items(stage))' /\ failed' \in BOOLEAN
    BY <1>7 DEF update_thread_filter, TypeOK, Items
  <2> QED
    BY <1>7, <2>2, <2>3 DEF update_thread_filter, TypeOK, world, kinship
<1> QED
  BY <1>1, <1>2, <1>3, <1>4, <1>5, <1>6, <1>7 DEF Load

\* A step of the traced world keeps the types.
LEMMA WorldType == TypeOK /\ World => TypeOK'
<1> SUFFICES ASSUME TypeOK, World PROVE TypeOK'
  OBVIOUS
<1>1. ASSUME NEW parent \in Pid, NEW child \in Pid, NEW thread \in BOOLEAN,
             Fork(parent, child, thread)
      PROVE  TypeOK'
  <2>1. [task[parent] EXCEPT !.tgid = IF thread THEN @ ELSE child] \in Task
    BY <1>1 DEF Fork, TypeOK, Task
  <2>2. DOMAIN task' \subseteq Pid /\ task' \in [DOMAIN task' -> Task]
    <3> DEFINE new == [task[parent] EXCEPT !.tgid = IF thread THEN @ ELSE child]
    <3>1. new \in Task /\ task' = Put(task, child, new)
      BY <1>1, <2>1 DEF Fork
    <3>2. DOMAIN task \subseteq Pid /\ task \in [DOMAIN task -> Task]
      BY DEF TypeOK
    <3> HIDE DEF new
    <3> QED
      BY <3>1, <3>2, PutType
  <2>3. /\ DOMAIN child_parent_map' \subseteq Nat
        /\ child_parent_map' \in [DOMAIN child_parent_map' -> Nat]
    <3>0. /\ parent \in Nat /\ child \in Nat
          /\ DOMAIN child_parent_map \subseteq Nat
          /\ child_parent_map \in [DOMAIN child_parent_map -> Nat]
      BY FilterAssumption DEF TypeOK
    <3>1. CASE child_parent_map' = Put(child_parent_map, child, parent)
      BY <3>0, <3>1, PutType
    <3>2. CASE child_parent_map' = child_parent_map
      BY <3>2 DEF TypeOK
    <3> QED
      BY <1>1, <3>1, <3>2 DEF Fork, sched_process_fork
  <2>4. UNCHANGED <<conf, stage, todo, failed>> /\ (todo \subseteq Items(stage))'
    BY <1>1 DEF Fork, loader, TypeOK, Items
  <2>5. missed' \subseteq family' /\ spawned' \subseteq Pid
    BY <1>1 DEF Fork, Relate, TypeOK
  <2>6. (family \subseteq {p \in DOMAIN task : task[p].tgid = p})'
    <3> DEFINE new == [task[parent] EXCEPT !.tgid = IF thread THEN @ ELSE child]
    <3>1. ~thread => new.tgid = child
      BY <1>1 DEF Fork, TypeOK, Task
    <3>2. parent \in DOMAIN task /\ child \notin DOMAIN task /\ task' = Put(task, child, new)
      BY <1>1 DEF Fork
    <3>3. family' \subseteq family \cup (IF thread THEN {} ELSE {child})
      BY <1>1 DEF Fork, Relate
    <3> HIDE DEF new
    <3> QED
      BY <3>1, <3>2, <3>3 DEF Put, TypeOK
  <2> QED
    BY <1>1, <2>2, <2>3, <2>4, <2>5, <2>6 DEF Fork, TypeOK, config_maps
<1>2. ASSUME NEW t \in Pid, Exit(t) PROVE TypeOK'
  <2>1. DOMAIN task' \subseteq Pid /\ task' \in [DOMAIN task' -> Task]
    BY <1>2, WithoutType DEF Exit, TypeOK
  <2>2. UNCHANGED <<conf, stage, todo, failed>> /\ (todo \subseteq Items(stage))'
    BY <1>2 DEF Exit, loader, TypeOK, Items
  <2>3. missed' \subseteq family' /\ (family \subseteq {p \in DOMAIN task : task[p].tgid = p})'
    BY <1>2 DEF Exit, Without, TypeOK
  <2> QED
    BY <1>2, <2>1, <2>2, <2>3 DEF Exit, TypeOK, config_maps
<1>3. ASSUME NEW t \in Pid, NEW name \in Comm, Rename(t, name) PROVE TypeOK'
  <2>1. DOMAIN task' \subseteq Pid /\ task' \in [DOMAIN task' -> Task]
    BY <1>3 DEF Rename, TypeOK, Task
  <2>2. UNCHANGED <<conf, stage, todo, failed>> /\ (todo \subseteq Items(stage))'
    BY <1>3 DEF Rename, loader, TypeOK, Items
  <2>3. (family \subseteq {p \in DOMAIN task : task[p].tgid = p})'
    BY <1>3 DEF Rename, kinship, TypeOK, Task
  <2> QED
    BY <1>3, <2>1, <2>2, <2>3 DEF Rename, TypeOK, config_maps, kinship
<1>4. ASSUME NEW t \in Pid, NEW uid \in Uid, SetUid(t, uid) PROVE TypeOK'
  <2>1. DOMAIN task' \subseteq Pid /\ task' \in [DOMAIN task' -> Task]
    BY <1>4 DEF SetUid, TypeOK, Task
  <2>2. UNCHANGED <<conf, stage, todo, failed>> /\ (todo \subseteq Items(stage))'
    BY <1>4 DEF SetUid, loader, TypeOK, Items
  <2>3. (family \subseteq {p \in DOMAIN task : task[p].tgid = p})'
    BY <1>4 DEF SetUid, kinship, TypeOK, Task
  <2> QED
    BY <1>4, <2>1, <2>2, <2>3 DEF SetUid, TypeOK, config_maps, kinship
<1> QED
  BY <1>1, <1>2, <1>3, <1>4 DEF World

LEMMA InitType == Init => TypeOK
<1> SUFFICES ASSUME Init PROVE TypeOK
  OBVIOUS
<1>1. DOMAIN task \subseteq Pid /\ task \in [DOMAIN task -> Task]
  BY FilterAssumption DEF Init, Task
<1>2. /\ DOMAIN thread_filter \subseteq Comm
      /\ thread_filter \in [DOMAIN thread_filter -> {"black", "white"}]
      /\ DOMAIN child_parent_map \subseteq Nat
      /\ child_parent_map \in [DOMAIN child_parent_map -> Nat]
  BY DEF Init
<1> QED
  BY <1>1, <1>2 DEF Init, TypeOK, Stages

LEMMA StutterType == TypeOK /\ UNCHANGED vars => TypeOK'
BY DEF TypeOK, vars, loader, config_maps, world, kinship, Items

\* Every variable keeps its type, through loading and whatever the traced world does.
THEOREM TypeCorrect == Spec => []TypeOK
<1>1. TypeOK /\ [Next]_vars => TypeOK'
  BY LoadType, WorldType, StutterType DEF Next
<1> QED
  BY <1>1, InitType, PTL DEF Spec

-----------------------------------------------------------------------------
(* What the maps hold at every moment of the loading.                        *)

Rank == [s \in Stages |->
            CASE s = "base"   -> 0   [] s = "uid_wl" -> 1   [] s = "uid_bl" -> 2
              [] s = "pid_wl" -> 3   [] s = "pid_bl" -> 4   [] s = "tid_wl" -> 5
              [] s = "tid_bl" -> 6   [] s = "common" -> 7   [] s = "fork"   -> 8
              [] s = "black"  -> 9   [] s = "white"  -> 10  [] s = "points" -> 11
              [] s = "done"   -> 12]

\* Stage s is over.
Over(s) == Rank[stage] > Rank[s]

\* The items of stage s that are in the maps.
Written(s) == IF stage = s THEN Items(s) \ todo ELSE IF Over(s) THEN Items(s) ELSE {}

BaseInv ==
    /\ stackplz_pid = IF Over("base") THEN SelfPid ELSE 0
    /\ thread_whitelist = (Over("base") /\ conf.white # {})

ListInv == common_list = UNION {{Key(l, id) : id \in Written(l)} : l \in List}

GroupInv == common_filter = IF Over("common") THEN conf.groups ELSE {}

\* What the fork map knows: numbers of the pid list and numbers handed out by them, each below
\* a whitelisted pid; a seed that was written and never handed out points to itself; a fork
\* that came in time is in the map.
ForkMapInv ==
    /\ IsFiniteSet(spawned)
    /\ DOMAIN child_parent_map \subseteq Whitelisted \cup spawned
    /\ \A p \in DOMAIN child_parent_map : child_parent_map[p] \in Whitelisted
    /\ \A p \in Written("fork") : /\ p \in DOMAIN child_parent_map
                                  /\ p \notin spawned => child_parent_map[p] = p
    /\ family \ missed \subseteq DOMAIN child_parent_map

\* Nothing forks into the map before the seeds are written.
ForkInv ==
    /\ DOMAIN child_parent_map # {} => Over("common")
    /\ ForkMapInv

\* A name on both lists ends up white.
NameInv ==
    /\ DOMAIN thread_filter = Written("black") \cup Written("white")
    /\ \A n \in DOMAIN thread_filter :
          thread_filter[n] = IF n \in Written("white") THEN "white" ELSE "black"

PointInv == point_args => stage = "done"

IInv == TypeOK /\ BaseInv /\ ListInv /\ GroupInv /\ ForkInv /\ NameInv /\ PointInv

\* The next stage has the next rank, and a rank belongs to one stage.
LEMMA RankFacts ==
    /\ \A s \in Stages : Rank[s] \in 0..12
    /\ \A s \in Stages : s # "done" => Rank[Following(s)] = Rank[s] + 1
    /\ \A s, r \in Stages : Rank[s] = Rank[r] => s = r
    /\ \A s \in Stages : Rank[s] = 0 <=> s = "base"
BY DEF Rank, Stages, List, Following

LEMMA ItemsConstant == conf' = conf => \A s : Items(s)' = Items(s)
BY DEF Items

\* Entering the next stage writes nothing.
LEMMA AdvanceWrites ==
    ASSUME TypeOK, stage # "done", todo = {}, Proceed, conf' = conf
    PROVE  /\ \A s \in Stages : Written(s)' = Written(s)
           /\ \A s \in Stages : Over(s)' <=> Over(s) \/ s = stage
<1>1. /\ stage \in Stages /\ stage' \in Stages
      /\ Rank[stage'] = Rank[stage] + 1
      /\ stage' # stage
      /\ todo' = Items(stage')
  BY RankFacts, FollowingType DEF TypeOK, Proceed
<1>2. \A s \in Stages : Over(s)' <=> Over(s) \/ s = stage
  BY <1>1, RankFacts DEF Over
<1>3. ASSUME NEW s \in Stages PROVE Written(s)' = Written(s)
  <2>1. Items(s)' = Items(s)
    BY ItemsConstant
  <2>2. CASE s = stage
    BY <1>1, <1>2, <2>1, <2>2 DEF Written
  <2>3. CASE s = stage'
    BY <1>1, <1>2, <2>1, <2>3, RankFacts DEF Written, Over
  <2>4. CASE s # stage /\ s # stage'
    BY <1>2, <2>1, <2>4 DEF Written
  <2> QED
    BY <2>2, <2>3, <2>4
<1> QED
  BY <1>2, <1>3

\* Writing an item of the current stage writes nothing else.
LEMMA ItemWrites ==
    ASSUME TypeOK, NEW x \in todo, todo' = todo \ {x}, conf' = conf, stage' = stage
    PROVE  /\ Written(stage)' = Written(stage) \cup {x}
           /\ \A s \in Stages : s # stage => Written(s)' = Written(s)
           /\ \A s \in Stages : Over(s)' <=> Over(s)
<1>1. \A s \in Stages : Over(s)' <=> Over(s)
  BY DEF Over
<1>2. Written(stage)' = Written(stage) \cup {x}
  <2>1. Items(stage)' = Items(stage)
    BY DEF Items
  <2> QED
    BY <2>1 DEF Written, TypeOK
<1>3. \A s \in Stages : s # stage => Written(s)' = Written(s)
  BY <1>1, ItemsConstant DEF Written
<1> QED
  BY <1>1, <1>2, <1>3

\* A step of the world writes nothing.
LEMMA QuietWrites ==
    ASSUME UNCHANGED <<conf, stage, todo>>
    PROVE  /\ \A s \in Stages : Written(s)' = Written(s)
           /\ \A s \in Stages : Over(s)' <=> Over(s)
BY ItemsConstant DEF Written, Over

\* The shared map, key by key, before and after a step.
LEMMA ListPointwise ==
    /\ ListInv <=> \A k : k \in common_list <=> \E l \in List : \E i \in Written(l) : k = Key(l, i)
    /\ ListInv' <=> \A k : k \in common_list' <=> \E l \in List : \E i \in Written(l)' : k = Key(l, i)
BY DEF ListInv, Key

\* Where a map is not touched and nothing is written, its part of the invariant stays.
LEMMA KeptList ==
    ASSUME \A l \in List : Written(l)' = Written(l), common_list' = common_list, ListInv
    PROVE  ListInv'
BY ListPointwise

LEMMA KeptNames ==
    ASSUME \A s \in {"black", "white"} : Written(s)' = Written(s), thread_filter' = thread_filter,
           NameInv
    PROVE  NameInv'
BY DEF NameInv

LEMMA KeptForks ==
    ASSUME ForkInv, Over("common") => Over("common")', Written("fork")' = Written("fork"),
           UNCHANGED <<conf, child_parent_map, kinship>>
    PROVE  ForkInv'
BY DEF ForkInv, ForkMapInv, Whitelisted, kinship

LEMMA KeptParts ==
    ASSUME \A s \in Stages : Written(s)' = Written(s), conf' = conf
    PROVE  /\ ListInv /\ common_list' = common_list => ListInv'
           /\ NameInv /\ thread_filter' = thread_filter => NameInv'
BY KeptList, KeptNames DEF Stages

\* A stage that only advances keeps the invariant.
LEMMA AdvanceInv ==
    ASSUME IInv, stage # "done", todo = {}, Proceed, TypeOK',
           UNCHANGED <<conf, common_list, thread_filter, child_parent_map, kinship>>,
           BaseInv', GroupInv', point_args' => stage' = "done"
    PROVE  IInv'
<1>1. /\ \A s \in Stages : Written(s)' = Written(s)
      /\ \A s \in Stages : Over(s)' <=> Over(s) \/ s = stage
  BY AdvanceWrites DEF IInv
<1>2. ListInv' /\ NameInv'
  BY <1>1, KeptParts DEF IInv
<1>3. ForkInv'
  BY <1>1, KeptForks DEF IInv, Stages
<1> QED
  BY <1>2, <1>3 DEF IInv, PointInv

\* Every step of the loader keeps the invariant.
LEMMA LoadInv == IInv /\ Load => IInv'
<1> SUFFICES ASSUME IInv, Load PROVE IInv'
  OBVIOUS
<1>0. TypeOK /\ TypeOK' /\ stage \in Stages /\ todo \subseteq Items(stage)
  BY LoadType DEF IInv, TypeOK
<1>1. CASE NextStage
  <2>1. UNCHANGED <<stackplz_pid, thread_whitelist, common_filter, point_args>>
    BY <1>1 DEF NextStage, config_maps
  <2>2. /\ stage \in Stages \ {"done", "base", "common"} /\ todo = {} /\ Proceed
        /\ UNCHANGED <<conf, common_list, thread_filter, child_parent_map, kinship>>
    BY <1>1 DEF NextStage, config_maps, Stages, List, world
  <2>3. \A s \in Stages : Over(s)' <=> Over(s) \/ s = stage
    BY <1>0, <2>2, AdvanceWrites
  <2>4. BaseInv' /\ GroupInv'
    BY <2>1, <2>2, <2>3 DEF IInv, BaseInv, GroupInv, Stages
  <2>5. ~point_args'
    BY <2>1, <2>2 DEF IInv, PointInv
  <2> QED
    BY <1>0, <2>2, <2>4, <2>5, AdvanceInv
<1>2. CASE update_base_config
  <2>1. todo = {} /\ stage = "base" /\ Proceed /\ conf' = conf
    BY <1>0, <1>2 DEF update_base_config, Running, Items, List
  <2>2. \A s \in Stages : Over(s)' <=> Over(s) \/ s = stage
    BY <1>0, <2>1, AdvanceWrites
  <2>3. BaseInv' /\ GroupInv'
    BY <1>2, <2>1, <2>2 DEF update_base_config, IInv, BaseInv, GroupInv, Stages
  <2>4. ~point_args'
    BY <1>2, <2>1 DEF update_base_config, IInv, PointInv
  <2> QED
    BY <1>0, <1>2, <2>1, <2>3, <2>4, AdvanceInv DEF update_base_config, world
<1>3. CASE update_common_filter
  <2>1. todo = {} /\ stage = "common" /\ Proceed /\ conf' = conf
    BY <1>0, <1>3 DEF update_common_filter, Running, Items, List
  <2>2. \A s \in Stages : Over(s)' <=> Over(s) \/ s = stage
    BY <1>0, <2>1, AdvanceWrites
  <2>3. BaseInv' /\ GroupInv'
    BY <1>3, <2>1, <2>2 DEF update_common_filter, IInv, BaseInv, GroupInv, Stages
  <2>4. ~point_args'
    BY <1>3, <2>1 DEF update_common_filter, IInv, PointInv
  <2> QED
    BY <1>0, <1>3, <2>1, <2>3, <2>4, AdvanceInv DEF update_common_filter, world
<1>4. CASE update_point_args
  <2>1. todo = {} /\ stage = "points" /\ Proceed /\ conf' = conf /\ stage' = "done"
    BY <1>0, <1>4 DEF update_point_args, Running, Items, List, Proceed, Following
  <2>2. \A s \in Stages : Over(s)' <=> Over(s) \/ s = stage
    BY <1>0, <2>1, AdvanceWrites
  <2>3. BaseInv' /\ GroupInv'
    BY <1>4, <2>1, <2>2 DEF update_point_args, IInv, BaseInv, GroupInv, Stages
  <2> QED
    BY <1>0, <1>4, <2>1, <2>3, AdvanceInv DEF update_point_args, world
<1>5. ASSUME NEW id, update_common_list(id) PROVE IInv'
  <2>1. /\ stage \in List /\ id \in todo
        /\ UNCHANGED <<conf, stage, stackplz_pid, thread_whitelist, common_filter,
                       thread_filter, point_args, child_parent_map, kinship>>
    BY <1>5 DEF update_common_list, world
  <2>2. CASE todo' = todo \ {id} /\ common_list' = common_list \cup {Key(stage, id)}
    <3>1. /\ Written(stage)' = Written(stage) \cup {id}
          /\ \A s \in Stages : s # stage => Written(s)' = Written(s)
          /\ \A s \in Stages : Over(s)' <=> Over(s)
      BY <1>0, <2>1, <2>2, ItemWrites
    <3>2. BaseInv' /\ GroupInv' /\ PointInv'
      BY <2>1, <3>1 DEF IInv, BaseInv, GroupInv, PointInv, Stages
    <3>3. ForkInv'
      BY <2>1, <3>1, KeptForks DEF IInv, Stages, List
    <3>4. NameInv'
      BY <2>1, <3>1 DEF IInv, NameInv, Stages, List
    <3>5. ListInv'
      <4>1. \A l \in List : \A i : i \in Written(l)' <=> i \in Written(l) \/ (l = stage /\ i = id)
        BY <2>1, <3>1 DEF Stages
      <4>2. \A k : k \in common_list' <=> k \in common_list \/ k = Key(stage, id)
        BY <2>2
      <4> QED
        BY <2>1, <4>1, <4>2, ListPointwise DEF IInv
    <3> QED
      BY <1>0, <3>2, <3>3, <3>4, <3>5 DEF IInv
  <2>3. CASE UNCHANGED <<todo, common_list>>
    <3>1. /\ \A s \in Stages : Written(s)' = Written(s)
          /\ \A s \in Stages : Over(s)' <=> Over(s)
      BY <2>1, <2>3, QuietWrites
    <3>2. BaseInv' /\ GroupInv' /\ PointInv'
      BY <2>1, <3>1 DEF IInv, BaseInv, GroupInv, PointInv, Stages
    <3> QED
      BY <1>0, <2>1, <2>3, <3>1, <3>2, KeptParts, KeptForks DEF IInv, Stages
  <2> QED
    BY <1>5, <2>2, <2>3 DEF update_common_list
<1>6. ASSUME NEW id, update_child_parent(id) PROVE IInv'
  <2>1. /\ stage = "fork" /\ id \in todo
        /\ UNCHANGED <<conf, stage, stackplz_pid, thread_whitelist, common_list, common_filter,
                       thread_filter, point_args, kinship>>
    BY <1>6 DEF update_child_parent, Running, config_maps, world
  <2>2. CASE todo' = todo \ {id} /\ child_parent_map' = Put(child_parent_map, id, id)
    <3>1. /\ \A s \in Stages : s # stage => Written(s)' = Written(s)
          /\ \A s \in Stages : Over(s)' <=> Over(s)
      BY <1>0, <2>1, <2>2, ItemWrites
    <3>2. BaseInv' /\ GroupInv' /\ PointInv'
      BY <2>1, <3>1 DEF IInv, BaseInv, GroupInv, PointInv, Stages
    <3>3. NameInv'
      BY <2>1, <3>1 DEF IInv, NameInv, Stages, List
    <3>4. ListInv'
      <4>1. \A l \in List : Written(l)' = Written(l)
        BY <2>1, <3>1 DEF Stages, List
      <4> QED
        BY <2>1, <4>1, KeptList DEF IInv
    <3>5. ForkInv'
      <4>1. Over("common")
        BY <2>1 DEF Over, Rank, Stages
      <4>2. id \in Whitelisted
        BY <1>0, <2>1 DEF Items, List, Whitelisted
      <4>3. Written("fork")' = Written("fork") \cup {id}
        BY <1>0, <2>1, <2>2, ItemWrites
      <4>4. ForkMapInv'
        BY <2>1, <2>2, <4>2, <4>3 DEF IInv, ForkInv, ForkMapInv, Put, Whitelisted, kinship
      <4> QED
        BY <3>1, <4>1, <4>4 DEF ForkInv, Stages
    <3> QED
      BY <1>0, <3>2, <3>3, <3>4, <3>5 DEF IInv
  <2>3. CASE UNCHANGED <<todo, child_parent_map>>
    <3>1. /\ \A s \in Stages : Written(s)' = Written(s)
          /\ \A s \in Stages : Over(s)' <=> Over(s)
      BY <2>1, <2>3, QuietWrites
    <3>2. BaseInv' /\ GroupInv' /\ PointInv'
      BY <2>1, <3>1 DEF IInv, BaseInv, GroupInv, PointInv, Stages
    <3> QED
      BY <1>0, <2>1, <2>3, <3>1, <3>2, KeptParts, KeptForks DEF IInv, Stages
  <2> QED
    BY <1>6, <2>2, <2>3 DEF update_child_parent
<1>7. ASSUME NEW name, update_thread_filter(name) PROVE IInv'
  <2>1. /\ stage \in {"black", "white"} /\ name \in todo
        /\ UNCHANGED <<conf, stage, stackplz_pid, thread_whitelist, common_list, common_filter,
                       child_parent_map, point_args, kinship>>
    BY <1>7 DEF update_thread_filter, world
  <2>2. CASE todo' = todo \ {name} /\ thread_filter' = Put(thread_filter, name, stage)
    <3>1. /\ Written(stage)' = Written(stage) \cup {name}
          /\ \A s \in Stages : s # stage => Written(s)' = Written(s)
          /\ \A s \in Stages : Over(s)' <=> Over(s)
      BY <1>0, <2>1, <2>2, ItemWrites
    <3>2. BaseInv' /\ GroupInv' /\ ForkInv' /\ PointInv'
      <4>1. Written("fork")' = Written("fork")
        BY <2>1, <3>1 DEF Stages
      <4> QED
        BY <2>1, <3>1, <4>1, KeptForks DEF IInv, BaseInv, GroupInv, PointInv, Stages
    <3>3. ListInv'
      <4>1. \A l \in List : Written(l)' = Written(l)
        BY <2>1, <3>1 DEF Stages, List
      <4> QED
        BY <2>1, <4>1, KeptList DEF IInv
    <3>4. NameInv'
      <4>1. CASE stage = "black"
        <5>1. Written("white") = {} /\ Written("white")' = {}
          BY <2>1, <4>1 DEF Written, Over, Rank, Stages
        <5>2. Written("black")' = Written("black") \cup {name}
          BY <2>1, <3>1, <4>1
        <5> QED
          BY <2>2, <4>1, <5>1, <5>2 DEF IInv, NameInv, Put
      <4>2. CASE stage = "white"
        <5>1. /\ Written("black")' = Written("black")
              /\ Written("white")' = Written("white") \cup {name}
          BY <2>1, <3>1, <4>2 DEF Stages
        <5> QED
          BY <2>2, <4>2, <5>1 DEF IInv, NameInv, Put
      <4> QED
        BY <2>1, <4>1, <4>2
    <3> QED
      BY <1>0, <3>2, <3>3, <3>4 DEF IInv
  <2>3. CASE UNCHANGED <<todo, thread_filter>>
    <3>1. /\ \A s \in Stages : Written(s)' = Written(s)
          /\ \A s \in Stages : Over(s)' <=> Over(s)
      BY <2>1, <2>3, QuietWrites
    <3>2. BaseInv' /\ GroupInv' /\ PointInv'
      BY <2>1, <3>1 DEF IInv, BaseInv, GroupInv, PointInv, Stages
    <3> QED
      BY <1>0, <2>1, <2>3, <3>1, <3>2, KeptParts, KeptForks DEF IInv, Stages
  <2> QED
    BY <1>7, <2>2, <2>3 DEF update_thread_filter
<1> QED
  BY <1>1, <1>2, <1>3, <1>4, <1>5, <1>6, <1>7 DEF Load

\* While the numbers handed out leave room, a new one finds room in the fork map.
LEMMA RoomForOne ==
    ASSUME NEW keys, NEW all, IsFiniteSet(all), keys \subseteq all, NEW k,
           Cardinality(all \cup {k}) <= ForkCap
    PROVE  Fits(keys, k, ForkCap)
<1>1. IsFiniteSet(all \cup {k}) /\ keys \in SUBSET (all \cup {k})
  BY FS_AddElement
<1>2. /\ IsFiniteSet(keys)
      /\ Cardinality(keys) <= Cardinality(all \cup {k})
      /\ Cardinality(all \cup {k}) = Cardinality(keys) => all \cup {k} = keys
  BY <1>1, FS_Subset
<1>3. Cardinality(keys) \in Nat /\ Cardinality(all \cup {k}) \in Nat /\ ForkCap \in Nat
  BY <1>1, <1>2, FS_CardinalityType, FilterAssumption
<1> QED
  BY <1>2, <1>3 DEF Fits

\* A fork enters at most the child, below a whitelisted number, and it does when the fork came
\* in time.
LEMMA ForkForks ==
    ASSUME TypeOK, ForkInv, NEW parent \in Pid, NEW child \in Pid, NEW thread \in BOOLEAN,
           Fork(parent, child, thread), UNCHANGED <<conf, stage, todo>>,
           Over("common")' <=> Over("common"), Written("fork")' = Written("fork")
    PROVE  ForkInv'
<1> DEFINE enters == /\ parent \in DOMAIN child_parent_map
                     /\ child_parent_map[parent] = parent
                     /\ Fits(DOMAIN child_parent_map, child, ForkCap)
<1>1. IsFiniteSet(Whitelisted) /\ IsFiniteSet(Whitelisted \cup spawned)
  <2>1. IsFiniteSet(Whitelisted)
    BY FilterAssumption DEF TypeOK, Whitelisted
  <2> QED
    BY <2>1, FS_Union DEF ForkInv, ForkMapInv
<1>2. child_parent_map' = IF enters THEN Put(child_parent_map, child, parent) ELSE child_parent_map
  BY DEF Fork, sched_process_fork
<1>3. enters => parent \in Whitelisted
  BY DEF ForkInv, ForkMapInv
<1>4. InTime(parent, child) => enters
  <2> SUFFICES ASSUME InTime(parent, child) PROVE enters
    OBVIOUS
  <2>1. parent \in Written("fork")
    BY DEF InTime, Written, Over, Rank, Items, Whitelisted, Stages, List
  <2>2. Fits(DOMAIN child_parent_map, child, ForkCap)
    BY <1>1, RoomForOne DEF InTime, ForkInv, ForkMapInv
  <2>3. parent \in DOMAIN child_parent_map /\ (parent \notin spawned => child_parent_map[parent] = parent)
    BY <2>1 DEF ForkInv, ForkMapInv
  <2>4. parent \notin spawned
    BY DEF InTime
  <2>5. child_parent_map[parent] = parent
    BY <2>3, <2>4
  <2> QED
    BY <2>2, <2>3, <2>5, Zenon
<1>5. /\ spawned' = IF parent \in Whitelisted THEN spawned \cup {child} ELSE spawned
      /\ family' \ missed' \subseteq (family \ missed) \cup
             (IF InTime(parent, child) THEN {child} ELSE {})
  BY DEF Fork, Relate
<1>6. Whitelisted' = Whitelisted
  BY DEF Whitelisted
<1>7. IsFiniteSet(spawned')
  BY <1>5, FS_AddElement DEF ForkInv, ForkMapInv
<1> HIDE DEF enters
<1>8. CASE enters
  <2>1. /\ DOMAIN child_parent_map' = DOMAIN child_parent_map \cup {child}
        /\ child_parent_map'[child] = parent
        /\ \A p \in DOMAIN child_parent_map : p # child => child_parent_map'[p] = child_parent_map[p]
    BY <1>2, <1>8 DEF Put
  <2>2. spawned' = spawned \cup {child}
    BY <1>3, <1>5, <1>8
  <2>3. DOMAIN child_parent_map # {}
    BY <1>8 DEF enters
  <2>4. ForkMapInv'
    BY <1>3, <1>5, <1>6, <1>7, <1>8, <2>1, <2>2 DEF ForkInv, ForkMapInv
  <2> QED
    BY <2>3, <2>4 DEF ForkInv
<1>9. CASE ~enters
  <2>1. child_parent_map' = child_parent_map
    BY <1>2, <1>9
  <2>2. ~InTime(parent, child)
    BY <1>4, <1>9
  <2> QED
    BY <1>5, <1>6, <1>7, <2>1, <2>2 DEF ForkInv, ForkMapInv
<1> QED
  BY <1>8, <1>9

\* A step of the world touches at most child_parent_map.
LEMMA WorldInv == IInv /\ (World \/ UNCHANGED vars) => IInv'
<1> SUFFICES ASSUME IInv, World \/ UNCHANGED vars PROVE IInv'
  OBVIOUS
<1>1. UNCHANGED <<loader, config_maps>>
  BY DEF World, Fork, Exit, Rename, SetUid, vars
<1>2. /\ \A s \in Stages : Written(s)' = Written(s)
      /\ \A s \in Stages : Over(s)' <=> Over(s)
  BY <1>1, QuietWrites DEF loader
<1>3. TypeOK'
  BY WorldType, StutterType DEF IInv
<1>4. BaseInv' /\ GroupInv' /\ PointInv' /\ ListInv' /\ NameInv'
  BY <1>1, <1>2, KeptParts
     DEF IInv, BaseInv, GroupInv, PointInv, loader, config_maps, Stages
<1>5. ForkInv'
  <2>0. /\ UNCHANGED <<conf, stage, todo>>
        /\ Over("common")' <=> Over("common")
        /\ Written("fork")' = Written("fork")
    BY <1>1, <1>2 DEF loader, Stages
  <2>1. ASSUME NEW parent \in Pid, NEW child \in Pid, NEW thread \in BOOLEAN,
               Fork(parent, child, thread)
        PROVE  ForkInv'
    BY <2>0, <2>1, ForkForks DEF IInv
  <2>2. ASSUME NEW t \in Pid, Exit(t) PROVE ForkInv'
    BY <2>0, <2>2 DEF Exit, IInv, ForkInv, ForkMapInv, Whitelisted
  <2>3. CASE UNCHANGED <<child_parent_map, kinship>>
    BY <2>0, <2>3, KeptForks DEF IInv
  <2> QED
    BY <2>1, <2>2, <2>3 DEF World, Rename, SetUid, vars, world
<1> QED
  BY <1>3, <1>4, <1>5 DEF IInv

LEMMA InitInv == Init => IInv
<1> SUFFICES ASSUME Init PROVE IInv
  OBVIOUS
<1>1. \A s \in Stages : Written(s) = {} /\ ~Over(s)
  BY RankFacts DEF Init, Written, Over, Items, Stages, List
<1>2. BaseInv /\ GroupInv /\ PointInv
  BY <1>1 DEF Init, BaseInv, GroupInv, PointInv, Stages
<1>3. ForkInv
  BY <1>1, FS_EmptySet DEF Init, ForkInv, ForkMapInv, Stages
<1>4. NameInv
  BY <1>1 DEF Init, NameInv, Stages
<1>5. ListInv
  BY <1>1, ListPointwise DEF Init, Stages
<1> QED
  BY <1>2, <1>3, <1>4, <1>5, InitType DEF IInv

\* The invariant of the loading holds in every reachable state.
THEOREM MapsFollowLoading == Spec => []IInv
<1>1. IInv /\ [Next]_vars => IInv'
  BY LoadInv, WorldInv DEF Next
<1> QED
  BY <1>1, InitInv, PTL DEF Spec

-----------------------------------------------------------------------------
(* The verdict.                                                              *)

\* stackplz never reports itself, not even while its maps are half written.
THEOREM SelfIsSilent == Spec => []SelfNeverTraced
<1>1. IInv => SelfNeverTraced
  <2> SUFFICES ASSUME IInv, NEW t \in DOMAIN task, task[t].tgid = SelfPid
               PROVE  ~should_trace(t)
    BY DEF SelfNeverTraced
  <2>1. CASE stackplz_pid = SelfPid
    BY <2>1 DEF should_trace
  <2>2. CASE stackplz_pid # SelfPid
    <3>1. \A s \in Stages : Written(s) = {} /\ ~Over(s)
      <4>1. stage = "base"
        BY <2>2, RankFacts DEF IInv, BaseInv, TypeOK, Over, Stages
      <4> QED
        BY <4>1, RankFacts DEF IInv, TypeOK, Written, Over, Items, Stages, List
    <3>2. DOMAIN child_parent_map = {} /\ DOMAIN thread_filter = {} /\ common_filter = {}
      BY <3>1 DEF IInv, ForkInv, NameInv, GroupInv, Stages
    <3>3. \A k : k \notin common_list
      BY <3>1, ListPointwise DEF IInv, Stages
    <3> QED
      BY <3>2, <3>3 DEF should_trace, Named, Listed
  <2> QED
    BY <2>1, <2>2
<1> QED
  BY <1>1, MapsFollowLoading, PTL

\* The six decisions of should_trace, one after the other.
LEMMA WantedLevels ==
    ASSUME NEW t, NEW kin
    PROVE  Wanted(t, kin) <=>
             /\ ~Refused(t, 1)
             /\ ~Refused(t, 2)
             /\ \/ Accepted(t, 2, kin)
                \/ /\ ~Refused(t, 3)
                   /\ \/ Accepted(t, 3, kin)
                      \/ /\ ~Refused(t, 4)
                         /\ \/ Accepted(t, 4, kin)
                            \/ ~Refused(t, 5) /\ Accepted(t, 5, kin)
<1>1. ~Accepted(t, 1, kin)
  BY DEF Accepted
<1>2. \A i : i \in Level <=> i \in {1, 2, 3, 4, 5}
  BY DEF Level
<1> QED
  BY <1>1, <1>2 DEF Wanted

\* Within one list an id has its own key, whatever its size.
LEMMA KeysOfOneList ==
    ASSUME NEW l \in List, NEW i \in Nat, NEW j \in Nat, Key(l, i) = Key(l, j)
    PROVE  i = j
<1>1. Slot[l] * Width \in Nat
  <2>1. Slot[l] \in Nat /\ Width \in Nat
    BY FilterAssumption DEF Slot, List
  <2> QED
    BY <2>1
<1> QED
  BY <1>1 DEF Key

\* Once the loader is done, a lookup in the shared map answers for its own list, unless the
\* key is that of another list's item.
LEMMA LookupExact ==
    ASSUME IInv, stage = "done", NEW t \in DOMAIN task, ~Aliased(t), NEW l \in List
    PROVE  Listed(l, LookedUp(t, l)) <=> LookedUp(t, l) \in conf.ids[l]
<1> DEFINE id == LookedUp(t, l)
<1>1. \A r \in List : Written(r) = conf.ids[r]
  BY RankFacts DEF Written, Over, Rank, Items, Stages, List
<1>2. conf \in Config
  BY FilterAssumption DEF IInv, TypeOK
<1>3. id \in Nat
  <2>1. t \in Nat /\ task[t].tgid \in Nat /\ task[t].uid \in Nat
    BY FilterAssumption DEF IInv, TypeOK, Task
  <2> QED
    BY <2>1 DEF LookedUp, List
<1>4. \A i \in conf.ids[l] : i \in Nat
  BY <1>2 DEF Config
<1> HIDE DEF id
<1>5. Listed(l, id) <=> \E r \in List : \E i \in conf.ids[r] : Key(l, id) = Key(r, i)
  BY <1>1, ListPointwise DEF IInv, Listed
<1>6. \A r \in List : \A i \in conf.ids[r] : Key(l, id) = Key(r, i) => r = l
  BY DEF Aliased, id
<1> QED
  BY <1>3, <1>4, <1>5, <1>6, KeysOfOneList DEF id

\* The fork map answers for a process as its standing allows; on the pid list it adds nothing.
LEMMA ForkMapFits ==
    ASSUME IInv, NEW p
    PROVE  \E kin \in Standing(p) :
              (kin \/ p \in Whitelisted) <=> (p \in Whitelisted \/ p \in DOMAIN child_parent_map)
<1> DEFINE known == p \in DOMAIN child_parent_map
<1>1. known \in BOOLEAN
  OBVIOUS
<1>2. CASE p \in family \ missed
  <2>1. known
    BY <1>2 DEF IInv, ForkInv, ForkMapInv
  <2> QED
    BY <1>2, <2>1 DEF Standing
<1>3. CASE p \notin family \cup spawned
  <2>1. known => p \in Whitelisted
    BY <1>3 DEF IInv, ForkInv, ForkMapInv
  <2> QED
    BY <1>3, <2>1 DEF Standing
<1>4. CASE p \notin family \ missed /\ p \in family \cup spawned
  <2>1. Standing(p) = BOOLEAN
    BY <1>4 DEF Standing
  <2> QED
    BY <1>1, <2>1
<1> QED
  BY <1>2, <1>3, <1>4

\* From the first event that can be emitted on, should_trace decides as the command line asks
\* about every thread none of whose ids meets another list's range.
THEOREM VerdictAsWanted == Spec => []PassedMeansWanted
<1>1. IInv => PassedMeansWanted
  <2> SUFFICES ASSUME IInv, point_args, NEW t \in DOMAIN task, ~Aliased(t)
               PROVE  \E kin \in Standing(task[t].tgid) : should_trace(t) <=> Wanted(t, kin)
    BY DEF PassedMeansWanted
  <2>0. stage = "done"
    BY DEF IInv, PointInv
  <2>1. PICK kin \in Standing(task[t].tgid) :
           (kin \/ task[t].tgid \in Whitelisted)
              <=> (task[t].tgid \in Whitelisted \/ task[t].tgid \in DOMAIN child_parent_map)
    BY ForkMapFits
  <2>2. /\ \A l \in {"tid_wl", "tid_bl"} : Listed(l, t) <=> t \in conf.ids[l]
        /\ \A l \in {"pid_wl", "pid_bl"} : Listed(l, task[t].tgid) <=> task[t].tgid \in conf.ids[l]
        /\ \A l \in {"uid_wl", "uid_bl"} : Listed(l, task[t].uid) <=> task[t].uid \in conf.ids[l]
    <3>1. /\ \A l \in {"tid_wl", "tid_bl"} : l \in List /\ LookedUp(t, l) = t
          /\ \A l \in {"pid_wl", "pid_bl"} : l \in List /\ LookedUp(t, l) = task[t].tgid
          /\ \A l \in {"uid_wl", "uid_bl"} : l \in List /\ LookedUp(t, l) = task[t].uid
      BY DEF LookedUp, List
    <3> QED
      BY <2>0, <3>1, LookupExact
  <2>3. /\ stackplz_pid = SelfPid
        /\ thread_whitelist = (conf.white # {})
        /\ common_filter = conf.groups
    BY <2>0 DEF IInv, BaseInv, GroupInv, Over, Rank, Stages
  <2>4. /\ Named(t) <=> task[t].comm \in conf.black \cup conf.white
        /\ Named(t) => (thread_filter[task[t].comm] = "black" <=> task[t].comm \notin conf.white)
    <3>1. Written("black") = conf.black /\ Written("white") = conf.white
      BY <2>0 DEF Written, Over, Rank, Items, Stages, List
    <3> QED
      BY <3>1 DEF IInv, NameInv, Named
  <2>5. /\ Refused(t, 1) <=> stackplz_pid = task[t].tgid
        /\ Refused(t, 2) <=> \/ thread_whitelist /\ ~Named(t)
                             \/ Named(t) /\ thread_filter[task[t].comm] = "black"
        /\ ~Refused(t, 2) => (Accepted(t, 2, kin) <=> Named(t))
    <3>1. Refused(t, 1) <=> stackplz_pid = task[t].tgid
      BY <2>3 DEF Refused
    <3>2. Refused(t, 2) <=> task[t].comm \notin conf.white
                            /\ (conf.white # {} \/ task[t].comm \in conf.black)
      BY DEF Refused
    <3>3. Accepted(t, 2, kin) <=> task[t].comm \in conf.white
      BY DEF Accepted
    <3> QED
      BY <2>3, <2>4, <3>1, <3>2, <3>3
  <2>6. /\ Refused(t, 3) <=> Listed("tid_bl", t)
        /\ Accepted(t, 3, kin) <=> Listed("tid_wl", t)
        /\ Refused(t, 4) <=> Listed("pid_bl", task[t].tgid)
        /\ Accepted(t, 4, kin) <=> \/ Listed("pid_wl", task[t].tgid)
                              \/ task[t].tgid \in DOMAIN child_parent_map
        /\ Refused(t, 5) <=> Listed("uid_bl", task[t].uid)
        /\ Accepted(t, 5, kin) <=> \/ Listed("uid_wl", task[t].uid)
                              \/ \E g \in common_filter : task[t].uid \in UidOf(g)
    BY <2>1, <2>2, <2>3 DEF Refused, Accepted, Whitelisted
  <2> QED
    BY <2>5, <2>6, WantedLevels DEF should_trace
<1> QED
  BY <1>1, MapsFollowLoading, PTL

-----------------------------------------------------------------------------
(* The verdict on a thread is nobody else's business.                        *)

\* The leader of a live thread is alive: it ends only with the whole process.
LeaderInv ==
    \A t \in DOMAIN task : /\ task[t].tgid \in DOMAIN task
                           /\ task[task[t].tgid].tgid = task[t].tgid

LEMMA LeaderStep ==
    ASSUME IInv, LeaderInv, [Next]_vars
    PROVE  LeaderInv'
<1>0. task \in [DOMAIN task -> Task] /\ DOMAIN task \subseteq Pid
  BY DEF IInv, TypeOK
<1>1. CASE task' = task
  BY <1>1 DEF LeaderInv
<1>2. ASSUME NEW parent \in Pid, NEW child \in Pid, NEW thread \in BOOLEAN,
             Fork(parent, child, thread)
      PROVE  LeaderInv'
  <2> DEFINE new == [task[parent] EXCEPT !.tgid = IF thread THEN @ ELSE child]
  <2>1. parent \in DOMAIN task /\ child \notin DOMAIN task /\ task' = Put(task, child, new)
    BY <1>2 DEF Fork
  <2>2. new.tgid = IF thread THEN task[parent].tgid ELSE child
    BY <1>0, <2>1 DEF Task
  <2> HIDE DEF new
  <2>3. /\ DOMAIN task' = DOMAIN task \cup {child} /\ task'[child] = new
        /\ \A t \in DOMAIN task : task'[t] = task[t]
    BY <2>1 DEF Put
  <2> QED
    BY <2>1, <2>2, <2>3 DEF LeaderInv
<1>3. ASSUME NEW t \in Pid, Exit(t) PROVE LeaderInv'
  <2> DEFINE gone == IF task[t].tgid = t THEN {u \in DOMAIN task : task[u].tgid = t} ELSE {t}
  <2>1. t \in DOMAIN task /\ task' = Without(task, gone)
    BY <1>3 DEF Exit
  <2>2. \A u \in DOMAIN task \ gone : task[u].tgid \notin gone
    BY <2>1 DEF LeaderInv
  <2> HIDE DEF gone
  <2>3. DOMAIN task' = DOMAIN task \ gone /\ \A u \in DOMAIN task' : task'[u] = task[u]
    BY <2>1 DEF Without
  <2> QED
    BY <2>2, <2>3 DEF LeaderInv
<1>4. ASSUME NEW t \in Pid, (\E name \in Comm : Rename(t, name)) \/ (\E uid \in Uid : SetUid(t, uid))
      PROVE  LeaderInv'
  <2>1. DOMAIN task' = DOMAIN task /\ \A u \in DOMAIN task : task'[u].tgid = task[u].tgid
    BY <1>0, <1>4 DEF Rename, SetUid, Task
  <2> QED
    BY <2>1 DEF LeaderInv
<1>5. CASE Load
  BY <1>1, <1>5 DEF Load, NextStage, update_base_config, update_common_filter, update_point_args,
     update_common_list, update_child_parent, update_thread_filter, world
<1>6. CASE World
  BY <1>2, <1>3, <1>4, <1>6 DEF World
<1> QED
  BY <1>1, <1>5, <1>6 DEF Next, vars, world

\* Once the maps are written, no step of another thread changes the verdict on a thread that
\* keeps its name and uid (should_trace, sched_process_fork): a fork adds a key under a number
\* no live process has.
THEOREM VerdictStays == Spec => VerdictIsStable
<1>1. Init => LeaderInv
  BY DEF Init, LeaderInv
<1> DEFINE Stable == point_args => \A t \in DOMAIN task \cap DOMAIN task' :
                        task'[t] = task[t] => should_trace(t)' = should_trace(t)
<1>2. IInv /\ LeaderInv /\ [Next]_vars => [Stable]_vars
  <2> SUFFICES ASSUME IInv, LeaderInv, Next, point_args,
                      NEW t \in DOMAIN task \cap DOMAIN task', task'[t] = task[t]
               PROVE  should_trace(t)' = should_trace(t)
    OBVIOUS
  <2>1. World
    <3>1. stage = "done"
      BY DEF IInv, PointInv
    <3>2. ~Load
      BY <3>1 DEF Load, NextStage, update_base_config, update_common_filter, update_point_args,
         update_common_list, update_child_parent, update_thread_filter, Running, List
    <3> QED
      BY <3>2 DEF Next
  <2>2. UNCHANGED config_maps
    BY <2>1 DEF World, Fork, Exit, Rename, SetUid
  <2>3. task[t].tgid \in DOMAIN child_parent_map' <=> task[t].tgid \in DOMAIN child_parent_map
    <3>1. CASE child_parent_map' = child_parent_map
      BY <3>1
    <3>2. ASSUME NEW parent \in Pid, NEW child \in Pid, NEW thread \in BOOLEAN,
                 Fork(parent, child, thread)
          PROVE  task[t].tgid \in DOMAIN child_parent_map'
                    <=> task[t].tgid \in DOMAIN child_parent_map
      <4>1. task[t].tgid # child
        BY <3>2 DEF Fork, LeaderInv
      <4>2. \/ child_parent_map' = child_parent_map
            \/ DOMAIN child_parent_map' = DOMAIN child_parent_map \cup {child}
        BY <3>2 DEF Fork, sched_process_fork, Put
      <4> QED
        BY <4>1, <4>2
    <3> QED
      BY <2>1, <3>1, <3>2 DEF World, Exit, Rename, SetUid
  <2>4. /\ Named(t)' <=> Named(t)
        /\ \A l, id : Listed(l, id)' <=> Listed(l, id)
        /\ UNCHANGED <<stackplz_pid, thread_whitelist, thread_filter, common_filter>>
    BY <2>2 DEF config_maps, Named, Listed
  <2> QED
    BY <2>3, <2>4 DEF should_trace
<1> QED
  BY <1>1, <1>2, MapsFollowLoading, LeaderStep, PTL DEF Spec, VerdictIsStable

=============================================================================
