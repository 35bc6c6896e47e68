----------------------------- MODULE ProcMapsProofs -----------------------------
(*****************************************************************************)
(* For any number of processes, mappings and records: what is cached for a   *)
(* number was mapped under it or under one of those it descends from, no     *)
(* mapping is there twice, what /proc shows is there once the records are    *)
(* handled, and none gets lost; each but for the causes that the properties  *)
(* name.                                                                     *)
(*****************************************************************************)
EXTENDS ProcMaps, TLAPS

\* What p and those it descends from have ever mapped.
Had(p) == UNION {had[q] : q \in family[p]}

Unique(segs) == \A s, o \in segs : SameBase(s, o) => s = o

\* No two are mapped at the same base, under whatever path.
Apart(segs) == \A s, o \in segs : s.base = o.base => s = o

IsCache(c) == DOMAIN c \subseteq Pid /\ c \in [DOMAIN c -> SUBSET Seen(Segs)]

\* NoDuplicates and OnlyFromFamily, of any cache.
Good(c) == \A p \in DOMAIN c : c[p] \subseteq Seen(Had(p)) /\ Unique(c[p])

\* What /proc shows of p under its own path is there.
AllKnown(p, segs) == \A s \in maps[p] : Shown(s) => Known(s, segs)

\* A mapping of p is still to be reported.
Reported(p) == \E r \in pending : r.type = "mmap2" /\ r.pid = p

MapsInv == \A p \in Pid : maps[p] \subseteq had[p] /\ Apart(maps[p])

FamilyInv ==
    \A p \in Pid : p \in family[p] /\ \A q \in family[p] : family[q] \subseteq family[p]

PendingInv ==
    \A r \in pending : /\ r.type = "mmap2" => r.seg \in had[r.pid]
                       /\ r.type = "fork" => family[r.ppid] \subseteq family[r.pid]

\* What the dispatcher has read of a process is what it had mapped then; unless it was outdated
\* since, the process has mapped nothing more that is not still to be reported.
HookInv ==
    /\ hook.at # "idle" => attached
    /\ hook.at # "read" => hook.content = {}
    /\ hook.content \subseteq had[hook.pid] /\ Apart(hook.content)
    /\ hook.at = "read" /\ ~hook.raced =>
          \A s \in maps[hook.pid] : s \in hook.content \/ Reported(hook.pid)

IInv ==
    /\ TypeOK
    /\ MapsInv
    /\ FamilyInv
    /\ PendingInv
    /\ HookInv
    /\ Good(pid_maps)
    /\ HandledIsKnown

LEMMA IdleType == Idle \in Hook /\ Idle.at = "idle" /\ Idle.content = {}
BY MapsAssumption DEF Idle, Hook

LEMMA InitInv == Init => IInv
<1> SUFFICES ASSUME Init PROVE IInv
  OBVIOUS
<1>1. maps \in [Pid -> SUBSET Segs]
  BY MapsAssumption DEF Init
<1>2. TypeOK
  BY <1>1, IdleType, MapsAssumption DEF Init, TypeOK, Mode, Gap
<1>3. MapsInv
  BY DEF Init, MapsInv, Apart
<1>4. FamilyInv /\ PendingInv
  BY DEF Init, FamilyInv, PendingInv
<1>5. HookInv
  BY IdleType DEF Init, HookInv, Apart
<1>6. Good(pid_maps) /\ HandledIsKnown
  BY DEF Init, Good, HandledIsKnown
<1> QED
  BY <1>2, <1>3, <1>4, <1>5, <1>6 DEF IInv

-----------------------------------------------------------------------------
(* The helpers.                                                              *)

LEMMA RecordTypes ==
    ASSUME TypeOK, NEW r \in pending
    PROVE  /\ r.pid \in Pid /\ r.type \in {"mmap2", "fork"}
           /\ r.type = "mmap2" => r.seg \in Segs
           /\ r.type = "fork" => r.ppid \in Pid
BY DEF TypeOK, Mmap2Record, ForkRecord

LEMMA CacheType ==
    ASSUME TypeOK
    PROVE  IsCache(pid_maps)
BY DEF TypeOK, IsCache

LEMMA MapsHad ==
    ASSUME TypeOK, MapsInv, FamilyInv, NEW p \in Pid
    PROVE  /\ had[p] \subseteq Had(p) /\ maps[p] \subseteq Had(p)
           /\ maps[p] \subseteq Segs /\ Apart(maps[p])
BY DEF TypeOK, MapsInv, FamilyInv, Had

\* An ancestor has mapped nothing that its descendant does not answer for.
LEMMA HadOfFamily ==
    ASSUME TypeOK, NEW p \in Pid, NEW q \in Pid, family[q] \subseteq family[p]
    PROVE  Had(q) \subseteq Had(p)
BY DEF TypeOK, Had

\* What is read back of more mappings is more.
LEMMA SeenGrows ==
    ASSUME NEW a, NEW b, a \subseteq b
    PROVE  /\ ReadBack(a) \subseteq ReadBack(b) /\ Seen(a) \subseteq Seen(b)
           /\ ReadBack(a) \subseteq Seen(b)
<1>1. ReadBack(a) \subseteq ReadBack(b)
  BY DEF ReadBack
<1> QED
  BY <1>1 DEF Seen

\* Mappings that are apart are read back without duplicates, and those that /proc shows under
\* their own path are found again.
LEMMA ReadBackFacts ==
    ASSUME NEW content, Apart(content)
    PROVE  /\ Unique(ReadBack(content))
           /\ \A s \in content : Shown(s) => Known(s, ReadBack(content))
<1> DEFINE Back(s) == [path |-> ProcPath[s.path], base |-> s.base, off |-> s.off]
           read == {s \in content : s.path \in DOMAIN ProcPath}
<1>1. ReadBack(content) = {Back(s) : s \in read}
  BY DEF ReadBack
<1>2. \A s : Back(s).base = s.base /\ Back(s).path = ProcPath[s.path]
  OBVIOUS
<1> HIDE DEF Back
<1>3. Unique(ReadBack(content))
  <2> SUFFICES ASSUME NEW s \in read, NEW o \in read, SameBase(Back(s), Back(o))
               PROVE  s = o
    BY <1>1 DEF Unique
  <2> QED
    BY <1>2 DEF SameBase, Apart
<1>4. ASSUME NEW s \in content, Shown(s) PROVE Known(s, ReadBack(content))
  <2>1. s \in read /\ SameBase(Back(s), s)
    BY <1>2, <1>4 DEF Shown, SameBase
  <2> QED
    BY <1>1, <2>1 DEF Known
<1> QED
  BY <1>3, <1>4

LEMMA MergeFacts ==
    ASSUME NEW old, NEW new, Unique(old), Unique(new)
    PROVE  /\ old \subseteq Merge(old, new) /\ Merge(old, new) \subseteq old \cup new
           /\ Unique(Merge(old, new))
           /\ \A s \in new : Known(s, Merge(old, new))
<1>1. old \subseteq Merge(old, new) /\ Merge(old, new) \subseteq old \cup new
  BY DEF Merge
<1>2. Unique(Merge(old, new))
  BY DEF Unique, Merge, Known, SameBase
<1>3. \A s \in new : Known(s, Merge(old, new))
  BY DEF Merge, Known, SameBase
<1> QED
  BY <1>1, <1>2, <1>3

LEMMA PutFacts ==
    ASSUME NEW c, IsCache(c), Good(c), NEW p \in Pid, NEW v \in SUBSET Seen(Segs),
           v \subseteq Seen(Had(p)), Unique(v)
    PROVE  /\ IsCache(Put(c, p, v)) /\ Good(Put(c, p, v))
           /\ DOMAIN Put(c, p, v) = DOMAIN c \cup {p}
           /\ Put(c, p, v)[p] = v
           /\ \A q \in DOMAIN c : q # p => Put(c, p, v)[q] = c[q]
<1>1. /\ DOMAIN Put(c, p, v) = DOMAIN c \cup {p}
      /\ Put(c, p, v)[p] = v
      /\ \A q \in DOMAIN c : q # p => Put(c, p, v)[q] = c[q]
  BY DEF Put
<1>2. IsCache(Put(c, p, v))
  BY DEF Put, IsCache
<1>3. Good(Put(c, p, v))
  BY <1>1 DEF Good
<1> QED
  BY <1>1, <1>2, <1>3

\* ParseMapsContent, with content that the process has had.
LEMMA ContentFacts ==
    ASSUME NEW c, IsCache(c), Good(c), NEW p \in Pid, NEW content \in SUBSET Segs,
           content \subseteq Had(p), Apart(content), NEW del_old \in BOOLEAN
    PROVE  LET d == ParseMapsContent(c, p, content, del_old)
           IN  /\ IsCache(d) /\ Good(d)
               /\ DOMAIN d = DOMAIN c \cup {p}
               /\ \A s \in ReadBack(content) : Known(s, d[p])
               /\ \A s \in content : Shown(s) => Known(s, d[p])
               /\ p \in DOMAIN c /\ ~del_old => c[p] \subseteq d[p]
               /\ \A q \in DOMAIN c : q # p => d[q] = c[q]
<1> DEFINE old == IF del_old THEN {} ELSE Cached(c, p)
           new == ReadBack(content)
           v == Merge(old, new)
<1>1. old \subseteq Seen(Segs) /\ old \subseteq Seen(Had(p)) /\ Unique(old)
  BY DEF Cached, IsCache, Good, Unique
<1>2. /\ new \subseteq Seen(Segs) /\ new \subseteq Seen(Had(p)) /\ Unique(new)
      /\ \A s \in content : Shown(s) => Known(s, new)
  BY SeenGrows, ReadBackFacts
<1>3. ParseMapsContent(c, p, content, del_old) = Put(c, p, v)
  BY DEF ParseMapsContent
<1>4. p \in DOMAIN c /\ ~del_old => c[p] \subseteq old
  BY DEF Cached
<1> HIDE DEF old, new
<1>5. /\ v \in SUBSET Seen(Segs) /\ v \subseteq Seen(Had(p)) /\ Unique(v) /\ old \subseteq v
      /\ \A s \in new : Known(s, v)
  BY <1>1, <1>2, MergeFacts
<1>6. \A s \in content : Shown(s) => Known(s, v)
  BY <1>2, <1>5 DEF Known, SameBase
<1> DEFINE d == Put(c, p, v)
<1> HIDE DEF v
<1>7. /\ IsCache(d) /\ Good(d)
      /\ DOMAIN d = DOMAIN c \cup {p} /\ d[p] = v
      /\ \A q \in DOMAIN c : q # p => d[q] = c[q]
  BY <1>5, PutFacts
<1>8. ParseMapsContent(c, p, content, del_old) = d
  BY <1>3
<1>9. ReadBack(content) = new
  BY DEF new
<1> HIDE DEF d
<1> QED
  BY <1>4, <1>5, <1>6, <1>7, <1>8, <1>9

LEMMA ParseFacts ==
    ASSUME TypeOK, MapsInv, FamilyInv,
           NEW c, IsCache(c), Good(c), NEW p \in Pid, NEW del_old \in BOOLEAN
    PROVE  LET d == ParseMaps(c, p, del_old)
           IN  /\ IsCache(d) /\ Good(d)
               /\ p \notin alive => d = c
               /\ p \in alive => DOMAIN d = DOMAIN c \cup {p} /\ AllKnown(p, d[p])
               /\ p \in DOMAIN c /\ ~del_old => c[p] \subseteq d[p]
               /\ \A q \in DOMAIN c : q # p => d[q] = c[q]
<1>1. CASE p \in alive
  <2>1. ParseMaps(c, p, del_old) = ParseMapsContent(c, p, maps[p], del_old)
    BY <1>1 DEF ParseMaps
  <2>2. maps[p] \in SUBSET Segs /\ maps[p] \subseteq Had(p) /\ Apart(maps[p])
    BY MapsHad
  <2> DEFINE d == ParseMapsContent(c, p, maps[p], del_old)
  <2>3. /\ IsCache(d) /\ Good(d)
        /\ DOMAIN d = DOMAIN c \cup {p}
        /\ \A s \in maps[p] : Shown(s) => Known(s, d[p])
        /\ p \in DOMAIN c /\ ~del_old => c[p] \subseteq d[p]
        /\ \A q \in DOMAIN c : q # p => d[q] = c[q]
    BY <2>2, ContentFacts
  <2> HIDE DEF d
  <2>4. AllKnown(p, d[p])
    BY <2>3 DEF AllKnown
  <2>5. ParseMaps(c, p, del_old) = d
    BY <2>1 DEF d
  <2> QED
    BY <1>1, <2>3, <2>4, <2>5
<1>2. CASE p \notin alive
  BY <1>2 DEF ParseMaps
<1> QED
  BY <1>1, <1>2

\* More cached mappings make nothing unknown.
LEMMA KnownGrows ==
    ASSUME NEW s, NEW a, NEW b, a \subseteq b, Known(s, a)
    PROVE  Known(s, b)
BY DEF Known

-----------------------------------------------------------------------------
(* The processes.                                                            *)

\* What a step of a process keeps of the cache: nothing is taken from what was mapped.
LEMMA GoodGrows ==
    ASSUME IInv, UNCHANGED pid_maps, \A p \in Pid : Had(p) \subseteq Had(p)'
    PROVE  Good(pid_maps)'
<1> SUFFICES ASSUME NEW p \in DOMAIN pid_maps
             PROVE  pid_maps[p] \subseteq Seen(Had(p)') /\ Unique(pid_maps[p])
  BY DEF Good, Seen, ReadBack
<1>1. p \in Pid
  BY DEF IInv, TypeOK
<1>2. Seen(Had(p)) \subseteq Seen(Had(p)')
  BY <1>1, SeenGrows
<1> QED
  BY <1>2 DEF IInv, Good

LEMMA HadGrows ==
    ASSUME TypeOK, \A p \in Pid : had[p] \subseteq had'[p] /\ family[p] \subseteq family'[p]
    PROVE  \A p \in Pid : Had(p) \subseteq Had(p)'
<1> SUFFICES ASSUME NEW p \in Pid, NEW s \in Had(p) PROVE s \in Had(p)'
  OBVIOUS
<1>1. PICK q \in family[p] : s \in had[q]
  BY DEF Had
<1>2. q \in Pid /\ q \in family'[p] /\ s \in had'[q]
  BY <1>1 DEF TypeOK
<1> QED
  BY <1>2 DEF Had

\* A new record waits, or nothing does that did not wait before.
LEMMA ReportType ==
    ASSUME TypeOK, NEW r \in Mmap2Record \cup ForkRecord, Report(r)
    PROVE  /\ pending' \subseteq Mmap2Record \cup ForkRecord
           /\ pending \subseteq pending' /\ pending' \subseteq pending \cup {r}
           /\ attached => r \in pending'
BY DEF TypeOK, Report

LEMMA ForkInv ==
    ASSUME IInv, NEW p \in Pid, NEW c \in Pid, Fork(p, c)
    PROVE  IInv'
<1> DEFINE r == [type |-> "fork", pid |-> c, ppid |-> p]
<1> USE DEF IInv
<1>1. /\ p \in alive /\ c \in Pid \ alive
      /\ steps' = steps + 1
      /\ alive' = alive \cup {c}
      /\ maps' = [maps EXCEPT ![c] = maps[p]]
      /\ had' = [had EXCEPT ![c] = @ \cup maps[p]]
      /\ family' = [d \in Pid |-> IF c \in family[d] THEN family[d] \cup family[p] ELSE family[d]]
      /\ gap' = [gap EXCEPT ![c] = "inherited"]
      /\ hook' = [hook EXCEPT !.raced = @ \/ (hook.at = "read" /\ hook.pid = c)]
      /\ Report(r)
      /\ UNCHANGED <<mode, attached, pid_maps, child_parent_map, pid_list>>
  BY DEF Fork, Step, Outdate, cache_vars
<1>2. r \in ForkRecord
  BY DEF ForkRecord
<1>3. /\ pending' \subseteq Mmap2Record \cup ForkRecord
      /\ pending \subseteq pending' /\ pending' \subseteq pending \cup {r}
  BY <1>1, <1>2, ReportType
<1>4. had \in [Pid -> SUBSET Segs] /\ family \in [Pid -> SUBSET Pid] /\ maps \in [Pid -> SUBSET Segs]
  BY DEF TypeOK
<1>5. hook' \in Hook /\ hook'.at = hook.at /\ hook'.pid = hook.pid /\ hook'.content = hook.content
      /\ (~hook'.raced /\ hook.at = "read" => ~hook.raced /\ hook.pid # c)
  <2>1. hook \in Hook
    BY DEF TypeOK
  <2>2. hook.raced \in BOOLEAN /\ (hook.raced \/ (hook.at = "read" /\ hook.pid = c)) \in BOOLEAN
    BY <2>1 DEF Hook
  <2>3. hook' \in Hook /\ hook'.at = hook.at /\ hook'.pid = hook.pid /\ hook'.content = hook.content
    BY <1>1, <2>1, <2>2 DEF Hook
  <2>4. hook'.raced = (hook.raced \/ (hook.at = "read" /\ hook.pid = c))
    BY <1>1, <2>1 DEF Hook
  <2> QED
    BY <2>3, <2>4
<1>6. TypeOK'
  BY <1>1, <1>3, <1>4, <1>5 DEF TypeOK, Gap
<1>7. \A q \in Pid : had[q] \subseteq had'[q] /\ family[q] \subseteq family'[q]
  BY <1>1, <1>4
<1>8. MapsInv'
  BY <1>1, <1>4 DEF MapsInv, Apart
<1>9. FamilyInv'
  <2> SUFFICES ASSUME NEW d \in Pid
               PROVE  d \in family'[d] /\ \A q \in family'[d] : family'[q] \subseteq family'[d]
    BY DEF FamilyInv
  <2>1. d \in family'[d]
    BY <1>7 DEF FamilyInv
  <2>2. ASSUME NEW q \in family'[d] PROVE family'[q] \subseteq family'[d]
    <3>1. q \in Pid
      BY <1>1, <1>4, <2>2
    <3>2. CASE q \in family[d]
      <4>1. family[q] \subseteq family[d]
        BY <3>2 DEF FamilyInv
      <4> QED
        BY <1>1, <3>1, <4>1
    <3>3. CASE q \notin family[d]
      <4>1. c \in family[d] /\ q \in family[p]
        BY <1>1, <2>2, <3>3
      <4>2. family[q] \subseteq family[p]
        BY <4>1 DEF FamilyInv
      <4> QED
        BY <1>1, <3>1, <4>1, <4>2
    <3> QED
      BY <3>2, <3>3
  <2> QED
    BY <2>1, <2>2
<1>10. PendingInv'
  <2> SUFFICES ASSUME NEW x \in pending'
               PROVE  /\ x.type = "mmap2" => x.seg \in had'[x.pid]
                      /\ x.type = "fork" => family'[x.ppid] \subseteq family'[x.pid]
    BY DEF PendingInv
  <2>1. CASE x \in pending
    <3>1. /\ x.type = "mmap2" => x.seg \in had[x.pid]
          /\ x.type = "fork" => family[x.ppid] \subseteq family[x.pid]
          /\ x.pid \in Pid /\ x.type = "fork" => x.ppid \in Pid
      BY <2>1, RecordTypes DEF PendingInv
    <3> QED
      BY <1>1, <1>7, <2>1, <3>1, RecordTypes
  <2>2. CASE x = r
    <3>1. family'[p] \subseteq family'[c]
      BY <1>1, <1>4 DEF FamilyInv
    <3> QED
      BY <2>2, <3>1
  <2> QED
    BY <1>3, <2>1, <2>2
<1>11. HookInv'
  <2>1. hook.pid \in Pid
    BY DEF TypeOK, Hook
  <2>2. hook'.content \subseteq had'[hook'.pid] /\ Apart(hook'.content)
    BY <1>5, <1>7, <2>1 DEF HookInv, Apart
  <2>3. ASSUME hook'.at = "read", ~hook'.raced, NEW s \in maps'[hook'.pid]
        PROVE  s \in hook'.content \/ Reported(hook.pid)'
    <3>1. s \in maps[hook.pid] /\ ~hook.raced /\ hook.at = "read"
      BY <1>1, <1>4, <1>5, <2>1, <2>3
    <3>2. s \in hook.content \/ Reported(hook.pid)
      BY <3>1 DEF HookInv
    <3> QED
      BY <1>3, <1>5, <3>2 DEF Reported
  <2> QED
    BY <1>1, <1>5, <2>2, <2>3 DEF HookInv
<1>12. Good(pid_maps)'
  BY <1>1, <1>7, HadGrows, GoodGrows
<1>13. HandledIsKnown'
  <2> SUFFICES ASSUME NEW q \in alive' \cap DOMAIN pid_maps, NEW s \in maps'[q], gap'[q] = "none", Shown(s)
               PROVE  Known(s, pid_maps[q]) \/ \E x \in pending' : x.type = "mmap2" /\ x.pid = q
    BY <1>1 DEF HandledIsKnown
  <2>1. q \in Pid /\ q # c
    BY <1>1 DEF TypeOK
  <2>2. q \in alive /\ s \in maps[q] /\ gap[q] = "none"
    BY <1>1, <1>4, <2>1 DEF TypeOK
  <2> QED
    BY <1>3, <2>2 DEF HandledIsKnown
<1> QED
  BY <1>6, <1>8, <1>9, <1>10, <1>11, <1>12, <1>13

LEMMA NewThreadInv ==
    ASSUME IInv, NEW p \in Pid, NewThread(p)
    PROVE  IInv'
<1> DEFINE r == [type |-> "fork", pid |-> p, ppid |-> p]
<1> USE DEF IInv
<1>1. /\ steps' = steps + 1 /\ Report(r)
      /\ UNCHANGED <<mode, attached, pid_maps, child_parent_map, pid_list, alive, maps, had, family,
                     gap, hook>>
  BY DEF NewThread, Step, cache_vars
<1>2. r \in ForkRecord
  BY DEF ForkRecord
<1>3. /\ pending' \subseteq Mmap2Record \cup ForkRecord
      /\ pending \subseteq pending' /\ pending' \subseteq pending \cup {r}
  BY <1>1, <1>2, ReportType
<1>4. TypeOK'
  BY <1>1, <1>3 DEF TypeOK
<1>5. MapsInv' /\ FamilyInv' /\ Good(pid_maps)'
  BY <1>1 DEF MapsInv, FamilyInv, Good, Had
<1>6. PendingInv'
  BY <1>1, <1>3 DEF PendingInv
<1>7. HookInv'
  BY <1>1, <1>3 DEF HookInv, Reported
<1>8. HandledIsKnown'
  BY <1>1, <1>3 DEF HandledIsKnown
<1> QED
  BY <1>4, <1>5, <1>6, <1>7, <1>8

LEMMA MmapInv ==
    ASSUME IInv, NEW p \in Pid, NEW s \in Segs, Mmap(p, s)
    PROVE  IInv'
<1> DEFINE r == [type |-> "mmap2", pid |-> p, seg |-> s]
<1> USE DEF IInv
<1>1. /\ steps' = steps + 1 /\ Report(r)
      /\ maps' = [maps EXCEPT ![p] = {o \in @ : o.base # s.base} \cup {s}]
      /\ had' = [had EXCEPT ![p] = @ \cup {s}]
      /\ gap' = IF attached THEN gap ELSE [gap EXCEPT ![p] = "unseen"]
      /\ UNCHANGED <<mode, attached, pid_maps, child_parent_map, pid_list, alive, family, hook>>
  BY DEF Mmap, Step, cache_vars
<1>2. r \in Mmap2Record
  BY DEF Mmap2Record
<1>3. /\ pending' \subseteq Mmap2Record \cup ForkRecord
      /\ pending \subseteq pending' /\ pending' \subseteq pending \cup {r}
      /\ attached => r \in pending'
  BY <1>1, <1>2, ReportType
<1>4. had \in [Pid -> SUBSET Segs] /\ family \in [Pid -> SUBSET Pid] /\ maps \in [Pid -> SUBSET Segs]
  BY DEF TypeOK
<1>5. gap' \in [Pid -> Gap] /\ \A q \in Pid : q # p \/ attached => gap'[q] = gap[q]
  BY <1>1 DEF TypeOK, Gap
<1>6. TypeOK'
  BY <1>1, <1>3, <1>4, <1>5 DEF TypeOK
<1>7. \A q \in Pid : had[q] \subseteq had'[q] /\ family[q] \subseteq family'[q]
  BY <1>1, <1>4
<1>8. MapsInv'
  BY <1>1, <1>4 DEF MapsInv, Apart
<1>9. FamilyInv'
  BY <1>1 DEF FamilyInv
<1>10. PendingInv'
  <2> SUFFICES ASSUME NEW x \in pending'
               PROVE  /\ x.type = "mmap2" => x.seg \in had'[x.pid]
                      /\ x.type = "fork" => family[x.ppid] \subseteq family[x.pid]
    BY <1>1 DEF PendingInv
  <2>1. CASE x \in pending
    BY <1>7, <2>1, RecordTypes DEF PendingInv
  <2>2. CASE x = r
    BY <1>1, <1>4, <2>2
  <2> QED
    BY <1>3, <2>1, <2>2
<1>11. HookInv'
  <2>1. hook.pid \in Pid
    BY DEF TypeOK, Hook
  <2>2. hook.content \subseteq had'[hook.pid]
    BY <1>7, <2>1 DEF HookInv
  <2>3. ASSUME hook.at = "read", ~hook.raced, NEW o \in maps'[hook.pid]
        PROVE  o \in hook.content \/ Reported(hook.pid)'
    <3>1. CASE hook.pid = p
      <4>1. attached
        BY <2>3 DEF HookInv
      <4> QED
        BY <1>1, <1>3, <3>1, <4>1 DEF Reported
    <3>2. CASE hook.pid # p
      <4>1. o \in maps[hook.pid]
        BY <1>1, <1>4, <2>1, <2>3, <3>2
      <4> QED
        BY <1>1, <1>3, <2>3, <4>1 DEF HookInv, Reported
    <3> QED
      BY <3>1, <3>2
  <2> QED
    BY <1>1, <2>2, <2>3 DEF HookInv, Apart
<1>12. Good(pid_maps)'
  BY <1>1, <1>7, HadGrows, GoodGrows
<1>13. HandledIsKnown'
  <2> SUFFICES ASSUME NEW q \in alive \cap DOMAIN pid_maps, NEW o \in maps'[q], gap'[q] = "none", Shown(o)
               PROVE  Known(o, pid_maps[q]) \/ \E x \in pending' : x.type = "mmap2" /\ x.pid = q
    BY <1>1 DEF HandledIsKnown
  <2>1. CASE q = p
    <3>1. attached
      BY <1>1, <2>1 DEF TypeOK
    <3> QED
      BY <1>3, <2>1, <3>1
  <2>2. CASE q # p
    <3>1. o \in maps[q] /\ gap[q] = "none"
      BY <1>4, <1>1, <1>5, <2>2 DEF TypeOK
    <3> QED
      BY <1>3, <3>1 DEF HandledIsKnown
  <2> QED
    BY <2>1, <2>2
<1> QED
  BY <1>6, <1>8, <1>9, <1>10, <1>11, <1>12, <1>13

\* A process that has fewer mappings, or is gone, spoils nothing.
LEMMA FewerMapsInv ==
    ASSUME IInv, UNCHANGED <<cache_vars, had, family, gap, pending, hook>>, steps' \in Nat,
           alive' \subseteq alive, maps' \in [Pid -> SUBSET Segs],
           \A p \in Pid : maps'[p] \subseteq maps[p]
    PROVE  IInv'
<1> USE DEF IInv, cache_vars
<1>1. TypeOK'
  BY DEF TypeOK
<1>2. MapsInv'
  BY DEF MapsInv, Apart
<1>3. FamilyInv' /\ PendingInv' /\ Good(pid_maps)'
  BY DEF FamilyInv, PendingInv, Good, Had
<1>4. HookInv'
  <2>1. hook.pid \in Pid
    BY DEF TypeOK, Hook
  <2> QED
    BY <2>1 DEF HookInv, Reported
<1>5. HandledIsKnown'
  BY DEF HandledIsKnown, TypeOK
<1> QED
  BY <1>1, <1>2, <1>3, <1>4, <1>5

LEMMA MunmapInv ==
    ASSUME IInv, NEW p \in Pid, NEW s \in Segs, Munmap(p, s)
    PROVE  IInv'
<1>1. /\ steps' = steps + 1 /\ maps' = [maps EXCEPT ![p] = @ \ {s}]
      /\ UNCHANGED <<cache_vars, alive, had, family, gap, pending, hook>>
  BY DEF Munmap, Step
<1>2. steps' \in Nat /\ maps' \in [Pid -> SUBSET Segs] /\ \A q \in Pid : maps'[q] \subseteq maps[q]
  BY <1>1 DEF IInv, TypeOK
<1> QED
  BY <1>1, <1>2, FewerMapsInv

LEMMA ExitInv ==
    ASSUME IInv, NEW p \in Pid, Exit(p)
    PROVE  IInv'
<1>1. /\ steps' = steps + 1 /\ maps' = [maps EXCEPT ![p] = {}] /\ alive' = alive \ {p}
      /\ UNCHANGED <<cache_vars, had, family, gap, pending, hook>>
  BY DEF Exit, Step
<1>2. steps' \in Nat /\ maps' \in [Pid -> SUBSET Segs] /\ \A q \in Pid : maps'[q] \subseteq maps[q]
  BY <1>1 DEF IInv, TypeOK
<1> QED
  BY <1>1, <1>2, FewerMapsInv

-----------------------------------------------------------------------------
(* Steps of stackplz leave the processes alone.                              *)

LEMMA KeepsWorld ==
    ASSUME IInv, UNCHANGED world, pending' \subseteq pending
    PROVE  /\ MapsInv' /\ FamilyInv' /\ PendingInv'
           /\ Good(pid_maps') => Good(pid_maps)'
BY DEF IInv, world, MapsInv, FamilyInv, PendingInv, Good, Had

\* The maps of p are read, or everything stays as it is.
LEMMA ParseStep ==
    ASSUME IInv, NEW p \in Pid, NEW del_old \in BOOLEAN,
           UNCHANGED <<mode, world, pending, child_parent_map, pid_list, hook>>,
           pid_maps' = ParseMaps(pid_maps, p, del_old),
           gap' = IF p \in alive THEN [gap EXCEPT ![p] = "none"] ELSE gap
    PROVE  IInv'
<1> USE DEF IInv, world
<1>1. /\ IsCache(pid_maps') /\ Good(pid_maps')
      /\ p \notin alive => pid_maps' = pid_maps
      /\ p \in alive => DOMAIN pid_maps' = DOMAIN pid_maps \cup {p} /\ AllKnown(p, pid_maps'[p])
      /\ \A q \in DOMAIN pid_maps : q # p => pid_maps'[q] = pid_maps[q]
  BY CacheType, ParseFacts
<1>2. gap' \in [Pid -> Gap] /\ \A q \in Pid : q # p => gap'[q] = gap[q]
  BY DEF TypeOK, Gap
<1>3. TypeOK'
  BY <1>1, <1>2 DEF TypeOK, IsCache
<1>4. MapsInv' /\ FamilyInv' /\ PendingInv' /\ Good(pid_maps)'
  BY <1>1, KeepsWorld
<1>5. HookInv'
  BY DEF HookInv, Reported
<1>6. HandledIsKnown'
  <2> SUFFICES ASSUME NEW q \in alive \cap DOMAIN pid_maps', NEW s \in maps[q], gap'[q] = "none", Shown(s)
               PROVE  Known(s, pid_maps'[q]) \/ \E r \in pending : r.type = "mmap2" /\ r.pid = q
    BY DEF HandledIsKnown
  <2>1. CASE q = p
    BY <1>1, <2>1 DEF AllKnown
  <2>2. CASE q # p
    <3>1. q \in DOMAIN pid_maps /\ pid_maps'[q] = pid_maps[q]
      BY <1>1, <2>2
    <3>2. gap[q] = "none"
      BY <1>2, <2>2, <3>1 DEF TypeOK
    <3> QED
      BY <3>1, <3>2 DEF HandledIsKnown
  <2> QED
    BY <2>1, <2>2
<1> QED
  BY <1>3, <1>4, <1>5, <1>6

\* The cache stays as it is, and so does what is in the hands of the dispatchers, or it is less.
LEMMA SameCacheInv ==
    ASSUME IInv, UNCHANGED <<mode, alive, maps, steps, had, family, pending, pid_maps, gap>>,
           attached' \in BOOLEAN, DOMAIN child_parent_map' \subseteq Pid,
           child_parent_map' \in [DOMAIN child_parent_map' -> Pid],
           pid_list' \subseteq Pid, hook' \in Hook, HookInv'
    PROVE  IInv'
<1> USE DEF IInv
<1>1. TypeOK'
  BY DEF TypeOK
<1>2. MapsInv' /\ FamilyInv' /\ PendingInv' /\ Good(pid_maps)'
  BY DEF MapsInv, FamilyInv, PendingInv, Good, Had
<1>3. HandledIsKnown'
  BY DEF HandledIsKnown
<1> QED
  BY <1>1, <1>2, <1>3

LEMMA FindLibInv ==
    ASSUME IInv, NEW p \in Pid, FindLib(p)
    PROVE  IInv'
<1>1. UNCHANGED <<mode, world, pending, child_parent_map, pid_list, hook>>
  BY DEF FindLib
<1>2. CASE p \in DOMAIN pid_maps
  <2>1. pid_maps' = pid_maps /\ gap' = gap
    BY <1>2 DEF FindLib
  <2>2. HookInv'
    BY <1>1 DEF IInv, HookInv, Reported, world
  <2> QED
    BY <1>1, <2>1, <2>2, SameCacheInv DEF IInv, TypeOK, world
<1>3. CASE p \notin DOMAIN pid_maps
  <2>1. /\ pid_maps' = ParseMaps(pid_maps, p, FALSE)
        /\ gap' = IF p \in alive THEN [gap EXCEPT ![p] = "none"] ELSE gap
    BY <1>3 DEF FindLib
  <2> QED
    BY <1>1, <2>1, ParseStep
<1> QED
  BY <1>2, <1>3

LEMMA GetOffsetInv ==
    ASSUME IInv, NEW p \in Pid, GetOffset(p)
    PROVE  IInv'
BY ParseStep DEF GetOffset

LEMMA CacheMapsInv ==
    ASSUME IInv, NEW p \in Pid, CacheMaps(p)
    PROVE  IInv'
BY ParseStep DEF CacheMaps

LEMMA AttachInv ==
    ASSUME IInv, Attach
    PROVE  IInv'
<1>1. HookInv'
  BY DEF Attach, IInv, HookInv, Reported
<1> QED
  BY <1>1, SameCacheInv DEF Attach, IInv, TypeOK

LEMMA HitInv ==
    ASSUME IInv, NEW p \in Pid, Hit(p)
    PROVE  IInv'
<1>1. /\ attached /\ hook.at = "idle"
      /\ hook' = [hook EXCEPT !.at = IF p \in pid_list THEN "listed" ELSE "append", !.pid = p]
      /\ UNCHANGED <<mode, world, pending, pid_maps, child_parent_map, pid_list, gap>>
  BY DEF Hit
<1>2. hook \in Hook
  BY DEF IInv, TypeOK
<1>3. (IF p \in pid_list THEN "listed" ELSE "append") \in {"listed", "append"}
  OBVIOUS
<1>4. hook' \in Hook /\ hook'.at \in {"listed", "append"} /\ hook'.content = hook.content
  BY <1>1, <1>2, <1>3 DEF Hook
<1>5. HookInv'
  BY <1>1, <1>4 DEF IInv, HookInv, Apart, world
<1> QED
  BY <1>1, <1>4, <1>5, SameCacheInv DEF IInv, TypeOK, world

LEMMA AppendInv ==
    ASSUME IInv, Append
    PROVE  IInv'
<1>1. /\ hook.at = "append" /\ hook' = [hook EXCEPT !.at = "listed"]
      /\ pid_list' = pid_list \cup {hook.pid}
      /\ UNCHANGED <<mode, world, pending, pid_maps, child_parent_map, gap>>
  BY DEF Append
<1>2. hook \in Hook
  BY DEF IInv, TypeOK
<1>3. hook' \in Hook /\ hook'.at = "listed" /\ hook'.content = hook.content /\ hook.pid \in Pid
  BY <1>1, <1>2 DEF Hook
<1>4. HookInv'
  BY <1>1, <1>3 DEF IInv, HookInv, Apart, world
<1> QED
  BY <1>1, <1>3, <1>4, SameCacheInv DEF IInv, TypeOK, world

LEMMA ReadMapsByPidInv ==
    ASSUME IInv, ReadMapsByPid
    PROVE  IInv'
<1>1. /\ hook.at = "listed"
      /\ UNCHANGED <<mode, world, pending, pid_maps, child_parent_map, pid_list, gap>>
  BY DEF ReadMapsByPid
<1>2. hook \in Hook /\ hook.pid \in Pid
  BY DEF IInv, TypeOK, Hook
<1>3. CASE hook' = Idle
  <2>1. HookInv'
    BY <1>3, IdleType DEF HookInv, Apart
  <2> QED
    BY <1>1, <1>3, <2>1, IdleType, SameCacheInv DEF IInv, TypeOK, world
<1>4. CASE hook' = [hook EXCEPT !.at = "read", !.content = maps[hook.pid], !.raced = FALSE]
  <2>1. maps[hook.pid] \subseteq Segs /\ maps[hook.pid] \subseteq had[hook.pid] /\ Apart(maps[hook.pid])
    BY <1>2, MapsHad DEF IInv, MapsInv
  <2>2. /\ hook' \in Hook /\ hook'.at = "read" /\ hook'.content = maps[hook.pid]
        /\ hook'.pid = hook.pid
    BY <1>2, <1>4, <2>1 DEF Hook
  <2>3. HookInv'
    BY <1>1, <2>1, <2>2 DEF IInv, HookInv, world
  <2> QED
    BY <1>1, <2>2, <2>3, SameCacheInv DEF IInv, TypeOK, world
<1> QED
  BY <1>3, <1>4 DEF ReadMapsByPid

LEMMA TryManualUpdateMapsInv ==
    ASSUME IInv, TryManualUpdateMaps
    PROVE  IInv'
<1> DEFINE p == hook.pid
<1> USE DEF IInv, world
<1>1. /\ hook.at = "read" /\ hook' = Idle
      /\ pid_maps' = ParseMapsContent(pid_maps, p, hook.content, TRUE)
      /\ gap' = [gap EXCEPT ![p] = IF hook.raced THEN "older" ELSE "none"]
      /\ UNCHANGED <<mode, world, pending, child_parent_map, pid_list>>
  BY DEF TryManualUpdateMaps
<1>2. p \in Pid /\ hook.content \in SUBSET Segs /\ hook.content \subseteq Had(p) /\ Apart(hook.content)
  <2>1. p \in Pid /\ hook.content \in SUBSET Segs
    BY DEF TypeOK, Hook
  <2>2. hook.content \subseteq had[p] /\ Apart(hook.content)
    BY DEF HookInv
  <2> QED
    BY <2>1, <2>2, MapsHad
<1>3. /\ IsCache(pid_maps') /\ Good(pid_maps')
      /\ DOMAIN pid_maps' = DOMAIN pid_maps \cup {p}
      /\ \A s \in hook.content : Shown(s) => Known(s, pid_maps'[p])
      /\ \A q \in DOMAIN pid_maps : q # p => pid_maps'[q] = pid_maps[q]
  BY <1>1, <1>2, CacheType, ContentFacts
<1>4. /\ gap' \in [Pid -> Gap] /\ \A q \in Pid : q # p => gap'[q] = gap[q]
      /\ gap'[p] = "none" => ~hook.raced
  BY <1>1, <1>2 DEF TypeOK, Gap
<1>5. TypeOK'
  BY <1>1, <1>3, <1>4, IdleType DEF TypeOK, IsCache
<1>6. MapsInv' /\ FamilyInv' /\ PendingInv' /\ Good(pid_maps)'
  BY <1>1, <1>3, KeepsWorld
<1>7. HookInv'
  BY <1>1, IdleType DEF HookInv, Apart
<1>8. HandledIsKnown'
  <2> SUFFICES ASSUME NEW q \in alive \cap DOMAIN pid_maps', NEW s \in maps[q], gap'[q] = "none", Shown(s)
               PROVE  Known(s, pid_maps'[q]) \/ \E r \in pending : r.type = "mmap2" /\ r.pid = q
    BY <1>1 DEF HandledIsKnown
  <2>1. CASE q = p
    BY <1>1, <1>3, <1>4, <2>1 DEF HookInv, Reported
  <2>2. CASE q # p
    <3>1. q \in DOMAIN pid_maps /\ pid_maps'[q] = pid_maps[q]
      BY <1>3, <2>2
    <3>2. gap[q] = "none"
      BY <1>4, <2>2, <3>1 DEF TypeOK
    <3> QED
      BY <3>1, <3>2 DEF HandledIsKnown
  <2> QED
    BY <2>1, <2>2
<1> QED
  BY <1>5, <1>6, <1>7, <1>8

-----------------------------------------------------------------------------
(* The records.                                                              *)

\* A record of p is gone, and what is in hand of p knows nothing of it.
LEMMA OutdateFacts ==
    ASSUME IInv, NEW r \in pending, Outdate(r.pid), pending' = pending \ {r}, UNCHANGED world
    PROVE  hook' \in Hook /\ HookInv'
<1> USE DEF IInv, world
<1>1. hook \in Hook
  BY DEF TypeOK
<1>2. hook' = [hook EXCEPT !.raced = @ \/ (hook.at = "read" /\ hook.pid = r.pid)]
  BY DEF Outdate
<1>3. hook.raced \in BOOLEAN /\ (hook.raced \/ (hook.at = "read" /\ hook.pid = r.pid)) \in BOOLEAN
  BY <1>1 DEF Hook
<1>4. hook' \in Hook /\ hook'.at = hook.at /\ hook'.pid = hook.pid /\ hook'.content = hook.content
  BY <1>1, <1>2, <1>3 DEF Hook
<1>5. hook'.raced = (hook.raced \/ (hook.at = "read" /\ hook.pid = r.pid))
  BY <1>1, <1>2 DEF Hook
<1>6. ASSUME hook.at = "read", ~hook'.raced, NEW s \in maps[hook.pid]
      PROVE  s \in hook.content \/ Reported(hook.pid)'
  <2>1. ~hook.raced /\ hook.pid # r.pid
    BY <1>5, <1>6
  <2>2. s \in hook.content \/ Reported(hook.pid)
    BY <1>6, <2>1 DEF HookInv
  <2> QED
    BY <1>4, <2>1, <2>2 DEF Reported
<1> QED
  BY <1>4, <1>6 DEF HookInv

LEMMA LoseInv ==
    ASSUME IInv, NEW r \in pending, Lose(r)
    PROVE  IInv'
<1> USE DEF IInv, world
<1>1. pending' = pending \ {r} /\ UNCHANGED <<mode, world, pid_maps, child_parent_map, pid_list>>
  BY DEF Lose
<1>2. MapsInv' /\ FamilyInv' /\ PendingInv' /\ Good(pid_maps)'
  BY <1>1, KeepsWorld
<1>3. CASE r.type = "mmap2"
  <2>1. gap' = [gap EXCEPT ![r.pid] = "lost"] /\ Outdate(r.pid)
    BY <1>3 DEF Lose
  <2>2. hook' \in Hook /\ HookInv'
    BY <1>1, <2>1, OutdateFacts
  <2>3. gap' \in [Pid -> Gap] /\ \A q \in Pid : gap'[q] = "none" => gap[q] = "none" /\ q # r.pid
    BY <2>1 DEF TypeOK, Gap
  <2>4. TypeOK'
    BY <1>1, <2>2, <2>3 DEF TypeOK
  <2>5. HandledIsKnown'
    BY <1>1, <2>3 DEF HandledIsKnown, TypeOK
  <2> QED
    BY <1>2, <2>2, <2>4, <2>5
<1>4. CASE r.type # "mmap2"
  <2>1. gap' = gap /\ hook' = hook
    BY <1>4 DEF Lose
  <2>2. TypeOK'
    BY <1>1, <2>1 DEF TypeOK
  <2>3. HookInv' /\ HandledIsKnown'
    BY <1>1, <1>4, <2>1 DEF HookInv, Reported, HandledIsKnown
  <2> QED
    BY <1>2, <2>2, <2>3
<1> QED
  BY <1>3, <1>4

LEMMA UpdateMapsFacts ==
    ASSUME IInv, NEW r \in pending, r.type = "mmap2"
    PROVE  LET d == UpdateMaps(pid_maps, r)
           IN  /\ IsCache(d) /\ Good(d)
               /\ DOMAIN d = DOMAIN pid_maps \cup {r.pid}
               /\ r.pid \in alive => AllKnown(r.pid, d[r.pid])
               /\ r.pid \in DOMAIN pid_maps => pid_maps[r.pid] \subseteq d[r.pid]
               /\ \A q \in DOMAIN pid_maps : q # r.pid => d[q] = pid_maps[q]
<1> DEFINE p == r.pid
           parsed == ParseMaps(pid_maps, p, FALSE)
           old == Cached(parsed, p)
           v == IF \E o \in old : o.path = r.seg.path THEN old ELSE old \cup {r.seg}
<1> USE DEF IInv
<1>1. p \in Pid /\ r.seg \in Segs /\ r.seg \in Had(p) /\ r.seg \in Seen(Segs) /\ r.seg \in Seen(Had(p))
  <2>1. p \in Pid /\ r.seg \in Segs /\ r.seg \in had[p]
    BY RecordTypes DEF PendingInv
  <2> QED
    BY <2>1, MapsHad DEF Seen
<1>2. /\ IsCache(parsed) /\ Good(parsed)
      /\ p \notin alive => parsed = pid_maps
      /\ p \in alive => DOMAIN parsed = DOMAIN pid_maps \cup {p} /\ AllKnown(p, parsed[p])
      /\ p \in DOMAIN pid_maps => pid_maps[p] \subseteq parsed[p]
      /\ \A q \in DOMAIN pid_maps : q # p => parsed[q] = pid_maps[q]
  BY <1>1, CacheType, ParseFacts
<1>3. UpdateMaps(pid_maps, r) = Put(parsed, p, v)
  BY DEF UpdateMaps
<1> HIDE DEF parsed
<1>4. /\ old \subseteq Seen(Segs) /\ old \subseteq Seen(Had(p)) /\ Unique(old)
      /\ p \in alive => old = parsed[p]
      /\ p \in DOMAIN pid_maps => pid_maps[p] \subseteq old
  BY <1>2 DEF Cached, IsCache, Good, Unique
<1> HIDE DEF old
<1>5. v \in SUBSET Seen(Segs) /\ v \subseteq Seen(Had(p)) /\ Unique(v) /\ old \subseteq v
  BY <1>1, <1>4 DEF Unique, SameBase
<1>6. p \in alive => AllKnown(p, v)
  BY <1>2, <1>4, <1>5, KnownGrows DEF AllKnown
<1> HIDE DEF v
<1>7. /\ IsCache(Put(parsed, p, v)) /\ Good(Put(parsed, p, v))
      /\ DOMAIN Put(parsed, p, v) = DOMAIN parsed \cup {p}
      /\ Put(parsed, p, v)[p] = v
      /\ \A q \in DOMAIN parsed : q # p => Put(parsed, p, v)[q] = parsed[q]
  BY <1>1, <1>2, <1>5, PutFacts
<1>8. DOMAIN parsed \cup {p} = DOMAIN pid_maps \cup {p} /\ DOMAIN pid_maps \subseteq DOMAIN parsed
  BY <1>2
<1> QED
  BY <1>2, <1>3, <1>4, <1>5, <1>6, <1>7, <1>8

LEMMA HandleMmap2Inv ==
    ASSUME IInv, NEW r \in pending, NEW listed \in BOOLEAN, HandleMmap2(r, listed)
    PROVE  IInv'
<1> DEFINE p == r.pid
<1> USE DEF IInv, world
<1>1. /\ r.type = "mmap2" /\ pending' = pending \ {r} /\ Outdate(p)
      /\ UNCHANGED <<mode, world, child_parent_map, pid_list>>
  BY DEF HandleMmap2
<1>2. hook' \in Hook /\ HookInv'
  BY <1>1, OutdateFacts
<1>3. p \in Pid
  BY RecordTypes
<1>4. CASE ~listed
  <2>1. pid_maps' = pid_maps /\ gap' = [gap EXCEPT ![p] = "unlisted"]
    BY <1>4 DEF HandleMmap2
  <2>2. gap' \in [Pid -> Gap] /\ \A q \in Pid : gap'[q] = "none" => gap[q] = "none" /\ q # p
    BY <1>3, <2>1 DEF TypeOK, Gap
  <2>3. TypeOK'
    BY <1>1, <1>2, <2>1, <2>2 DEF TypeOK
  <2>4. MapsInv' /\ FamilyInv' /\ PendingInv' /\ Good(pid_maps)'
    BY <1>1, <2>1, KeepsWorld
  <2>5. HandledIsKnown'
    BY <1>1, <2>1, <2>2 DEF HandledIsKnown, TypeOK
  <2> QED
    BY <1>2, <2>3, <2>4, <2>5
<1>5. CASE listed
  <2>1. /\ pid_maps' = UpdateMaps(pid_maps, r)
        /\ gap' = IF p \in alive THEN [gap EXCEPT ![p] = "none"] ELSE gap
    BY <1>5 DEF HandleMmap2
  <2>2. /\ IsCache(pid_maps') /\ Good(pid_maps')
        /\ DOMAIN pid_maps' = DOMAIN pid_maps \cup {p}
        /\ p \in alive => AllKnown(p, pid_maps'[p])
        /\ \A q \in DOMAIN pid_maps : q # p => pid_maps'[q] = pid_maps[q]
    BY <1>1, <2>1, UpdateMapsFacts
  <2>3. gap' \in [Pid -> Gap] /\ \A q \in Pid : q # p => gap'[q] = gap[q]
    BY <2>1 DEF TypeOK, Gap
  <2>4. TypeOK'
    BY <1>1, <1>2, <2>2, <2>3 DEF TypeOK, IsCache
  <2>5. MapsInv' /\ FamilyInv' /\ PendingInv' /\ Good(pid_maps)'
    BY <1>1, <2>2, KeepsWorld
  <2>6. HandledIsKnown'
    <3> SUFFICES ASSUME NEW q \in alive \cap DOMAIN pid_maps', NEW s \in maps[q], gap'[q] = "none", Shown(s)
                 PROVE  Known(s, pid_maps'[q]) \/ \E x \in pending' : x.type = "mmap2" /\ x.pid = q
      BY <1>1 DEF HandledIsKnown
    <3>1. CASE q = p
      BY <2>2, <3>1 DEF AllKnown
    <3>2. CASE q # p
      <4>1. q \in DOMAIN pid_maps /\ pid_maps'[q] = pid_maps[q] /\ q \in Pid
        BY <2>2, <3>2 DEF TypeOK
      <4>2. gap[q] = "none"
        BY <2>3, <3>2, <4>1
      <4> QED
        BY <1>1, <3>2, <4>1, <4>2 DEF HandledIsKnown
    <3> QED
      BY <3>1, <3>2
  <2> QED
    BY <1>2, <2>4, <2>5, <2>6
<1> QED
  BY <1>4, <1>5

\* The copy for a child; its parent is read first if it was not known.
LEMMA CloneMapsFacts ==
    ASSUME IInv, NEW r \in pending, r.type = "fork", r.pid # r.ppid
    PROVE  LET d == CloneMaps(pid_maps, r.pid, r.ppid)
           IN  /\ IsCache(d) /\ Good(d)
               /\ DOMAIN d \subseteq DOMAIN pid_maps \cup {r.pid, r.ppid}
               /\ DOMAIN pid_maps \subseteq DOMAIN d
               /\ r.ppid \in DOMAIN d \ DOMAIN pid_maps =>
                     r.ppid \in alive /\ AllKnown(r.ppid, d[r.ppid])
               /\ \A q \in DOMAIN pid_maps : q # r.pid => d[q] = pid_maps[q]
<1> DEFINE p == r.pid
           parent == r.ppid
           parsed == IF parent \in DOMAIN pid_maps THEN pid_maps ELSE ParseMaps(pid_maps, parent, FALSE)
<1> USE DEF IInv
<1>1. p \in Pid /\ parent \in Pid /\ Had(parent) \subseteq Had(p)
  BY RecordTypes, HadOfFamily DEF PendingInv
<1>2. /\ IsCache(parsed) /\ Good(parsed)
      /\ DOMAIN pid_maps \subseteq DOMAIN parsed /\ DOMAIN parsed \subseteq DOMAIN pid_maps \cup {parent}
      /\ parent \in DOMAIN parsed \ DOMAIN pid_maps => parent \in alive /\ AllKnown(parent, parsed[parent])
      /\ \A q \in DOMAIN pid_maps : parsed[q] = pid_maps[q]
  <2>1. CASE parent \in DOMAIN pid_maps
    BY <2>1, CacheType
  <2>2. CASE parent \notin DOMAIN pid_maps
    <3> DEFINE d == ParseMaps(pid_maps, parent, FALSE)
    <3>1. /\ IsCache(d) /\ Good(d)
          /\ parent \notin alive => d = pid_maps
          /\ parent \in alive => DOMAIN d = DOMAIN pid_maps \cup {parent} /\ AllKnown(parent, d[parent])
          /\ \A q \in DOMAIN pid_maps : q # parent => d[q] = pid_maps[q]
      BY <1>1, CacheType, ParseFacts
    <3>2. parsed = d
      BY <2>2
    <3> HIDE DEF d, parsed
    <3> QED
      BY <2>2, <3>1, <3>2
  <2> QED
    BY <2>1, <2>2
<1>3. CloneMaps(pid_maps, p, parent) =
         IF parent \in DOMAIN parsed THEN Put(parsed, p, parsed[parent]) ELSE parsed
  BY DEF CloneMaps
<1> HIDE DEF parsed
<1>4. CASE parent \in DOMAIN parsed
  <2> DEFINE v == parsed[parent]
             d == Put(parsed, p, v)
  <2>1. v \in SUBSET Seen(Segs) /\ v \subseteq Seen(Had(p)) /\ Unique(v)
    BY <1>1, <1>2, <1>4, SeenGrows DEF IsCache, Good
  <2>3. CloneMaps(pid_maps, p, parent) = d
    BY <1>3, <1>4
  <2> HIDE DEF v
  <2>4. IsCache(parsed) /\ Good(parsed) /\ p \in Pid
    BY <1>1, <1>2
  <2>2. /\ IsCache(d) /\ Good(d) /\ DOMAIN d = DOMAIN parsed \cup {p}
        /\ \A q \in DOMAIN parsed : q # p => d[q] = parsed[q]
    BY <2>1, <2>4, PutFacts
  <2> HIDE DEF d
  <2> QED
    BY <1>2, <1>4, <2>2, <2>3
<1>5. CASE parent \notin DOMAIN parsed
  BY <1>2, <1>3, <1>5
<1> QED
  BY <1>4, <1>5

LEMMA HandleForkInv ==
    ASSUME IInv, NEW r \in pending, NEW watched \in BOOLEAN, HandleFork(r, watched)
    PROVE  IInv'
<1> USE DEF IInv, world
<1>1. /\ r.type = "fork" /\ pending' = pending \ {r}
      /\ UNCHANGED <<mode, world, pid_list, hook>>
      /\ gap' = [q \in Pid |->
                   IF watched /\ Clones(r) /\ q = r.pid THEN "inherited"
                   ELSE IF /\ watched /\ Clones(r) /\ q = r.ppid
                           /\ q \in alive \ DOMAIN pid_maps THEN "none"
                   ELSE gap[q]]
      /\ watched => UpdateForkEvent(r)
      /\ ~watched => child_parent_map' = child_parent_map /\ pid_maps' = pid_maps
  BY DEF HandleFork
<1>2. r.pid \in Pid /\ r.ppid \in Pid
  BY <1>1, RecordTypes
<1>3. HookInv'
  BY <1>1 DEF HookInv, Reported
<1>4. gap' \in [Pid -> Gap]
  BY <1>1 DEF TypeOK, Gap
<1>5. /\ DOMAIN child_parent_map' \subseteq Pid
      /\ child_parent_map' \in [DOMAIN child_parent_map' -> Pid]
  <2>1. CASE watched
    <3>1. child_parent_map' = Put(child_parent_map, r.pid, r.ppid)
      BY <1>1, <2>1 DEF UpdateForkEvent
    <3> QED
      BY <1>2, <3>1 DEF Put, TypeOK
  <2>2. CASE ~watched
    BY <1>1, <2>2 DEF TypeOK
  <2> QED
    BY <2>1, <2>2
<1>6. CASE watched /\ Clones(r)
  <2>1. r.pid # r.ppid /\ pid_maps' = CloneMaps(pid_maps, r.pid, r.ppid)
    BY <1>1, <1>6 DEF UpdateForkEvent, Clones
  <2>2. /\ IsCache(pid_maps') /\ Good(pid_maps')
        /\ DOMAIN pid_maps' \subseteq DOMAIN pid_maps \cup {r.pid, r.ppid}
        /\ r.ppid \in DOMAIN pid_maps' \ DOMAIN pid_maps =>
              r.ppid \in alive /\ AllKnown(r.ppid, pid_maps'[r.ppid])
        /\ \A q \in DOMAIN pid_maps : q # r.pid => pid_maps'[q] = pid_maps[q]
    BY <1>1, <2>1, CloneMapsFacts
  <2>3. TypeOK'
    BY <1>1, <1>4, <1>5, <2>2 DEF TypeOK, IsCache
  <2>4. MapsInv' /\ FamilyInv' /\ PendingInv' /\ Good(pid_maps)'
    BY <1>1, <2>2, KeepsWorld
  <2>5. HandledIsKnown'
    <3> SUFFICES ASSUME NEW q \in alive \cap DOMAIN pid_maps', NEW s \in maps[q], gap'[q] = "none", Shown(s)
                 PROVE  Known(s, pid_maps'[q]) \/ \E x \in pending' : x.type = "mmap2" /\ x.pid = q
      BY <1>1 DEF HandledIsKnown
    <3>1. q \in Pid /\ q # r.pid
      BY <1>1, <1>6 DEF TypeOK
    <3>2. CASE q \in DOMAIN pid_maps
      <4>1. gap[q] = "none" /\ pid_maps'[q] = pid_maps[q]
        BY <1>1, <2>2, <3>1, <3>2
      <4> QED
        BY <1>1, <3>2, <4>1 DEF HandledIsKnown
    <3>3. CASE q \notin DOMAIN pid_maps
      BY <2>2, <3>1, <3>3 DEF AllKnown
    <3> QED
      BY <3>2, <3>3
  <2> QED
    BY <1>3, <2>3, <2>4, <2>5
<1>7. CASE ~(watched /\ Clones(r))
  <2>1. pid_maps' = pid_maps
    BY <1>1, <1>7 DEF UpdateForkEvent
  <2>2. \A q \in Pid : gap'[q] = gap[q]
    BY <1>1, <1>7
  <2>3. TypeOK'
    BY <1>1, <1>4, <1>5, <2>1 DEF TypeOK
  <2>4. MapsInv' /\ FamilyInv' /\ PendingInv' /\ Good(pid_maps)'
    BY <1>1, <2>1, KeepsWorld
  <2>5. HandledIsKnown'
    BY <1>1, <2>1, <2>2 DEF HandledIsKnown, TypeOK
  <2> QED
    BY <1>3, <2>3, <2>4, <2>5
<1> QED
  BY <1>6, <1>7

-----------------------------------------------------------------------------

LEMMA NextInv == IInv /\ [Next]_vars => IInv'
<1> SUFFICES ASSUME IInv, [Next]_vars PROVE IInv'
  OBVIOUS
<1>1. ASSUME NEW p \in Pid, Process(p) PROVE IInv'
  BY <1>1, ForkInv, NewThreadInv, MmapInv, MunmapInv, ExitInv DEF Process
<1>2. ASSUME NEW p \in Pid, Ask(p) PROVE IInv'
  BY <1>2, FindLibInv, HitInv, GetOffsetInv, CacheMapsInv DEF Ask
<1>3. ASSUME NEW r \in pending, Handle(r) PROVE IInv'
  BY <1>3, LoseInv, HandleMmap2Inv, HandleForkInv DEF Handle
<1>4. CASE Attach \/ Append \/ ReadMapsByPid \/ TryManualUpdateMaps
  BY <1>4, AttachInv, AppendInv, ReadMapsByPidInv, TryManualUpdateMapsInv
<1>5. CASE UNCHANGED vars
  <2>1. HookInv'
    BY <1>5 DEF IInv, HookInv, Reported, vars, world
  <2> QED
    BY <1>5, <2>1, SameCacheInv DEF IInv, TypeOK, vars, world
<1> QED
  BY <1>1, <1>2, <1>3, <1>4, <1>5 DEF Next

\* What KnownStaysKnown says of one step.
KeepsKnown ==
    \A p \in DOMAIN pid_maps : \A s \in maps[p] \cap maps'[p] :
         Known(s, pid_maps[p]) =>
            \/ Known(s, pid_maps'[p])
            \/ p \in DOMAIN child_parent_map' \ DOMAIN child_parent_map
            \/ hook.at = "read" /\ hook.pid = p /\ ~Known(s, ReadBack(hook.content))
            \/ mode = "brk" /\ ~Shown(s)

\* What is known of q in the cache c stays known in d, or is not found when all is read anew.
Keeps(c, d, q, del_old) ==
    \A s \in maps[q] : Known(s, c[q]) => Known(s, d[q]) \/ (del_old /\ ~Shown(s))

LEMMA ParseKeeps ==
    ASSUME IInv, NEW p \in Pid, NEW del_old \in BOOLEAN, NEW q \in DOMAIN pid_maps
    PROVE  Keeps(pid_maps, ParseMaps(pid_maps, p, del_old), q, del_old)
<1> DEFINE d == ParseMaps(pid_maps, p, del_old)
<1>1. /\ p \notin alive => d = pid_maps
      /\ p \in alive => AllKnown(p, d[p])
      /\ p \in DOMAIN pid_maps /\ ~del_old => pid_maps[p] \subseteq d[p]
      /\ \A x \in DOMAIN pid_maps : x # p => d[x] = pid_maps[x]
  BY CacheType, ParseFacts DEF IInv
<1> HIDE DEF d
<1>2. Keeps(pid_maps, d, q, del_old)
  BY <1>1, KnownGrows DEF Keeps, AllKnown
<1> QED
  BY <1>2 DEF d

LEMMA HandleForkKeeps ==
    ASSUME IInv, NEW r \in pending, NEW watched \in BOOLEAN, HandleFork(r, watched)
    PROVE  KeepsKnown
<1>1. CASE watched /\ Clones(r)
  <2>1. /\ r.type = "fork" /\ r.pid # r.ppid /\ r.pid \notin DOMAIN child_parent_map
        /\ pid_maps' = CloneMaps(pid_maps, r.pid, r.ppid)
        /\ DOMAIN child_parent_map' = DOMAIN child_parent_map \cup {r.pid}
    BY <1>1 DEF HandleFork, UpdateForkEvent, Clones, Put
  <2>2. \A q \in DOMAIN pid_maps : q # r.pid => pid_maps'[q] = pid_maps[q]
    BY <2>1, CloneMapsFacts
  <2> QED
    BY <2>1, <2>2 DEF KeepsKnown
<1>2. CASE ~(watched /\ Clones(r))
  BY <1>2 DEF HandleFork, UpdateForkEvent, KeepsKnown
<1> QED
  BY <1>1, <1>2

LEMMA HandleMmap2Keeps ==
    ASSUME IInv, NEW r \in pending, NEW listed \in BOOLEAN, HandleMmap2(r, listed)
    PROVE  KeepsKnown
<1>1. CASE listed
  <2>1. r.type = "mmap2" /\ pid_maps' = UpdateMaps(pid_maps, r)
    BY <1>1 DEF HandleMmap2
  <2>2. \A q \in DOMAIN pid_maps : pid_maps[q] \subseteq pid_maps'[q]
    BY <2>1, UpdateMapsFacts
  <2> QED
    BY <2>2, KnownGrows DEF KeepsKnown
<1>2. CASE ~listed
  BY <1>2 DEF HandleMmap2, KeepsKnown
<1> QED
  BY <1>1, <1>2

LEMMA TryManualUpdateMapsKeeps ==
    ASSUME IInv, TryManualUpdateMaps
    PROVE  KeepsKnown
<1> DEFINE p == hook.pid
<1>1. hook.at = "read" /\ pid_maps' = ParseMapsContent(pid_maps, p, hook.content, TRUE)
  BY DEF TryManualUpdateMaps
<1>2. p \in Pid /\ hook.content \in SUBSET Segs
  BY DEF IInv, TypeOK, Hook
<1>3. hook.content \subseteq Had(p) /\ Apart(hook.content)
  BY <1>2, MapsHad DEF IInv, HookInv
<1>4. /\ \A s \in ReadBack(hook.content) : Known(s, pid_maps'[p])
      /\ \A q \in DOMAIN pid_maps : q # p => pid_maps'[q] = pid_maps[q]
  BY <1>1, <1>2, <1>3, CacheType, ContentFacts DEF IInv
<1>5. ASSUME NEW s, Known(s, ReadBack(hook.content)) PROVE Known(s, pid_maps'[p])
  <2>1. PICK o \in ReadBack(hook.content) : SameBase(o, s)
    BY <1>5 DEF Known
  <2> QED
    BY <1>4, <2>1 DEF Known, SameBase
<1> QED
  BY <1>1, <1>4, <1>5 DEF KeepsKnown

\* Every way into ParseMaps.
LEMMA AskKeeps ==
    ASSUME IInv, NEW p \in Pid, Ask(p)
    PROVE  KeepsKnown
<1>1. ASSUME NEW del_old \in BOOLEAN, del_old => mode = "brk",
             pid_maps' = ParseMaps(pid_maps, p, del_old)
      PROVE  KeepsKnown
  <2>1. \A q \in DOMAIN pid_maps : Keeps(pid_maps, pid_maps', q, del_old)
    BY <1>1, ParseKeeps
  <2> QED
    BY <1>1, <2>1 DEF Keeps, KeepsKnown
<1>2. ASSUME UNCHANGED pid_maps PROVE KeepsKnown
  BY <1>2 DEF KeepsKnown
<1>3. CASE FindLib(p)
  BY <1>1, <1>2, <1>3 DEF FindLib
<1>4. CASE GetOffset(p)
  BY <1>1, <1>4 DEF GetOffset
<1>5. CASE CacheMaps(p)
  BY <1>1, <1>5 DEF CacheMaps
<1>6. CASE Hit(p)
  BY <1>2, <1>6 DEF Hit
<1> QED
  BY <1>3, <1>4, <1>5, <1>6 DEF Ask

LEMMA NextKeeps == IInv /\ [Next]_vars => [KeepsKnown]_vars
<1> SUFFICES ASSUME IInv, Next PROVE KeepsKnown
  OBVIOUS
<1>1. ASSUME UNCHANGED pid_maps PROVE KeepsKnown
  BY <1>1 DEF KeepsKnown
<1>2. ASSUME NEW p \in Pid, Process(p) PROVE KeepsKnown
  <2>1. UNCHANGED pid_maps
    BY <1>2 DEF Process, Fork, NewThread, Mmap, Munmap, Exit, cache_vars
  <2> QED
    BY <1>1, <2>1
<1>3. ASSUME NEW r \in pending, Handle(r) PROVE KeepsKnown
  <2>1. CASE Lose(r)
    BY <1>1, <2>1 DEF Lose
  <2> QED
    BY <1>3, <2>1, HandleMmap2Keeps, HandleForkKeeps DEF Handle
<1>4. CASE Attach \/ Append \/ ReadMapsByPid
  BY <1>1, <1>4 DEF Attach, Append, ReadMapsByPid
<1> QED
  BY <1>2, <1>3, <1>4, AskKeeps, TryManualUpdateMapsKeeps DEF Next

-----------------------------------------------------------------------------

\* In every state that the processes, the records and the readers of the cache (event_mmap2.go)
\* can reach, the invariant holds.
THEOREM Invariance == Spec => []IInv
BY InitInv, NextInv, PTL DEF Spec

\* The cache, the records that wait and what the dispatchers hold are of their types.
THEOREM TypeCorrect == Spec => []TypeOK
<1>1. IInv => TypeOK
  BY DEF IInv
<1> QED
  BY <1>1, Invariance, PTL

\* However records, whole files and copies of a parent's maps are merged (ParseMapsContent,
\* UpdateMaps, CloneMaps), a path is cached once for each base.
THEOREM CacheHasNoDuplicates == Spec => []NoDuplicates
<1>1. IInv => NoDuplicates
  BY DEF IInv, Good, Unique, NoDuplicates
<1> QED
  BY <1>1, Invariance, PTL

\* GetOffset never names an address of a process after a library that was never mapped under
\* its number or under a number it descends from, and never under a path that neither a record
\* nor /proc gave for it.  A process that had the number before counts: the cache is not
\* cleared when it ends.
THEOREM NothingForeign == Spec => []OnlyFromFamily
<1>1. IInv => OnlyFromFamily
  BY DEF IInv, Good, Had, OnlyFromFamily
<1> QED
  BY <1>1, Invariance, PTL

\* Once UpdateMaps has handled the records of a process, its mappings that /proc shows under
\* their own path are cached, unless there is one of the five named causes.
THEOREM HandledAreKnown == Spec => []HandledIsKnown
<1>1. IInv => HandledIsKnown
  BY DEF IInv
<1> QED
  BY <1>1, Invariance, PTL

\* No handler takes a mapping that stays from the cache, but for the first fork record of a
\* number (UpdateForkEvent), for content that is older or does not show it
\* (TryManualUpdateMaps), and for a breakpoint that reads all anew (CacheMaps).
THEOREM KnownIsKept == Spec => KnownStaysKnown
<1>1. IInv /\ [Next]_vars => [KeepsKnown]_vars
  BY NextKeeps
<1> QED
  BY <1>1, Invariance, PTL DEF Spec, KnownStaysKnown, KeepsKnown

=============================================================================
