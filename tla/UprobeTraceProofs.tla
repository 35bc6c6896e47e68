---------------------------- MODULE UprobeTraceProofs ----------------------------
(*****************************************************************************)
(* For any threads, functions, frames and command lines: a return shows the  *)
(* arguments of the activation that returns, and is reported, each but for   *)
(* the causes that the properties name.                                      *)
(*****************************************************************************)
EXTENDS UprobeTrace, FiniteSetTheorems, TLAPS

\* The slot of f in thread t is taken, and by which frame.
Has(f, t) == RegsKey(f, t) \in DOMAIN ctx_regs_map
At(f, t) == ctx_regs_map[RegsKey(f, t)]

\* A slot is of a frame of its function, or of none.
Slots(t) ==
    \A f \in Func : Has(f, t) =>
        /\ conf.probes[f] # {}
        /\ At(f, t) \in 0..Depth(t)
        /\ At(f, t) # 0 => stack[t][At(f, t)].fn = f

\* A frame knows whether its function was called again.
Again(t) ==
    \A i, j \in 1..Depth(t) :
        i < j /\ stack[t][i].fn = stack[t][j].fn => stack[t][i].inner # "none"

\* If the slot is taken, then by this frame, or a later one of the function has still to
\* reach its exit point, and will then free it.
Owner(t) ==
    \A f \in Func, i \in 1..Depth(t) :
        stack[t][i].fn = f /\ stack[t][i].inner # "lost" /\ Has(f, t) =>
            \/ At(f, t) = i
            \/ \E j \in 1..Depth(t) : j > i /\ stack[t][j].fn = f /\ ~stack[t][j].left

\* What was saved stays as long as nobody but the frame itself could take it out.
Stored(t) ==
    \A f \in Func, i \in 1..Depth(t) :
        /\ stack[t][i].fn = f /\ stack[t][i].saved
        /\ stack[t][i].inner = "none" /\ ~stack[t][i].left
        => Has(f, t)

ThreadInv(t) == Slots(t) /\ Again(t) /\ Owner(t) /\ Stored(t)

ShapeInv ==
    /\ conf \in Configs
    /\ stack \in [Tid -> Seq(Frame)]
    /\ IsFiniteSet(Active) /\ Cardinality(Active) <= MaxFrames
    /\ DOMAIN ctx_regs_map \subseteq Func \X Tid
    /\ IsFiniteSet(DOMAIN ctx_regs_map)
    /\ Cardinality(DOMAIN ctx_regs_map) <= conf.regs_cap
    /\ event \in Event

IInv ==
    /\ ShapeInv
    /\ \A t \in Tid : ThreadInv(t)
    /\ ReturnShowsOwnArguments
    /\ ReturnsReported

-----------------------------------------------------------------------------
(* Types.                                                                    *)

LEMMA ConfType ==
    ASSUME ShapeInv
    PROVE  conf.regs_cap \in Nat /\ conf.probes \in [Func -> SUBSET {"exit", "ret"}]
BY UprobeAssumption DEF ShapeInv, Config

LEMMA DepthType ==
    ASSUME ShapeInv, NEW t \in Tid
    PROVE  /\ stack[t] \in Seq(Frame) /\ Depth(t) \in Nat /\ DOMAIN stack[t] = 1..Depth(t)
           /\ \A i \in 1..Depth(t) : stack[t][i] \in Frame /\ stack[t][i].fn \in Func
<1>1. stack[t] \in Seq(Frame)
  BY DEF ShapeInv
<1>2. Depth(t) \in Nat /\ DOMAIN stack[t] = 1..Depth(t)
  BY <1>1 DEF Depth
<1>3. \A i \in 1..Depth(t) : stack[t][i] \in Frame
  BY <1>1, <1>2
<1> QED
  BY <1>1, <1>2, <1>3 DEF Frame

LEMMA DepthBound ==
    ASSUME ShapeInv, NEW t \in Tid
    PROVE  Depth(t) <= MaxFrames
<1> DEFINE n == Depth(t)
<1>1. n \in Nat /\ DOMAIN stack[t] = 1..n
  BY DepthType
<1>2. {t} \X (1..n) \subseteq Active
  BY <1>1 DEF Active
<1>3. IsFiniteSet(1..n) /\ Cardinality(1..n) = n
  BY <1>1, FS_Interval
<1>4. IsFiniteSet({t}) /\ Cardinality({t}) = 1
  BY FS_Singleton
<1>5. Cardinality({t} \X (1..n)) = 1 * n
  BY <1>3, <1>4, FS_Product
<1>6. IsFiniteSet(Active) /\ Cardinality(Active) <= MaxFrames
  BY DEF ShapeInv
<1>7. Cardinality({t} \X (1..n)) <= Cardinality(Active)
  BY <1>2, <1>6, FS_Subset
<1>8. Cardinality(Active) \in Nat
  BY <1>6, FS_CardinalityType
<1> QED
  BY <1>1, <1>5, <1>6, <1>7, <1>8, UprobeAssumption

LEMMA InvTypeOK == IInv => TypeOK
<1> SUFFICES ASSUME IInv PROVE TypeOK
  OBVIOUS
<1>1. ShapeInv /\ \A t \in Tid : Slots(t) /\ Depth(t) \in Nat
  BY DepthType DEF IInv, ThreadInv
<1>2. ASSUME NEW k \in DOMAIN ctx_regs_map, ctx_regs_map[k] # 0
      PROVE  ctx_regs_map[k] \in 1..Depth(k[2]) /\ stack[k[2]][ctx_regs_map[k]].fn = k[1]
  <2>1. k[1] \in Func /\ k[2] \in Tid /\ k = RegsKey(k[1], k[2])
    BY <1>1 DEF ShapeInv, RegsKey
  <2>2. Has(k[1], k[2]) /\ At(k[1], k[2]) = ctx_regs_map[k]
    BY <2>1 DEF Has, At
  <2>3. /\ ctx_regs_map[k] \in 0..Depth(k[2])
        /\ stack[k[2]][ctx_regs_map[k]].fn = k[1]
    BY <1>1, <1>2, <2>1, <2>2 DEF Slots
  <2> QED
    BY <1>1, <1>2, <2>1, <2>3
<1> QED
  BY <1>1, <1>2, DepthBound DEF TypeOK, ShapeInv

LEMMA InitInv == Init => IInv
<1> SUFFICES ASSUME Init PROVE IInv
  OBVIOUS
<1>1. Active = {} /\ \A t \in Tid : Depth(t) = 0
  BY DEF Init, Active, Depth
<1>2. IsFiniteSet({}) /\ Cardinality({}) = 0
  BY FS_EmptySet
<1>3. DOMAIN ctx_regs_map = {}
  BY DEF Init
<1>4. conf.regs_cap \in Nat
  BY UprobeAssumption DEF Init, Config
<1>5. event \in Event
  BY DEF Init, Event, Frame
<1>6. ShapeInv
  BY <1>1, <1>2, <1>3, <1>4, <1>5, UprobeAssumption DEF Init, ShapeInv
<1>7. \A t \in Tid : ThreadInv(t)
  BY <1>1, <1>3 DEF ThreadInv, Slots, Again, Owner, Stored, Has
<1>8. event.type = "none"
  BY DEF Init
<1> QED
  BY <1>6, <1>7, <1>8 DEF IInv, ReturnShowsOwnArguments, ReturnsReported

-----------------------------------------------------------------------------
(* A step of thread t.                                                       *)

\* What it does to the slots: f is the only function of which it takes or frees one.
OthersKept(t, f) ==
    \A u \in Tid, g \in Func : u # t \/ g # f =>
        /\ Has(g, u)' <=> Has(g, u)
        /\ Has(g, u) => At(g, u)' = At(g, u)

LEMMA KeysDiffer ==
    \A f, g, t, u : RegsKey(f, t) = RegsKey(g, u) <=> f = g /\ t = u
BY DEF RegsKey

LEMMA OtherThreads ==
    ASSUME IInv, NEW t \in Tid, NEW u \in Tid, u # t, conf' = conf, stack'[u] = stack[u],
           \A g \in Func : /\ Has(g, u)' <=> Has(g, u)
                           /\ Has(g, u) => At(g, u)' = At(g, u)
    PROVE  ThreadInv(u)'
<1>1. ThreadInv(u) /\ ShapeInv
  BY DEF IInv
<1>2. Depth(u)' = Depth(u) /\ \A i \in 1..Depth(u) : stack[u][i].fn \in Func
  BY <1>1, DepthType DEF Depth
<1>3. Slots(u)'
  BY <1>1, <1>2 DEF ThreadInv, Slots
<1>4. Again(u)'
  BY <1>1, <1>2 DEF ThreadInv, Again
<1>5. Owner(u)'
  BY <1>1, <1>2 DEF ThreadInv, Owner
<1>6. Stored(u)'
  BY <1>1, <1>2 DEF ThreadInv, Stored
<1> QED
  BY <1>3, <1>4, <1>5, <1>6 DEF ThreadInv

\* The frames of t change, and no more than one comes.
LEMMA ActiveFacts ==
    ASSUME ShapeInv, NEW t \in Tid, NEW s \in Seq(Frame), stack' = [stack EXCEPT ![t] = s],
           \/ Len(s) <= Depth(t)
           \/ Len(s) = Depth(t) + 1 /\ Cardinality(Active) < MaxFrames
    PROVE  IsFiniteSet(Active') /\ Cardinality(Active') <= MaxFrames
<1> DEFINE top == <<t, Depth(t) + 1>>
<1>1. IsFiniteSet(Active) /\ Cardinality(Active) <= MaxFrames /\ Cardinality(Active) \in Nat
  BY FS_CardinalityType DEF ShapeInv
<1>2. /\ stack'[t] = s /\ \A u \in Tid : u # t => stack'[u] = stack[u]
      /\ DOMAIN s = 1..Len(s) /\ Len(s) \in Nat /\ Depth(t) \in Nat
      /\ DOMAIN stack[t] = 1..Depth(t)
  BY DepthType DEF ShapeInv
<1>3. CASE Len(s) <= Depth(t)
  <2>1. Active' \subseteq Active
    <3> SUFFICES ASSUME NEW u \in Tid, NEW i \in DOMAIN stack'[u] PROVE i \in DOMAIN stack[u]
      BY DEF Active
    <3> QED
      BY <1>2, <1>3
  <2>2. IsFiniteSet(Active') /\ Cardinality(Active') <= Cardinality(Active)
    BY <1>1, <2>1, FS_Subset
  <2>3. Cardinality(Active') \in Nat
    BY <2>2, FS_CardinalityType
  <2> QED
    BY <1>1, <2>2, <2>3, UprobeAssumption
<1>4. CASE Len(s) = Depth(t) + 1 /\ Cardinality(Active) < MaxFrames
  <2>1. Active' \subseteq Active \cup {top}
    <3> SUFFICES ASSUME NEW u \in Tid, NEW i \in DOMAIN stack'[u]
                 PROVE  i \in DOMAIN stack[u] \/ (u = t /\ i = Depth(t) + 1)
      BY DEF Active
    <3> QED
      BY <1>2, <1>4
  <2>2. /\ IsFiniteSet(Active \cup {top})
        /\ Cardinality(Active \cup {top}) = Cardinality(Active)
           \/ Cardinality(Active \cup {top}) = Cardinality(Active) + 1
    BY <1>1, FS_AddElement
  <2>3. IsFiniteSet(Active') /\ Cardinality(Active') <= Cardinality(Active \cup {top})
    BY <2>1, <2>2, FS_Subset
  <2>4. Cardinality(Active') \in Nat
    BY <2>3, FS_CardinalityType
  <2> QED
    BY <1>1, <1>4, <2>2, <2>3, <2>4, UprobeAssumption
<1> QED
  BY <1>3, <1>4

-----------------------------------------------------------------------------
(* The map of registers.                                                     *)

\* The slots of other functions and threads are as before, and so is what is common to all.
LEMMA SaveFacts ==
    ASSUME ShapeInv, NEW t \in Tid, NEW f \in Func, NEW depth \in Nat,
           ctx_regs_map' = save_regs(f, t, depth)
    PROVE  /\ OthersKept(t, f)
           /\ Has(f, t)' => At(f, t)' = depth
           /\ DOMAIN ctx_regs_map' \subseteq Func \X Tid
           /\ IsFiniteSet(DOMAIN ctx_regs_map')
           /\ Cardinality(DOMAIN ctx_regs_map') <= conf.regs_cap
<1> DEFINE key == RegsKey(f, t)
           n == Cardinality(DOMAIN ctx_regs_map)
<1>1. /\ IsFiniteSet(DOMAIN ctx_regs_map) /\ n \in Nat /\ n <= conf.regs_cap
      /\ DOMAIN ctx_regs_map \subseteq Func \X Tid /\ conf.regs_cap \in Nat /\ key \in Func \X Tid
  BY ConfType, FS_CardinalityType DEF ShapeInv, RegsKey
<1>2. CASE key \in DOMAIN ctx_regs_map \/ n < conf.regs_cap
  <2>1. ctx_regs_map' = [k \in DOMAIN ctx_regs_map \cup {key} |->
                            IF k = key THEN depth ELSE ctx_regs_map[k]]
    BY <1>2 DEF save_regs
  <2>2. DOMAIN ctx_regs_map' = DOMAIN ctx_regs_map \cup {key}
    BY <2>1
  <2>3. OthersKept(t, f) /\ At(f, t)' = depth
    BY <2>1, KeysDiffer DEF OthersKept, Has, At
  <2>4. /\ IsFiniteSet(DOMAIN ctx_regs_map \cup {key})
        /\ Cardinality(DOMAIN ctx_regs_map \cup {key}) =
              IF key \in DOMAIN ctx_regs_map THEN n ELSE n + 1
    BY <1>1, FS_AddElement
  <2> QED
    BY <1>1, <1>2, <2>2, <2>3, <2>4
<1>3. CASE key \notin DOMAIN ctx_regs_map /\ n >= conf.regs_cap
  <2>1. ctx_regs_map' = ctx_regs_map
    BY <1>1, <1>3 DEF save_regs
  <2> QED
    BY <1>1, <1>3, <2>1 DEF OthersKept, Has, At
<1> QED
  BY <1>1, <1>2, <1>3

LEMMA ConsumeFacts ==
    ASSUME ShapeInv, NEW t \in Tid, NEW f \in Func, NEW type, NEW skip \in BOOLEAN,
           Consume(f, t, type, skip)
    PROVE  /\ OthersKept(t, f)
           /\ ~Has(f, t)'
           /\ DOMAIN ctx_regs_map' \subseteq Func \X Tid
           /\ IsFiniteSet(DOMAIN ctx_regs_map')
           /\ Cardinality(DOMAIN ctx_regs_map') <= conf.regs_cap
<1> DEFINE key == RegsKey(f, t)
           n == Cardinality(DOMAIN ctx_regs_map)
<1>1. /\ IsFiniteSet(DOMAIN ctx_regs_map) /\ n \in Nat /\ n <= conf.regs_cap
      /\ DOMAIN ctx_regs_map \subseteq Func \X Tid /\ conf.regs_cap \in Nat
  BY ConfType, FS_CardinalityType DEF ShapeInv
<1>2. CASE key \in DOMAIN ctx_regs_map
  <2>1. ctx_regs_map' = [k \in DOMAIN ctx_regs_map \ {key} |-> ctx_regs_map[k]]
    BY <1>2 DEF Consume, del_regs
  <2>2. DOMAIN ctx_regs_map' = DOMAIN ctx_regs_map \ {key}
    BY <2>1
  <2>3. OthersKept(t, f) /\ ~Has(f, t)'
    BY <2>1, KeysDiffer DEF OthersKept, Has, At
  <2>4. DOMAIN ctx_regs_map' \subseteq DOMAIN ctx_regs_map
    BY <2>2
  <2>5. IsFiniteSet(DOMAIN ctx_regs_map') /\ Cardinality(DOMAIN ctx_regs_map') <= n
    BY <1>1, <2>4, FS_Subset
  <2>6. Cardinality(DOMAIN ctx_regs_map') \in Nat
    BY <2>5, FS_CardinalityType
  <2> QED
    BY <1>1, <2>3, <2>4, <2>5, <2>6
<1>3. CASE key \notin DOMAIN ctx_regs_map
  <2>1. ctx_regs_map' = ctx_regs_map
    BY <1>3 DEF Consume
  <2> QED
    BY <1>1, <1>3, <2>1 DEF OthersKept, Has, At
<1> QED
  BY <1>2, <1>3

LEMMA GoneFacts ==
    ASSUME NEW t \in Tid, NEW depth, ctx_regs_map' = Gone(ctx_regs_map, t, depth)
    PROVE  /\ DOMAIN ctx_regs_map' = DOMAIN ctx_regs_map
           /\ \A g, u : Has(g, u)' <=> Has(g, u)
           /\ \A g, u : Has(g, u) =>
                 At(g, u)' = IF u = t /\ At(g, u) >= depth THEN 0 ELSE At(g, u)
<1>1. ctx_regs_map' = [k \in DOMAIN ctx_regs_map |->
                          IF k[2] = t /\ ctx_regs_map[k] >= depth THEN 0 ELSE ctx_regs_map[k]]
  BY DEF Gone
<1>2. \A g, u : RegsKey(g, u)[2] = u
  BY DEF RegsKey
<1> QED
  BY <1>1, <1>2 DEF Has, At

-----------------------------------------------------------------------------
(* A call.                                                                   *)

LEMMA CallInv ==
    ASSUME IInv, NEW t \in Tid, NEW f \in Func, NEW skip \in BOOLEAN, Call(t, f, skip)
    PROVE  IInv'
<1> DEFINE n == Depth(t)
           old == Disturbed(stack[t], f, "returned")
           got == RegsKey(f, t) \in DOMAIN ctx_regs_map'
           frame == [fn |-> f, left |-> FALSE, inner |-> "none", saved |-> got]
           s == Append(old, frame)
<1>1. /\ Cardinality(Active) < MaxFrames /\ conf' = conf
      /\ stack' = [stack EXCEPT ![t] = s]
      /\ event' = [type |-> IF skip THEN "skipped" ELSE "enter", own |-> TRUE, frame |-> frame]
      /\ ctx_regs_map' = IF conf.probes[f] = {} THEN ctx_regs_map ELSE save_regs(f, t, n + 1)
  BY DEF Call
<1>2. /\ ShapeInv /\ ThreadInv(t) /\ stack[t] \in Seq(Frame) /\ n \in Nat
      /\ DOMAIN stack[t] = 1..n
      /\ \A i \in 1..n : stack[t][i] \in Frame /\ stack[t][i].fn \in Func
  BY DepthType DEF IInv
<1>3. /\ frame \in Frame /\ frame.fn = f /\ ~frame.left /\ frame.inner = "none"
      /\ frame.saved <=> Has(f, t)'
  <2>1. got \in BOOLEAN /\ (got <=> Has(f, t)')
    BY DEF Has, RegsKey
  <2> HIDE DEF got
  <2>2. frame \in Frame
    BY <2>1 DEF Frame
  <2> QED
    BY <2>1, <2>2
<1>4. /\ old \in Seq(Frame) /\ Len(old) = n
      /\ \A i \in 1..n : /\ old[i].fn = stack[t][i].fn /\ old[i].saved = stack[t][i].saved
                         /\ old[i].left = stack[t][i].left
                         /\ old[i].inner = IF stack[t][i].fn = f /\ stack[t][i].inner # "lost"
                                           THEN "returned" ELSE stack[t][i].inner
  <2>1. old = [i \in 1..n |-> IF stack[t][i].fn = f /\ stack[t][i].inner # "lost"
                              THEN [stack[t][i] EXCEPT !.inner = "returned"] ELSE stack[t][i]]
    BY <1>2 DEF Disturbed
  <2>2. \A i \in 1..n : old[i] \in Frame
    BY <1>2, <2>1 DEF Frame
  <2>3. old \in Seq(Frame) /\ Len(old) = n
    BY <1>2, <2>1, <2>2
  <2> QED
    BY <1>2, <2>1, <2>3 DEF Frame
<1> HIDE DEF old, frame
<1>5. /\ s \in Seq(Frame) /\ Len(s) = n + 1 /\ s[n + 1] = frame
      /\ \A i \in 1..n : s[i] = old[i]
  BY <1>2, <1>3, <1>4
<1> HIDE DEF s
<1>6. /\ stack'[t] = s /\ stack' \in [Tid -> Seq(Frame)]
      /\ \A u \in Tid : u # t => stack'[u] = stack[u]
      /\ Depth(t)' = n + 1
  BY <1>1, <1>2, <1>5 DEF ShapeInv, Depth
<1>7. /\ OthersKept(t, f)
      /\ Has(f, t)' => conf.probes[f] # {} /\ At(f, t)' = n + 1
      /\ DOMAIN ctx_regs_map' \subseteq Func \X Tid
      /\ IsFiniteSet(DOMAIN ctx_regs_map')
      /\ Cardinality(DOMAIN ctx_regs_map') <= conf.regs_cap
  <2>1. CASE conf.probes[f] = {}
    BY <1>1, <1>2, <2>1 DEF OthersKept, Has, At, ShapeInv, ThreadInv, Slots
  <2>2. CASE conf.probes[f] # {}
    <3>1. ctx_regs_map' = save_regs(f, t, n + 1) /\ n + 1 \in Nat
      BY <1>1, <1>2, <2>2
    <3> QED
      BY <1>2, <2>2, <3>1, SaveFacts
  <2> QED
    BY <2>1, <2>2
<1>8. event' \in Event /\ event'.type \in {"enter", "skipped"}
  BY <1>1, <1>3 DEF Event
<1>9. ShapeInv'
  <2>1. IsFiniteSet(Active') /\ Cardinality(Active') <= MaxFrames
    BY <1>1, <1>2, <1>5, ActiveFacts
  <2> QED
    BY <1>1, <1>2, <1>6, <1>7, <1>8, <2>1 DEF ShapeInv
<1>10. ThreadInv(t)'
  <2>1. \A i \in 1..(n + 1) : i \in 1..n \/ i = n + 1
    BY <1>2
  <2>2. \A g \in Func : g # f => (Has(g, t)' <=> Has(g, t)) /\ (Has(g, t) => At(g, t)' = At(g, t))
    BY <1>7 DEF OthersKept
  <2>3. Slots(t)'
    <3> SUFFICES ASSUME NEW g \in Func, Has(g, t)'
                 PROVE  /\ conf.probes[g] # {} /\ At(g, t)' \in 0..(n + 1)
                        /\ At(g, t)' # 0 => s[At(g, t)'].fn = g
      BY <1>1, <1>6 DEF Slots
    <3>1. CASE g = f
      BY <1>2, <1>3, <1>5, <1>7, <3>1
    <3>2. CASE g # f
      <4>1. /\ conf.probes[g] # {} /\ At(g, t)' \in 0..n
            /\ At(g, t)' # 0 => stack[t][At(g, t)'].fn = g
        BY <1>2, <2>2, <3>2 DEF ThreadInv, Slots
      <4> QED
        BY <1>2, <1>4, <1>5, <4>1
    <3> QED
      BY <3>1, <3>2
  <2>4. Again(t)'
    <3> SUFFICES ASSUME NEW i \in 1..(n + 1), NEW j \in 1..(n + 1), i < j, s[i].fn = s[j].fn
                 PROVE  s[i].inner # "none"
      BY <1>6 DEF Again
    <3>1. i \in 1..n
      BY <1>2
    <3>2. CASE j = n + 1
      BY <1>3, <1>4, <1>5, <3>1, <3>2
    <3>3. CASE j \in 1..n
      BY <1>2, <1>4, <1>5, <3>1, <3>3 DEF ThreadInv, Again
    <3> QED
      BY <2>1, <3>2, <3>3
  <2>5. Owner(t)'
    <3> SUFFICES ASSUME NEW g \in Func, NEW i \in 1..(n + 1),
                        s[i].fn = g, s[i].inner # "lost", Has(g, t)'
                 PROVE  \/ At(g, t)' = i
                        \/ \E j \in 1..(n + 1) : j > i /\ s[j].fn = g /\ ~s[j].left
      BY <1>6 DEF Owner
    <3>1. CASE i = n + 1
      BY <1>3, <1>5, <1>7, <3>1
    <3>2. CASE i \in 1..n /\ g = f
      <4>1. n + 1 > i /\ n + 1 \in 1..(n + 1)
        BY <1>2, <3>2
      <4> QED
        BY <1>3, <1>5, <3>2, <4>1
    <3>3. CASE i \in 1..n /\ g # f
      <4>1. stack[t][i].fn = g /\ stack[t][i].inner # "lost"
        BY <1>2, <1>4, <1>5, <3>3
      <4>2. Has(g, t) /\ At(g, t)' = At(g, t)
        BY <2>2, <3>3
      <4>3. \/ At(g, t) = i
            \/ \E j \in 1..n : j > i /\ stack[t][j].fn = g /\ ~stack[t][j].left
        BY <1>2, <3>3, <4>1, <4>2 DEF ThreadInv, Owner
      <4>4. ASSUME NEW j \in 1..n, j > i, stack[t][j].fn = g, ~stack[t][j].left
            PROVE  j \in 1..(n + 1) /\ s[j].fn = g /\ ~s[j].left
        BY <1>2, <1>4, <1>5, <4>4
      <4> QED
        BY <4>2, <4>3, <4>4
    <3> QED
      BY <2>1, <3>1, <3>2, <3>3
  <2>6. Stored(t)'
    <3> SUFFICES ASSUME NEW g \in Func, NEW i \in 1..(n + 1),
                        s[i].fn = g, s[i].saved, s[i].inner = "none", ~s[i].left
                 PROVE  Has(g, t)'
      BY <1>6 DEF Stored
    <3>1. CASE i = n + 1
      BY <1>3, <1>5, <3>1
    <3>2. CASE i \in 1..n
      <4>1. /\ stack[t][i].saved /\ stack[t][i].inner = "none" /\ ~stack[t][i].left
            /\ stack[t][i].fn = g /\ g # f
        BY <1>2, <1>4, <1>5, <3>2
      <4> QED
        BY <1>2, <2>2, <3>2, <4>1 DEF ThreadInv, Stored
    <3> QED
      BY <2>1, <3>1, <3>2
  <2> QED
    BY <2>3, <2>4, <2>5, <2>6 DEF ThreadInv
<1>11. \A u \in Tid : u # t => ThreadInv(u)'
  BY <1>1, <1>6, <1>7, OtherThreads DEF OthersKept
<1>12. ReturnShowsOwnArguments' /\ ReturnsReported'
  BY <1>8 DEF ReturnShowsOwnArguments, ReturnsReported
<1> QED
  BY <1>9, <1>10, <1>11, <1>12 DEF IInv

-----------------------------------------------------------------------------
(* An exit point or a return, and a frame that goes without one.             *)

\* What a return probe of the innermost frame, of function f, does to the slots of its thread.
LEMMA TopFacts ==
    ASSUME IInv, NEW t \in Tid, NEW n, n = Depth(t), n > 0, NEW f, f = Top(t).fn,
           NEW type \in {"exit", "ret"}, NEW skip \in BOOLEAN, Consume(f, t, type, skip)
    PROVE  /\ ShapeInv /\ ThreadInv(t) /\ stack[t] \in Seq(Frame) /\ n \in Nat \ {0}
           /\ Len(stack[t]) = n
           /\ \A i \in 1..n : stack[t][i] \in Frame /\ stack[t][i].fn \in Func
           /\ Top(t) = stack[t][n] /\ Top(t) \in Frame /\ f \in Func
           /\ OthersKept(t, f) /\ ~Has(f, t)'
           /\ DOMAIN ctx_regs_map' \subseteq Func \X Tid
           /\ IsFiniteSet(DOMAIN ctx_regs_map')
           /\ Cardinality(DOMAIN ctx_regs_map') <= conf.regs_cap
<1>1. /\ ShapeInv /\ ThreadInv(t) /\ stack[t] \in Seq(Frame) /\ n \in Nat \ {0}
      /\ \A i \in 1..n : stack[t][i] \in Frame /\ stack[t][i].fn \in Func
  BY DepthType DEF IInv
<1>2. Top(t) = stack[t][n] /\ Top(t) \in Frame /\ f \in Func
  BY <1>1 DEF Top
<1>3. /\ OthersKept(t, f) /\ ~Has(f, t)'
      /\ DOMAIN ctx_regs_map' \subseteq Func \X Tid
      /\ IsFiniteSet(DOMAIN ctx_regs_map')
      /\ Cardinality(DOMAIN ctx_regs_map') <= conf.regs_cap
  BY <1>1, <1>2, ConsumeFacts
<1> QED
  BY <1>1, <1>2, <1>3 DEF Depth

\* What it shows is of the frame itself, and it shows it if nobody else took it.
LEMMA EventFacts ==
    ASSUME IInv, NEW t \in Tid, NEW n, n = Depth(t), n > 0, NEW f, f = Top(t).fn,
           NEW type \in {"exit", "ret"}, NEW skip \in BOOLEAN, Consume(f, t, type, skip)
    PROVE  event' \in Event /\ ReturnShowsOwnArguments' /\ ReturnsReported'
<1>1. /\ ThreadInv(t) /\ n \in Nat \ {0} /\ Top(t) = stack[t][n] /\ Top(t) \in Frame /\ f \in Func
  BY TopFacts
<1>2. PICK top \in Frame : top = Top(t)
  BY <1>1
<1>3. CASE Has(f, t)
  <2> DEFINE shown == IF skip THEN "skipped" ELSE type
             own == At(f, t) = n
  <2>1. event' = [type |-> shown, frame |-> top, own |-> own]
    BY <1>2, <1>3 DEF Consume, Has, At
  <2>2. own \in BOOLEAN /\ shown \in {"skipped", "exit", "ret"}
    OBVIOUS
  <2>3. top.inner # "lost" => own
    BY <1>1, <1>2, <1>3 DEF ThreadInv, Owner
  <2> HIDE DEF shown, own
  <2>4. event' \in Event /\ event'.type = shown /\ event'.frame = top /\ event'.own = own
    BY <2>1, <2>2 DEF Event
  <2> QED
    BY <2>2, <2>3, <2>4 DEF ReturnShowsOwnArguments, ReturnsReported
<1>4. CASE ~Has(f, t)
  <2>1. event' = [type |-> "dropped", own |-> FALSE, frame |-> top]
    BY <1>2, <1>4 DEF Consume, Has
  <2>2. event' \in Event /\ event'.type = "dropped" /\ event'.frame = top
    BY <2>1 DEF Event
  <2>3. ~top.saved \/ top.inner # "none" \/ top.left
    BY <1>1, <1>2, <1>4 DEF ThreadInv, Stored
  <2> QED
    BY <2>2, <2>3 DEF ReturnShowsOwnArguments, ReturnsReported
<1> QED
  BY <1>3, <1>4

LEMMA ExitPointInv ==
    ASSUME IInv, NEW t \in Tid, NEW skip \in BOOLEAN, ExitPoint(t, skip)
    PROVE  IInv'
<1>1. PICK n, f : n = Depth(t) /\ f = Top(t).fn
  OBVIOUS
<1> DEFINE s == stack'[t]
<1>2. /\ n > 0 /\ conf' = conf /\ Consume(f, t, "exit", skip)
      /\ stack' = [stack EXCEPT ![t][n].left = TRUE]
  BY <1>1 DEF ExitPoint
<1>3. /\ ShapeInv /\ ThreadInv(t) /\ stack[t] \in Seq(Frame) /\ n \in Nat \ {0}
      /\ Len(stack[t]) = n
      /\ \A i \in 1..n : stack[t][i] \in Frame /\ stack[t][i].fn \in Func
      /\ f = stack[t][n].fn
      /\ OthersKept(t, f) /\ ~Has(f, t)'
      /\ DOMAIN ctx_regs_map' \subseteq Func \X Tid
      /\ IsFiniteSet(DOMAIN ctx_regs_map')
      /\ Cardinality(DOMAIN ctx_regs_map') <= conf.regs_cap
  BY <1>1, <1>2, TopFacts
<1>4. event' \in Event /\ ReturnShowsOwnArguments' /\ ReturnsReported'
  BY <1>1, <1>2, EventFacts
<1>5. /\ s = [stack[t] EXCEPT ![n].left = TRUE]
      /\ \A u \in Tid : u # t => stack'[u] = stack[u]
      /\ stack' = [stack EXCEPT ![t] = s]
  BY <1>2, <1>3 DEF ShapeInv
<1> HIDE DEF s
<1>6. [stack[t][n] EXCEPT !.left = TRUE] \in Frame
  <2>1. stack[t][n] \in Frame
    BY <1>3
  <2> QED
    BY <2>1 DEF Frame
<1>7. s \in Seq(Frame) /\ Len(s) = n
  BY <1>3, <1>5, <1>6
<1>8. \A i \in 1..n : /\ s[i].fn = stack[t][i].fn /\ s[i].saved = stack[t][i].saved
                      /\ s[i].inner = stack[t][i].inner
                      /\ s[i].left = IF i = n THEN TRUE ELSE stack[t][i].left
  <2> SUFFICES ASSUME NEW i \in 1..n
               PROVE  /\ s[i].fn = stack[t][i].fn /\ s[i].saved = stack[t][i].saved
                      /\ s[i].inner = stack[t][i].inner
                      /\ s[i].left = IF i = n THEN TRUE ELSE stack[t][i].left
    OBVIOUS
  <2>1. stack[t][i] \in Frame /\ i \in DOMAIN stack[t]
    BY <1>3
  <2>2. s[i] = IF i = n THEN [stack[t][n] EXCEPT !.left = TRUE] ELSE stack[t][i]
    BY <1>5, <2>1
  <2> QED
    BY <2>1, <2>2 DEF Frame
<1>9. stack' \in [Tid -> Seq(Frame)] /\ stack'[t] = s
  BY <1>3, <1>5, <1>7 DEF ShapeInv
<1>10. ShapeInv'
  <2>1. Len(s) <= Depth(t)
    BY <1>1, <1>3, <1>7
  <2>2. IsFiniteSet(Active') /\ Cardinality(Active') <= MaxFrames
    BY <1>3, <1>5, <1>7, <2>1, ActiveFacts
  <2> QED
    BY <1>2, <1>3, <1>4, <1>9, <2>2 DEF ShapeInv
<1>11. Depth(t)' = n
  BY <1>7, <1>9 DEF Depth
<1>12. ThreadInv(t)'
  <2>1. \A g \in Func : Has(g, t)' => g # f /\ Has(g, t) /\ At(g, t)' = At(g, t)
    BY <1>3 DEF OthersKept
  <2>2. Slots(t)'
    BY <1>1, <1>2, <1>3, <1>8, <1>9, <1>11, <2>1 DEF ThreadInv, Slots
  <2>3. Again(t)'
    BY <1>1, <1>3, <1>8, <1>9, <1>11 DEF ThreadInv, Again
  <2>4. Owner(t)'
    <3> SUFFICES ASSUME NEW g \in Func, NEW i \in 1..n,
                        s[i].fn = g, s[i].inner # "lost", Has(g, t)'
                 PROVE  At(g, t)' = i \/ \E j \in 1..n : j > i /\ s[j].fn = g /\ ~s[j].left
      BY <1>9, <1>11 DEF Owner
    <3>1. At(g, t) = i \/ \E j \in 1..n : j > i /\ stack[t][j].fn = g /\ ~stack[t][j].left
      BY <1>1, <1>3, <1>8, <2>1 DEF ThreadInv, Owner
    <3>2. ASSUME NEW j \in 1..n, stack[t][j].fn = g, ~stack[t][j].left
          PROVE  s[j].fn = g /\ ~s[j].left
      BY <1>3, <1>8, <2>1, <3>2
    <3> QED
      BY <2>1, <3>1, <3>2
  <2>5. Stored(t)'
    <3> SUFFICES ASSUME NEW g \in Func, NEW i \in 1..n,
                        s[i].fn = g, s[i].saved, s[i].inner = "none", ~s[i].left
                 PROVE  Has(g, t)'
      BY <1>9, <1>11 DEF Stored
    <3>0. i # n
      BY <1>8
    <3>1. i < n /\ n \in 1..n
      BY <1>3, <3>0
    <3>2. g # f
      <4>1. stack[t][i].fn = stack[t][n].fn => stack[t][i].inner # "none"
        BY <1>1, <1>3, <3>1 DEF ThreadInv, Again
      <4> QED
        BY <1>3, <1>8, <4>1
    <3>3. stack[t][i].fn = g /\ stack[t][i].saved /\ stack[t][i].inner = "none" /\ ~stack[t][i].left
      BY <1>8, <3>0
    <3>4. Has(g, t)
      BY <1>1, <1>3, <3>3 DEF ThreadInv, Stored
    <3> QED
      BY <1>3, <3>2, <3>4 DEF OthersKept
  <2> QED
    BY <2>2, <2>3, <2>4, <2>5 DEF ThreadInv
<1>13. \A u \in Tid : u # t => ThreadInv(u)'
  BY <1>2, <1>3, <1>5, OtherThreads DEF OthersKept
<1> QED
  BY <1>4, <1>10, <1>12, <1>13 DEF IInv

LEMMA SubSeqFacts ==
    ASSUME NEW S, NEW q \in Seq(S), NEW m \in Nat, m <= Len(q)
    PROVE  /\ SubSeq(q, 1, m) \in Seq(S) /\ Len(SubSeq(q, 1, m)) = m
           /\ \A i \in 1..m : SubSeq(q, 1, m)[i] = q[i]
<1>1. \A i \in 1..m : i \in 1..Len(q)
  OBVIOUS
<1>2. Len(SubSeq(q, 1, m)) = m /\ \A i \in 1..m : SubSeq(q, 1, m)[i] = q[i]
  BY <1>1
<1>3. SubSeq(q, 1, m) \in Seq(S)
  BY <1>1
<1> QED
  BY <1>2, <1>3

LEMMA MakeSeq ==
    ASSUME NEW S, NEW m \in Nat, NEW q \in [1..m -> S]
    PROVE  q \in Seq(S) /\ Len(q) = m
OBVIOUS

LEMMA ReturnInv ==
    ASSUME IInv, NEW t \in Tid, NEW skip \in BOOLEAN, Return(t, skip)
    PROVE  IInv'
<1>1. PICK n, f : n = Depth(t) /\ f = Top(t).fn
  OBVIOUS
<1> DEFINE s == stack'[t]
<1>2. /\ n > 0 /\ conf' = conf /\ Consume(f, t, "ret", skip)
      /\ stack' = [stack EXCEPT ![t] = SubSeq(@, 1, n - 1)]
  BY <1>1 DEF Return
<1>3. /\ ShapeInv /\ ThreadInv(t) /\ stack[t] \in Seq(Frame) /\ n \in Nat \ {0}
      /\ Len(stack[t]) = n
      /\ f = stack[t][n].fn
      /\ OthersKept(t, f) /\ ~Has(f, t)'
      /\ DOMAIN ctx_regs_map' \subseteq Func \X Tid
      /\ IsFiniteSet(DOMAIN ctx_regs_map')
      /\ Cardinality(DOMAIN ctx_regs_map') <= conf.regs_cap
  BY <1>1, <1>2, TopFacts
<1>4. event' \in Event /\ ReturnShowsOwnArguments' /\ ReturnsReported'
  BY <1>1, <1>2, EventFacts
<1>5. /\ s = SubSeq(stack[t], 1, n - 1)
      /\ \A u \in Tid : u # t => stack'[u] = stack[u]
      /\ stack' = [stack EXCEPT ![t] = s]
  BY <1>2, <1>3 DEF ShapeInv
<1> HIDE DEF s
<1>6. PICK m \in Nat : m = n - 1 /\ m < n /\ n = m + 1
  BY <1>3
<1>7. s \in Seq(Frame) /\ Len(s) = m /\ \A i \in 1..m : s[i] = stack[t][i]
  BY <1>3, <1>5, <1>6, SubSeqFacts
<1>8. stack' \in [Tid -> Seq(Frame)] /\ stack'[t] = s
  BY <1>3, <1>5, <1>7 DEF ShapeInv
<1>9. ShapeInv'
  <2>1. Len(s) <= Depth(t)
    <3>1. m <= n
      BY <1>3, <1>6
    <3> QED
      BY <1>1, <1>7, <3>1
  <2>2. IsFiniteSet(Active') /\ Cardinality(Active') <= MaxFrames
    BY <1>3, <1>5, <1>7, <2>1, ActiveFacts
  <2> QED
    BY <1>2, <1>3, <1>4, <1>8, <2>2 DEF ShapeInv
<1>10. Depth(t)' = m
  BY <1>7, <1>8 DEF Depth
<1>11. ThreadInv(t)'
  <2>1. \A g \in Func : Has(g, t)' => g # f /\ Has(g, t) /\ At(g, t)' = At(g, t)
    BY <1>3 DEF OthersKept
  <2>2. \A i \in 1..n : i = n \/ i \in 1..m
    BY <1>6
  <2>3. \A i \in 1..m : i \in 1..n /\ i < n
    BY <1>6
  <2>4. Slots(t)'
    <3> SUFFICES ASSUME NEW g \in Func, Has(g, t)'
                 PROVE  /\ conf.probes[g] # {} /\ At(g, t) \in 0..m
                        /\ At(g, t) # 0 => s[At(g, t)].fn = g
      BY <1>2, <1>8, <1>10, <2>1 DEF Slots
    <3>1. /\ conf.probes[g] # {} /\ At(g, t) \in 0..n
          /\ At(g, t) # 0 => stack[t][At(g, t)].fn = g
      BY <1>1, <1>3, <2>1 DEF ThreadInv, Slots
    <3>2. At(g, t) # n
      BY <1>3, <2>1, <3>1
    <3>3. At(g, t) = 0 \/ At(g, t) \in 1..m
      BY <1>6, <3>1, <3>2
    <3> QED
      BY <1>7, <3>1, <3>3
  <2>5. Again(t)'
    BY <1>1, <1>3, <1>7, <1>8, <1>10, <2>3 DEF ThreadInv, Again
  <2>6. Owner(t)'
    <3> SUFFICES ASSUME NEW g \in Func, NEW i \in 1..m,
                        s[i].fn = g, s[i].inner # "lost", Has(g, t)'
                 PROVE  At(g, t)' = i \/ \E j \in 1..m : j > i /\ s[j].fn = g /\ ~s[j].left
      BY <1>8, <1>10 DEF Owner
    <3>1. At(g, t) = i \/ \E j \in 1..n : j > i /\ stack[t][j].fn = g /\ ~stack[t][j].left
      BY <1>1, <1>3, <1>7, <2>1, <2>3 DEF ThreadInv, Owner
    <3>2. ASSUME NEW j \in 1..n, stack[t][j].fn = g, ~stack[t][j].left
          PROVE  j \in 1..m /\ s[j].fn = g /\ ~s[j].left
      BY <1>3, <1>7, <2>1, <2>2, <3>2
    <3> QED
      BY <2>1, <3>1, <3>2
  <2>7. Stored(t)'
    <3> SUFFICES ASSUME NEW g \in Func, NEW i \in 1..m,
                        s[i].fn = g, s[i].saved, s[i].inner = "none", ~s[i].left
                 PROVE  Has(g, t)'
      BY <1>8, <1>10 DEF Stored
    <3>1. /\ i \in 1..n /\ i < n /\ n \in 1..n
          /\ stack[t][i].fn = g /\ stack[t][i].saved
          /\ stack[t][i].inner = "none" /\ ~stack[t][i].left
      BY <1>3, <1>7, <2>3
    <3>2. g # f
      BY <1>1, <1>3, <3>1 DEF ThreadInv, Again
    <3>3. Has(g, t)
      BY <1>1, <1>3, <3>1 DEF ThreadInv, Stored
    <3> QED
      BY <1>3, <3>2, <3>3 DEF OthersKept
  <2> QED
    BY <2>4, <2>5, <2>6, <2>7 DEF ThreadInv
<1>12. \A u \in Tid : u # t => ThreadInv(u)'
  BY <1>2, <1>3, <1>5, OtherThreads DEF OthersKept
<1> QED
  BY <1>4, <1>9, <1>11, <1>12 DEF IInv

LEMMA LeaveInv ==
    ASSUME IInv, NEW t \in Tid, NEW d \in 1..Depth(t), Leave(t, d)
    PROVE  IInv'
<1>1. PICK n : n = Depth(t)
  OBVIOUS
<1>2. /\ ShapeInv /\ ThreadInv(t) /\ stack[t] \in Seq(Frame) /\ n \in Nat
      /\ Len(stack[t]) = n /\ DOMAIN stack[t] = 1..n
      /\ \A i \in 1..n : stack[t][i] \in Frame /\ stack[t][i].fn \in Func
  BY <1>1, DepthType DEF IInv, Depth
<1>3. PICK m \in Nat : m = n - d /\ m < n /\ n - d + 1 = m + 1
  BY <1>1, <1>2
<1> DEFINE s == stack'[t]
           lost == {stack[t][i].fn : i \in {j \in 1..n : j > m /\ ~stack[t][j].left}}
           rest == SubSeq(stack[t], 1, m)
           after == [i \in DOMAIN rest |-> IF rest[i].fn \in lost
                                          THEN [rest[i] EXCEPT !.inner = "lost"] ELSE rest[i]]
<1>4. /\ stack' = [stack EXCEPT ![t] = after]
      /\ ctx_regs_map' = Gone(ctx_regs_map, t, m + 1)
      /\ conf' = conf /\ event' = event
  BY <1>1, <1>2, <1>3 DEF Leave
<1>5. /\ s = after /\ \A u \in Tid : u # t => stack'[u] = stack[u]
      /\ stack' = [stack EXCEPT ![t] = s]
  BY <1>2, <1>4 DEF ShapeInv
<1>6. rest \in Seq(Frame) /\ Len(rest) = m /\ \A i \in 1..m : rest[i] = stack[t][i]
  BY <1>2, <1>3, SubSeqFacts
<1>7. \A j \in 1..n : j > m /\ ~stack[t][j].left => stack[t][j].fn \in lost
  OBVIOUS
<1> HIDE DEF s, rest, lost
<1>8. after = [i \in 1..m |-> IF stack[t][i].fn \in lost
                              THEN [stack[t][i] EXCEPT !.inner = "lost"] ELSE stack[t][i]]
  BY <1>6
<1> HIDE DEF after
<1>9. \A i \in 1..m : i \in 1..n /\ stack[t][i] \in Frame
  BY <1>2, <1>3
<1>10. /\ s \in Seq(Frame) /\ Len(s) = m
       /\ \A i \in 1..m : /\ s[i].fn = stack[t][i].fn /\ s[i].saved = stack[t][i].saved
                          /\ s[i].left = stack[t][i].left
                          /\ s[i].inner = IF stack[t][i].fn \in lost THEN "lost"
                                          ELSE stack[t][i].inner
  <2>1. after \in [1..m -> Frame]
    BY <1>8, <1>9 DEF Frame
  <2>2. after \in Seq(Frame) /\ Len(after) = m
    BY <2>1, MakeSeq
  <2>3. \A i \in 1..m : /\ after[i].fn = stack[t][i].fn /\ after[i].saved = stack[t][i].saved
                        /\ after[i].left = stack[t][i].left
                        /\ after[i].inner = IF stack[t][i].fn \in lost THEN "lost"
                                            ELSE stack[t][i].inner
    BY <1>8, <1>9 DEF Frame
  <2> QED
    BY <1>5, <2>2, <2>3
<1>11. stack' \in [Tid -> Seq(Frame)] /\ stack'[t] = s
  BY <1>2, <1>5, <1>10 DEF ShapeInv
<1>12. /\ DOMAIN ctx_regs_map' = DOMAIN ctx_regs_map
       /\ \A g, u : Has(g, u)' <=> Has(g, u)
       /\ \A g, u : Has(g, u) => At(g, u)' = IF u = t /\ At(g, u) >= m + 1 THEN 0 ELSE At(g, u)
  BY <1>4, GoneFacts
<1>13. ShapeInv'
  <2>1. Len(s) <= Depth(t)
    BY <1>1, <1>2, <1>3, <1>10
  <2>2. IsFiniteSet(Active') /\ Cardinality(Active') <= MaxFrames
    BY <1>2, <1>5, <1>10, <2>1, ActiveFacts
  <2> QED
    BY <1>2, <1>4, <1>11, <1>12, <2>2 DEF ShapeInv
<1>14. Depth(t)' = m
  BY <1>10, <1>11 DEF Depth
<1>15. ThreadInv(t)'
  <2>1. Slots(t)'
    <3> SUFFICES ASSUME NEW g \in Func, Has(g, t)
                 PROVE  /\ conf.probes[g] # {} /\ At(g, t)' \in 0..m
                        /\ At(g, t)' # 0 => s[At(g, t)'].fn = g
      BY <1>4, <1>11, <1>12, <1>14 DEF Slots
    <3>1. /\ conf.probes[g] # {} /\ At(g, t) \in 0..n
          /\ At(g, t) # 0 => stack[t][At(g, t)].fn = g
      BY <1>1, <1>2 DEF ThreadInv, Slots
    <3>2. At(g, t)' = IF At(g, t) >= m + 1 THEN 0 ELSE At(g, t)
      BY <1>12
    <3>3. At(g, t)' = 0 \/ (At(g, t)' = At(g, t) /\ At(g, t) \in 1..m)
      BY <1>2, <3>1, <3>2
    <3> QED
      BY <1>10, <3>1, <3>3
  <2>2. Again(t)'
    BY <1>1, <1>2, <1>9, <1>10, <1>11, <1>14 DEF ThreadInv, Again
  <2>3. Owner(t)'
    <3> SUFFICES ASSUME NEW g \in Func, NEW i \in 1..m,
                        s[i].fn = g, s[i].inner # "lost", Has(g, t)
                 PROVE  At(g, t)' = i \/ \E j \in 1..m : j > i /\ s[j].fn = g /\ ~s[j].left
      BY <1>11, <1>12, <1>14 DEF Owner
    <3>1. stack[t][i].fn = g /\ g \notin lost /\ stack[t][i].inner # "lost" /\ i \in 1..n
      BY <1>9, <1>10
    <3>2. At(g, t) = i \/ \E j \in 1..n : j > i /\ stack[t][j].fn = g /\ ~stack[t][j].left
      BY <1>1, <1>2, <3>1 DEF ThreadInv, Owner
    <3>3. CASE At(g, t) = i
      <4>1. ~(i >= m + 1)
        OBVIOUS
      <4> QED
        BY <1>12, <3>3, <4>1
    <3>4. ASSUME NEW j \in 1..n, j > i, stack[t][j].fn = g, ~stack[t][j].left
          PROVE  j \in 1..m /\ s[j].fn = g /\ ~s[j].left
      <4>1. ~(j > m)
        BY <1>7, <3>1, <3>4
      <4>2. j \in 1..m
        BY <4>1
      <4> QED
        BY <1>10, <3>4, <4>2
    <3> QED
      BY <3>2, <3>3, <3>4
  <2>4. Stored(t)'
    <3> SUFFICES ASSUME NEW g \in Func, NEW i \in 1..m,
                        s[i].fn = g, s[i].saved, s[i].inner = "none", ~s[i].left
                 PROVE  Has(g, t)
      BY <1>11, <1>12, <1>14 DEF Stored
    <3>1. /\ i \in 1..n /\ stack[t][i].fn = g /\ stack[t][i].saved
          /\ stack[t][i].inner = "none" /\ ~stack[t][i].left
      BY <1>9, <1>10
    <3> QED
      BY <1>1, <1>2, <3>1 DEF ThreadInv, Stored
  <2> QED
    BY <2>1, <2>2, <2>3, <2>4 DEF ThreadInv
<1>16. \A u \in Tid : u # t => ThreadInv(u)'
  BY <1>4, <1>5, <1>12, OtherThreads
<1>17. ReturnShowsOwnArguments' /\ ReturnsReported'
  BY <1>4 DEF IInv, ReturnShowsOwnArguments, ReturnsReported
<1> QED
  BY <1>13, <1>15, <1>16, <1>17 DEF IInv

-----------------------------------------------------------------------------

LEMMA NextInv == IInv /\ [Next]_vars => IInv'
<1> SUFFICES ASSUME IInv, [Next]_vars PROVE IInv'
  OBVIOUS
<1>1. ASSUME NEW t \in Tid, ReturnSilently(t) PROVE IInv'
  <2>1. 1 \in 1..Depth(t) /\ Leave(t, 1)
    BY <1>1, DepthType DEF ReturnSilently, IInv
  <2> QED
    BY <2>1, LeaveInv
<1>2. ASSUME NEW t \in Tid, NEW n \in 1..MaxFrames, Unwind(t, n) PROVE IInv'
  BY <1>2, LeaveInv DEF Unwind
<1>3. CASE UNCHANGED vars
  <2>1. ShapeInv'
    BY <1>3 DEF IInv, ShapeInv, Active, vars
  <2>2. \A t \in Tid : ThreadInv(t)'
    BY <1>3 DEF IInv, ThreadInv, Slots, Again, Owner, Stored, Has, At, Depth, vars
  <2>3. ReturnShowsOwnArguments' /\ ReturnsReported'
    BY <1>3 DEF IInv, ReturnShowsOwnArguments, ReturnsReported, vars
  <2> QED
    BY <2>1, <2>2, <2>3 DEF IInv
<1> QED
  BY <1>1, <1>2, <1>3, CallInv, ExitPointInv, ReturnInv DEF Next

\* However calls, exit points, returns and unwinding of any threads follow each other, the
\* slots of ctx_regs_map and the frames fit together.
THEOREM Invariance == Spec => []IInv
BY InitInv, NextInv, PTL DEF Spec

\* Every variable keeps its type, the map its bound, and each entry is of a frame of its
\* function or of none (save_regs, del_regs).
THEOREM TypeCorrect == Spec => []TypeOK
BY InvTypeOK, Invariance, PTL

\* What load_regs finds on a return are the registers of the activation that returns, unless
\* the same function was left inside it without a return probe.
THEOREM ShowsOwnArguments == Spec => []ReturnShowsOwnArguments
<1>1. IInv => ReturnShowsOwnArguments
  BY DEF IInv
<1> QED
  BY <1>1, Invariance, PTL

\* load_regs finds nothing only after a full map, a nested call or an exit point.
THEOREM AllReported == Spec => []ReturnsReported
<1>1. IInv => ReturnsReported
  BY DEF IInv
<1> QED
  BY <1>1, Invariance, PTL

=============================================================================
