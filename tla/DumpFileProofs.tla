----------------------------- MODULE DumpFileProofs -----------------------------
(*****************************************************************************)
(* For any modules, records and channels: the file holds the records dumped  *)
(* before any failed write, whole and in order, and after them a part of one *)
(* more that no record behind it can complete, so that ParseDump shows all   *)
(* of the former and nothing else.                                           *)
(*****************************************************************************)
EXTENDS DumpFile, TLAPS

\* The dispatcher that writes has the lock, and nobody else; it has written at most four
\* parts, and one record is in its hands.
WriterInv ==
    \A m \in Module :
        /\ disp[m].at = "write" <=> file_lock = {m}
        /\ disp[m].at = "receive" <=> disp[m].rec = {}
        /\ disp[m].at \in {"receive", "lock"} => disp[m].done = 0
        /\ disp[m].done < Fields
        /\ \A r, q \in disp[m].rec : r = q

\* What record i is in the file.
InFile(i) == \A f \in 1..Fields : file[Fields * (i - 1) + f] = Whole(dumped[i])[f]

\* Behind the whole records there are the parts that the writer has written.
Tailed(m) ==
    /\ Len(file) = Fields * Len(dumped) + disp[m].done
    /\ \A r \in disp[m].rec, f \in 1..disp[m].done :
          file[Fields * Len(dumped) + f] = [rec |-> r, field |-> f, torn |-> FALSE]

\* What a failed write left at b: k whole parts and then, if anything, no part that could be
\* the next one of a record.
Stuck(b, k) ==
    /\ Len(file) > b
    /\ Len(file) >= b + k
    /\ Len(file) >= b + k + 1 =>
          file[b + k + 1].torn \/ (k >= 1 /\ file[b + k + 1].field # k + 1)
    /\ Len(file) = b + k => \A m \in Module : disp[m].at = "write" => disp[m].done = 0

FileInv ==
    /\ Len(file) >= Fields * Intact
    /\ \A i \in 1..Intact : InFile(i)
    /\ cut = {} => /\ \A m \in Module : disp[m].at = "write" => Tailed(m)
                   /\ (\A m \in Module : disp[m].at # "write") =>
                         Len(file) = Fields * Len(dumped)
    /\ cut # {} => \E k \in 0..4 : Stuck(Fields * Intact, k)

ParserInv ==
    /\ parser # "no" => ~Running
    /\ parser = "no" => shown = << >>

IInv == TypeOK /\ WriterInv /\ FileInv /\ ParserInv /\ DumpReadsBack

\* Intact is a number of dumped records, all of them unless something was cut.
LEMMA IntactIs ==
    ASSUME NEW n \in Nat, NEW c \in SUBSET (0..n), \A k \in c : c = {k}
    PROVE  /\ (IF c = {} THEN n ELSE CHOOSE k \in c : TRUE) \in 0..n
           /\ \A k \in c : (IF c = {} THEN n ELSE CHOOSE j \in c : TRUE) = k
<1>1. CASE c = {}
  BY <1>1
<1>2. CASE c # {}
  <2>1. (CHOOSE k \in c : TRUE) \in c
    BY <1>2
  <2> QED
    BY <1>2, <2>1
<1> QED
  BY <1>1, <1>2

LEMMA IntactNow ==
    ASSUME TypeOK
    PROVE  /\ Intact \in 0..Len(dumped) /\ Intact \in Nat /\ Len(dumped) \in Nat
           /\ cut = {} => Intact = Len(dumped)
<1>1. Len(dumped) \in Nat /\ cut \in SUBSET (0..Len(dumped)) /\ \A k \in cut : cut = {k}
  BY DEF TypeOK
<1> QED
  BY <1>1, IntactIs DEF Intact

LEMMA IntactThen ==
    ASSUME TypeOK'
    PROVE  /\ Intact' \in 0..Len(dumped') /\ Intact' \in Nat /\ Len(dumped') \in Nat
           /\ cut' = {} => Intact' = Len(dumped')
           /\ \A k \in cut' : Intact' = k
<1>1. Len(dumped') \in Nat /\ cut' \in SUBSET (0..Len(dumped')) /\ \A k \in cut' : cut' = {k}
  BY DEF TypeOK
<1> QED
  BY <1>1, IntactIs DEF Intact

LEMMA InitInv == Init => IInv
<1> SUFFICES ASSUME Init PROVE IInv
  OBVIOUS
<1>1. Waiting \in Dispatcher /\ Waiting.at = "receive" /\ Waiting.rec = {} /\ Waiting.done = 0
  BY DEF Waiting, Dispatcher, Fields
<1>2. TypeOK
  BY <1>1, DumpAssumption DEF Init, TypeOK
<1>3. WriterInv
  BY <1>1 DEF Init, WriterInv, Fields
<1>4. Intact = 0
  BY DEF Init, Intact
<1>5. FileInv
  BY <1>1, <1>4 DEF Init, FileInv, Fields
<1>6. ParserInv /\ DumpReadsBack
  BY <1>4 DEF Init, ParserInv, DumpReadsBack, Running
<1> QED
  BY <1>2, <1>3, <1>5, <1>6 DEF IInv

-----------------------------------------------------------------------------
(* While the program runs, nothing is shown.                                 *)

LEMMA NothingShown ==
    ASSUME IInv, Running, UNCHANGED parsing, TypeOK'
    PROVE  ParserInv' /\ DumpReadsBack'
<1>1. parser = "no" /\ parser' = "no" /\ shown = << >> /\ shown' = << >>
  BY DEF IInv, ParserInv, parsing
<1>2. Intact' \in Nat
  BY IntactThen
<1> QED
  BY <1>1, <1>2 DEF ParserInv, DumpReadsBack

\* The steps of runFunc and of the readers leave the file and the dispatchers alone.
LEMMA SameFileInv ==
    ASSUME IInv, Running, UNCHANGED <<disp, file_lock, file, parsing, history>>, TypeOK'
    PROVE  IInv'
<1> USE DEF IInv
<1>1. WriterInv'
  BY DEF WriterInv
<1>2. FileInv'
  BY DEF FileInv, InFile, Tailed, Stuck, Intact, history
<1>3. ParserInv' /\ DumpReadsBack'
  BY NothingShown
<1> QED
  BY <1>1, <1>2, <1>3

LEMMA LifeType ==
    ASSUME TypeOK, Life
    PROVE  TypeOK'
<1>1. Len(Modules) \in Nat
  BY DumpAssumption
<1>2. CASE StartModule
  <2>1. started \in 0..Len(Modules) /\ started < Len(Modules) /\ started' = started + 1
    BY <1>2 DEF StartModule, TypeOK
  <2>2. started' \in 0..Len(Modules)
    BY <1>1, <2>1
  <2>3. reader' \in [Module -> {"off", "on"}]
    BY <1>2 DEF StartModule, TypeOK
  <2> QED
    BY <1>2, <2>2, <2>3 DEF StartModule, TypeOK, parsing, history
<1>3. CASE StartFails
  BY <1>3 DEF StartFails, TypeOK, parsing, history
<1>4. CASE Terminate
  BY <1>4 DEF Terminate, TypeOK, parsing, history
<1>5. CASE DumpClose
  BY <1>5 DEF DumpClose, TypeOK, parsing, history
<1>6. CASE Exit
  BY <1>6 DEF Exit, TypeOK, parsing, history
<1>7. CASE Kill
  BY <1>7 DEF Kill, TypeOK, parsing, history
<1>8. ASSUME NEW m \in Module, NEW ok \in BOOLEAN, CloseModule(m, ok) PROVE TypeOK'
  BY <1>8 DEF CloseModule, TypeOK, parsing, history
<1> QED
  BY <1>2, <1>3, <1>4, <1>5, <1>6, <1>7, <1>8 DEF Life

LEMMA LifeInv ==
    ASSUME IInv, Life
    PROVE  IInv'
<1>1. TypeOK'
  BY LifeType DEF IInv
<1>2. Running /\ UNCHANGED <<disp, file_lock, file, parsing, history>>
  BY DEF Life, StartModule, StartFails, Terminate, DumpClose, Exit, Kill, CloseModule
<1> QED
  BY <1>1, <1>2, SameFileInv

LEMMA ReadInv ==
    ASSUME IInv, NEW m \in Module, NEW kind \in {"event", "none"}, Read(m, kind)
    PROVE  IInv'
<1>1. accepted' = accepted + 1 /\ accepted' \in 0..MaxRecords /\ accepted' \in 1..MaxRecords
  BY DumpAssumption DEF Read, IInv, TypeOK
<1>2. [id |-> accepted + 1, kind |-> kind] \in Record
  BY <1>1 DEF Record
<1>3. incoming' \in [Module -> Seq(Record)]
  BY <1>2 DEF Read, IInv, TypeOK
<1>4. TypeOK'
  BY <1>1, <1>3 DEF Read, IInv, TypeOK, parsing, history
<1>5. Running /\ UNCHANGED <<disp, file_lock, file, parsing, history>>
  BY DEF Read
<1> QED
  BY <1>4, <1>5, SameFileInv

-----------------------------------------------------------------------------
(* The dispatchers.                                                          *)

LEMMA ReceiveInv ==
    ASSUME IInv, NEW m \in Module, Receive(m)
    PROVE  IInv'
<1> DEFINE d == [at |-> "lock", rec |-> {Head(incoming[m])}, done |-> 0]
<1>1. /\ Running /\ disp[m].at = "receive" /\ incoming[m] # << >>
      /\ incoming' = [incoming EXCEPT ![m] = Tail(@)] /\ disp' = [disp EXCEPT ![m] = d]
      /\ UNCHANGED <<life, accepted, file_lock, file, parsing, history>>
  BY DEF Receive
<1>2. Head(incoming[m]) \in Record /\ Tail(incoming[m]) \in Seq(Record)
  BY <1>1 DEF IInv, TypeOK
<1>3. d \in Dispatcher
  BY <1>2 DEF Dispatcher, Fields
<1>4. TypeOK'
  BY <1>1, <1>2, <1>3 DEF IInv, TypeOK, life, parsing, history
<1>5. /\ disp'[m] = d /\ \A x \in Module : x # m => disp'[x] = disp[x]
      /\ \A x \in Module : disp'[x].at = "write" => disp[x].at = "write" /\ disp'[x] = disp[x]
      /\ \A x \in Module : disp[x].at = "write" => disp'[x].at = "write"
  BY <1>1 DEF IInv, TypeOK
<1>6. WriterInv'
  <2>1. /\ disp'[m].at = "lock" /\ disp'[m].rec # {} /\ disp'[m].done = 0
        /\ \A r, q \in disp'[m].rec : r = q
    BY <1>5
  <2>2. file_lock' # {m}
    BY <1>1 DEF IInv, WriterInv
  <2> QED
    BY <1>1, <1>5, <2>1, <2>2 DEF IInv, WriterInv, Fields
<1>7. FileInv'
  BY <1>1, <1>5 DEF IInv, FileInv, InFile, Tailed, Stuck, Intact, history
<1>8. ParserInv' /\ DumpReadsBack'
  BY <1>1, <1>4, NothingShown
<1> QED
  BY <1>4, <1>6, <1>7, <1>8 DEF IInv

LEMMA LockInv ==
    ASSUME IInv, NEW m \in Module, Lock(m)
    PROVE  IInv'
<1>1. /\ Running /\ disp[m].at = "lock" /\ file_lock = {} /\ file_lock' = {m}
      /\ disp' = [disp EXCEPT ![m].at = "write"]
      /\ UNCHANGED <<life, accepted, incoming, file, parsing, history>>
  BY DEF Lock
<1>2. disp[m] \in Dispatcher
  BY DEF IInv, TypeOK
<1>3. /\ disp'[m] \in Dispatcher /\ disp'[m].at = "write" /\ disp'[m].rec = disp[m].rec
      /\ disp'[m].done = disp[m].done /\ \A x \in Module : x # m => disp'[x] = disp[x]
  BY <1>1, <1>2 DEF IInv, TypeOK, Dispatcher
<1>4. TypeOK'
  BY <1>1, <1>3 DEF IInv, TypeOK, life, parsing, history
<1>5. \A x \in Module : disp[x].at # "write"
  BY <1>1 DEF IInv, WriterInv
<1>6. WriterInv'
  BY <1>1, <1>3, <1>5 DEF IInv, WriterInv
<1>7. FileInv'
  <2>1. disp'[m].done = 0 /\ \A x \in Module : disp'[x].at = "write" => x = m
    BY <1>1, <1>3, <1>5 DEF IInv, WriterInv
  <2>2. Intact' = Intact /\ cut' = cut /\ dumped' = dumped
    BY <1>1 DEF Intact, history
  <2>3. Len(file') >= Fields * Intact' /\ \A i \in 1..Intact' : InFile(i)'
    BY <1>1, <2>2 DEF IInv, FileInv, InFile
  <2>4. CASE cut = {}
    <3>1. Len(file) = Fields * Len(dumped) /\ Len(file) \in Nat
      BY <1>5, <2>4 DEF IInv, FileInv, TypeOK
    <3>2. Tailed(m)'
      BY <1>1, <2>1, <2>2, <3>1 DEF Tailed, Fields
    <3> QED
      BY <1>3, <2>1, <2>2, <2>3, <2>4, <3>2 DEF FileInv
  <2>5. CASE cut # {}
    <3>1. PICK k \in 0..4 : Stuck(Fields * Intact, k)
      BY <2>5 DEF IInv, FileInv
    <3>2. Stuck(Fields * Intact, k)'
      BY <1>1, <2>1, <2>2, <3>1 DEF Stuck
    <3> QED
      BY <2>2, <2>3, <2>5, <3>2 DEF FileInv
  <2> QED
    BY <2>4, <2>5
<1>8. ParserInv' /\ DumpReadsBack'
  BY <1>1, <1>4, NothingShown
<1> QED
  BY <1>4, <1>6, <1>7, <1>8 DEF IInv

LEMMA AppendFacts ==
    ASSUME NEW S, NEW s \in Seq(S), NEW e \in S
    PROVE  /\ Append(s, e) \in Seq(S)
           /\ Len(s) \in Nat /\ Len(Append(s, e)) = Len(s) + 1
           /\ \A i \in 1..Len(s) : Append(s, e)[i] = s[i]
           /\ Append(s, e)[Len(s) + 1] = e
OBVIOUS

LEMMA WriterFacts ==
    ASSUME IInv, NEW m \in Module, disp[m].at = "write", NEW r \in disp[m].rec
    PROVE  /\ file_lock = {m} /\ \A x \in Module : x # m => disp[x].at # "write"
           /\ r \in Record /\ \A q \in disp[m].rec : q = r
           /\ disp[m].done \in 0..4 /\ disp[m] \in Dispatcher
           /\ \A torn \in BOOLEAN : Next_part(m, r, torn) \in Part
<1>1. /\ file_lock = {m} /\ \A x \in Module : x # m => disp[x].at # "write"
      /\ \A q \in disp[m].rec : q = r
  BY DEF IInv, WriterInv
<1>2. disp[m] \in Dispatcher /\ disp[m].done < Fields
  BY DEF IInv, TypeOK, WriterInv
<1>3. r \in Record /\ disp[m].done \in 0..4
  BY <1>2 DEF Dispatcher, Fields
<1>4. \A torn \in BOOLEAN : Next_part(m, r, torn) \in Part
  BY <1>3 DEF Next_part, Part, Fields
<1> QED
  BY <1>1, <1>2, <1>3, <1>4

\* Appending to the file leaves the whole records in it as they are.
LEMMA InFileKept ==
    ASSUME IInv, NEW part \in Part, file' = Append(file, part), NEW i \in 1..Intact,
           dumped'[i] = dumped[i]
    PROVE  InFile(i)'
<1> SUFFICES ASSUME NEW f \in 1..Fields
             PROVE  file'[Fields * (i - 1) + f] = Whole(dumped[i])[f]
  BY DEF InFile
<1>1. file \in Seq(Part) /\ Intact \in Nat /\ Len(file) >= Fields * Intact /\ InFile(i)
  BY IntactNow DEF IInv, TypeOK, FileInv
<1>2. \A j \in 1..Len(file) : file'[j] = file[j]
  BY <1>1, AppendFacts
<1>3. Len(file) \in Nat
  BY <1>1
<1>4. Fields * (i - 1) + f \in 1..Len(file)
  BY <1>1, <1>3 DEF Fields
<1> QED
  BY <1>1, <1>2, <1>4 DEF InFile

\* Neither does it take a part that was cut for one that was not.
LEMMA StuckKept ==
    ASSUME IInv, NEW m \in Module, disp[m].at = "write", NEW r \in disp[m].rec, NEW torn \in BOOLEAN,
           file' = Append(file, Next_part(m, r, torn)), Intact' = Intact,
           NEW k \in 0..4, Stuck(Fields * Intact, k)
    PROVE  Stuck(Fields * Intact, k)'
<1> DEFINE part == Next_part(m, r, torn)
           b == Fields * Intact
<1>1. part \in Part /\ part.torn = torn /\ part.field = disp[m].done + 1
  BY WriterFacts DEF Next_part
<1> HIDE DEF part
<1>2. file \in Seq(Part) /\ b \in Nat /\ Len(file) \in Nat
  BY IntactNow DEF IInv, TypeOK, Fields
<1>3. /\ Len(file') = Len(file) + 1 /\ file'[Len(file) + 1] = part
      /\ \A j \in 1..Len(file) : file'[j] = file[j]
  BY <1>1, <1>2, AppendFacts DEF part
<1> HIDE DEF b
<1>4. Stuck(b, k) /\ Fields * Intact' = b
  BY DEF b
<1>5. Len(file') > b /\ Len(file') >= b + k + 1
  BY <1>2, <1>3, <1>4 DEF Stuck
<1>6. file'[b + k + 1].torn \/ (k >= 1 /\ file'[b + k + 1].field # k + 1)
  <2>1. CASE Len(file) >= b + k + 1
    <3>1. b + k + 1 \in 1..Len(file)
      BY <1>2, <2>1
    <3> QED
      BY <1>3, <1>4, <2>1, <3>1 DEF Stuck
  <2>2. CASE Len(file) = b + k
    <3>1. k >= 1 /\ disp[m].done = 0
      BY <1>2, <1>4, <2>2 DEF Stuck
    <3>2. file'[b + k + 1] = part /\ part.field = 1
      BY <1>1, <1>3, <2>2, <3>1
    <3> QED
      BY <3>1, <3>2
  <2> QED
    BY <1>2, <1>4, <2>1, <2>2 DEF Stuck
<1>7. ~(Len(file') = b + k)
  BY <1>2, <1>5
<1> QED
  BY <1>2, <1>4, <1>5, <1>6, <1>7 DEF Stuck

LEMMA WriteType ==
    ASSUME IInv, NEW m \in Module, NEW r \in disp[m].rec, Write(m, r)
    PROVE  TypeOK' /\ WriterInv'
<1> DEFINE part == Next_part(m, r, FALSE)
           k == disp[m].done
<1>1. /\ Running /\ disp[m].at = "write" /\ file' = Append(file, part)
      /\ UNCHANGED <<life, accepted, incoming, parsing, cut>>
  BY DEF Write
<1>2. /\ file_lock = {m} /\ \A x \in Module : x # m => disp[x].at # "write"
      /\ r \in Record /\ \A q \in disp[m].rec : q = r
      /\ k \in 0..4 /\ disp[m] \in Dispatcher /\ part \in Part
  BY <1>1, WriterFacts
<1>3. file' \in Seq(Part)
  BY <1>1, <1>2, AppendFacts DEF IInv, TypeOK
<1>4. Len(dumped) \in Nat /\ cut \subseteq 0..Len(dumped) /\ \A n \in cut : cut = {n}
  <2>1. TypeOK
    BY DEF IInv
  <2> QED
    BY <2>1 DEF TypeOK
<1> HIDE DEF k, part
<1>5. CASE k + 1 = Fields
  <2>1. /\ dumped' = Append(dumped, r) /\ disp' = [disp EXCEPT ![m] = Waiting] /\ file_lock' = {}
    BY <1>5 DEF Write, k
  <2>2. /\ Waiting \in Dispatcher /\ Waiting.at = "receive" /\ Waiting.rec = {} /\ Waiting.done = 0
    BY DEF Waiting, Dispatcher, Fields
  <2>3. dumped' \in Seq(Record) /\ Len(dumped') = Len(dumped) + 1
    BY <1>2, <2>1, AppendFacts DEF IInv, TypeOK
  <2>4. /\ disp' \in [Module -> Dispatcher] /\ disp'[m] = Waiting
        /\ \A x \in Module : x # m => disp'[x] = disp[x]
    BY <2>1, <2>2 DEF IInv, TypeOK
  <2>5. \A n \in 0..Len(dumped) : n \in 0..Len(dumped')
    BY <1>4, <2>3
  <2>6. cut' \subseteq 0..Len(dumped') /\ \A n \in cut' : cut' = {n}
    BY <1>1, <1>4, <2>5
  <2>7. TypeOK'
    BY <1>1, <1>3, <2>1, <2>3, <2>4, <2>6 DEF IInv, TypeOK, life, parsing
  <2>8. WriterInv'
    BY <1>2, <2>1, <2>2, <2>4 DEF IInv, WriterInv, Fields
  <2> QED
    BY <2>7, <2>8
<1>6. CASE k + 1 # Fields
  <2>1. disp' = [disp EXCEPT ![m].done = @ + 1] /\ UNCHANGED <<dumped, file_lock>>
    BY <1>6 DEF Write, k
  <2>2. k + 1 \in 0..Fields /\ k + 1 < Fields
    BY <1>2, <1>6 DEF Fields
  <2>3. /\ disp'[m].at = "write" /\ disp'[m].rec = disp[m].rec /\ disp'[m].done = k + 1
        /\ disp'[m] \in Dispatcher /\ \A x \in Module : x # m => disp'[x] = disp[x]
    BY <1>1, <1>2, <2>1, <2>2 DEF IInv, TypeOK, Dispatcher, k
  <2>4. disp' \in [Module -> Dispatcher]
    BY <2>1, <2>3 DEF IInv, TypeOK
  <2>5. TypeOK'
    BY <1>1, <1>3, <2>1, <2>4 DEF IInv, TypeOK, life, parsing
  <2>6. WriterInv'
    <3>1. WriterInv /\ file_lock' = file_lock
      BY <2>1 DEF IInv
    <3>2. ~(disp'[m].at \in {"receive", "lock"})
      BY <2>3
    <3>3. disp[m].at = "write"
      BY <1>1
    <3> QED
      BY <2>2, <2>3, <3>1, <3>2, <3>3 DEF WriterInv
  <2> QED
    BY <2>5, <2>6
<1> QED
  BY <1>5, <1>6

\* Nothing was cut: the writer's next part is the next part of its record.
LEMMA WriteWhole ==
    ASSUME IInv, NEW m \in Module, NEW r \in disp[m].rec, Write(m, r), cut = {}, TypeOK'
    PROVE  FileInv'
<1> DEFINE part == Next_part(m, r, FALSE)
           k == disp[m].done
           n == Len(dumped)
<1>1. disp[m].at = "write" /\ file' = Append(file, part) /\ cut' = {}
  BY DEF Write
<1>2. /\ \A x \in Module : x # m => disp[x].at # "write"
      /\ r \in Record /\ \A q \in disp[m].rec : q = r
      /\ k \in 0..4 /\ part \in Part
  BY <1>1, WriterFacts
<1>3. part = [rec |-> r, field |-> k + 1, torn |-> FALSE]
  BY DEF Next_part
<1>4. Intact = n /\ n \in Nat /\ Intact' = Len(dumped')
  BY <1>1, IntactNow, IntactThen DEF IInv
<1>5. /\ Len(file) = Fields * n + k
      /\ \A f \in 1..k : file[Fields * n + f] = [rec |-> r, field |-> f, torn |-> FALSE]
  BY <1>1 DEF IInv, FileInv, Tailed
<1> HIDE DEF part
<1>6. /\ Len(file') = Fields * n + k + 1
      /\ \A j \in 1..(Fields * n + k) : file'[j] = file[j]
      /\ file'[Fields * n + k + 1] = part
  <2>1. file \in Seq(Part)
    BY DEF IInv, TypeOK
  <2>2. /\ Len(file') = Len(file) + 1
        /\ \A j \in 1..Len(file) : file'[j] = file[j]
        /\ file'[Len(file) + 1] = part
    BY <1>1, <1>2, <2>1, AppendFacts
  <2>3. Fields * n + k + 1 = Len(file) + 1
    BY <1>5
  <2> QED
    BY <1>5, <2>2, <2>3
<1>7. \A f \in 1..(k + 1) : file'[Fields * n + f] = [rec |-> r, field |-> f, torn |-> FALSE]
  <2> SUFFICES ASSUME NEW f \in 1..(k + 1)
               PROVE  file'[Fields * n + f] = [rec |-> r, field |-> f, torn |-> FALSE]
    OBVIOUS
  <2>1. CASE f = k + 1
    <3>1. Fields * n + f = Fields * n + k + 1
      BY <1>2, <1>4, <2>1 DEF Fields
    <3> QED
      BY <1>3, <1>6, <2>1, <3>1
  <2>2. CASE f # k + 1
    <3>1. f \in 1..k /\ Fields * n + f \in 1..(Fields * n + k)
      BY <1>2, <1>4, <2>2 DEF Fields
    <3> QED
      BY <1>5, <1>6, <3>1
  <2> QED
    BY <2>1, <2>2
<1> HIDE DEF k, n
<1>8. CASE k + 1 = Fields
  <2>1. dumped' = Append(dumped, r) /\ disp' = [disp EXCEPT ![m] = Waiting]
    BY <1>8 DEF Write, k
  <2>2. /\ Len(dumped') = n + 1 /\ dumped'[n + 1] = r
        /\ \A i \in 1..n : dumped'[i] = dumped[i]
    BY <1>2, <2>1, AppendFacts DEF IInv, TypeOK, n
  <2>3. Len(file') = Fields * Len(dumped')
    BY <1>2, <1>4, <1>6, <1>8, <2>2 DEF Fields
  <2>4. \A i \in 1..n : InFile(i)'
    BY <1>1, <1>2, <1>4, <2>2, InFileKept
  <2>5. ASSUME NEW i, i = n + 1 PROVE InFile(i)'
    <3>1. \A f \in 1..Fields : Whole(dumped'[i])[f] = [rec |-> r, field |-> f, torn |-> FALSE]
      BY <2>2, <2>5 DEF Whole
    <3>2. \A f \in 1..Fields : file'[Fields * n + f] = [rec |-> r, field |-> f, torn |-> FALSE]
      BY <1>7, <1>8
    <3>3. i - 1 = n
      BY <1>4, <2>5
    <3>4. \A f \in 1..Fields : file'[Fields * (i - 1) + f] = Whole(dumped'[i])[f]
      BY <3>1, <3>2, <3>3
    <3> QED
      BY <3>4 DEF InFile
  <2>6. \A i \in 1..Len(dumped') : i \in 1..n \/ i = n + 1
    BY <1>4, <2>2
  <2>7. \A i \in 1..Intact' : InFile(i)'
    BY <1>4, <2>4, <2>5, <2>6
  <2>8. \A x \in Module : disp'[x].at # "write"
    BY <1>2, <2>1 DEF Waiting, IInv, TypeOK
  <2>9. Len(file') >= Fields * Intact'
    BY <1>4, <2>2, <2>3 DEF Fields
  <2> QED
    BY <1>1, <2>3, <2>7, <2>8, <2>9 DEF FileInv
<1>9. CASE k + 1 # Fields
  <2>1. disp' = [disp EXCEPT ![m].done = @ + 1] /\ dumped' = dumped
    BY <1>9 DEF Write, k
  <2>2. /\ disp'[m].at = "write" /\ disp'[m].rec = disp[m].rec /\ disp'[m].done = k + 1
        /\ \A x \in Module : x # m => disp'[x] = disp[x]
    BY <1>1, <2>1 DEF IInv, TypeOK, Dispatcher, k
  <2>3. Len(file') = Fields * n + (k + 1) /\ n = Len(dumped')
    BY <1>2, <1>4, <1>6, <2>1 DEF Fields, n
  <2>4. Tailed(m)'
    <3>1. \A q \in disp'[m].rec, f \in 1..disp'[m].done :
             file'[Fields * n + f] = [rec |-> q, field |-> f, torn |-> FALSE]
      BY <1>2, <1>7, <2>2
    <3> QED
      BY <2>2, <2>3, <3>1 DEF Tailed
  <2>5. \A i \in 1..Intact' : InFile(i)'
    BY <1>1, <1>2, <1>4, <2>1, <2>3, InFileKept
  <2>6. Len(file') >= Fields * Intact'
    BY <1>2, <1>4, <2>3 DEF Fields
  <2>7. \A x \in Module : disp'[x].at = "write" => x = m
    BY <1>2, <2>2
  <2> QED
    BY <1>1, <2>2, <2>4, <2>5, <2>6, <2>7 DEF FileInv
<1> QED
  BY <1>8, <1>9

\* Something was cut: whatever is written now is behind it.
LEMMA WriteBehind ==
    ASSUME IInv, NEW m \in Module, disp[m].at = "write", NEW r \in disp[m].rec, NEW torn \in BOOLEAN,
           file' = Append(file, Next_part(m, r, torn)), cut # {}, cut' = cut, TypeOK',
           \A i \in 1..Len(dumped) : dumped'[i] = dumped[i]
    PROVE  FileInv'
<1>1. Next_part(m, r, torn) \in Part
  BY WriterFacts
<1>2. Intact' = Intact
  BY DEF Intact
<1>3. /\ Intact \in 0..Len(dumped) /\ Intact \in Nat /\ Len(dumped) \in Nat
      /\ file \in Seq(Part) /\ Len(file) \in Nat /\ Len(file) >= Fields * Intact
  <2>1. TypeOK /\ FileInv
    BY DEF IInv
  <2>2. file \in Seq(Part)
    BY <2>1 DEF TypeOK
  <2> QED
    BY <2>1, <2>2, IntactNow DEF FileInv
<1>4. \A i \in 1..Intact : dumped'[i] = dumped[i]
  BY <1>3
<1>5. \A i \in 1..Intact' : InFile(i)'
  BY <1>1, <1>2, <1>4, InFileKept
<1>6. Len(file') = Len(file) + 1
  BY <1>1, <1>3, AppendFacts
<1>7. Len(file') >= Fields * Intact'
  BY <1>2, <1>3, <1>6 DEF Fields
<1>8. PICK k \in 0..4 : Stuck(Fields * Intact, k)
  BY DEF IInv, FileInv
<1>9. Stuck(Fields * Intact, k)'
  BY <1>2, <1>8, StuckKept
<1> QED
  BY <1>5, <1>7, <1>9 DEF FileInv

LEMMA WriteInv ==
    ASSUME IInv, NEW m \in Module, NEW r \in disp[m].rec, Write(m, r)
    PROVE  IInv'
<1>1. TypeOK' /\ WriterInv'
  BY WriteType
<1>2. /\ Running /\ disp[m].at = "write" /\ file' = Append(file, Next_part(m, r, FALSE))
      /\ UNCHANGED parsing /\ cut' = cut
      /\ dumped' = dumped \/ dumped' = Append(dumped, r)
  BY DEF Write
<1>3. \A i \in 1..Len(dumped) : dumped'[i] = dumped[i]
  <2>1. dumped \in Seq(Record) /\ r \in Record
    BY <1>2, WriterFacts DEF IInv, TypeOK
  <2> QED
    BY <1>2, <2>1, AppendFacts
<1>4. FileInv'
  BY <1>1, <1>2, <1>3, WriteWhole, WriteBehind
<1>5. ParserInv' /\ DumpReadsBack'
  BY <1>1, <1>2, NothingShown
<1> QED
  BY <1>1, <1>4, <1>5 DEF IInv

LEMMA WriteFailsType ==
    ASSUME IInv, NEW m \in Module, NEW r \in disp[m].rec, NEW torn \in BOOLEAN,
           WriteFails(m, r, torn)
    PROVE  TypeOK' /\ WriterInv'
<1>1. /\ disp[m].at = "write" /\ disp' = [disp EXCEPT ![m].at = "panic"] /\ file_lock' = {}
      /\ file' = IF torn THEN Append(file, Next_part(m, r, TRUE)) ELSE file
      /\ cut' = IF cut = {} /\ (torn \/ disp[m].done > 0) THEN {Len(dumped)} ELSE cut
      /\ UNCHANGED <<life, accepted, incoming, parsing, dumped>>
  BY DEF WriteFails
<1>2. /\ file_lock = {m} /\ \A x \in Module : x # m => disp[x].at # "write"
      /\ disp[m] \in Dispatcher /\ Next_part(m, r, TRUE) \in Part
  BY <1>1, WriterFacts
<1>3. /\ disp'[m] \in Dispatcher /\ disp'[m].at = "panic" /\ disp'[m].rec = disp[m].rec
      /\ disp'[m].done = disp[m].done /\ disp' \in [Module -> Dispatcher]
      /\ \A x \in Module : x # m => disp'[x] = disp[x]
  BY <1>1, <1>2 DEF IInv, TypeOK, Dispatcher
<1>4. file' \in Seq(Part)
  BY <1>1, <1>2, AppendFacts DEF IInv, TypeOK
<1>5. cut' \subseteq 0..Len(dumped') /\ \A n \in cut' : cut' = {n}
  <2>1. Len(dumped) \in 0..Len(dumped)
    BY DEF IInv, TypeOK
  <2> QED
    BY <1>1, <2>1 DEF IInv, TypeOK
<1>6. TypeOK'
  BY <1>1, <1>3, <1>4, <1>5 DEF IInv, TypeOK, life, parsing
<1>7. WriterInv'
  BY <1>1, <1>2, <1>3 DEF IInv, WriterInv
<1> QED
  BY <1>6, <1>7

\* The first write that fails: what was written of the record is cut off.
LEMMA FirstCut ==
    ASSUME IInv, NEW m \in Module, NEW r \in disp[m].rec, NEW torn \in BOOLEAN,
           WriteFails(m, r, torn), cut = {}, TypeOK'
    PROVE  FileInv'
<1> DEFINE part == Next_part(m, r, TRUE)
           n == Len(dumped)
<1>0. PICK k : k = disp[m].done
  OBVIOUS
<1>1. /\ disp[m].at = "write" /\ disp' = [disp EXCEPT ![m].at = "panic"]
      /\ file' = IF torn THEN Append(file, part) ELSE file
      /\ cut' = IF torn \/ k > 0 THEN {n} ELSE {}
      /\ dumped' = dumped
  BY <1>0 DEF WriteFails
<1>2. /\ \A x \in Module : x # m => disp[x].at # "write"
      /\ k \in 0..4 /\ part \in Part
  BY <1>0, <1>1, WriterFacts
<1>3. part.torn
  BY DEF Next_part
<1> HIDE DEF part
<1>4. Intact = n /\ n \in Nat /\ Intact' = n
  BY <1>1, IntactNow, IntactThen DEF IInv
<1>5. Len(file) = Fields * n + k /\ file \in Seq(Part) /\ Len(file) \in Nat
  BY <1>0, <1>1 DEF IInv, FileInv, Tailed, TypeOK
<1>6. \A x \in Module : disp'[x].at # "write"
  BY <1>1, <1>2 DEF IInv, TypeOK
<1>7. CASE torn
  <2>1. Len(file') = Len(file) + 1 /\ file'[Len(file) + 1] = part
    BY <1>1, <1>2, <1>5, <1>7, AppendFacts
  <2>2. Len(file) + 1 = Fields * n + k + 1
    BY <1>5
  <2>3. \A i \in 1..Intact' : InFile(i)'
    BY <1>1, <1>2, <1>4, <1>7, InFileKept
  <2>4. Len(file') = Fields * n + k + 1 /\ file'[Fields * n + k + 1].torn
    BY <1>3, <2>1, <2>2
  <2> HIDE DEF n
  <2>5. Len(file') > Fields * n /\ Len(file') >= Fields * n + k /\ ~(Len(file') = Fields * n + k)
    BY <1>2, <1>4, <2>4 DEF Fields
  <2>6. Stuck(Fields * Intact, k)'
    BY <1>2, <1>4, <2>4, <2>5 DEF Stuck, Fields
  <2>7. Len(file') >= Fields * Intact'
    BY <1>4, <2>5 DEF Fields
  <2>8. cut' # {}
    BY <1>1, <1>7
  <2> QED
    BY <1>2, <2>3, <2>6, <2>7, <2>8 DEF FileInv
<1>8. CASE ~torn
  <2>1. file' = file
    BY <1>1, <1>8
  <2>2. \A i \in 1..Intact' : InFile(i)'
    BY <1>1, <1>4, <2>1 DEF IInv, FileInv, InFile
  <2>3. Len(file') >= Fields * Intact'
    BY <1>2, <1>4, <1>5, <2>1 DEF Fields
  <2>4. CASE k = 0
    BY <1>1, <1>4, <1>5, <1>6, <1>8, <2>1, <2>2, <2>3, <2>4 DEF FileInv, Fields
  <2>5. CASE k > 0
    <3>1. Stuck(Fields * Intact, k)'
      <4> HIDE DEF n
      <4>1. Len(file') = Fields * n + k /\ Len(file') > Fields * n
            /\ ~(Len(file') >= Fields * n + k + 1) /\ Len(file') >= Fields * n + k
        BY <1>2, <1>4, <1>5, <2>1, <2>5 DEF Fields
      <4> QED
        BY <1>2, <1>4, <1>6, <4>1 DEF Stuck, Fields
    <3>2. cut' # {}
      BY <1>1, <2>5
    <3> QED
      BY <1>2, <2>2, <2>3, <3>1, <3>2 DEF FileInv
  <2> QED
    BY <1>2, <2>4, <2>5
<1> QED
  BY <1>7, <1>8

LEMMA WriteFailsInv ==
    ASSUME IInv, NEW m \in Module, NEW r \in disp[m].rec, NEW torn \in BOOLEAN,
           WriteFails(m, r, torn)
    PROVE  IInv'
<1>1. TypeOK' /\ WriterInv'
  BY WriteFailsType
<1>2. /\ Running /\ disp[m].at = "write" /\ disp' = [disp EXCEPT ![m].at = "panic"]
      /\ file' = IF torn THEN Append(file, Next_part(m, r, TRUE)) ELSE file
      /\ cut # {} => cut' = cut
      /\ UNCHANGED parsing /\ dumped' = dumped
  BY DEF WriteFails
<1>3. ASSUME cut = {} PROVE FileInv'
  BY <1>1, <1>3, FirstCut
<1>4. ASSUME cut # {}, torn PROVE FileInv'
  <2>1. file' = Append(file, Next_part(m, r, TRUE)) /\ TRUE \in BOOLEAN
    BY <1>2, <1>4
  <2>2. \A i \in 1..Len(dumped) : dumped'[i] = dumped[i]
    BY <1>2
  <2> QED
    BY <1>1, <1>2, <1>4, <2>1, <2>2, WriteBehind
<1>5. ASSUME cut # {}, ~torn PROVE FileInv'
  <2>0. file' = file /\ dumped' = dumped /\ cut' = cut
    BY <1>2, <1>5
  <2>1. file' = file /\ dumped' = dumped /\ cut' = cut /\ Intact' = Intact
    BY <2>0 DEF Intact
  <2>2. \A x \in Module : disp'[x].at = "write" => disp'[x] = disp[x] /\ disp[x].at = "write"
    BY <1>2 DEF IInv, TypeOK
  <2>3. PICK k \in 0..4 : Stuck(Fields * Intact, k)
    BY <1>5 DEF IInv, FileInv
  <2>4. Stuck(Fields * Intact, k)'
    BY <2>1, <2>2, <2>3 DEF Stuck
  <2> QED
    BY <1>5, <2>1, <2>4 DEF IInv, FileInv, InFile
<1>6. FileInv'
  BY <1>3, <1>4, <1>5
<1>7. ParserInv' /\ DumpReadsBack'
  BY <1>1, <1>2, NothingShown
<1> QED
  BY <1>1, <1>6, <1>7 DEF IInv

LEMMA PanicInv ==
    ASSUME IInv, NEW m \in Module, Panic(m)
    PROVE  IInv'
<1>1. Running /\ UNCHANGED <<disp, file_lock, file, parsing, history>>
  BY DEF Panic
<1>2. TypeOK'
  BY DEF Panic, IInv, TypeOK, parsing, history
<1> QED
  BY <1>1, <1>2, SameFileInv

-----------------------------------------------------------------------------
(* ParseDump.                                                                *)

LEMMA StartParserInv ==
    ASSUME IInv, StartParser
    PROVE  IInv'
<1>1. /\ ~Running /\ parser = "no" /\ parser' = "read"
      /\ UNCHANGED <<life, accepted, incoming, disp, file_lock, file, shown, history>>
  BY DEF StartParser
<1>2. TypeOK'
  BY <1>1 DEF IInv, TypeOK, life, history
<1>3. WriterInv'
  BY <1>1 DEF IInv, WriterInv
<1>4. FileInv'
  BY <1>1 DEF IInv, FileInv, InFile, Tailed, Stuck, Intact, history
<1>5. ParserInv' /\ DumpReadsBack'
  BY <1>1 DEF IInv, ParserInv, DumpReadsBack, Running, life, Intact, history
<1> QED
  BY <1>2, <1>3, <1>4, <1>5 DEF IInv

\* The next record is whole in the file as long as not all that is intact is shown.  What is
\* behind that is no record; it is there only if a dispatcher was writing or a write had failed,
\* and in the former case the file ends in it.
LEMMA NextRecord ==
    ASSUME IInv
    PROVE  /\ Len(shown) \in Nat /\ Intact \in Nat /\ Left \in Nat
           /\ cut = {} => Intact = Len(dumped)
           /\ Len(shown) < Intact => Complete /\ Rest = Whole(dumped[Len(shown) + 1])
           /\ Len(shown) = Intact =>
                 /\ ~Complete
                 /\ Left > 0 => cut # {} \/ \E m \in Module : disp[m].at = "write"
                 /\ Left = 0 => cut = {}
                 /\ cut = {} => CutOff
<1> DEFINE k == Len(shown)
           n == Intact
<1>1. /\ k \in Nat /\ n \in Nat /\ Len(file) \in Nat /\ Len(dumped) \in Nat
      /\ cut = {} => n = Len(dumped)
  <2>1. TypeOK
    BY DEF IInv
  <2>2. Len(shown) \in Nat /\ Len(file) \in Nat
    BY <2>1 DEF TypeOK
  <2> QED
    BY <2>1, <2>2, IntactNow
<1>2. Len(file) >= Fields * n /\ Left = Len(file) - Fields * k
  BY DEF IInv, FileInv, Left
<1>3. ASSUME k < n PROVE Complete /\ Rest = Whole(dumped[k + 1])
  <2>1. k + 1 \in 1..n /\ Left >= Fields /\ (k + 1) - 1 = k
    BY <1>1, <1>2, <1>3 DEF Fields
  <2>2. InFile(k + 1)
    BY <2>1 DEF IInv, FileInv
  <2>3. \A f \in 1..Fields : Rest[f] = Whole(dumped[k + 1])[f]
    BY <2>1, <2>2 DEF InFile, Rest
  <2>4. Rest = Whole(dumped[k + 1])
    BY <2>3 DEF Rest, Whole
  <2>5. Rest[Fields].rec = dumped[k + 1]
    BY <2>4 DEF Whole, Fields
  <2> QED
    BY <2>1, <2>4, <2>5 DEF Complete
<1>4. ASSUME k = n, cut = {}
      PROVE  ~Complete /\ CutOff /\ (Left > 0 => \E m \in Module : disp[m].at = "write")
  <2>1. CASE \A m \in Module : disp[m].at # "write"
    <3>1. Len(file) = Fields * n
      BY <1>1, <1>4, <2>1 DEF IInv, FileInv
    <3>2. Left = 0
      BY <1>1, <1>2, <1>4, <3>1 DEF Fields
    <3> QED
      BY <3>2 DEF Complete, CutOff, Fields
  <2>2. CASE \E m \in Module : disp[m].at = "write"
    <3>1. PICK m \in Module : disp[m].at = "write"
      BY <2>2
    <3>2. Tailed(m) /\ disp[m].done \in 0..4 /\ disp[m].rec # {}
      BY <1>4, <3>1 DEF IInv, FileInv, WriterInv, TypeOK, Dispatcher, Fields
    <3>3. PICK r : r \in disp[m].rec
      BY <3>2
    <3>4. Left = disp[m].done
      BY <1>1, <1>2, <1>4, <3>2 DEF Tailed, Fields
    <3>5. ~Complete
      BY <3>2, <3>4 DEF Complete, Fields
    <3>6. \A f \in 1..Left : f \in 1..Fields /\ Rest[f] = [rec |-> r, field |-> f, torn |-> FALSE]
      <4>1. \A f \in 1..Left : f \in 1..Fields
        BY <3>2, <3>4 DEF Fields
      <4>2. \A f \in 1..Left : Rest[f] = file[Fields * n + f]
        BY <1>4, <4>1 DEF Rest
      <4>3. \A f \in 1..Left : file[Fields * n + f] = [rec |-> r, field |-> f, torn |-> FALSE]
        BY <1>1, <1>4, <3>2, <3>3, <3>4 DEF Tailed
      <4> QED
        BY <4>1, <4>2, <4>3
    <3>7. ASSUME NEW f \in 1..Left PROVE Rest[f].field = f /\ Rest[f].torn = FALSE
      <4>1. Rest[f] = [rec |-> r, field |-> f, torn |-> FALSE]
        BY <3>6
      <4> QED
        BY <4>1
    <3>8. Left <= Fields
      BY <3>2, <3>4 DEF Fields
    <3>9. CutOff
      BY <3>7, <3>8 DEF CutOff
    <3> QED
      BY <2>2, <3>5, <3>9
  <2> QED
    BY <2>1, <2>2
<1>5. ASSUME k = n, cut # {} PROVE ~Complete /\ Left > 0
  <2>1. PICK c \in 0..4 : Stuck(Fields * n, c)
    BY <1>5 DEF IInv, FileInv
  <2>2. Left > 0
    BY <1>1, <1>2, <1>5, <2>1 DEF Stuck, Fields
  <2>3. ASSUME Complete PROVE FALSE
    <3>1. Left >= Fields /\ Rest = Whole(Rest[Fields].rec)
      BY <2>3 DEF Complete
    <3>2. Len(file) >= Fields * n + c + 1
      BY <1>1, <1>2, <1>5, <3>1 DEF Fields
    <3>3. c + 1 \in 1..Fields /\ Fields * n + (c + 1) = Fields * n + c + 1
      BY <1>1 DEF Fields
    <3>4. Rest[c + 1] = file[Fields * n + c + 1]
      BY <1>5, <3>3 DEF Rest
    <3>5. Rest[c + 1].field = c + 1 /\ Rest[c + 1].torn = FALSE
      BY <3>1, <3>3 DEF Whole
    <3>6. file[Fields * n + c + 1].field = c + 1 /\ file[Fields * n + c + 1].torn = FALSE
      BY <3>4, <3>5
    <3> QED
      BY <2>1, <3>2, <3>6 DEF Stuck
  <2> QED
    BY <2>2, <2>3
<1>6. Left \in Nat
  <2>1. k <= n
    BY DEF IInv, DumpReadsBack
  <2> QED
    BY <1>1, <1>2, <2>1 DEF Fields
<1>7. ASSUME k = n
      PROVE  /\ ~Complete
             /\ Left > 0 => cut # {} \/ \E m \in Module : disp[m].at = "write"
             /\ Left = 0 => cut = {}
             /\ cut = {} => CutOff
  <2>1. CASE cut = {}
    BY <1>4, <1>7, <2>1
  <2>2. CASE cut # {}
    <3>1. ~Complete /\ Left > 0
      BY <1>5, <1>7, <2>2
    <3> QED
      BY <1>6, <2>2, <3>1
  <2> QED
    BY <2>1, <2>2
<1> QED
  BY <1>1, <1>3, <1>6, <1>7

LEMMA ParseRecordInv ==
    ASSUME IInv, ParseRecord
    PROVE  IInv'
<1> DEFINE k == Len(shown)
<1>1. /\ parser = "read" /\ ~Running /\ k <= Intact
      /\ UNCHANGED <<life, accepted, incoming, disp, file_lock, file, history>>
  BY DEF ParseRecord, IInv, ParserInv, DumpReadsBack
<1>2. /\ k \in Nat /\ Intact \in Nat /\ Left \in Nat
      /\ cut = {} => Intact = Len(dumped)
      /\ k < Intact => Complete /\ Rest = Whole(dumped[k + 1])
      /\ k = Intact => /\ ~Complete
                       /\ Left > 0 => cut # {} \/ \E m \in Module : disp[m].at = "write"
                       /\ Left = 0 => cut = {}
                       /\ cut = {} => CutOff
  BY NextRecord
<1>3. Intact' = Intact /\ dumped' = dumped /\ cut' = cut /\ disp' = disp
  BY <1>1 DEF Intact, history
<1>4. WriterInv' /\ FileInv'
  BY <1>1 DEF IInv, WriterInv, FileInv, InFile, Tailed, Stuck, Intact, history
<1>5. CASE UNCHANGED shown
  <2>1. parser' \in {"read", "eof", "panic", "astray"}
    BY <1>1, <1>5 DEF ParseRecord
  <2>2. TypeOK'
    BY <1>1, <1>5, <2>1 DEF IInv, TypeOK, life, history
  <2>3. ParserInv'
    BY <1>1, <2>1 DEF ParserInv, Running, life
  <2>4. k < Intact \/ k = Intact
    BY <1>1, <1>2
  <2>5. parser' = "eof" => k = Len(dumped) /\ cut = {}
    <3> SUFFICES ASSUME parser' = "eof" PROVE k = Len(dumped) /\ cut = {}
      OBVIOUS
    <3>1. Left = 0
      BY <1>1 DEF ParseRecord
    <3>2. ~Complete
      BY <3>1 DEF Complete, Fields
    <3> QED
      BY <1>2, <2>4, <3>1, <3>2
  <2>6. parser' = "astray" => k = Intact /\ cut # {}
    <3> SUFFICES ASSUME parser' = "astray" PROVE k = Intact /\ cut # {}
      OBVIOUS
    <3>1. ~Complete /\ ~CutOff
      BY <1>1 DEF ParseRecord
    <3> QED
      BY <1>2, <2>4, <3>1
  <2>7. parser' = "panic" => IF k < Intact THEN dumped[k + 1].kind = "none"
                             ELSE cut # {} \/ \E m \in Module : disp[m].at = "write"
    <3> SUFFICES ASSUME parser' = "panic"
                 PROVE  IF k < Intact THEN dumped[k + 1].kind = "none"
                        ELSE cut # {} \/ \E m \in Module : disp[m].at = "write"
      OBVIOUS
    <3>1. \/ Left > 0 /\ ~Complete
          \/ Complete /\ Rest[Fields].rec.kind = "none"
      BY <1>1 DEF ParseRecord
    <3>2. CASE k < Intact
      BY <1>2, <3>1, <3>2 DEF Whole, Fields
    <3>3. CASE k = Intact
      BY <1>2, <3>1, <3>3
    <3> QED
      BY <1>1, <1>2, <3>2, <3>3
  <2>8. DumpReadsBack'
    BY <1>1, <1>3, <1>5, <2>5, <2>6, <2>7 DEF IInv, DumpReadsBack
  <2> QED
    BY <1>4, <2>2, <2>3, <2>8 DEF IInv
<1>6. CASE Complete /\ shown' = Append(shown, Rest) /\ UNCHANGED parser
  <2>1. k < Intact /\ Rest = Whole(dumped[k + 1])
    BY <1>1, <1>2, <1>6
  <2>2. dumped[k + 1] \in Record
    <3>1. TypeOK
      BY DEF IInv
    <3>2. k + 1 \in 1..Len(dumped)
      BY <1>2, <2>1, <3>1, IntactNow
    <3> QED
      BY <3>1, <3>2 DEF TypeOK
  <2>3. Rest \in [1..Fields -> Part]
    BY <2>1, <2>2 DEF Whole, Part
  <2>4. /\ shown' \in Seq([1..Fields -> Part]) /\ Len(shown') = k + 1
        /\ \A i \in 1..k : shown'[i] = shown[i]
        /\ shown'[k + 1] = Rest
    BY <1>6, <2>3, AppendFacts DEF IInv, TypeOK
  <2>5. TypeOK'
    BY <1>1, <1>6, <2>4 DEF IInv, TypeOK, life, history
  <2>6. ParserInv'
    BY <1>1, <1>6 DEF ParserInv, Running, life
  <2>7. \A i \in 1..(k + 1) : shown'[i] = Whole(dumped[i])
    <3>1. \A i \in 1..k : shown[i] = Whole(dumped[i])
      BY <1>2 DEF IInv, DumpReadsBack, TypeOK
    <3>2. \A i \in 1..(k + 1) : i \in 1..k \/ i = k + 1
      BY <1>2
    <3> QED
      BY <2>1, <2>4, <3>1, <3>2
  <2>8. DOMAIN shown' = 1..(k + 1) /\ k + 1 <= Intact
    BY <1>2, <2>1, <2>4
  <2>9. DumpReadsBack'
    BY <1>1, <1>3, <1>6, <2>4, <2>7, <2>8 DEF DumpReadsBack
  <2> QED
    BY <1>4, <2>5, <2>6, <2>9 DEF IInv
<1> QED
  BY <1>5, <1>6 DEF ParseRecord

LEMMA NextInv == IInv /\ [Next]_vars => IInv'
<1> SUFFICES ASSUME IInv, [Next]_vars PROVE IInv'
  OBVIOUS
<1>1. ASSUME NEW m \in Module, DumpRecord(m) PROVE IInv'
  BY <1>1, LockInv, WriteInv, WriteFailsInv, PanicInv DEF DumpRecord
<1>2. ASSUME NEW m \in Module, NEW kind \in {"event", "none"}, Read(m, kind) PROVE IInv'
  BY <1>2, ReadInv
<1>3. ASSUME NEW m \in Module, Receive(m) PROVE IInv'
  BY <1>3, ReceiveInv
<1>4. CASE UNCHANGED vars
  <2>1. TypeOK' /\ WriterInv'
    BY <1>4 DEF IInv, TypeOK, WriterInv, vars, life, parsing, history
  <2>2. FileInv'
    BY <1>4 DEF IInv, FileInv, InFile, Tailed, Stuck, Intact, vars, history
  <2>3. ParserInv' /\ DumpReadsBack'
    BY <1>4 DEF IInv, ParserInv, DumpReadsBack, Running, Intact, vars, life, parsing, history
  <2> QED
    BY <2>1, <2>2, <2>3 DEF IInv
<1> QED
  BY <1>1, <1>2, <1>3, <1>4, LifeInv, StartParserInv, ParseRecordInv DEF Next

-----------------------------------------------------------------------------

\* Whatever the dispatchers, runFunc and ParseDump do, and however the program ends, the
\* invariant holds: one dispatcher at most is in DumpRecord's writes; what is behind the whole
\* records is its own unfinished one or starts with a part of one that a failed write left.
THEOREM Invariance == Spec => []IInv
BY InitInv, NextInv, PTL DEF Spec

\* Every variable keeps its type; a record never gets more than its five writes.
THEOREM TypeCorrect == Spec => []TypeOK
<1>1. IInv => TypeOK
  BY DEF IInv
<1> QED
  BY <1>1, Invariance, PTL

\* ParseDump shows what DumpRecord wrote before any failed write, record for record, and stops
\* early only at a record that does not decode or that was cut, even if other dispatchers wrote
\* behind it.
THEOREM ReadsBack == Spec => []DumpReadsBack
<1>1. IInv => DumpReadsBack
  BY DEF IInv
<1> QED
  BY <1>1, Invariance, PTL

=============================================================================
