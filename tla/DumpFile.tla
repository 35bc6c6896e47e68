-------------------------------- MODULE DumpFile --------------------------------
(*****************************************************************************)
(* --dump and --parse: the file of raw records, from the start of the        *)
(* modules to the end of the program and to the program that reads it.       *)
(*                                                                           *)
(* The dispatchers of all modules append to one file.  file_lock makes the   *)
(* five writes of a record one unit for the other dispatchers, but neither   *)
(* DumpClose nor the end of the program waits for it, and a panic on the way *)
(* unlocks it before the program ends.  ParseDump reads the file back record *)
(* by record and gives up at the first one that is cut or does not become an *)
(* event.                                                                    *)
(*****************************************************************************)
EXTENDS Naturals, Sequences

CONSTANTS
    Modules,        \* the modules of this command line, in the order they are started
    MaxRecords,     \* bound on the records read
    InCap           \* MAX_INCOMING_CHAN_LEN: 1024

Module == {Modules[i] : i \in DOMAIN Modules}

ASSUME DumpAssumption ==
    /\ Modules \in Seq(Module)
    /\ MaxRecords \in Nat
    /\ InCap \in Nat

VARIABLES
    main,           \* runFunc: "start", "run", "close" or "closed"
    started,        \* number of modules that run
    closing,        \* modules still to be closed
    reader,         \* the reader of each module: "off" or "on"
    accepted,       \* number of records put on a channel
    incoming,       \* the channel of each module's processor
    disp,           \* the dispatcher of each module
    file_lock,      \* {} or {module}
    file,           \* what is in the file: the parts of records
    open,           \* DumpHandle is open
    end,            \* how the program ended, or "no"
    parser,         \* ParseDump in a later run: "no", "read", "eof", "panic" or "astray"
    shown,          \* what it has printed: the parts it took for a record
    dumped,         \* history: the records whose DumpRecord wrote everything
    cut             \* history: how many they were when a part of one more was left behind, or {}

life == <<main, started, closing, reader, open, end>>
parsing == <<parser, shown>>
history == <<dumped, cut>>
vars == <<life, accepted, incoming, disp, file_lock, file, parsing, history>>

\* "none": ParseEvent yields an error or nil.  Without --dump such a record is skipped.
Record == [id : 1..MaxRecords, kind : {"event", "none"}]

\* total_len, event_index, rec_type, rec_len and rec_raw.
Fields == 5

\* A part is torn if only some of its bytes got into the file.
Part == [rec : Record, field : 1..Fields, torn : BOOLEAN]

Whole(r) == [f \in 1..Fields |-> [rec |-> r, field |-> f, torn |-> FALSE]]

\* done: number of parts written; at "panic" the deferred Unlock has run.
Dispatcher ==
    [at : {"receive", "lock", "write", "panic"}, rec : SUBSET Record, done : 0..Fields]

Waiting == [at |-> "receive", rec |-> {}, done |-> 0]

Running == end = "no"

-----------------------------------------------------------------------------
(* runFunc.                                                                  *)

StartModule ==
    /\ Running
    /\ main = "start"
    /\ started < Len(Modules)
    /\ started' = started + 1
    /\ reader' = [reader EXCEPT ![Modules[started + 1]] = "on"]
    /\ main' = IF started + 1 = Len(Modules) THEN "run" ELSE main
    /\ UNCHANGED <<closing, open, end, accepted, incoming, disp, file_lock, file, parsing, history>>

\* os.Exit(1), whatever the modules before it are doing.
StartFails ==
    /\ Running
    /\ main = "start"
    /\ end' = "failed"
    /\ UNCHANGED <<main, started, closing, reader, open, accepted, incoming, disp, file_lock, file,
                   parsing, history>>

\* SIGTERM or SIGINT; the context is cancelled.
Terminate ==
    /\ Running
    /\ main = "run"
    /\ main' = "close"
    /\ closing' = Module
    /\ UNCHANGED <<started, reader, open, end, accepted, incoming, disp, file_lock, file, parsing,
                   history>>

\* Close of one module, in any order.  Dumping creates no workers, so that only closing a
\* reader can fail; then Fatalf ends the program.
CloseModule(m, ok) ==
    /\ Running
    /\ main = "close"
    /\ m \in closing
    /\ closing' = closing \ {m}
    /\ end' = IF ok THEN end ELSE "failed"
    /\ UNCHANGED <<main, started, reader, open, accepted, incoming, disp, file_lock, file, parsing,
                   history>>

DumpClose ==
    /\ Running
    /\ main = "close"
    /\ closing = {}
    /\ main' = "closed"
    /\ open' = FALSE
    /\ UNCHANGED <<started, closing, reader, end, accepted, incoming, disp, file_lock, file, parsing,
                   history>>

Exit ==
    /\ Running
    /\ main = "closed"
    /\ end' = "ok"
    /\ UNCHANGED <<main, started, closing, reader, open, accepted, incoming, disp, file_lock, file,
                   parsing, history>>

Kill ==
    /\ Running
    /\ end' = "killed"
    /\ UNCHANGED <<main, started, closing, reader, open, accepted, incoming, disp, file_lock, file,
                   parsing, history>>

-----------------------------------------------------------------------------
(* The readers and dispatchers.                                              *)

\* A reader that has a record in hand when the context is cancelled still delivers it.
Read(m, kind) ==
    /\ Running
    /\ reader[m] = "on"
    /\ accepted < MaxRecords
    /\ Len(incoming[m]) < InCap
    /\ accepted' = accepted + 1
    /\ incoming' = [incoming EXCEPT ![m] = Append(@, [id |-> accepted + 1, kind |-> kind])]
    /\ reader' = IF main \in {"close", "closed"} THEN [reader EXCEPT ![m] = "off"] ELSE reader
    /\ UNCHANGED <<main, started, closing, open, end, disp, file_lock, file, parsing, history>>

Receive(m) ==
    /\ Running
    /\ disp[m].at = "receive"
    /\ incoming[m] # << >>
    /\ incoming' = [incoming EXCEPT ![m] = Tail(@)]
    /\ disp' = [disp EXCEPT ![m] = [at |-> "lock", rec |-> {Head(incoming[m])}, done |-> 0]]
    /\ UNCHANGED <<life, accepted, file_lock, file, parsing, history>>

\* Bug variant: the file is not locked.
Lock_ignored(m) ==
    /\ Running
    /\ disp[m].at = "lock"
    /\ file_lock' = {m}
    /\ disp' = [disp EXCEPT ![m].at = "write"]
    /\ UNCHANGED <<life, accepted, incoming, file, parsing, history>>

Lock(m) ==
    /\ Running
    /\ disp[m].at = "lock"
    /\ file_lock = {}
    /\ file_lock' = {m}
    /\ disp' = [disp EXCEPT ![m].at = "write"]
    /\ UNCHANGED <<life, accepted, incoming, file, parsing, history>>

Next_part(m, r, torn) == [rec |-> r, field |-> disp[m].done + 1, torn |-> torn]

\* Bug variant: an early return keeps the lock.
Write_keepsLock(m, r) ==
    /\ Running /\ open
    /\ disp[m].at = "write" /\ r \in disp[m].rec
    /\ file' = Append(file, Next_part(m, r, FALSE))
    /\ IF disp[m].done + 1 = Fields
       THEN /\ dumped' = Append(dumped, r)
            /\ disp' = [disp EXCEPT ![m] = Waiting]
       ELSE /\ disp' = [disp EXCEPT ![m].done = @ + 1]
            /\ UNCHANGED dumped
    /\ UNCHANGED <<life, accepted, incoming, file_lock, parsing, cut>>

\* Bug variant: one part too many.
Write_past(m, r) ==
    /\ Running /\ open
    /\ disp[m].at = "write" /\ r \in disp[m].rec
    /\ file' = Append(file, Next_part(m, r, FALSE))
    /\ IF disp[m].done = Fields
       THEN /\ dumped' = Append(dumped, r)
            /\ disp' = [disp EXCEPT ![m] = Waiting]
            /\ file_lock' = {}
       ELSE /\ disp' = [disp EXCEPT ![m].done = @ + 1]
            /\ UNCHANGED <<dumped, file_lock>>
    /\ UNCHANGED <<life, accepted, incoming, parsing, cut>>

\* One binary.Write; after the fifth the lock is released.
Write(m, r) ==
    /\ Running /\ open
    /\ disp[m].at = "write" /\ r \in disp[m].rec
    /\ file' = Append(file, Next_part(m, r, FALSE))
    /\ IF disp[m].done + 1 = Fields
       THEN /\ dumped' = Append(dumped, r)
            /\ disp' = [disp EXCEPT ![m] = Waiting]
            /\ file_lock' = {}
       ELSE /\ disp' = [disp EXCEPT ![m].done = @ + 1]
            /\ UNCHANGED <<dumped, file_lock>>
    /\ UNCHANGED <<life, accepted, incoming, parsing, cut>>

\* The file is closed, or the disk is full and took some of the bytes or none.
WriteFails(m, r, torn) ==
    /\ Running
    /\ disp[m].at = "write" /\ r \in disp[m].rec
    /\ torn => open
    /\ file' = IF torn THEN Append(file, Next_part(m, r, TRUE)) ELSE file
    /\ cut' = IF cut = {} /\ (torn \/ disp[m].done > 0) THEN {Len(dumped)} ELSE cut
    /\ disp' = [disp EXCEPT ![m].at = "panic"]
    /\ file_lock' = {}
    /\ UNCHANGED <<life, accepted, incoming, parsing, dumped>>

\* Until the panic has ended the program, the other dispatchers go on.
Panic(m) ==
    /\ Running
    /\ disp[m].at = "panic"
    /\ end' = "panic"
    /\ UNCHANGED <<main, started, closing, reader, open, accepted, incoming, disp, file_lock, file,
                   parsing, history>>

-----------------------------------------------------------------------------
(* ParseDump, in a program of its own.                                       *)

StartParser ==
    /\ ~Running
    /\ parser = "no"
    /\ parser' = "read"
    /\ UNCHANGED <<life, accepted, incoming, disp, file_lock, file, shown, history>>

Left == Len(file) - Fields * Len(shown)

\* The parts of the next record.
Rest == [f \in 1..Fields |-> file[Fields * Len(shown) + f]]

Complete == Left >= Fields /\ Rest = Whole(Rest[Fields].rec)

\* The file ends in the next record.
CutOff ==
    /\ Left <= Fields
    /\ \A f \in 1..Left : Rest[f].field = f /\ (Rest[f].torn => f = Left)

\* Only an end of the file in front of a record is one.  Behind a part of a record ParseDump
\* may take bytes of other records for the rest of it, and go on with what it makes of them.
ParseRecord ==
    /\ parser = "read"
    /\ \/ /\ Left = 0
          /\ parser' = "eof"
          /\ UNCHANGED shown
       \/ /\ Left > 0
          /\ ~Complete
          /\ parser' \in {"panic"} \cup (IF CutOff THEN {} ELSE {"astray"})
          /\ UNCHANGED shown
       \/ /\ Complete
          /\ Rest[Fields].rec.kind = "event"
          /\ shown' = Append(shown, Rest)
          /\ UNCHANGED parser
       \/ /\ Complete
          /\ Rest[Fields].rec.kind = "none"
          /\ parser' = "panic"
          /\ UNCHANGED shown
    /\ UNCHANGED <<life, accepted, incoming, disp, file_lock, file, history>>

-----------------------------------------------------------------------------

Init ==
    /\ main = "start"
    /\ started = 0
    /\ closing = {}
    /\ reader = [m \in Module |-> "off"]
    /\ accepted = 0
    /\ incoming = [m \in Module |-> << >>]
    /\ disp = [m \in Module |-> Waiting]
    /\ file_lock = {}
    /\ file = << >>
    /\ open = TRUE
    /\ end = "no"
    /\ parser = "no"
    /\ shown = << >>
    /\ dumped = << >>
    /\ cut = {}

Life ==
    \/ StartModule \/ StartFails \/ Terminate \/ DumpClose \/ Exit \/ Kill
    \/ \E m \in Module, ok \in BOOLEAN : CloseModule(m, ok)

DumpRecord(m) ==
    \/ Lock(m)
    \/ \E r \in disp[m].rec : Write(m, r) \/ \E torn \in BOOLEAN : WriteFails(m, r, torn)
    \/ Panic(m)

Next ==
    \/ Life
    \/ \E m \in Module : \/ \E kind \in {"event", "none"} : Read(m, kind)
                        \/ Receive(m) \/ DumpRecord(m)
    \/ StartParser \/ ParseRecord

\* Dispatchers that can run do, and Go's mutex lets everyone in who waits.  Nothing makes a
\* signal come or a record arrive.
Fairness ==
    /\ \A m \in Module : WF_vars(Receive(m) \/ DumpRecord(m)) /\ SF_vars(Lock(m))
    /\ WF_vars(ParseRecord)

Spec == Init /\ [][Next]_vars /\ Fairness

-----------------------------------------------------------------------------

TypeOK ==
    /\ main \in {"start", "run", "close", "closed"}
    /\ started \in 0..Len(Modules)
    /\ closing \subseteq Module
    /\ reader \in [Module -> {"off", "on"}]
    /\ accepted \in 0..MaxRecords
    /\ incoming \in [Module -> Seq(Record)]
    /\ disp \in [Module -> Dispatcher]
    /\ file_lock \in {{}} \cup {{m} : m \in Module}
    /\ file \in Seq(Part)
    /\ open \in BOOLEAN
    /\ end \in {"no", "ok", "failed", "panic", "killed"}
    /\ parser \in {"no", "read", "eof", "panic", "astray"}
    /\ shown \in Seq([1..Fields -> Part])
    /\ dumped \in Seq(Record)
    /\ cut \subseteq 0..Len(dumped) /\ \A n \in cut : cut = {n}

\* The number of records in front of any that was left incomplete.
Intact == IF cut = {} THEN Len(dumped) ELSE CHOOSE n \in cut : TRUE

\* What --parse prints is what was dumped, record for record, in that order, and it loses
\* nothing of what was dumped before a write failed.  It ends well only after all of it;
\* otherwise the next record does not decode, or one was cut because a write failed or the
\* session ended while a dispatcher was writing.
DumpReadsBack ==
    /\ Len(shown) <= Intact
    /\ \A i \in DOMAIN shown : shown[i] = Whole(dumped[i])
    /\ parser = "eof" => Len(shown) = Len(dumped) /\ cut = {}
    /\ parser = "astray" => Len(shown) = Intact /\ cut # {}
    /\ parser = "panic" => IF Len(shown) < Intact
                           THEN dumped[Len(shown) + 1].kind = "none"
                           ELSE cut # {} \/ \E m \in Module : disp[m].at = "write"

\* A record that was accepted gets into the file as long as the program runs: the two
\* dispatchers never wait for each other for ever.
AcceptedAreDumped ==
    \A n \in 1..MaxRecords :
        accepted >= n ~> (\E i \in DOMAIN dumped : dumped[i].id = n) \/ ~Running

=============================================================================
