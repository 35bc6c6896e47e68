------------------------------- MODULE ReadArgs -------------------------------
(*****************************************************************************)
(* read_args: the interpreter in the BPF programs that runs the opcode list  *)
(* of a hook point and fills the event.                                      *)
(*                                                                           *)
(* Its context op_ctx lives in a per-cpu array and outlives the event: a     *)
(* program clears the first 8 bytes (the counts and flags) and sets the      *)
(* indices, the rest still holds what an earlier event left.  Slot 1 of the  *)
(* array belongs to raw_syscalls_sys_exit, slot 0 to the other programs.     *)
(*****************************************************************************)
EXTENDS ArgDecode

CONSTANTS
    Modules,        \* what a BPF object may be loaded with, with the calls it then sees: sets
                    \* of hook points hit with registers regs; ret is x0 at a return
    BufSize,        \* ARGS_BUF_SIZE: 32000
    MaxElement      \* MAX_ELEMENT_SIZE: 110

\* The index, with the number of the hook point; lr, sp and pc come with an entry.
Header(point) == IF point.kind = "exit" THEN 5 ELSE 5 + 3 * 9

\* None of these looks at op->value.
PostCodes == {"SKIP", "SAVE_REG", "MOVE_REG_VALUE", "MOVE_POINTER_VALUE", "SAVE_STRUCT",
              "SET_READ_LEN_REG_VALUE", "SET_READ_LEN_POINTER_VALUE",
              "SET_BREAK_COUNT_REG_VALUE", "SET_BREAK_COUNT_POINTER_VALUE"}

Codes == PostCodes \cup
    {"READ_REG", "READ_RET", "READ_POINTER", "READ_STD_STRING", "SET_READ_LEN", "ADD_OFFSET",
     "SUB_OFFSET", "ADD_REG", "SUB_REG", "MOVE_TMP_VALUE", "SET_TMP_VALUE", "SET_BREAK_COUNT", "FOR_BREAK",
     "FILTER_VALUE", "FILTER_BUFFER", "FILTER_STRING", "SAVE_ADDR", "SAVE_STRING",
     "SAVE_PTR_STRING"}

Opcode == [code : Codes, pre : {"SKIP", "SET_REG_INDEX", "ADD_OFFSET"}, post : PostCodes,
           value : Nat]

\* GetRegIndex accepts the names of registers only.
IsCall(call) ==
    /\ call.point \in Point /\ Accepted(call.point)
    /\ call.ret \in Nat
    /\ \A r \in DOMAIN call.regs : call.regs[r] \in Nat
    /\ \A k \in DOMAIN call.point.args :
           \A r \in Added(call.point.args[k]) : r.value \in DOMAIN call.regs
    /\ LET list == OpKeyList(call.point)
       IN  \A k \in DOMAIN list :
               list[k].code = "READ_REG" => list[k].value \in DOMAIN call.regs

ASSUME ReadArgsAssumption ==
    /\ \A calls \in Modules : \A call \in calls : IsCall(call)
    /\ MaxElement \in Nat /\ MaxElement >= 8
    /\ BufSize \in Nat /\ BufSize >= 32 + MaxBytes

VARIABLES
    module,         \* the object that is loaded, as the calls it sees
    pc,             \* "idle", "run", "done", "submitted" or "skipped"
    event,          \* the call being reported
    op_key_list,    \* of its point
    op_ctx,         \* op_ctx_map
    i,              \* the turn of the loop in read_args
    saved,          \* the elements in event->args, without the header
    buf_off,        \* event->buf_off
    spoilt          \* history: what went wrong with this event, see Causes

vars == << module, pc, event, op_key_list, op_ctx, i, saved, buf_off, spoilt >>

\* "cut": the loop ran out of turns; "haunted": the second half of an opcode of an earlier
\* event ran first; "full": an element did not fit.
Causes == {"cut", "haunted", "full"}

\* A new per-cpu array holds zero, and zero is not OP_SKIP: "NONE" is an opcode that the
\* switch in read_args does not know.  reg_index is set by every READ_REG, save_index is read
\* by no parser, and reg_0 is in event.
ZeroContext ==
    [loop_count |-> 0, break_count |-> 0, apply_filter |-> FALSE, match_whitelist |-> FALSE,
     match_blacklist |-> FALSE, loop_index |-> 0, op_key_index |-> 0, post_code |-> "NONE",
     str_len |-> 0, read_len |-> 0, read_addr |-> 0, reg_value |-> 0, pointer_value |-> 0,
     tmp_value |-> 0]

SlotOf(point) == IF point.kind = "exit" THEN 1 ELSE 0

Slot == SlotOf(event.point)

\* Bug variant: the memset is missing, the flags of the event before stay.
Cleared_index(ctx) == [ctx EXCEPT !.op_key_index = 0]

\* What a program does to the context before it calls read_args.
Cleared(ctx) ==
    [ctx EXCEPT !.loop_count = 0, !.break_count = 0, !.apply_filter = FALSE,
                !.match_whitelist = FALSE, !.match_blacklist = FALSE, !.op_key_index = 0]

Init ==
    /\ module \in Modules
    /\ event \in module
    /\ op_key_list = OpKeyList(event.point)
    /\ pc = "idle"
    /\ op_ctx = [s \in {0, 1} |-> ZeroContext]
    /\ i = 0 /\ saved = << >> /\ buf_off = 0 /\ spoilt = {}

\* A hook point is hit.  The points of returns all have the argument "ret", so that the test
\* of op_count before read_args is never false.
Hit(call) ==
    LET ctx == op_ctx[SlotOf(call.point)]
    IN  /\ pc \in {"idle", "submitted", "skipped"}
        /\ event' = call
        /\ op_key_list' = OpKeyList(call.point)
        /\ op_ctx' = [op_ctx EXCEPT ![SlotOf(call.point)] = Cleared(ctx)]
        /\ spoilt' = IF ctx.post_code \in {"SKIP", "NONE"} THEN {} ELSE {"haunted"}
        /\ pc' = "run"
        /\ i' = 0 /\ saved' = << >> /\ buf_off' = Header(call.point)
        /\ UNCHANGED module

-----------------------------------------------------------------------------
(* The loop.                                                                 *)

\* Keys behind the end of the list are 0, which is OPC_SKIP.
KeyAt(index) == IF index < Len(op_key_list) THEN op_key_list[index + 1] ELSE OPC_SKIP

\* The context of this program; a pending post_code goes first.
Ctx == op_ctx[Slot]

Pending == Ctx.post_code # "SKIP"

op == IF Pending THEN OPC_SKIP ELSE KeyAt(Ctx.op_key_index)

op_code ==
    LET ctx == Ctx
    IN  IF ctx.post_code = "SKIP" THEN KeyAt(ctx.op_key_index).code ELSE ctx.post_code

\* The context when the opcode runs.
Fetched ==
    IF Pending THEN [Ctx EXCEPT !.post_code = "SKIP"]
    ELSE [Ctx EXCEPT !.post_code = op.post, !.op_key_index = @ + 1]

OutOfTurns == i >= MaxOp \/ (~Pending /\ Ctx.op_key_index >= MaxOp)

Stop ==
    /\ pc = "run"
    /\ OutOfTurns \/ op_code = "SKIP"
    /\ pc' = "done"
    /\ spoilt' = IF op_code = "SKIP" THEN spoilt ELSE spoilt \cup {"cut"}
    /\ op_ctx' = [op_ctx EXCEPT ![Slot] = IF OutOfTurns THEN @ ELSE Fetched]
    /\ UNCHANGED << module, event, op_key_list, i, saved, buf_off >>

\* One turn: opcode code runs and leaves the context ctx.
Turn(code, ctx) ==
    /\ pc = "run"
    /\ op_code = code
    /\ ~OutOfTurns
    /\ op_ctx' = [op_ctx EXCEPT ![Slot] = ctx]
    /\ i' = i + 1
    /\ pc' = IF ctx.match_blacklist THEN "done" ELSE "run"
    /\ UNCHANGED << module, event, op_key_list >>

Quiet(code, ctx) == Turn(code, ctx) /\ UNCHANGED << saved, buf_off, spoilt >>

-----------------------------------------------------------------------------
(* The opcodes that read and compute.                                        *)

\* The first turn on a cpu does nothing.
Unknown == Quiet("NONE", Fetched)

ReadRegister ==
    \/ Quiet("READ_REG", [Fetched EXCEPT !.reg_value = event.regs[op.value]])
    \/ Quiet("READ_RET", [Fetched EXCEPT !.reg_value = event.ret])

ReadPointer ==
    LET offset == IF op.pre = "ADD_OFFSET" THEN op.value ELSE 0
    IN  Quiet("READ_POINTER", [Fetched EXCEPT !.pointer_value = WordAt(Fetched.read_addr + offset)])

SetReadLen ==
    \/ Quiet("SET_READ_LEN", [Fetched EXCEPT !.read_len = op.value])
    \/ Quiet("SET_READ_LEN_REG_VALUE",
             [Fetched EXCEPT !.read_len = Least(@, Fetched.reg_value)])
    \/ Quiet("SET_READ_LEN_POINTER_VALUE",
             [Fetched EXCEPT !.read_len = Least(@, Fetched.pointer_value)])

MoveAddress ==
    \/ Quiet("ADD_OFFSET", [Fetched EXCEPT !.read_addr = @ + op.value])
    \/ Quiet("SUB_OFFSET", [Fetched EXCEPT !.read_addr = @ - op.value])
    \/ Quiet("ADD_REG", [Fetched EXCEPT !.read_addr = @ + Fetched.reg_value])
    \/ Quiet("SUB_REG", [Fetched EXCEPT !.read_addr = @ - Fetched.reg_value])
    \/ Quiet("MOVE_REG_VALUE", [Fetched EXCEPT !.read_addr = Fetched.reg_value])
    \/ Quiet("MOVE_POINTER_VALUE", [Fetched EXCEPT !.read_addr = Fetched.pointer_value])
    \/ Quiet("MOVE_TMP_VALUE", [Fetched EXCEPT !.read_addr = Fetched.tmp_value])
    \/ Quiet("SET_TMP_VALUE", [Fetched EXCEPT !.tmp_value = Fetched.read_addr])

ReadStdString ==
    Quiet("READ_STD_STRING", [Fetched EXCEPT !.read_addr = StringData(@)])

\* Bug variant: the count of the traced program is taken as it is.
BreakCount_raw(n) == n

BreakCount(n) == Least(MaxLoop, n)

SetBreakCount ==
    \/ Quiet("SET_BREAK_COUNT", [Fetched EXCEPT !.break_count = BreakCount(op.value)])
    \/ Quiet("SET_BREAK_COUNT_REG_VALUE",
             [Fetched EXCEPT !.break_count = BreakCount(Fetched.reg_value)])
    \/ Quiet("SET_BREAK_COUNT_POINTER_VALUE",
             [Fetched EXCEPT !.break_count = BreakCount(Fetched.pointer_value)])

\* Bug variant: one turn of the body too many.
Looped_long(ctx) ==
    LET start == IF ctx.loop_count = 0 THEN ctx.op_key_index ELSE ctx.loop_index
    IN  IF ctx.loop_count > ctx.break_count
        THEN [ctx EXCEPT !.loop_count = 0, !.break_count = 0, !.loop_index = 0]
        ELSE [ctx EXCEPT !.loop_count = @ + 1, !.loop_index = start, !.op_key_index = start]

\* The same opcode opens and closes a loop: the first one met remembers where the body starts.
Looped(ctx) ==
    LET start == IF ctx.loop_count = 0 THEN ctx.op_key_index ELSE ctx.loop_index
    IN  IF ctx.loop_count >= ctx.break_count
        THEN [ctx EXCEPT !.loop_count = 0, !.break_count = 0, !.loop_index = 0]
        ELSE [ctx EXCEPT !.loop_count = @ + 1, !.loop_index = start, !.op_key_index = start]

ForBreak == Quiet("FOR_BREAK", Looped(Fetched))

-----------------------------------------------------------------------------
(* The opcodes that compare.                                                 *)

\* As the code has it: "greater" lets through what is smaller than the number of the rule.
Rejects(rule, value) ==
    \/ rule.type = "equal" /\ rule.num # value
    \/ rule.type = "greater" /\ rule.num <= value
    \/ rule.type = "less" /\ rule.num >= value

FilterValue ==
    Quiet("FILTER_VALUE",
          [Fetched EXCEPT !.match_blacklist = @ \/ Rejects(Filters[op.value], Fetched.reg_value)])

\* The rules for the content of a buffer compare up to 8 bytes and are all whitelist rules.
FilterBuffer ==
    LET rule  == Filters[op.value]
        white == rule.type = "white"
    IN  Quiet("FILTER_BUFFER",
              [Fetched EXCEPT !.apply_filter = @ \/ white,
                              !.match_whitelist = @ \/ (white /\ Fetched.read_addr \in rule.at)])

\* strcmp_by_map, when no other cpu is comparing: str_len is that of the last string saved.
StrMatch(ctx, rule) == ctx.str_len >= rule.len /\ ctx.read_addr \in rule.at

FilterString ==
    LET rule  == Filters[op.value]
        match == StrMatch(Fetched, rule)
    IN  Quiet("FILTER_STRING",
              [Fetched EXCEPT !.apply_filter = @ \/ rule.type = "white",
                              !.match_whitelist = @ \/ (rule.type = "white" /\ match),
                              !.match_blacklist = @ \/ (rule.type = "black" /\ match)])

-----------------------------------------------------------------------------
(* The opcodes that save.  What does not fit is left out without a trace.    *)

RegFits(off) == off <= BufSize - (MaxElement + 1)

\* Bug variant: the room for index and length is forgotten.
BytesFit_tight(off) == off <= BufSize - MaxBytes

BytesFit(off) == off <= BufSize - (MaxBytes + 1 + 4)

\* All but a full block are taken modulo MaxBytes, the length that is saved is not.
Bytes(n) == IF n = MaxBytes THEN n ELSE n % MaxBytes

\* The event after save_to_submit_buf and save_bytes_to_buf; an address that cannot be read
\* is saved as an empty block.
Save(ev, elem) ==
    LET n    == IF elem.kind = "reg" THEN 1 + 8 ELSE 1 + 4 + Bytes(elem.len)
        fits == IF elem.kind = "reg" THEN RegFits(ev.off) ELSE BytesFit(ev.off)
    IN  IF fits
        THEN [elems |-> Append(ev.elems, elem), off |-> ev.off + n, full |-> ev.full]
        ELSE [elems |-> ev.elems, off |-> ev.off, full |-> TRUE]

Event == [elems |-> saved, off |-> buf_off, full |-> FALSE]

Written(ev) ==
    /\ saved' = ev.elems
    /\ buf_off' = ev.off
    /\ spoilt' = IF ev.full THEN spoilt \cup {"full"} ELSE spoilt

SaveRegister ==
    \/ Turn("SAVE_REG", Fetched) /\ Written(Save(Event, RegElem(Fetched.reg_value)))
    \/ Turn("SAVE_ADDR", Fetched) /\ Written(Save(Event, RegElem(Fetched.read_addr)))

SaveBytes ==
    LET ctx == [Fetched EXCEPT !.read_len = Least(@, MaxBytes)]
    IN  /\ Turn("SAVE_STRUCT", ctx)
        /\ Written(Save(Event, BytesAt(ctx.read_addr, ctx.read_len)))

\* str_len is set when the string was saved.
SaveString ==
    LET ev    == Save(Event, StringAt(Fetched.read_addr))
        known == Fetched.read_addr \in DOMAIN Text /\ ~ev.full
    IN  /\ Turn("SAVE_STRING",
                IF known THEN [Fetched EXCEPT !.str_len = Text[Fetched.read_addr]] ELSE Fetched)
        /\ Written(ev)

\* One pointer of an array and its string; where no string can be saved the loop ends.
SavePtrString ==
    LET ptr   == WordAt(Fetched.read_addr)
        ev    == Save(Event, RegElem(ptr))
        known == ptr \in DOMAIN Text /\ BytesFit(ev.off)
    IN  /\ Turn("SAVE_PTR_STRING",
                IF known THEN Fetched ELSE [Fetched EXCEPT !.loop_count = Fetched.break_count])
        /\ Written(Save(ev, IF known THEN StringAt(ptr) ELSE Block(MagicLen, 0)))

-----------------------------------------------------------------------------
(* The end of the program.                                                   *)

Unwanted(ctx) == ctx.match_blacklist \/ (ctx.apply_filter /\ ~ctx.match_whitelist)

Skip ==
    /\ pc = "done"
    /\ Unwanted(op_ctx[Slot])
    /\ pc' = "skipped"
    /\ UNCHANGED << module, event, op_key_list, op_ctx, i, saved, buf_off, spoilt >>

\* raw_syscalls_sys_exit saves the return value last.
Submit ==
    /\ pc = "done"
    /\ ~Unwanted(op_ctx[Slot])
    /\ pc' = "submitted"
    /\ Written(IF event.point.kind = "exit" THEN Save(Event, RegElem(event.ret)) ELSE Event)
    /\ UNCHANGED << module, event, op_key_list, op_ctx, i >>

Next ==
    \/ \E call \in module : Hit(call)
    \/ Stop \/ Unknown
    \/ ReadRegister \/ ReadPointer \/ SetReadLen \/ MoveAddress \/ ReadStdString
    \/ SetBreakCount \/ ForBreak
    \/ FilterValue \/ FilterBuffer \/ FilterString
    \/ SaveRegister \/ SaveBytes \/ SaveString \/ SavePtrString
    \/ Skip \/ Submit

Spec == Init /\ [][Next]_vars

-----------------------------------------------------------------------------
(* Properties.                                                               *)

Context ==
    [loop_count : 0 .. MaxLoop, break_count : 0 .. MaxLoop, apply_filter : BOOLEAN,
     match_whitelist : BOOLEAN, match_blacklist : BOOLEAN, loop_index : 0 .. MaxOp,
     op_key_index : 0 .. MaxOp, post_code : PostCodes \cup {"NONE"}, str_len : Nat, read_len : Nat,
     read_addr : Int, reg_value : Nat, pointer_value : Nat, tmp_value : Int]

Element == [kind : {"reg", "blk"}, len : Nat, data : Int]

\* The context holds what the opcodes can put there; in particular no count that comes from
\* the traced program makes a loop longer than MAX_LOOP_COUNT (utils.h:111-128).
TypeOK ==
    /\ module \in Modules /\ event \in module
    /\ op_key_list \in Seq(Opcode)
    /\ pc \in {"idle", "run", "done", "submitted", "skipped"}
    /\ op_ctx \in [{0, 1} -> Context]
    /\ i \in 0 .. MaxOp
    /\ saved \in Seq(Element)
    /\ buf_off \in Nat
    /\ spoilt \subseteq Causes

\* No run of opcodes writes behind the end of event->args, however long the list and whatever
\* the lengths in the traced program (buffer.h:31 and 66 look at the offset, not at the size).
WithinBuffer == buf_off <= BufSize

\* What the arguments of a point promise, for one call.
Promises(call) ==
    [k \in DOMAIN call.point.args |-> Promise(call.point.args[k], call.regs, call.ret)]

PromisedElements(call) ==
    LET p == Promises(call)
    IN  FlattenSeq([k \in DOMAIN p |-> << RegElem(p[k].value) >> \o p[k].body])
            \o (IF call.point.kind = "exit" THEN << RegElem(call.ret) >> ELSE << >>)

Reading(call) == {k \in DOMAIN call.point.args : ReadMore(call.point.args[k])}

AddressOf(call, k) == Address(call.point.args[k], call.regs, call.ret)

\* A return value of a type with content: GetOpList puts no MOVE_REG_VALUE behind READ_RET.
ReturnsContent(call) ==
    \E k \in Reading(call) : LET arg == call.point.args[k]
                              IN  arg.is_ret /\ arg.type.name # "num"

\* The numbers of pairs that the iovec arguments of the call ask for.
IovCounts(call) ==
    {LET arg == call.point.args[k]
     IN  IF arg.type.name = "iovec" THEN call.regs[arg.type.reg]
         ELSE WordAt(AddressOf(call, k) + 24) :
        k \in {k \in Reading(call) : call.point.args[k].type.name \in {"iovec", "msghdr"}}}

\* A loop runs at least once, and up to 32 times where the parser reads 6 pairs.
OddIovCount(call) == \E n \in IovCounts(call) : n = 0 \/ n > MaxIov

\* An address with a second register (src/docs/CONFIG.md:45-47): the MOVE_REG_VALUE behind the
\* read of that register moves the address to it before ADD_REG or SUB_REG, so x0+x1 is read
\* at twice x1 (utils.h:133-138).
WalksRegisters(call) ==
    \E k \in DOMAIN call.point.args : Added(call.point.args[k]) # {}

\* Where read_args does what is documented, and saves as many pairs as are read back.
AsDocumented(call) == ~ReturnsContent(call) /\ ~OddIovCount(call) /\ ~WalksRegisters(call)

\* An event that nothing named has spoilt holds exactly what its arguments promise: nothing
\* of the context that earlier events left shows (utils.h:29-314, syscall.c:143).
AsPromised ==
    pc = "submitted" /\ spoilt = {} /\ AsDocumented(event) => saved = PromisedElements(event)

\* The parser takes a block of another size than was promised: an iovec array or a msghdr
\* that cannot be read, a dirent, content that was never read because the argument has no
\* group type, or an array of more than MaxBytes bytes, of which MaxBytes are saved.
Unparsable(call) ==
    \E k \in DOMAIN call.point.args :
        LET arg  == call.point.args[k]
            body == Promise(arg, call.regs, call.ret).body
        IN  \/ ReadMore(arg) # ParseMore(arg, call.point.kind)
            \/ arg.type.name \in {"array", "pointer", "struct"} /\ arg.type.size > MaxBytes
            \/ arg.type.name = "dirent" /\ body # << Block(0, 0) >>
            \/ /\ arg.type.name \in {"iovec", "msghdr"}
               /\ \E b \in 1 .. Len(body) :
                     /\ b % 2 = (IF arg.type.name = "iovec" THEN 0 ELSE 1)
                     /\ body[b] = Block(0, 0)

\* Writer and reader agree: unless the cause is named, user space reads back every argument
\* with its own value and content (syscall.go ParseEnterPoint, event_uprobe.go ParseContext).
ShownAsPromised ==
    pc = "submitted" /\ spoilt = {} /\ AsDocumented(event) /\ ~Unparsable(event)
        => LET parsed == ParsePoint(event.point, saved)
               ret    == [value |-> event.ret, body |-> << >>]
           IN  /\ parsed.ok
               /\ parsed.rest = << >>
               /\ parsed.shown = IF event.point.kind = "exit"
                                 THEN Append(Promises(event), ret) ELSE Promises(event)

\* The rules that apply to argument k of the call.
Rules(call, k) == {Filters[f] : f \in Range(call.point.args[k].filters)}

StringRules(call, k) == IF k \in Reading(call) THEN Rules(call, k) ELSE {}

TextAddress(call, k) ==
    IF call.point.args[k].type.name = "std" THEN StringData(AddressOf(call, k))
    ELSE AddressOf(call, k)

\* The arguments that the rules eq, lt and gt are compared with; of a return value, a string
\* or a buffer they ask nothing (config_point_arg.go:147-154).
Numbers(call) ==
    {k \in DOMAIN call.point.args :
        LET arg == call.point.args[k]
        IN  ~arg.is_ret /\ ~IsString(arg.type) /\ ~IsBuffer(arg.type)}

Documented(rule, value) ==
    /\ rule.type = "equal" => value = rule.num
    /\ rule.type = "less" => value < rule.num
    /\ rule.type = "greater" => value > rule.num

\* What -f asks for (src/docs/CONFIG.md:59-69), from the values of one call alone.
Rejected(call) ==
    LET args       == call.point.args
        texts      == {k \in DOMAIN args : IsString(args[k].type)}
        whites(k)  == {r \in StringRules(call, k) : r.type = "white"}
        contents   == texts \cup {k \in DOMAIN args : IsBuffer(args[k].type)}
    IN  \/ \E k \in Numbers(call) : \E r \in Rules(call, k) : ~Documented(r, AddressOf(call, k))
        \/ \E k \in texts : \E r \in StringRules(call, k) :
               r.type = "black" /\ TextAddress(call, k) \in r.at
        \/ /\ \E k \in contents : whites(k) # {}
           /\ \A k \in contents : \A r \in whites(k) : TextAddress(call, k) \notin r.at

\* A number that read_args does not judge as is documented (src/docs/CONFIG.md:61-63): it takes
\* lt for gt, and it compares the register that was read last, not the value that a read_op
\* leads to (utils.h:188-204).
Misjudged(call) ==
    \E k \in Numbers(call) : \E r \in Rules(call, k) :
        Rejects(r, call.regs[call.point.args[k].reg]) <=> Documented(r, AddressOf(call, k))

\* An event is skipped for its own values: the flags and the length of a string that an
\* earlier event left decide nothing (utils.h:299-311, buffer.h:227).
VerdictIsOwn ==
    spoilt = {} /\ ~ReturnsContent(event) /\ ~WalksRegisters(event) /\ ~Misjudged(event) =>
        /\ pc = "submitted" => ~Rejected(event)
        /\ pc = "skipped" => Rejected(event)

-----------------------------------------------------------------------------
(* What the documents say and the code does not do.                          *)

\* src/README.md:79-80: with "rstr" and "rstd" the return value is read as a string.
ReturnsAreRead ==
    pc = "submitted" /\ spoilt = {} /\ ReturnsContent(event) => saved = PromisedElements(event)

=============================================================================
