------------------------------- MODULE ArgTypes -------------------------------
(*****************************************************************************)
(* The arguments of a hook point: which opcodes user space compiles them to  *)
(* for the interpreter read_args, and what a reader of the log is promised.  *)
(*                                                                           *)
(* Data is kept to what decides the shape of an event.  Registers, pointers  *)
(* and lengths are numbers.  A block of bytes is known by its length and the *)
(* address it was copied from, so a block read at a wrong address or with a  *)
(* wrong length is a different block.                                        *)
(*****************************************************************************)
EXTENDS Integers, Sequences, FiniteSets, SequencesExt

CONSTANTS
    Word,           \* the traced memory: address -> the pointer-sized word stored there
    Text,           \* address -> length of the C string that starts there, its NUL included
    Long,           \* std::string objects whose data lies elsewhere
    Filters,        \* arg_filter: index -> rule of -f
    MaxBytes,       \* MAX_BYTES_ARR_SIZE = MAX_STRING_SIZE = MAX_BUF_READ_SIZE: 4096
    MagicLen,       \* STRARR_MAGIC_LEN: the length that ends an array of strings
    MaxLoop,        \* MAX_LOOP_COUNT: 32
    MaxIov,         \* MAX_IOV_COUNT: 6
    MaxOp           \* MAX_OP_COUNT: 64 for uprobes, 256 for system calls

PtrSize == 8
IovecSize == 16     \* iov_base, iov_len at 8
MsghdrSize == 56    \* msg_iov at 16, msg_iovlen 24, msg_control 32, msg_controllen 40

\* at: the addresses whose content begins with the pattern of the rule.
Filter == [type : {"equal", "greater", "less", "white", "black"},
           num : Nat, len : Nat, at : SUBSET DOMAIN Text]

ASSUME ArgAssumption ==
    /\ \A a \in DOMAIN Word : a \in Nat /\ Word[a] \in Nat
    /\ \A a \in DOMAIN Text : a \in Nat \ {0} /\ Text[a] \in 1 .. MaxBytes
    /\ \A f \in DOMAIN Filters :
          /\ f \in Nat /\ Filters[f] \in Filter
          /\ \A a \in Filters[f].at : Filters[f].len <= Text[a]
    /\ MaxBytes \in Nat /\ MaxBytes >= MsghdrSize
    /\ MagicLen \in Nat /\ MagicLen > MaxBytes /\ MagicLen % MaxBytes = 0
    /\ MaxLoop \in Nat \ {0} /\ MaxIov \in 0 .. MaxLoop /\ MaxOp \in Nat

-----------------------------------------------------------------------------
(* The traced memory.                                                        *)

\* bpf_probe_read_user of a pointer: it leaves zero when it fails.
WordAt(a) == IF a \in DOMAIN Word THEN Word[a] ELSE 0

Mapped == UNION {a .. a + PtrSize - 1 : a \in DOMAIN Word}
            \cup UNION {a .. a + Text[a] - 1 : a \in DOMAIN Text}

Readable(a, n) == (a .. a + n - 1) \subseteq Mapped

\* The last byte of the object says whether its first word points to the data.
StringData(base) == IF base \in Long THEN WordAt(base) ELSE base

Least(m, n) == IF m < n THEN m ELSE n

-----------------------------------------------------------------------------
(* Opcodes and the opcode lists of the types.                                *)

Op(code, value) == [code |-> code, pre |-> "SKIP", post |-> "SKIP", value |-> value]

OPC_SKIP == Op("SKIP", 0)

\* Two or three in one: the register is set, read and used.
ReadReg(reg, post) ==
    [code |-> "READ_REG", pre |-> "SET_REG_INDEX", post |-> post, value |-> reg]

ReadPtr(offset, post) ==
    [code |-> "READ_POINTER", pre |-> "ADD_OFFSET", post |-> post, value |-> offset]

SaveStruct(n) == [Op("SET_READ_LEN", n) EXCEPT !.post = "SAVE_STRUCT"]

\* size: of a struct, an array or a buffer; reg: the register that holds the length of a
\* buffer or the number of elements of an iovec array.
Type == [name : {"num", "pointer", "struct", "dirent", "array", "buffer", "buffer_reg",
                 "string", "std", "string_array", "iovec", "msghdr"},
         size : Nat, reg : Nat]

IOVEC ==
    << Op("SET_READ_LEN", IovecSize), Op("SAVE_STRUCT", 0),
       Op("SET_READ_LEN", MaxBytes), ReadPtr(8, "SET_READ_LEN_POINTER_VALUE"),
       Op("READ_POINTER", 0), Op("MOVE_POINTER_VALUE", 0), Op("SAVE_STRUCT", 0) >>

IovecLoop ==
    << Op("FOR_BREAK", 0), Op("SET_TMP_VALUE", 0) >> \o IOVEC
        \o << Op("MOVE_TMP_VALUE", 0), Op("ADD_OFFSET", IovecSize), Op("FOR_BREAK", 0) >>

MSGHDR ==
    << Op("SET_READ_LEN", MsghdrSize), Op("SAVE_STRUCT", 0), Op("SET_TMP_VALUE", 0),
       Op("SET_READ_LEN", MaxBytes), ReadPtr(40, "SET_READ_LEN_POINTER_VALUE"),
       ReadPtr(32, "MOVE_POINTER_VALUE"), Op("SAVE_STRUCT", 0), Op("MOVE_TMP_VALUE", 0),
       ReadPtr(24, "SET_BREAK_COUNT_POINTER_VALUE"), ReadPtr(16, "MOVE_POINTER_VALUE") >>
        \o IovecLoop

TypeOps(t) ==
    CASE t.name = "num"          -> << >>
      [] t.name \in {"pointer", "array"} -> << SaveStruct(t.size) >>
      [] t.name \in {"struct", "dirent", "buffer"} ->
             << Op("SET_READ_LEN", t.size), Op("SAVE_STRUCT", 0) >>
      [] t.name = "buffer_reg"   ->
             << Op("SET_READ_LEN", MaxBytes), ReadReg(t.reg, "SET_READ_LEN_REG_VALUE"),
                Op("SAVE_STRUCT", 0) >>
      [] t.name = "string"       -> << Op("SAVE_STRING", 0) >>
      [] t.name = "std"          -> << Op("READ_STD_STRING", 0), Op("SAVE_STRING", 0) >>
      [] t.name = "string_array" ->
             << Op("SET_BREAK_COUNT", MaxLoop), Op("FOR_BREAK", 0), Op("SAVE_PTR_STRING", 0),
                Op("ADD_OFFSET", PtrSize), Op("FOR_BREAK", 0) >>
      [] t.name = "iovec"        ->
             << ReadReg(t.reg, "SET_BREAK_COUNT_REG_VALUE"), Op("SAVE_REG", 0) >> \o IovecLoop
      [] t.name = "msghdr"       -> MSGHDR

-----------------------------------------------------------------------------
(* PointArg: one argument of a hook point.                                   *)

\* When the content behind the pointer is read: PointType, and GroupType, which says for what
\* the list of opcodes is compiled.
When == {"none", "enter", "exit", "all", "uprobe"}

\* What follows the register in a read_op such as "sp+0x20.-4+x1": each dot reads a pointer,
\* numbers and registers are added or taken off.  value: the number or the register.
ReadOp == [op : {"+", "-", ".", "+reg", "-reg"}, value : Nat]

Arg == [type : Type, reg : Nat, read_op : Seq(ReadOp), is_ret : BOOLEAN,
        point : When, group : When, filters : Seq(DOMAIN Filters)]

\* The registers behind the first one that a read_op reads.
Added(arg) == {r \in Range(arg.read_op) : r.op \in {"+reg", "-reg"}}

ReadMore(arg) == arg.point = "all" \/ arg.point = arg.group

IsString(t) == t.name \in {"string", "std"}
IsBuffer(t) == t.name \in {"buffer", "buffer_reg"}

\* A register is read as the first one is, which moves the address to it.
ExtraOp(r) == CASE r.op = "+" -> << Op("ADD_OFFSET", r.value) >>
                [] r.op = "-" -> << Op("SUB_OFFSET", r.value) >>
                [] r.op = "." -> << Op("READ_POINTER", 0), Op("MOVE_POINTER_VALUE", 0) >>
                [] r.op = "+reg" -> << ReadReg(r.value, "MOVE_REG_VALUE"), Op("ADD_REG", 0) >>
                [] r.op = "-reg" -> << ReadReg(r.value, "MOVE_REG_VALUE"), Op("SUB_REG", 0) >>

ExtraOpList(arg) ==
    << ReadReg(arg.reg, "MOVE_REG_VALUE") >>
        \o FlattenSeq([i \in DOMAIN arg.read_op |-> ExtraOp(arg.read_op[i])])
        \o << Op("SAVE_ADDR", 0) >>

AddressOps(arg) ==
    IF arg.is_ret THEN << Op("READ_RET", 0), Op("SAVE_REG", 0) >>
    ELSE IF arg.read_op # << >> THEN ExtraOpList(arg)
    ELSE << ReadReg(arg.reg, "SAVE_REG"), Op("MOVE_REG_VALUE", 0) >>

FilterOps(arg, code) == [i \in DOMAIN arg.filters |-> Op(code, arg.filters[i])]

GetOpList(arg) ==
    LET value_filters == IF arg.is_ret \/ IsString(arg.type) \/ IsBuffer(arg.type)
                         THEN << >> ELSE FilterOps(arg, "FILTER_VALUE")
        more_filters  == IF IsString(arg.type) THEN FilterOps(arg, "FILTER_STRING")
                         ELSE IF IsBuffer(arg.type) THEN FilterOps(arg, "FILTER_BUFFER")
                         ELSE << >>
    IN  AddressOps(arg) \o value_filters
            \o (IF ReadMore(arg) THEN TypeOps(arg.type) \o more_filters ELSE << >>)

\* The four programs that call read_args; a system call that returns is followed by "ret".
Point == [kind : {"enter", "exit", "uprobe", "uret"}, args : Seq(Arg)]

OpKeyList(point) == FlattenSeq([i \in DOMAIN point.args |-> GetOpList(point.args[i])])

\* AddPointArg panics when the array of keys is full.
Accepted(point) == Len(OpKeyList(point)) < MaxOp

-----------------------------------------------------------------------------
(* What the log promises.  An element of an event is the value of a          *)
(* register, or a block with its length and origin.                          *)

RegElem(v) == [kind |-> "reg", len |-> 0, data |-> v]

Block(n, a) == [kind |-> "blk", len |-> n, data |-> IF n = 0 THEN 0 ELSE a]

BytesAt(a, n) == IF Readable(a, n) THEN Block(n, a) ELSE Block(0, 0)

StringAt(a) == IF a \in DOMAIN Text THEN Block(Text[a], a) ELSE Block(0, 0)

IovecAt(a, count) ==
    FlattenSeq([i \in 1 .. Least(count, MaxIov) |->
        LET iov == a + IovecSize * (i - 1)
        IN  << BytesAt(iov, IovecSize),
               BytesAt(WordAt(iov), Least(MaxBytes, WordAt(iov + 8))) >>])

\* Strings up to the first pointer that leads nowhere, and that pointer.
StringsAt(a) ==
    LET ptr(i) == WordAt(a + PtrSize * (i - 1))
        n == Cardinality({i \in 1 .. MaxLoop : \A j \in 1 .. i : ptr(j) \in DOMAIN Text})
    IN  FlattenSeq([i \in 1 .. n |-> << RegElem(ptr(i)), StringAt(ptr(i)) >>])
            \o (IF n < MaxLoop THEN << RegElem(ptr(n + 1)), Block(MagicLen, 0) >> ELSE << >>)

\* What type t shows at address a, for registers regs.
Content(t, a, regs) ==
    CASE t.name = "num"          -> << >>
      [] t.name \in {"pointer", "array", "struct", "dirent", "buffer"} ->
             << BytesAt(a, Least(MaxBytes, t.size)) >>
      [] t.name = "buffer_reg"   -> << BytesAt(a, Least(MaxBytes, regs[t.reg])) >>
      [] t.name = "string"       -> << StringAt(a) >>
      [] t.name = "std"          -> << StringAt(StringData(a)) >>
      [] t.name = "string_array" -> StringsAt(a)
      [] t.name = "iovec"        -> << RegElem(regs[t.reg]) >> \o IovecAt(a, regs[t.reg])
      [] t.name = "msghdr"       ->
             << BytesAt(a, MsghdrSize),
                BytesAt(WordAt(a + 32), Least(MaxBytes, WordAt(a + 40))) >>
                 \o IovecAt(WordAt(a + 16), WordAt(a + 24))

\* Where one step of a read_op leads from address a.
Moved(a, r, regs) == CASE r.op = "+" -> a + r.value
                       [] r.op = "-" -> a - r.value
                       [] r.op = "." -> WordAt(a)
                       [] r.op = "+reg" -> a + regs[r.value]
                       [] r.op = "-reg" -> a - regs[r.value]

\* The addresses on the way.
Walked(arg, regs) ==
    LET walk[n \in 0 .. Len(arg.read_op)] ==
            IF n = 0 THEN regs[arg.reg] ELSE Moved(walk[n - 1], arg.read_op[n], regs)
    IN  walk

Address(arg, regs, ret) ==
    IF arg.is_ret THEN ret ELSE Walked(arg, regs)[Len(arg.read_op)]

Promise(arg, regs, ret) ==
    LET a == Address(arg, regs, ret)
    IN  [value |-> a,
         body  |-> IF ReadMore(arg) THEN Content(arg.type, a, regs) ELSE << >>]

=============================================================================
