------------------------------ MODULE ArgDecode ------------------------------
(*****************************************************************************)
(* How user space reads the elements of an event back: SyscallPoint and      *)
(* UprobeEvent walk the arguments of the point, and each type takes from the *)
(* bytes what it expects to come next.  Elements carry their index, but no   *)
(* parser looks at it, so nothing brings a parser back in step.              *)
(*****************************************************************************)
EXTENDS ArgTypes

Fits(rest, n) == Len(rest) >= n

IsReg(rest, i)      == Fits(rest, i) /\ rest[i].kind = "reg"
IsBlock(rest, i)    == Fits(rest, i) /\ rest[i].kind = "blk"
IsSized(rest, i, n) == IsBlock(rest, i) /\ rest[i].len = n

\* GetStructLen and ARG_STRUCT.ParseArg: nothing, or the whole structure.
IsStruct(rest, n) == IsSized(rest, 1, 0) \/ IsSized(rest, 1, n)

\* n pairs of an iovec, read without a look at the length saved for it, and its buffer.
IsIovec(rest, first, n) ==
    \A i \in 0 .. n - 1 : /\ IsSized(rest, first + 2 * i, IovecSize)
                          /\ IsBlock(rest, first + 2 * i + 1)

EndsStrings(rest, i) == rest[2 * i].len = MagicLen \/ rest[2 * i - 1].data = 0

\* Bug variant: the magic length does not end an array of strings.
StringCount_all(rest) == MaxLoop

\* How many pairs of a pointer and a string parse_STRING_ARRAY reads.
StringCount(rest) ==
    LET ends == {i \in 1 .. MaxLoop : Fits(rest, 2 * i) /\ EndsStrings(rest, i)}
    IN  IF ends = {} THEN MaxLoop ELSE Min(ends)

\* How many elements the parser of t takes from rest, and whether they are what it expects.
Parse(t, rest) ==
    CASE t.name = "num" -> [ok |-> TRUE, n |-> 0]
      [] t.name \in {"struct", "array", "pointer"} -> [ok |-> IsStruct(rest, t.size), n |-> 1]
      \* r_DIRENT installs parse_POLLFD, which reads 8 bytes of the structure.
      [] t.name = "dirent" -> [ok |-> IsSized(rest, 1, 0), n |-> 1]
      [] IsString(t) \/ IsBuffer(t) -> [ok |-> IsBlock(rest, 1), n |-> 1]
      [] t.name = "string_array" ->
             LET n == StringCount(rest)
             IN  [ok |-> \A i \in 1 .. n : IsReg(rest, 2 * i - 1) /\ IsBlock(rest, 2 * i),
                  n  |-> 2 * n]
      [] t.name = "iovec" ->
             LET n == IF IsReg(rest, 1) THEN Least(rest[1].data, MaxIov) ELSE 0
             IN  [ok |-> IsReg(rest, 1) /\ IsIovec(rest, 2, n), n |-> 1 + 2 * n]
      [] t.name = "msghdr" ->
             LET n == IF IsSized(rest, 1, MsghdrSize)
                      THEN Least(WordAt(rest[1].data + 24), MaxIov) ELSE 0
             IN  [ok |-> /\ IsSized(rest, 1, MsghdrSize) /\ IsBlock(rest, 2)
                         /\ IsIovec(rest, 3, n),
                  n  |-> 2 + 2 * n]

ParseMore(arg, point_type) == arg.point = "all" \/ arg.point = point_type

\* One turn of the loop over PointArgs; after a mismatch nothing that is shown means anything.
ParseArg(point_type, state, arg) ==
    LET rest == Tail(state.rest)
        more == IF ParseMore(arg, point_type) THEN Parse(arg.type, rest)
                ELSE [ok |-> TRUE, n |-> 0]
    IN  IF ~state.ok \/ ~IsReg(state.rest, 1) \/ ~more.ok \/ ~Fits(rest, more.n)
        THEN [state EXCEPT !.ok = FALSE]
        ELSE [ok    |-> TRUE,
              rest  |-> SubSeq(rest, more.n + 1, Len(rest)),
              shown |-> Append(state.shown, [value |-> state.rest[1].data,
                                             body  |-> SubSeq(rest, 1, more.n)])]

\* The argument "ret" that user space adds to a system call.
RetArg == [type |-> [name |-> "num", size |-> 4, reg |-> 0], reg |-> 0, read_op |-> << >>,
           is_ret |-> TRUE, point |-> "exit", group |-> "none", filters |-> << >>]

Shown(point) == IF point.kind = "exit" THEN Append(point.args, RetArg) ELSE point.args

\* ParseEnterPoint, ParseExitPoint and UprobeEvent.ParseContext.
ParsePoint(point, elements) ==
    LET args == Shown(point)
        state[n \in 0 .. Len(args)] ==
            IF n = 0 THEN [ok |-> TRUE, rest |-> elements, shown |-> << >>]
            ELSE ParseArg(point.kind, state[n - 1], args[n])
    IN  state[Len(args)]

=============================================================================
