------------------------------ MODULE MCReadArgs ------------------------------
(* Small memories, points and calls for ReadArgs. *)
EXTENDS ReadArgs

MCText == 100 :> 6 @@ 110 :> 3 @@ 200 :> 20

\* 300: two strings and the end; 340: more strings than a loop reads; 400: three iovecs;
\* 500 and 600: a msghdr with two iovecs and one with none; 700: a long std::string;
\* 800: 80 bytes.
MCWord ==
    300 :> 100 @@ 308 :> 110 @@ 316 :> 0
    @@ 340 :> 100 @@ 348 :> 110 @@ 356 :> 100 @@ 364 :> 110
    @@ 400 :> 100 @@ 408 :> 6 @@ 416 :> 110 @@ 424 :> 3 @@ 432 :> 200 @@ 440 :> 20
    @@ [a \in {500 + 8 * k : k \in 0 .. 6} |->
            CASE a = 516 -> 400 [] a = 524 -> 2 [] a = 532 -> 100 [] a = 540 -> 3 [] OTHER -> 0]
    @@ [a \in {600 + 8 * k : k \in 0 .. 6} |-> IF a = 616 THEN 400 ELSE 0]
    @@ 700 :> 200 @@ 708 :> 0 @@ 716 :> 0
    @@ [a \in {800 + 8 * k : k \in 0 .. 9} |-> IF a = 808 THEN 700 ELSE 0]

MCLong == {700}

MCFilters ==
    << [type |-> "white", num |-> 0, len |-> 5, at |-> {100}],
       [type |-> "black", num |-> 0, len |-> 2, at |-> {110}],
       [type |-> "equal", num |-> 7, len |-> 0, at |-> {}],
       [type |-> "greater", num |-> 7, len |-> 0, at |-> {}],
       [type |-> "less", num |-> 7, len |-> 0, at |-> {}],
       [type |-> "white", num |-> 0, len |-> 2, at |-> {200}],
       [type |-> "equal", num |-> 6, len |-> 0, at |-> {}] >>

T(name, size, reg) == [name |-> name, size |-> size, reg |-> reg]

\* An argument of a system call or of a uprobe with a return probe, and its group.
A(type, reg, point, group, rules) ==
    [type |-> type, reg |-> reg, read_op |-> << >>, is_ret |-> FALSE, point |-> point,
     group |-> group, filters |-> rules]

E(type, reg, rules) == A(type, reg, "enter", "enter", rules)

U(type, reg, rules) == A(type, reg, "all", "uprobe", rules)

R(a, b, c) == 0 :> a @@ 1 :> b @@ 2 :> c

Num == T("num", 4, 0)

Str == T("string", 0, 0)

\* A number with a rule, a path with whitelist and blacklist rules.
Openat == [kind |-> "enter", args |-> << E(Num, 0, << 3 >>), E(Str, 1, << 1, 2, 6 >>) >>]

\* The rules gt and lt on numbers.
Lseek == [kind |-> "enter", args |-> << E(Num, 0, << 4 >>), E(Num, 1, << 5 >>) >>]

Execve == [kind |-> "enter",
           args |-> << E(Str, 0, << >>), E(T("string_array", 0, 0), 1, << >>),
                       E(T("string_array", 0, 0), 2, << >>) >>]

Writev == [kind |-> "enter",
           args |-> << E(Num, 0, << >>), E(T("iovec", 0, 2), 1, << >>), E(Num, 2, << >>) >>]

Sendmsg == [kind |-> "enter", args |-> << E(T("msghdr", 0, 0), 1, << >>) >>]

\* What is read at the entry, at the return, and at both.
Stat(kind) ==
    [kind |-> kind,
     args |-> << A(T("struct", 16, 0), 1, "enter", kind, << >>),
                 A(T("struct", 16, 0), 2, "exit", kind, << >>), A(Str, 0, "all", kind, << >>) >>]

Read == [kind |-> "exit",
         args |-> << A(Num, 0, "enter", "exit", << >>),
                     A(T("buffer_reg", 0, 2), 1, "exit", "exit", << 1, 6 >>) >>]

ReadAll == [kind |-> "exit",
            args |-> << A(T("buffer_reg", 0, 2), 1, "all", "exit", << >>) >>]

Getdents == [kind |-> "exit", args |-> << A(T("dirent", 16, 0), 1, "exit", "exit", << >>) >>]

\* Four full buffers, of which three fit.
Buffers == [kind |-> "uprobe", args |-> [k \in 1 .. 4 |-> U(T("buffer", 64, 0), 1, << >>)]]

\* More numbers than the loop has turns for.
ManyNumbers == [kind |-> "uprobe", args |-> [k \in 1 .. 17 |-> U(Num, 0, << >>)]]

\* A std::string behind x0+24-16., a pointer and an array.
Walk == [kind |-> "uprobe",
         args |-> << [U(T("std", 0, 0), 0, << 1, 6 >>) EXCEPT
                          !.read_op = << [op |-> "+", value |-> 24], [op |-> "-", value |-> 16],
                                         [op |-> ".", value |-> 0] >>],
                     U(T("pointer", 8, 0), 1, << >>), U(T("array", 16, 0), 1, << >>) >>]

\* Blocks at x0+x1 and at x0-x1+8.
WalkRegisters ==
    [kind |-> "uprobe",
     args |-> << [U(T("buffer", 16, 0), 0, << >>) EXCEPT
                     !.read_op = << [op |-> "+reg", value |-> 1] >>],
                 [U(T("buffer", 8, 0), 0, << >>) EXCEPT
                     !.read_op = << [op |-> "-reg", value |-> 1], [op |-> "+", value |-> 8] >>] >>]

\* The number at x0+8 with the rule eq:6.
WalkNumber ==
    [kind |-> "uprobe",
     args |-> << [U(Num, 0, << 7 >>) EXCEPT
                     !.read_op = << [op |-> "+", value |-> 8], [op |-> ".", value |-> 0] >>] >>]

\* An array that is longer than what can be saved.
LongArray == [kind |-> "uprobe", args |-> << U(T("array", 80, 0), 1, << >>) >>]

\* A structure of a configuration file: its group is never set.
Ungrouped == [kind |-> "uprobe",
              args |-> << A(T("struct", 16, 0), 1, "uprobe", "none", << >>) >>]

Ret(type) == [A(type, 0, "all", "none", << >>) EXCEPT !.is_ret = TRUE]

Return == [kind |-> "uret", args |-> << Ret(Num), U(T("std", 0, 0), 1, << >>) >>]

ReturnString == [kind |-> "uret", args |-> << Ret(Str) >>]

C(point, regs) == [point |-> point, regs |-> regs, ret |-> 100]

\* The object for system calls, in three parts that keep the state space small.
Paths ==
    {C(Openat, R(7, 100, 0)), C(Openat, R(7, 110, 0)), C(Openat, R(7, 0, 0)),
     C(Openat, R(8, 100, 0)), C(Openat, R(7, 200, 0)),
     C(Lseek, R(6, 8, 0)), C(Lseek, R(9, 8, 0)), C(Lseek, R(6, 5, 0)), C(Lseek, R(7, 7, 0)),
     C(Execve, R(100, 300, 340)), C(Execve, R(0, 340, 0)), C(Execve, R(110, 316, 300))}

Vectors ==
    {C(Writev, R(1, 400, 0)), C(Writev, R(1, 400, 1)), C(Writev, R(1, 400, 2)),
     C(Writev, R(1, 400, 3)), C(Writev, R(1, 400, 4)), C(Writev, R(1, 432, 2)),
     C(Writev, R(1, 0, 1)),
     C(Sendmsg, R(0, 500, 0)), C(Sendmsg, R(0, 600, 0)), C(Sendmsg, R(0, 0, 0)),
     C(Openat, R(7, 100, 0)), C(Read, R(0, 100, 6))}

Returns ==
    {C(Stat("enter"), R(100, 400, 416)), C(Stat("enter"), R(0, 0, 416)),
     C(Stat("exit"), R(100, 400, 416)), C(Stat("exit"), R(110, 400, 0)),
     C(Read, R(0, 100, 6)), C(Read, R(0, 200, 40)),
     C(ReadAll, R(0, 800, 64)), C(ReadAll, R(0, 800, 70)), C(ReadAll, R(0, 110, 0)),
     C(Getdents, R(0, 800, 0)), C(Getdents, R(0, 0, 0)),
     C(Execve, R(100, 300, 340))}

\* The object for uprobes.
Uprobes ==
    {C(Buffers, R(0, 800, 0)), C(ManyNumbers, R(7, 0, 0)),
     C(Walk, R(292, 416, 0)), C(Walk, R(0, 0, 0)), C(Walk, R(800, 400, 0)),
     C(WalkRegisters, R(392, 8, 0)), C(WalkNumber, R(400, 0, 0)), C(WalkNumber, R(416, 0, 0)),
     C(Ungrouped, R(0, 400, 0)), C(LongArray, R(0, 800, 0)),
     C(Return, R(0, 100, 0)), C(Return, R(0, 700, 0)), C(ReturnString, R(0, 0, 0))}

MCModules == {Paths, Vectors, Returns, Uprobes}

=============================================================================
