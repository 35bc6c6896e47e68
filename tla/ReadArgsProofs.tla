---------------------------- MODULE ReadArgsProofs ----------------------------
(*****************************************************************************)
(* Whatever the opcode lists, the registers and the traced memory hold, the  *)
(* interpreter keeps its counts in range and writes inside the event; what   *)
(* it submits is what the arguments promise and what the parsers read back;  *)
(* and an event's own rules decide whether it is submitted. The last section *)
(* is about strcmp_by_map on several cpus.                                   *)
(*****************************************************************************)
EXTENDS ReadArgs, StrCompare, SequenceTheorems, FiniteSetTheorems, WellFoundedInduction, TLAPS

-----------------------------------------------------------------------------
(* Recursion over numbers, and sequences joined by FlattenSeq.               *)

LEMMA LeastNumber ==
    ASSUME NEW T, T \subseteq Nat, T # {}
    PROVE \E n \in T : \A m \in T : n <= m
<1> DEFINE R == {p \in Nat \X Nat : p[1] < p[2]}
<1>1. IsWellFoundedOn(R, Nat)
  BY NatLessThanWellFounded DEF OpToRel
<1> HIDE DEF R
<1>2. \E x \in T : \A y \in T : ~ (<<y, x>> \in R)
  BY <1>1, WFMin
<1>3. \A x, y \in Nat : ~(<<y,x>> \in R) => x <= y
  BY DEF R
<1> QED BY <1>2, <1>3

\* Induction over the numbers, for a set instead of a predicate.
LEMMA NumberInduction ==
    ASSUME NEW T, 0 \in T, \A n \in Nat : n \in T => n + 1 \in T
    PROVE  Nat \subseteq T
<1> SUFFICES ASSUME Nat \ T # {} PROVE FALSE OBVIOUS
<1>1. PICK n \in Nat \ T : \A m \in Nat \ T : n <= m BY LeastNumber
<1>2. n # 0 /\ n - 1 \in Nat BY <1>1
<1>3. n - 1 \in T BY <1>1, <1>2
<1> QED BY <1>1, <1>2, <1>3

\* f takes N steps from b; step n is g[n].
IsIteration(f, N, D, b, g) ==
    /\ f \in [0 .. N -> D]
    /\ f[0] = b
    /\ \A n \in 1 .. N : f[n] = g[n][f[n - 1]]

LEMMA IterationExists ==
    ASSUME NEW D, NEW b \in D, NEW g \in [Nat -> [D -> D]], NEW N \in Nat
    PROVE  \E f : IsIteration(f, N, D, b, g)
<1> DEFINE Has(n, f) == IsIteration(f, n, D, b, g)
           T == {n \in Nat : \E f : Has(n, f)}
<1> USE DEF IsIteration
<1>1. 0 \in T
    <2>1. Has(0, [m \in 0 .. 0 |-> b]) OBVIOUS
    <2> QED BY <2>1
<1>2. \A n \in Nat : n \in T => n + 1 \in T
    <2> TAKE n \in Nat
    <2> HAVE n \in T
    <2>1. PICK f : Has(n, f) OBVIOUS
    <2> DEFINE h == [m \in 0 .. n + 1 |-> IF m = n + 1 THEN g[n + 1][f[n]] ELSE f[m]]
    <2>f. f \in [0 .. n -> D] BY <2>1
    <2>2. f[n] \in D /\ g[n + 1] \in [D -> D] BY <2>f
    <2>g. g[n + 1][f[n]] \in D BY <2>2
    <2>3. h \in [0 .. n + 1 -> D]
        <3>1. \A m \in 0 .. n + 1 : m # n + 1 => m \in 0 .. n OBVIOUS
        <3> QED BY <2>f, <2>g, <3>1
    <2>4. \A m \in 0 .. n : h[m] = f[m] OBVIOUS
    <2>5. h[n + 1] = g[n + 1][f[n]] OBVIOUS
    <2> HIDE DEF h
    <2>6. Has(n + 1, h)
        <3>1. h[0] = b BY <2>1, <2>4
        <3>2. \A m \in 1 .. n + 1 : h[m] = g[m][h[m - 1]]
            <4> TAKE m \in 1 .. n + 1
            <4>1. CASE m = n + 1 BY <4>1, <2>4, <2>5
            <4>2. CASE m # n + 1
                <5>1. m \in 1 .. n /\ m - 1 \in 0 .. n /\ m \in 0 .. n BY <4>2
                <5>2. f[m] = g[m][f[m - 1]] BY <5>1, <2>1
                <5> QED BY <5>1, <5>2, <2>4
            <4> QED BY <4>1, <4>2
        <3> QED BY <2>3, <3>1, <3>2
    <2> HIDE DEF Has
    <2>7. \E f1 : Has(n + 1, f1) BY <2>6
    <2> QED BY <2>7
<1> HIDE DEF T
<1>3. N \in T BY <1>1, <1>2, NumberInduction
<1> QED BY <1>3 DEF T

Flat(seqs, m) == FlattenSeq([j \in 1 .. m |-> seqs[j]])

\* f[n] joins the first n sequences.
IsFlattening(f, seqs, S) ==
    /\ f \in [1 .. Len(seqs) -> Seq(S)]
    /\ FlattenSeq(seqs) = f[Len(seqs)]
    /\ f[1] = seqs[1]
    /\ \A n \in 2 .. Len(seqs) : f[n] = f[n - 1] \o seqs[n]

LEMMA FlatFunction ==
    ASSUME NEW S, NEW seqs \in Seq(Seq(S)), Len(seqs) > 0
    PROVE  \E f : IsFlattening(f, seqs, S)
<1> DEFINE N == Len(seqs)
           Is(f) == f = [j \in 1 .. N |-> IF j = 1 THEN seqs[j] ELSE f[j - 1] \o seqs[j]]
           flatten == CHOOSE f : Is(f)
           g == [n \in Nat |-> [x \in Seq(S) |-> IF n + 1 \in 1 .. N THEN x \o seqs[n + 1] ELSE x]]
<1>1. FlattenSeq(seqs) = flatten[N]
    BY DEF FlattenSeq
<1>2. N \in Nat /\ N - 1 \in Nat /\ \A n \in 1 .. N : seqs[n] \in Seq(S) OBVIOUS
<1>3. g \in [Nat -> [Seq(S) -> Seq(S)]] BY <1>2
<1>4. \A n \in 1 .. N - 1, x \in Seq(S) : g[n][x] = x \o seqs[n + 1] BY <1>2
<1> HIDE DEF g
<1>5. PICK h \in [0 .. N - 1 -> Seq(S)] :
          h[0] = seqs[1] /\ \A n \in 1 .. N - 1 : h[n] = g[n][h[n - 1]]
    <2> DEFINE D == Seq(S)
               b == seqs[1]
               M == N - 1
    <2>1. b \in D /\ M \in Nat /\ g \in [Nat -> [D -> D]] BY <1>2, <1>3
    <2> HIDE DEF D, b, M
    <2>2. \E h : IsIteration(h, M, D, b, g) BY <2>1, IterationExists
    <2> QED BY <2>2 DEF D, b, M, IsIteration
<1> DEFINE f0 == [j \in 1 .. N |-> h[j - 1]]
<1>6. f0 \in [1 .. N -> Seq(S)] BY <1>2, <1>5
<1>7. \A j \in 1 .. N : f0[j] = IF j = 1 THEN seqs[j] ELSE f0[j - 1] \o seqs[j]
    <2> TAKE j \in 1 .. N
    <2>1. f0[j] = h[j - 1] OBVIOUS
    <2>2. CASE j = 1 BY <1>5, <2>1, <2>2
    <2>3. CASE j # 1
        <3>1. j - 1 \in 1 .. N - 1 /\ j - 1 \in 1 .. N /\ (j - 1) - 1 \in 0 .. N - 1 BY <1>2, <2>3
        <3>2. f0[j - 1] = h[(j - 1) - 1] BY <3>1
        <3>3. h[(j - 1) - 1] \in Seq(S) BY <1>5, <3>1
        <3>4. h[j - 1] = h[(j - 1) - 1] \o seqs[(j - 1) + 1] BY <1>4, <1>5, <3>1, <3>3
        <3>5. (j - 1) + 1 = j OBVIOUS
        <3> QED BY <2>1, <2>3, <3>2, <3>4, <3>5
    <2> QED BY <2>2, <2>3
<1> HIDE DEF f0
<1>8. Is(f0) BY <1>6, <1>7
<1>9. Is(flatten) BY <1>8
<1> HIDE DEF flatten
<1>10. /\ DOMAIN flatten = 1 .. N
       /\ \A j \in 1 .. N : flatten[j] = IF j = 1 THEN seqs[j] ELSE flatten[j - 1] \o seqs[j]
    BY <1>9
<1>11. \A j \in Nat : j + 1 \in 1 .. N => flatten[j + 1] \in Seq(S)
    <2> DEFINE T == {j \in Nat : j + 1 \in 1 .. N => flatten[j + 1] \in Seq(S)}
    <2>1. 0 \in T BY <1>2, <1>10
    <2>2. \A j \in Nat : j \in T => j + 1 \in T
        <3> SUFFICES ASSUME NEW j \in Nat, j \in T, (j + 1) + 1 \in 1 .. N
                     PROVE  flatten[(j + 1) + 1] \in Seq(S)
            OBVIOUS
        <3>1. j + 1 \in 1 .. N /\ (j + 1) + 1 # 1 /\ ((j + 1) + 1) - 1 = j + 1 BY <1>2
        <3>2. flatten[(j + 1) + 1] = flatten[j + 1] \o seqs[(j + 1) + 1] BY <1>10, <3>1
        <3> QED BY <1>2, <3>1, <3>2
    <2> HIDE DEF T
    <2>3. Nat \subseteq T BY <2>1, <2>2, NumberInduction
    <2> QED BY <2>3 DEF T
<1>12. \A j \in 1 .. N : flatten[j] \in Seq(S)
    <2> TAKE j \in 1 .. N
    <2>1. j - 1 \in Nat /\ (j - 1) + 1 = j OBVIOUS
    <2> QED BY <1>11, <2>1
<1>13. flatten \in [1 .. N -> Seq(S)] BY <1>9, <1>12
<1>14. flatten[1] = seqs[1]
    <2>1. 1 \in 1 .. N BY <1>2
    <2> QED BY <1>10, <2>1
<1>15. \A n \in 2 .. N : flatten[n] = flatten[n - 1] \o seqs[n]
    <2> TAKE n \in 2 .. N
    <2>1. n \in 1 .. N /\ n # 1 BY <1>2
    <2> QED BY <1>10, <2>1
<1>16. IsFlattening(flatten, seqs, S) BY <1>1, <1>13, <1>14, <1>15, Zenon DEF IsFlattening
<1> QED BY <1>16

\* Two runs of the recursion agree where both are defined.
LEMMA FlatStep ==
    ASSUME NEW S, NEW seqs \in Seq(Seq(S)), NEW m \in 0 .. Len(seqs)
    PROVE  /\ Flat(seqs, 0) = << >>
           /\ Flat(seqs, m) \in Seq(S)
           /\ m > 0 => Flat(seqs, m) = Flat(seqs, m - 1) \o seqs[m]
<1> DEFINE Cut(n) == [j \in 1 .. n |-> seqs[j]]
<1>1. \A n \in 0 .. Len(seqs) : Cut(n) \in Seq(Seq(S)) /\ Len(Cut(n)) = n OBVIOUS
<1>2. Flat(seqs, 0) = << >> BY DEF Flat, FlattenSeq
<1> DEFINE Joins(f, n) == /\ f \in [1 .. n -> Seq(S)]
                          /\ Flat(seqs, n) = f[n]
                          /\ f[1] = seqs[1]
                          /\ \A j \in 2 .. n : f[j] = f[j - 1] \o seqs[j]
<1>3. \A n \in 1 .. Len(seqs) : \E f : Joins(f, n)
    <2> TAKE n \in 1 .. Len(seqs)
    <2> DEFINE c == Cut(n)
    <2>1. c \in Seq(Seq(S)) /\ Len(c) = n /\ n > 0 /\ \A j \in 1 .. n : c[j] = seqs[j] BY <1>1
    <2>2. Flat(seqs, n) = FlattenSeq(c) BY DEF Flat
    <2> HIDE DEF c
    <2>3. PICK f : IsFlattening(f, c, S) BY <2>1, FlatFunction
    <2>4. /\ f \in [1 .. n -> Seq(S)] /\ Flat(seqs, n) = f[n] /\ f[1] = c[1]
          /\ \A j \in 2 .. n : f[j] = f[j - 1] \o c[j]
        BY <2>1, <2>2, <2>3 DEF IsFlattening
    <2>5. c[1] = seqs[1] /\ \A j \in 2 .. n : c[j] = seqs[j] BY <2>1
    <2>6. Joins(f, n) BY <2>4, <2>5
    <2> HIDE DEF Joins
    <2> QED BY <2>6
<1> HIDE DEF Joins
<1>4. CASE m = 0
    <2>1. << >> \in Seq(S) OBVIOUS
    <2>2. ~(m > 0) BY <1>4
    <2>3. Flat(seqs, m) \in Seq(S) BY <1>2, <1>4, <2>1
    <2> QED BY <1>2, <2>2, <2>3
<1>5. CASE m = 1
    <2>1. PICK f : Joins(f, m) BY <1>3, <1>5
    <2>2. seqs[1] \in Seq(S) BY <1>5
    <2>3. Flat(seqs, m) = seqs[m] BY <1>5, <2>1 DEF Joins
    <2>4. Flat(seqs, m - 1) = << >> BY <1>2, <1>5
    <2>5. << >> \o seqs[1] = seqs[1] BY <2>2
    <2>6. Flat(seqs, m) \in Seq(S) BY <1>5, <2>2, <2>3
    <2>7. Flat(seqs, m) = Flat(seqs, m - 1) \o seqs[m] BY <1>5, <2>3, <2>4, <2>5
    <2> QED BY <1>2, <2>6, <2>7
<1>6. CASE m > 1
    <2>1. PICK f : Joins(f, m)
        BY <1>3, <1>6
    <2>m. m - 1 \in 1 .. Len(seqs) BY <1>6
    <2>2. PICK h : Joins(h, m - 1) BY <1>3, <2>m
    <2> DEFINE T == {j \in Nat : j + 1 \in 1 .. m - 1 => f[j + 1] = h[j + 1]}
    <2>j. /\ f \in [1 .. m -> Seq(S)] /\ f[1] = seqs[1] /\ h[1] = seqs[1]
          /\ Flat(seqs, m) = f[m] /\ Flat(seqs, m - 1) = h[m - 1]
          /\ \A j \in 2 .. m : f[j] = f[j - 1] \o seqs[j]
          /\ \A j \in 2 .. m - 1 : h[j] = h[j - 1] \o seqs[j]
        BY <2>1, <2>2 DEF Joins
    <2>3. 0 \in T
        <3>1. 0 + 1 = 1 OBVIOUS
        <3> QED BY <2>j, <3>1
    <2>4. \A j \in Nat : j \in T => j + 1 \in T
        <3> TAKE j \in Nat
        <3> HAVE j \in T
        <3> SUFFICES ASSUME (j + 1) + 1 \in 1 .. m - 1
                     PROVE  f[(j + 1) + 1] = h[(j + 1) + 1]
            OBVIOUS
        <3>1. /\ j + 1 \in 1 .. m - 1 /\ ((j + 1) + 1) - 1 = j + 1
              /\ (j + 1) + 1 \in 2 .. m - 1 /\ (j + 1) + 1 \in 2 .. m
            OBVIOUS
        <3>2. f[(j + 1) + 1] = f[j + 1] \o seqs[(j + 1) + 1] BY <2>j, <3>1
        <3>3. h[(j + 1) + 1] = h[j + 1] \o seqs[(j + 1) + 1] BY <2>j, <3>1
        <3>4. f[j + 1] = h[j + 1] BY <3>1
        <3> QED BY <3>2, <3>3, <3>4
    <2> HIDE DEF T
    <2>5. Nat \subseteq T BY <2>3, <2>4, NumberInduction
    <2>6. /\ (m - 2) + 1 = m - 1 /\ m - 1 \in 1 .. m - 1 /\ m \in 2 .. m
          /\ m - 2 \in Nat /\ m \in 1 .. m
        BY <1>6
    <2>7. f[m - 1] = h[m - 1] BY <2>5, <2>6 DEF T
    <2>8. Flat(seqs, m) \in Seq(S) BY <2>6, <2>j
    <2>9. Flat(seqs, m) = Flat(seqs, m - 1) \o seqs[m] BY <2>6, <2>7, <2>j
    <2> QED BY <1>2, <2>8, <2>9
<1>7. m = 0 \/ m = 1 \/ m > 1 OBVIOUS
<1> QED BY <1>4, <1>5, <1>6, <1>7

LEMMA FlatAll ==
    ASSUME NEW S, NEW seqs \in Seq(Seq(S))
    PROVE  FlattenSeq(seqs) = Flat(seqs, Len(seqs)) /\ FlattenSeq(seqs) \in Seq(S)
<1>1. [j \in 1 .. Len(seqs) |-> seqs[j]] = seqs OBVIOUS
<1>2. FlattenSeq(seqs) = Flat(seqs, Len(seqs)) BY <1>1 DEF Flat
<1>3. Len(seqs) \in 0 .. Len(seqs) OBVIOUS
<1> QED BY <1>2, <1>3, FlatStep

\* The elements of a part stand behind those of the parts before it.
LEMMA FlatIndex ==
    ASSUME NEW S, NEW seqs \in Seq(Seq(S)), NEW k \in 1 .. Len(seqs)
    PROVE  /\ Len(Flat(seqs, k)) = Len(Flat(seqs, k - 1)) + Len(seqs[k])
           /\ Len(Flat(seqs, k)) <= Len(FlattenSeq(seqs))
           /\ \A j \in 1 .. Len(seqs[k]) :
                 FlattenSeq(seqs)[Len(Flat(seqs, k - 1)) + j] = seqs[k][j]
<1> DEFINE F(n) == Flat(seqs, n)
           b == Len(F(k - 1))
           Holds(n) == /\ Len(F(k)) <= Len(F(n))
                       /\ \A j \in 1 .. Len(seqs[k]) : F(n)[b + j] = seqs[k][j]
           T == {d \in Nat : k + d <= Len(seqs) => Holds(k + d)}
<1>0. ASSUME NEW n \in 0 .. Len(seqs)
      PROVE  F(n) \in Seq(S) /\ (n > 0 => F(n) = F(n - 1) \o seqs[n])
    BY FlatStep
<1>1. \A n \in 0 .. Len(seqs) : F(n) \in Seq(S) /\ (n > 0 => F(n) = F(n - 1) \o seqs[n])
    BY <1>0
<1>2. \A n \in 1 .. Len(seqs) : seqs[n] \in Seq(S) OBVIOUS
<1> HIDE DEF F
<1>3. /\ F(k - 1) \in Seq(S) /\ F(k) \in Seq(S) /\ seqs[k] \in Seq(S)
      /\ F(k) = F(k - 1) \o seqs[k]
    <2>1. k - 1 \in 0 .. Len(seqs) /\ k \in 0 .. Len(seqs) /\ k > 0 OBVIOUS
    <2> QED BY <1>1, <1>2, <2>1
<1>4. Len(F(k)) = b + Len(seqs[k]) /\ b \in Nat BY <1>3
<1>5. Holds(k) BY <1>3, <1>4
<1>6. 0 \in T BY <1>5
<1>7. \A d \in Nat : d \in T => d + 1 \in T
    <2> SUFFICES ASSUME NEW d \in Nat, Holds(k + d), k + (d + 1) <= Len(seqs)
                 PROVE  Holds(k + (d + 1))
        OBVIOUS
    <2> DEFINE s == F(k + d)
               t == seqs[k + (d + 1)]
    <2>1. s \in Seq(S) /\ t \in Seq(S) /\ F(k + (d + 1)) = s \o t
        <3>1. /\ k + d \in 0 .. Len(seqs) /\ k + (d + 1) \in 1 .. Len(seqs)
              /\ (k + (d + 1)) - 1 = k + d /\ k + (d + 1) > 0
              /\ k + (d + 1) \in 0 .. Len(seqs)
            OBVIOUS
        <3>2. s \in Seq(S) BY <1>1, <3>1
        <3>3. t \in Seq(S) BY <1>2, <3>1
        <3>4. F(k + (d + 1)) = F((k + (d + 1)) - 1) \o t BY <1>1, <3>1
        <3> QED BY <3>1, <3>2, <3>3, <3>4
    <2> HIDE DEF s, t
    <2>2. Len(F(k)) <= Len(s) /\ \A j \in 1 .. Len(seqs[k]) : s[b + j] = seqs[k][j] BY DEF s
    <2>l. \A x \in Seq(S) : Len(x) \in Nat OBVIOUS
    <2>5. Len(F(k)) \in Nat /\ Len(s) \in Nat /\ Len(seqs[k]) \in Nat BY <1>3, <2>1, <2>l
    <2> DEFINE lk == Len(seqs[k])
               lf == Len(F(k))
               ls == Len(s)
               bb == Len(F(k - 1))
    <2>6. bb \in Nat /\ lk \in Nat /\ lf = bb + lk /\ ls \in Nat /\ lf <= ls BY <1>4, <2>2, <2>5
    <2> HIDE DEF lk, lf, ls, bb
    <2>7. \A j \in 1 .. lk : bb + j \in 1 .. ls BY <2>6
    <2>3. \A j \in 1 .. Len(seqs[k]) : b + j \in 1 .. Len(s) BY <2>7 DEF lk, lf, ls, bb
    <2>n. F(k + (d + 1)) = s \o t BY <2>1
    <2>4. Len(s \o t) >= Len(s) /\ \A j \in 1 .. Len(s) : (s \o t)[j] = s[j] BY <2>1
    <2>8. Len(s \o t) \in Nat BY <2>1
    <2>9. Len(F(k)) <= Len(s \o t) BY <2>2, <2>4, <2>5, <2>8
    <2> QED BY <2>n, <2>2, <2>3, <2>4, <2>9
<1> HIDE DEF T
<1>7a. Nat \subseteq T BY <1>6, <1>7, NumberInduction
<1>7b. Len(seqs) - k \in Nat OBVIOUS
<1>8. Len(seqs) - k \in T BY <1>7a, <1>7b
<1>9. k + (Len(seqs) - k) = Len(seqs) OBVIOUS
<1>10. Holds(Len(seqs)) BY <1>8, <1>9 DEF T
<1> QED BY <1>4, <1>10, FlatAll DEF F

-----------------------------------------------------------------------------
(* What holds of every state.                                                *)

\* The opcodes are those of the point that was hit: no register is read that it has not.
Known == op_key_list = OpKeyList(event.point)

IInv == TypeOK /\ Known /\ WithinBuffer

Ev == [elems : Seq(Element), off : 0 .. BufSize, full : BOOLEAN]

-----------------------------------------------------------------------------
(* Facts about the operators.                                                *)

LEMMA SlotType == ASSUME NEW p PROVE SlotOf(p) \in {0, 1}
BY DEF SlotOf

\* The smaller of two numbers (op_ctx->read_len and op_ctx->break_count are capped by it).
LEMMA LeastType ==
    ASSUME NEW m \in Nat, NEW n \in Nat
    PROVE  Least(m, n) \in Nat /\ Least(m, n) <= m
BY DEF Least

LEMMA BreakCountType ==
    ASSUME NEW n \in Nat PROVE BreakCount(n) \in 0 .. MaxLoop
<1>1. MaxLoop \in Nat BY ArgAssumption
<1> QED BY <1>1, LeastType DEF BreakCount

\* save_bytes_to_buf copies at most MAX_BYTES_ARR_SIZE bytes, whatever the length.
LEMMA BytesType ==
    ASSUME NEW n \in Nat PROVE Bytes(n) \in 0 .. MaxBytes
BY ArgAssumption DEF Bytes, MsghdrSize

LEMMA WordAtType == ASSUME NEW a PROVE WordAt(a) \in Nat
BY ArgAssumption DEF WordAt

LEMMA ElementType ==
    /\ \A v \in Int : RegElem(v) \in Element
    /\ \A n \in Nat, a \in Int : Block(n, a) \in Element
    /\ \A n \in Nat, a \in Int : BytesAt(a, n) \in Element
    /\ \A a \in Int : StringAt(a) \in Element
BY ArgAssumption DEF RegElem, Block, BytesAt, StringAt, Element

\* Saving an element keeps the event inside its buffer: the room asked for is that of the
\* largest element (buffer.h:31 and 66).
LEMMA SaveStays ==
    ASSUME NEW ev \in Ev, NEW elem \in Element
    PROVE  Save(ev, elem) \in Ev
<1>1. MaxBytes \in Nat \ {0} /\ MaxElement \in Nat /\ MaxElement >= 8 /\ BufSize \in Nat
    BY ArgAssumption, ReadArgsAssumption DEF MsghdrSize
<1>2. Bytes(elem.len) \in 0 .. MaxBytes BY BytesType DEF Element
<1>3. Append(ev.elems, elem) \in Seq(Element) BY DEF Ev
<1>4. ev.elems \in Seq(Element) /\ ev.off \in 0 .. BufSize /\ ev.full \in BOOLEAN BY DEF Ev
<1>5. CASE elem.kind = "reg"
    <2>1. RegFits(ev.off) => ev.off + (1 + 8) \in 0 .. BufSize BY <1>1, <1>4 DEF RegFits
    <2> QED BY <1>3, <1>4, <1>5, <2>1 DEF Save, Ev
<1>6. CASE elem.kind # "reg"
    <2>1. BytesFit(ev.off) => ev.off + (1 + 4 + Bytes(elem.len)) \in 0 .. BufSize
        BY <1>1, <1>2, <1>4 DEF BytesFit
    <2> QED BY <1>3, <1>4, <1>6, <2>1 DEF Save, Ev
<1> QED BY <1>5, <1>6

LEMMA EventType == ASSUME IInv PROVE Event \in Ev
BY ReadArgsAssumption DEF IInv, TypeOK, WithinBuffer, Event, Ev

LEMMA WrittenStays ==
    ASSUME IInv, NEW ev \in Ev, Written(ev)
    PROVE  saved' \in Seq(Element) /\ buf_off' \in Nat /\ buf_off' <= BufSize
           /\ spoilt' \subseteq Causes
BY ReadArgsAssumption DEF IInv, TypeOK, Written, Ev, Causes

-----------------------------------------------------------------------------
(* The opcode lists of the points.                                           *)

LEMMA OpType ==
    /\ \A code \in Codes, v \in Nat : Op(code, v) \in Opcode
    /\ \A r \in Nat, post \in PostCodes : ReadReg(r, post) \in Opcode
    /\ \A o \in Nat, post \in PostCodes : ReadPtr(o, post) \in Opcode
    /\ \A n \in Nat : SaveStruct(n) \in Opcode
BY DEF Op, ReadReg, ReadPtr, SaveStruct, Opcode, Codes, PostCodes

LEMMA JoinedType ==
    ASSUME NEW S, NEW s \in Seq(S), NEW t \in Seq(S)
    PROVE  /\ s \o t \in Seq(S) /\ Len(s \o t) = Len(s) + Len(t)
OBVIOUS

LEMMA FirstJoined ==
    ASSUME NEW S, NEW s \in Seq(S), NEW t \in Seq(S), Len(s) >= 1
    PROVE  (s \o t)[1] = s[1] /\ Len(s \o t) >= 1
OBVIOUS

LoopHead == << Op("FOR_BREAK", 0), Op("SET_TMP_VALUE", 0) >>

LoopEnd == << Op("MOVE_TMP_VALUE", 0), Op("ADD_OFFSET", IovecSize), Op("FOR_BREAK", 0) >>

LEMMA IovecLoopIs ==
    /\ LoopHead \in Seq(Opcode) /\ Len(LoopHead) = 2
    /\ IOVEC \in Seq(Opcode) /\ Len(IOVEC) = 7
    /\ LoopEnd \in Seq(Opcode) /\ Len(LoopEnd) = 3
    /\ IovecLoop = LoopHead \o IOVEC \o LoopEnd
    /\ IovecLoop \in Seq(Opcode) /\ Len(IovecLoop) = 12
<1>1. {"FOR_BREAK", "SET_TMP_VALUE", "MOVE_TMP_VALUE", "ADD_OFFSET", "SAVE_STRUCT",
       "SET_READ_LEN", "READ_POINTER", "MOVE_POINTER_VALUE"} \subseteq Codes
    BY DEF Codes, PostCodes
<1>2. 0 \in Nat /\ 8 \in Nat /\ IovecSize \in Nat /\ MaxBytes \in Nat
      /\ "SET_READ_LEN_POINTER_VALUE" \in PostCodes
    BY ArgAssumption DEF IovecSize, PostCodes
<1>3. /\ LoopHead \in Seq(Opcode) /\ LoopEnd \in Seq(Opcode)
      /\ Len(LoopHead) = 2 /\ Len(LoopEnd) = 3
    BY <1>1, <1>2, OpType DEF LoopHead, LoopEnd
<1>4. IOVEC \in Seq(Opcode) /\ Len(IOVEC) = 7
    BY <1>1, <1>2, OpType DEF IOVEC
<1>5. IovecLoop = LoopHead \o IOVEC \o LoopEnd BY DEF IovecLoop, LoopHead, LoopEnd
<1>6. LoopHead \o IOVEC \in Seq(Opcode) /\ Len(LoopHead \o IOVEC) = 2 + 7
    BY <1>3, <1>4, JoinedType
<1>7. IovecLoop \in Seq(Opcode) /\ Len(IovecLoop) = (2 + 7) + 3
    <2> DEFINE s == LoopHead \o IOVEC
    <2>1. s \in Seq(Opcode) /\ Len(s) = 2 + 7 BY <1>6
    <2>2. IovecLoop = s \o LoopEnd BY <1>5
    <2> HIDE DEF s
    <2>3. s \o LoopEnd \in Seq(Opcode) /\ Len(s \o LoopEnd) = Len(s) + Len(LoopEnd)
        BY <1>3, <2>1, JoinedType
    <2> QED BY <1>3, <2>1, <2>2, <2>3
<1> QED BY <1>3, <1>4, <1>5, <1>7

LEMMA TypeOpsType == ASSUME NEW t \in Type PROVE TypeOps(t) \in Seq(Opcode)
<1>1. {"FOR_BREAK", "SET_TMP_VALUE", "MOVE_TMP_VALUE", "ADD_OFFSET", "SAVE_STRUCT",
       "SET_READ_LEN", "READ_POINTER", "MOVE_POINTER_VALUE", "SAVE_STRING", "READ_STD_STRING",
       "SET_BREAK_COUNT", "SAVE_PTR_STRING", "SAVE_REG"} \subseteq Codes
    BY DEF Codes, PostCodes
<1>2. 0 \in Nat /\ 8 \in Nat /\ 16 \in Nat /\ 24 \in Nat /\ 32 \in Nat /\ 40 \in Nat
      /\ IovecSize \in Nat /\ MaxBytes \in Nat /\ MsghdrSize \in Nat /\ PtrSize \in Nat
      /\ MaxLoop \in Nat /\ t.size \in Nat /\ t.reg \in Nat
    BY ArgAssumption DEF IovecSize, MsghdrSize, PtrSize, Type
<1>3. {"SET_READ_LEN_POINTER_VALUE", "SET_READ_LEN_REG_VALUE", "SET_BREAK_COUNT_REG_VALUE",
       "SET_BREAK_COUNT_POINTER_VALUE", "MOVE_POINTER_VALUE"} \subseteq PostCodes
    BY DEF PostCodes
<1> DEFINE a == << Op("SET_READ_LEN", MsghdrSize), Op("SAVE_STRUCT", 0), Op("SET_TMP_VALUE", 0),
                   Op("SET_READ_LEN", MaxBytes), ReadPtr(40, "SET_READ_LEN_POINTER_VALUE"),
                   ReadPtr(32, "MOVE_POINTER_VALUE"), Op("SAVE_STRUCT", 0), Op("MOVE_TMP_VALUE", 0),
                   ReadPtr(24, "SET_BREAK_COUNT_POINTER_VALUE"), ReadPtr(16, "MOVE_POINTER_VALUE") >>
           b == << ReadReg(t.reg, "SET_BREAK_COUNT_REG_VALUE"), Op("SAVE_REG", 0) >>
<1>4. a \in Seq(Opcode) /\ b \in Seq(Opcode) BY <1>1, <1>2, <1>3, OpType
<1>5. MSGHDR \in Seq(Opcode) /\ b \o IovecLoop \in Seq(Opcode)
    <2> HIDE DEF b
    <2>1. b \o IovecLoop \in Seq(Opcode) BY <1>4, IovecLoopIs, JoinedType
    <2>2. MSGHDR = a \o IovecLoop BY DEF MSGHDR
    <2> HIDE DEF a
    <2> QED BY <1>4, <2>1, <2>2, IovecLoopIs, JoinedType
<1>6. CASE t.name \in {"msghdr", "iovec"} BY <1>5, <1>6 DEF TypeOps
<1>7. CASE t.name \in {"num", "pointer", "array", "struct", "dirent", "buffer", "buffer_reg"}
    BY <1>1, <1>2, <1>3, <1>7, OpType DEF TypeOps
<1>8. CASE t.name \in {"string", "std", "string_array"}
    BY <1>1, <1>2, <1>3, <1>8, OpType DEF TypeOps
<1> QED BY <1>6, <1>7, <1>8 DEF Type

LEMMA FilterOpsType ==
    ASSUME NEW arg \in Arg, NEW code \in Codes
    PROVE  FilterOps(arg, code) \in Seq(Opcode) /\ Len(FilterOps(arg, code)) = Len(arg.filters)
<1>1. arg.filters \in Seq(DOMAIN Filters) BY DEF Arg
<1>2. \A f \in DOMAIN arg.filters : arg.filters[f] \in Nat BY <1>1, ArgAssumption
<1> QED BY <1>1, <1>2, OpType DEF FilterOps

ExtraOps(arg) == [j \in DOMAIN arg.read_op |-> ExtraOp(arg.read_op[j])]

LEMMA ExtraOpsType ==
    ASSUME NEW arg \in Arg
    PROVE  /\ ExtraOps(arg) \in Seq(Seq(Opcode)) /\ Len(ExtraOps(arg)) = Len(arg.read_op)
           /\ FlattenSeq(ExtraOps(arg)) \in Seq(Opcode)
<1>1. arg.read_op \in Seq(ReadOp) BY DEF Arg
<1>2. /\ {"ADD_OFFSET", "SUB_OFFSET", "READ_POINTER", "MOVE_POINTER_VALUE", "ADD_REG", "SUB_REG"}
             \subseteq Codes
      /\ "MOVE_REG_VALUE" \in PostCodes
    BY DEF Codes, PostCodes
<1>3. \A r \in ReadOp : ExtraOp(r) \in Seq(Opcode) BY <1>2, OpType DEF ExtraOp, ReadOp
<1>4. ExtraOps(arg) \in Seq(Seq(Opcode)) /\ Len(ExtraOps(arg)) = Len(arg.read_op)
    BY <1>1, <1>3 DEF ExtraOps
<1> QED BY <1>4, FlatAll

LEMMA AddressOpsType ==
    ASSUME NEW arg \in Arg PROVE AddressOps(arg) \in Seq(Opcode)
<1>1. {"READ_RET", "SAVE_REG", "SAVE_ADDR", "MOVE_REG_VALUE"} \subseteq Codes
      /\ {"SAVE_REG", "MOVE_REG_VALUE"} \subseteq PostCodes
    BY DEF Codes, PostCodes
<1>2. arg.reg \in Nat BY DEF Arg
<1>3. CASE arg.is_ret BY <1>1, <1>3, OpType DEF AddressOps
<1>4. CASE ~arg.is_ret /\ arg.read_op # << >>
    <2> DEFINE a == << ReadReg(arg.reg, "MOVE_REG_VALUE") >>
               b == << Op("SAVE_ADDR", 0) >>
    <2>1. a \in Seq(Opcode) /\ b \in Seq(Opcode) BY <1>1, <1>2, OpType
    <2>2. AddressOps(arg) = a \o FlattenSeq(ExtraOps(arg)) \o b
        BY <1>4 DEF AddressOps, ExtraOpList, ExtraOps
    <2> HIDE DEF a, b
    <2>3. a \o FlattenSeq(ExtraOps(arg)) \in Seq(Opcode) BY <2>1, ExtraOpsType, JoinedType
    <2> QED BY <2>1, <2>2, <2>3, JoinedType
<1>5. CASE ~arg.is_ret /\ arg.read_op = << >> BY <1>1, <1>2, <1>5, OpType DEF AddressOps
<1> QED BY <1>3, <1>4, <1>5

\* The parts of GetOpList.
ValueFilters(arg) == IF arg.is_ret \/ IsString(arg.type) \/ IsBuffer(arg.type)
                     THEN << >> ELSE FilterOps(arg, "FILTER_VALUE")

MoreFilters(arg) == IF IsString(arg.type) THEN FilterOps(arg, "FILTER_STRING")
                    ELSE IF IsBuffer(arg.type) THEN FilterOps(arg, "FILTER_BUFFER") ELSE << >>

MoreOps(arg) == IF ReadMore(arg) THEN TypeOps(arg.type) \o MoreFilters(arg) ELSE << >>

LEMMA GetOpListIs ==
    ASSUME NEW arg \in Arg
    PROVE  /\ GetOpList(arg) = AddressOps(arg) \o ValueFilters(arg) \o MoreOps(arg)
           /\ GetOpList(arg) \in Seq(Opcode)
           /\ ValueFilters(arg) \in Seq(Opcode) /\ MoreOps(arg) \in Seq(Opcode)
           /\ MoreFilters(arg) \in Seq(Opcode) /\ TypeOps(arg.type) \in Seq(Opcode)
<1>1. GetOpList(arg) = AddressOps(arg) \o ValueFilters(arg) \o MoreOps(arg)
    BY DEF GetOpList, ValueFilters, MoreOps, MoreFilters
<1>2. {"FILTER_VALUE", "FILTER_STRING", "FILTER_BUFFER"} \subseteq Codes BY DEF Codes
<1>3. << >> \in Seq(Opcode) /\ arg.type \in Type BY DEF Arg
<1>4. ValueFilters(arg) \in Seq(Opcode) BY <1>2, <1>3, FilterOpsType DEF ValueFilters
<1>5. MoreFilters(arg) \in Seq(Opcode) BY <1>2, <1>3, FilterOpsType DEF MoreFilters
<1>6. TypeOps(arg.type) \in Seq(Opcode) BY <1>3, TypeOpsType
<1>7. MoreOps(arg) \in Seq(Opcode) BY <1>3, <1>5, <1>6, JoinedType DEF MoreOps
<1>8. AddressOps(arg) \o ValueFilters(arg) \in Seq(Opcode) BY <1>4, AddressOpsType, JoinedType
<1>9. GetOpList(arg) \in Seq(Opcode) BY <1>1, <1>7, <1>8, JoinedType
<1> QED BY <1>1, <1>4, <1>5, <1>6, <1>7, <1>9

Lists(point) == [k \in DOMAIN point.args |-> GetOpList(point.args[k])]

\* The programs of all arguments together are opcodes of the interpreter, whatever the arguments
\* (point_arg.go GetOpList, point_opkey.go).
LEMMA OpKeyListType ==
    ASSUME NEW point \in Point
    PROVE  /\ Lists(point) \in Seq(Seq(Opcode)) /\ Len(Lists(point)) = Len(point.args)
           /\ OpKeyList(point) = FlattenSeq(Lists(point))
           /\ OpKeyList(point) \in Seq(Opcode)
<1>1. point.args \in Seq(Arg) BY DEF Point
<1>2. \A k \in DOMAIN point.args : GetOpList(point.args[k]) \in Seq(Opcode)
    BY <1>1, GetOpListIs
<1>3. Lists(point) \in Seq(Seq(Opcode)) /\ Len(Lists(point)) = Len(point.args)
    <2> DEFINE n == Len(point.args)
               S == Seq(Opcode)
    <2>1. n \in Nat /\ DOMAIN point.args = 1 .. n BY <1>1
    <2>2. \A k \in 1 .. n : GetOpList(point.args[k]) \in S BY <1>2, <2>1
    <2>3. Lists(point) = [k \in 1 .. n |-> GetOpList(point.args[k])] BY <2>1 DEF Lists
    <2> HIDE DEF n, S
    <2>4. [k \in 1 .. n |-> GetOpList(point.args[k])] \in Seq(S)
          /\ Len([k \in 1 .. n |-> GetOpList(point.args[k])]) = n
        BY <2>1, <2>2
    <2> QED BY <2>3, <2>4 DEF n, S
<1>4. OpKeyList(point) = FlattenSeq(Lists(point)) BY DEF OpKeyList, Lists
<1> QED BY <1>3, <1>4, FlatAll

-----------------------------------------------------------------------------
(* The turn of the loop.                                                     *)

LEMMA SkipType == OPC_SKIP \in Opcode
BY DEF OPC_SKIP, Op, Opcode, Codes, PostCodes

LEMMA EventKnown ==
    ASSUME TypeOK
    PROVE  /\ IsCall(event)
           /\ Ctx \in Context
           /\ Slot \in {0, 1}
BY ReadArgsAssumption, SlotType DEF TypeOK, Slot, Ctx

LEMMA KeyType ==
    ASSUME TypeOK, Known, NEW index \in Nat
    PROVE  /\ KeyAt(index) \in Opcode
           /\ KeyAt(index).code = "READ_REG" => KeyAt(index).value \in DOMAIN event.regs
<1>1. op_key_list \in Seq(Opcode) BY DEF TypeOK
<1>2. \A k \in DOMAIN op_key_list :
          op_key_list[k].code = "READ_REG" => op_key_list[k].value \in DOMAIN event.regs
    BY EventKnown DEF Known, IsCall
<1>3. CASE index < Len(op_key_list)
    <2>1. index + 1 \in DOMAIN op_key_list BY <1>1, <1>3
    <2> QED BY <1>1, <1>2, <1>3, <2>1 DEF KeyAt
<1>4. CASE ~(index < Len(op_key_list))
    <2>1. OPC_SKIP.code # "READ_REG" BY DEF OPC_SKIP, Op
    <2> QED BY <1>4, <2>1, SkipType DEF KeyAt
<1> QED BY <1>3, <1>4

\* What an opcode starts from.
LEMMA FetchedType ==
    ASSUME TypeOK, Known, ~OutOfTurns
    PROVE  /\ Fetched \in Context
           /\ op \in Opcode
           /\ op_code = "READ_REG" => op.value \in DOMAIN event.regs
<1> DEFINE ctx == Ctx
<1>1. ctx \in Context /\ MaxOp \in Nat BY EventKnown, ArgAssumption
<1>2. CASE Pending
    <2>1. [ctx EXCEPT !.post_code = "SKIP"] \in Context BY <1>1 DEF Context, PostCodes
    <2>2. op_code # "READ_REG" BY <1>1, <1>2 DEF op_code, Pending, Context, PostCodes
    <2> QED BY <1>2, <2>1, <2>2, SkipType DEF Fetched, op
<1>3. CASE ~Pending
    <2>1. ctx.op_key_index \in Nat /\ ctx.op_key_index + 1 \in 0 .. MaxOp
        BY <1>1, <1>3 DEF OutOfTurns, Context
    <2>2. /\ op \in Opcode
          /\ op.code = "READ_REG" => op.value \in DOMAIN event.regs
        BY <1>3, <2>1, KeyType DEF op
    <2>3. op.post \in PostCodes BY <2>2 DEF Opcode
    <2>4. [ctx EXCEPT !.post_code = op.post, !.op_key_index = @ + 1] \in Context
        BY <1>1, <2>1, <2>3 DEF Context
    <2>5. op_code = op.code BY <1>3 DEF op_code, op, Pending
    <2> QED BY <1>3, <2>2, <2>4, <2>5 DEF Fetched
<1> QED BY <1>2, <1>3

\* What every turn leaves, when the opcode leaves a context of the right type.
LEMMA TurnStays ==
    ASSUME IInv, NEW code, NEW ctx \in Context, Turn(code, ctx)
    PROVE  /\ module' \in Modules /\ event' \in module'
           /\ pc' \in {"idle", "run", "done", "submitted", "skipped"}
           /\ op_ctx' \in [{0, 1} -> Context]
           /\ i' \in 0 .. MaxOp
           /\ op_key_list' \in Seq(Opcode) /\ Known'
<1>1. op_ctx' \in [{0, 1} -> Context] BY DEF Turn, IInv, TypeOK
<1>2. i' \in 0 .. MaxOp BY ArgAssumption DEF Turn, IInv, TypeOK, OutOfTurns
<1>3. pc' \in {"run", "done"} BY DEF Turn
<1> QED BY <1>1, <1>2, <1>3 DEF Turn, IInv, TypeOK, Known

LEMMA QuietStays ==
    ASSUME IInv, NEW code, NEW ctx, Quiet(code, ctx), ctx \in Context
    PROVE  IInv'
<1>1. Turn(code, ctx) BY DEF Quiet
<1> QED BY <1>1, TurnStays DEF Quiet, IInv, TypeOK, Known, WithinBuffer

LEMMA SavingStays ==
    ASSUME IInv, NEW code, NEW ctx \in Context, Turn(code, ctx), NEW ev \in Ev, Written(ev)
    PROVE  IInv'
BY TurnStays, WrittenStays DEF IInv, TypeOK, Known, WithinBuffer

-----------------------------------------------------------------------------
(* Every action keeps the invariant.                                         *)

LEMMA InitType == ASSUME Init PROVE IInv
<1>1. ZeroContext \in Context
    BY ArgAssumption DEF ZeroContext, Context, PostCodes
<1>2. MaxOp \in Nat /\ BufSize \in Nat BY ArgAssumption, ReadArgsAssumption
<1>3. op_key_list \in Seq(Opcode)
    BY ReadArgsAssumption, OpKeyListType DEF Init, IsCall
<1> QED BY <1>1, <1>2, <1>3 DEF Init, IInv, TypeOK, Known, WithinBuffer, Causes

LEMMA ClearedType == ASSUME NEW ctx \in Context PROVE Cleared(ctx) \in Context
<1>1. 0 \in 0 .. MaxLoop /\ 0 \in 0 .. MaxOp BY ArgAssumption
<1> QED BY <1>1 DEF Cleared, Context

LEMMA HitStays ==
    ASSUME IInv, NEW call \in module, Hit(call)
    PROVE  IInv'
<1> DEFINE s == SlotOf(call.point)
<1>1. s \in {0, 1} BY SlotType
<1>2. op_ctx[s] \in Context BY <1>1 DEF IInv, TypeOK
<1>3. Cleared(op_ctx[s]) \in Context
    BY <1>2, ClearedType
<1>4. op_ctx' \in [{0, 1} -> Context] BY <1>3 DEF Hit, IInv, TypeOK
<1>5. Header(call.point) \in 0 .. 32 BY DEF Header
<1>6. buf_off' \in Nat /\ buf_off' <= BufSize
    <2>1. buf_off' = Header(call.point) BY DEF Hit
    <2>2. BufSize \in Nat /\ BufSize >= 32 BY ArgAssumption, ReadArgsAssumption
    <2> QED BY <1>5, <2>1, <2>2
<1>7. MaxOp \in Nat /\ saved' \in Seq(Element) /\ i' = 0 /\ pc' = "run"
    BY ArgAssumption DEF Hit
<1>8. spoilt' \subseteq Causes BY DEF Hit, Causes
<1>9. /\ module' \in Modules /\ event' \in module'
      /\ op_key_list' = OpKeyList(event'.point)
    BY DEF Hit, IInv, TypeOK
<1>10. op_key_list' \in Seq(Opcode)
    BY <1>9, ReadArgsAssumption, OpKeyListType DEF IsCall
<1> QED BY <1>4, <1>6, <1>7, <1>8, <1>9, <1>10 DEF IInv, TypeOK, Known, WithinBuffer

LEMMA StopStays == ASSUME IInv, Stop PROVE IInv'
<1>1. op_ctx' \in [{0, 1} -> Context]
    <2>1. CASE OutOfTurns BY <2>1 DEF Stop, IInv, TypeOK
    <2>2. CASE ~OutOfTurns
        <3>1. Fetched \in Context BY <2>2, FetchedType DEF IInv
        <3> QED BY <2>2, <3>1 DEF Stop, IInv, TypeOK
    <2> QED BY <2>1, <2>2
<1>2. spoilt' \subseteq Causes BY DEF Stop, IInv, TypeOK, Causes
<1> QED BY <1>1, <1>2 DEF Stop, IInv, TypeOK, Known, WithinBuffer

\* A context that differs from one of the right type in fields of the right types.
LEMMA ContextStays ==
    ASSUME NEW ctx \in Context
    PROVE  /\ \A v \in Nat : [ctx EXCEPT !.reg_value = v] \in Context
           /\ \A v \in Nat : [ctx EXCEPT !.pointer_value = v] \in Context
           /\ \A v \in Nat : [ctx EXCEPT !.read_len = v] \in Context
           /\ \A v \in Nat : [ctx EXCEPT !.str_len = v] \in Context
           /\ \A v \in Int : [ctx EXCEPT !.read_addr = v] \in Context
           /\ \A v \in Int : [ctx EXCEPT !.tmp_value = v] \in Context
           /\ \A v \in 0 .. MaxLoop : [ctx EXCEPT !.break_count = v] \in Context
           /\ \A v \in 0 .. MaxLoop : [ctx EXCEPT !.loop_count = v] \in Context
BY DEF Context

LEMMA UnknownStays == ASSUME IInv, Unknown PROVE IInv'
<1>1. ~OutOfTurns BY DEF Unknown, Quiet, Turn
<1>2. Fetched \in Context BY <1>1, FetchedType DEF IInv
<1> QED BY <1>2, QuietStays DEF Unknown

LEMMA ReadRegisterStays == ASSUME IInv, ReadRegister PROVE IInv'
<1>1. ~OutOfTurns BY DEF ReadRegister, Quiet, Turn
<1>2. Fetched \in Context /\ (op_code = "READ_REG" => op.value \in DOMAIN event.regs)
    BY <1>1, FetchedType DEF IInv
<1>3. event.ret \in Nat /\ \A r \in DOMAIN event.regs : event.regs[r] \in Nat
    BY EventKnown, ReadArgsAssumption DEF IsCall, IInv
<1>4. CASE Quiet("READ_REG", [Fetched EXCEPT !.reg_value = event.regs[op.value]])
    <2>1. op_code = "READ_REG" BY <1>4 DEF Quiet, Turn
    <2>2. event.regs[op.value] \in Nat BY <1>2, <1>3, <2>1
    <2> QED BY <1>2, <1>4, <2>2, ContextStays, QuietStays
<1>5. CASE Quiet("READ_RET", [Fetched EXCEPT !.reg_value = event.ret])
    BY <1>2, <1>3, <1>5, ContextStays, QuietStays
<1> QED BY <1>4, <1>5 DEF ReadRegister

LEMMA ReadPointerStays == ASSUME IInv, ReadPointer PROVE IInv'
<1>1. ~OutOfTurns BY DEF ReadPointer, Quiet, Turn
<1>2. Fetched \in Context BY <1>1, FetchedType DEF IInv
<1> DEFINE offset == IF op.pre = "ADD_OFFSET" THEN op.value ELSE 0
<1>3. WordAt(Fetched.read_addr + offset) \in Nat BY WordAtType
<1>4. [Fetched EXCEPT !.pointer_value = WordAt(Fetched.read_addr + offset)] \in Context
    BY <1>2, <1>3, ContextStays
<1>5. Quiet("READ_POINTER",
            [Fetched EXCEPT !.pointer_value = WordAt(Fetched.read_addr + offset)])
    BY DEF ReadPointer
<1> QED BY <1>4, <1>5, QuietStays

LEMMA SetReadLenStays == ASSUME IInv, SetReadLen PROVE IInv'
<1>1. ~OutOfTurns BY DEF SetReadLen, Quiet, Turn
<1>2. Fetched \in Context /\ op.value \in Nat BY <1>1, FetchedType DEF IInv, Opcode
<1>3. /\ Fetched.read_len \in Nat /\ Fetched.reg_value \in Nat
      /\ Fetched.pointer_value \in Nat
    BY <1>2 DEF Context
<1>4. /\ [Fetched EXCEPT !.read_len = op.value] \in Context
      /\ [Fetched EXCEPT !.read_len = Least(Fetched.read_len, Fetched.reg_value)] \in Context
      /\ [Fetched EXCEPT !.read_len = Least(Fetched.read_len, Fetched.pointer_value)]
             \in Context
    BY <1>2, <1>3, LeastType, ContextStays
<1> QED BY <1>4, QuietStays DEF SetReadLen

LEMMA MoveAddressStays == ASSUME IInv, MoveAddress PROVE IInv'
<1>1. ~OutOfTurns BY DEF MoveAddress, Quiet, Turn
<1>2. Fetched \in Context /\ op.value \in Nat BY <1>1, FetchedType DEF IInv, Opcode
<1>3. /\ Fetched.read_addr \in Int /\ Fetched.reg_value \in Int
      /\ Fetched.pointer_value \in Int /\ Fetched.tmp_value \in Int
    BY <1>2 DEF Context
<1>4. /\ Fetched.read_addr + op.value \in Int /\ Fetched.read_addr - op.value \in Int
      /\ Fetched.read_addr + Fetched.reg_value \in Int
      /\ Fetched.read_addr - Fetched.reg_value \in Int
    BY <1>2, <1>3
<1>5. /\ [Fetched EXCEPT !.read_addr = Fetched.read_addr + op.value] \in Context
      /\ [Fetched EXCEPT !.read_addr = Fetched.read_addr - op.value] \in Context
      /\ [Fetched EXCEPT !.read_addr = Fetched.read_addr + Fetched.reg_value] \in Context
      /\ [Fetched EXCEPT !.read_addr = Fetched.read_addr - Fetched.reg_value] \in Context
      /\ [Fetched EXCEPT !.read_addr = Fetched.reg_value] \in Context
      /\ [Fetched EXCEPT !.read_addr = Fetched.pointer_value] \in Context
      /\ [Fetched EXCEPT !.read_addr = Fetched.tmp_value] \in Context
      /\ [Fetched EXCEPT !.tmp_value = Fetched.read_addr] \in Context
    BY <1>2, <1>3, <1>4, ContextStays
<1> QED BY <1>5, QuietStays DEF MoveAddress

LEMMA ReadStdStringStays == ASSUME IInv, ReadStdString PROVE IInv'
<1>1. ~OutOfTurns BY DEF ReadStdString, Quiet, Turn
<1>2. Fetched \in Context BY <1>1, FetchedType DEF IInv
<1>3. StringData(Fetched.read_addr) \in Int
    BY <1>2, WordAtType DEF StringData, Context
<1>4. [Fetched EXCEPT !.read_addr = StringData(Fetched.read_addr)] \in Context
    BY <1>2, <1>3, ContextStays
<1> QED BY <1>4, QuietStays DEF ReadStdString

LEMMA SetBreakCountStays == ASSUME IInv, SetBreakCount PROVE IInv'
<1>1. ~OutOfTurns BY DEF SetBreakCount, Quiet, Turn
<1>2. Fetched \in Context /\ op.value \in Nat BY <1>1, FetchedType DEF IInv, Opcode
<1>3. Fetched.reg_value \in Nat /\ Fetched.pointer_value \in Nat BY <1>2 DEF Context
<1>4. /\ [Fetched EXCEPT !.break_count = BreakCount(op.value)] \in Context
      /\ [Fetched EXCEPT !.break_count = BreakCount(Fetched.reg_value)] \in Context
      /\ [Fetched EXCEPT !.break_count = BreakCount(Fetched.pointer_value)] \in Context
    BY <1>2, <1>3, BreakCountType, ContextStays
<1> QED BY <1>4, QuietStays DEF SetBreakCount

\* A loop that has not reached its break count may run one more turn.
LEMMA LoopedType == ASSUME NEW ctx \in Context PROVE Looped(ctx) \in Context
<1> DEFINE start == IF ctx.loop_count = 0 THEN ctx.op_key_index ELSE ctx.loop_index
<1>1. /\ ctx.loop_count \in 0 .. MaxLoop /\ ctx.break_count \in 0 .. MaxLoop
      /\ MaxLoop \in Nat /\ MaxOp \in Nat /\ start \in 0 .. MaxOp
    BY ArgAssumption DEF Context
<1>2. CASE ctx.loop_count >= ctx.break_count
    <2>1. Looped(ctx) = [ctx EXCEPT !.loop_count = 0, !.break_count = 0, !.loop_index = 0]
        BY <1>2 DEF Looped
    <2>2. 0 \in 0 .. MaxLoop /\ 0 \in 0 .. MaxOp BY <1>1
    <2>3. [ctx EXCEPT !.loop_count = 0, !.break_count = 0, !.loop_index = 0] \in Context
        BY <2>2 DEF Context
    <2> QED BY <2>1, <2>3
<1>3. CASE ~(ctx.loop_count >= ctx.break_count)
    <2>1. Looped(ctx) = [ctx EXCEPT !.loop_count = ctx.loop_count + 1, !.loop_index = start,
                                    !.op_key_index = start]
        BY <1>3 DEF Looped
    <2>2. ctx.loop_count + 1 \in 0 .. MaxLoop BY <1>1, <1>3
    <2>3. [ctx EXCEPT !.loop_count = ctx.loop_count + 1, !.loop_index = start,
                      !.op_key_index = start] \in Context
        <3> HIDE DEF start
        <3> QED BY <1>1, <2>2 DEF Context
    <2> QED BY <2>1, <2>3
<1> QED BY <1>2, <1>3

LEMMA ForBreakStays == ASSUME IInv, ForBreak PROVE IInv'
<1>1. ~OutOfTurns BY DEF ForBreak, Quiet, Turn
<1>2. Fetched \in Context BY <1>1, FetchedType DEF IInv
<1> QED BY <1>2, LoopedType, QuietStays DEF ForBreak

\* The flags of the filters are Boolean whatever they are set from.
LEMMA FlagsStay ==
    ASSUME NEW ctx \in Context, NEW a, NEW b, NEW c
    PROVE  /\ [ctx EXCEPT !.match_blacklist = @ \/ a] \in Context
           /\ [ctx EXCEPT !.apply_filter = @ \/ a, !.match_whitelist = @ \/ b] \in Context
           /\ [ctx EXCEPT !.apply_filter = @ \/ a, !.match_whitelist = @ \/ b,
                          !.match_blacklist = @ \/ c] \in Context
BY DEF Context

LEMMA FilterStays ==
    ASSUME IInv, FilterValue \/ FilterBuffer \/ FilterString PROVE IInv'
<1>1. ~OutOfTurns BY DEF FilterValue, FilterBuffer, FilterString, Quiet, Turn
<1>2. Fetched \in Context BY <1>1, FetchedType DEF IInv
<1>3. CASE FilterValue
    BY <1>2, <1>3, FlagsStay, QuietStays DEF FilterValue
<1>4. CASE FilterBuffer
    BY <1>2, <1>4, FlagsStay, QuietStays DEF FilterBuffer
<1>5. CASE FilterString
    BY <1>2, <1>5, FlagsStay, QuietStays DEF FilterString
<1> QED BY <1>3, <1>4, <1>5

LEMMA SaveRegisterStays == ASSUME IInv, SaveRegister PROVE IInv'
<1>1. ~OutOfTurns BY DEF SaveRegister, Turn
<1>2. Fetched \in Context BY <1>1, FetchedType DEF IInv
<1>3. RegElem(Fetched.reg_value) \in Element /\ RegElem(Fetched.read_addr) \in Element
    BY <1>2, ElementType DEF Context
<1>4. /\ Save(Event, RegElem(Fetched.reg_value)) \in Ev
      /\ Save(Event, RegElem(Fetched.read_addr)) \in Ev
    BY <1>3, EventType, SaveStays
<1> QED BY <1>2, <1>4, SavingStays DEF SaveRegister

LEMMA SaveBytesStays == ASSUME IInv, SaveBytes PROVE IInv'
<1> DEFINE ctx == [Fetched EXCEPT !.read_len = Least(@, MaxBytes)]
<1>1. ~OutOfTurns BY DEF SaveBytes, Turn
<1>2. Fetched \in Context BY <1>1, FetchedType DEF IInv
<1>3. Least(Fetched.read_len, MaxBytes) \in Nat
    BY <1>2, LeastType, ArgAssumption DEF Context
<1>4. ctx \in Context BY <1>2, <1>3, ContextStays
<1>5. BytesAt(ctx.read_addr, ctx.read_len) \in Element
    BY <1>4, ElementType DEF Context
<1>6. Save(Event, BytesAt(ctx.read_addr, ctx.read_len)) \in Ev
    BY <1>5, EventType, SaveStays
<1>7. Turn("SAVE_STRUCT", ctx) /\ Written(Save(Event, BytesAt(ctx.read_addr, ctx.read_len)))
    BY DEF SaveBytes
<1> HIDE DEF ctx
<1> QED BY <1>4, <1>6, <1>7, SavingStays

LEMMA SaveStringStays == ASSUME IInv, SaveString PROVE IInv'
<1> DEFINE ev    == Save(Event, StringAt(Fetched.read_addr))
           known == Fetched.read_addr \in DOMAIN Text /\ ~ev.full
           ctx   == IF known THEN [Fetched EXCEPT !.str_len = Text[Fetched.read_addr]]
                    ELSE Fetched
<1>1. ~OutOfTurns BY DEF SaveString, Turn
<1>2. Fetched \in Context BY <1>1, FetchedType DEF IInv
<1>3. StringAt(Fetched.read_addr) \in Element BY <1>2, ElementType DEF Context
<1>4. ev \in Ev BY <1>3, EventType, SaveStays
<1>5. known => Text[Fetched.read_addr] \in Nat BY ArgAssumption
<1>6. ctx \in Context BY <1>2, <1>5, ContextStays
<1>7. Turn("SAVE_STRING", ctx) /\ Written(ev) BY DEF SaveString
<1> HIDE DEF ctx, ev
<1> QED BY <1>4, <1>6, <1>7, SavingStays

LEMMA SavePtrStringStays == ASSUME IInv, SavePtrString PROVE IInv'
<1> DEFINE ptr   == WordAt(Fetched.read_addr)
           ev    == Save(Event, RegElem(ptr))
           known == ptr \in DOMAIN Text /\ BytesFit(ev.off)
           ctx   == IF known THEN Fetched
                    ELSE [Fetched EXCEPT !.loop_count = Fetched.break_count]
           elem  == IF known THEN StringAt(ptr) ELSE Block(MagicLen, 0)
<1>1. ~OutOfTurns BY DEF SavePtrString, Turn
<1>2. Fetched \in Context BY <1>1, FetchedType DEF IInv
<1>3. ptr \in Nat BY WordAtType
<1>4. ev \in Ev BY <1>3, ElementType, EventType, SaveStays
<1>5. elem \in Element
    <2>1. MagicLen \in Nat BY ArgAssumption
    <2> QED BY <1>3, <2>1, ElementType
<1>6. Save(ev, elem) \in Ev BY <1>4, <1>5, SaveStays
<1>7. Fetched.break_count \in 0 .. MaxLoop BY <1>2 DEF Context
<1>8. ctx \in Context BY <1>2, <1>7, ContextStays
<1>9. Turn("SAVE_PTR_STRING", ctx) /\ Written(Save(ev, elem)) BY DEF SavePtrString
<1> HIDE DEF ctx, ev, elem
<1> QED BY <1>6, <1>8, <1>9, SavingStays

LEMMA EndStays == ASSUME IInv, Skip \/ Submit PROVE IInv'
<1>1. CASE Skip BY <1>1 DEF Skip, IInv, TypeOK, Known, WithinBuffer
<1>2. CASE Submit
    <2>1. event.ret \in Nat BY EventKnown, ReadArgsAssumption DEF IsCall, IInv
    <2> DEFINE ev == IF event.point.kind = "exit" THEN Save(Event, RegElem(event.ret)) ELSE Event
    <2>2. ev \in Ev BY <2>1, ElementType, EventType, SaveStays
    <2>3. Written(ev) BY <1>2 DEF Submit
    <2> HIDE DEF ev
    <2>4. saved' \in Seq(Element) /\ buf_off' \in Nat /\ buf_off' <= BufSize
          /\ spoilt' \subseteq Causes
        BY <2>2, <2>3, WrittenStays
    <2> QED BY <1>2, <2>4 DEF Submit, IInv, TypeOK, Known, WithinBuffer
<1> QED BY <1>1, <1>2

LEMMA NextStays == ASSUME IInv, [Next]_vars PROVE IInv'
<1>1. CASE Next
    BY <1>1, HitStays, StopStays, UnknownStays, ReadRegisterStays, ReadPointerStays,
       SetReadLenStays, MoveAddressStays, ReadStdStringStays, SetBreakCountStays, ForBreakStays, FilterStays,
       SaveRegisterStays, SaveBytesStays, SaveStringStays, SavePtrStringStays, EndStays
    DEF Next
<1>2. CASE UNCHANGED vars
    BY <1>2 DEF vars, IInv, TypeOK, Known, WithinBuffer, Causes
<1> QED BY <1>1, <1>2

-----------------------------------------------------------------------------
(* The theorems.                                                             *)

LEMMA Invariance == Spec => []IInv
BY InitType, NextStays, PTL DEF Spec

\* The context of the interpreter keeps its types; no loop runs longer than MAX_LOOP_COUNT,
\* whatever count the registers or the memory of the traced program hold (utils.h:111-128).
THEOREM TypeCorrect == Spec => []TypeOK
<1>1. IInv => TypeOK BY DEF IInv
<1> QED BY <1>1, Invariance, PTL

\* No list of opcodes writes behind the end of event->args: the checks of buffer.h:31 and 66
\* hold back room for the largest element, and no element is larger.
THEOREM StaysInBuffer == Spec => []WithinBuffer
<1>1. IInv => WithinBuffer BY DEF IInv
<1> QED BY <1>1, Invariance, PTL

-----------------------------------------------------------------------------
(* What a turn does, as a relation between two contexts c, d and what is     *)
(* saved before and after, e and f.                                          *)

KeyOf(call, p) == LET list == OpKeyList(call.point)
                  IN  IF p < Len(list) THEN list[p + 1] ELSE OPC_SKIP

NextKey(call, c) ==
    IF c.post_code # "SKIP" THEN Op(c.post_code, 0) ELSE KeyOf(call, c.op_key_index)

\* Registers and lengths after opcode o.
Computes(call, o, c, d) ==
    /\ d.reg_value = CASE o.code = "READ_REG" -> call.regs[o.value]
                       [] o.code = "READ_RET" -> call.ret
                       [] OTHER -> c.reg_value
    /\ d.pointer_value =
          IF o.code = "READ_POINTER"
          THEN WordAt(c.read_addr + (IF o.pre = "ADD_OFFSET" THEN o.value ELSE 0))
          ELSE c.pointer_value
    /\ d.read_addr = CASE o.code = "ADD_OFFSET" -> c.read_addr + o.value
                       [] o.code = "SUB_OFFSET" -> c.read_addr - o.value
                       [] o.code = "ADD_REG" -> c.read_addr + c.reg_value
                       [] o.code = "SUB_REG" -> c.read_addr - c.reg_value
                       [] o.code = "MOVE_REG_VALUE" -> c.reg_value
                       [] o.code = "MOVE_POINTER_VALUE" -> c.pointer_value
                       [] o.code = "MOVE_TMP_VALUE" -> c.tmp_value
                       [] o.code = "READ_STD_STRING" -> StringData(c.read_addr)
                       [] OTHER -> c.read_addr
    /\ d.tmp_value = IF o.code = "SET_TMP_VALUE" THEN c.read_addr ELSE c.tmp_value
    /\ d.read_len = CASE o.code = "SET_READ_LEN" -> o.value
                      [] o.code = "SET_READ_LEN_REG_VALUE" -> Least(c.read_len, c.reg_value)
                      [] o.code = "SET_READ_LEN_POINTER_VALUE" ->
                             Least(c.read_len, c.pointer_value)
                      [] o.code = "SAVE_STRUCT" -> Least(c.read_len, MaxBytes)
                      [] OTHER -> c.read_len
    /\ d.str_len = IF o.code = "SAVE_STRING" /\ c.read_addr \in DOMAIN Text
                   THEN Text[c.read_addr] ELSE c.str_len

\* Where opcode o lets the program go on, from index p behind it.
Loops(o, c, p, d) ==
    /\ o.code # "FOR_BREAK" =>
          /\ d.op_key_index = p /\ d.loop_index = c.loop_index
          /\ d.break_count = CASE o.code = "SET_BREAK_COUNT" -> BreakCount(o.value)
                               [] o.code = "SET_BREAK_COUNT_REG_VALUE" -> BreakCount(c.reg_value)
                               [] o.code = "SET_BREAK_COUNT_POINTER_VALUE" ->
                                      BreakCount(c.pointer_value)
                               [] OTHER -> c.break_count
          /\ d.loop_count =
                IF o.code = "SAVE_PTR_STRING" /\ WordAt(c.read_addr) \notin DOMAIN Text
                THEN c.break_count ELSE c.loop_count
    /\ o.code = "FOR_BREAK" /\ c.loop_count >= c.break_count =>
          d.op_key_index = p /\ d.loop_count = 0 /\ d.break_count = 0 /\ d.loop_index = 0
    /\ o.code = "FOR_BREAK" /\ ~(c.loop_count >= c.break_count) =>
          /\ d.op_key_index = IF c.loop_count = 0 THEN p ELSE c.loop_index
          /\ d.loop_index = d.op_key_index
          /\ d.loop_count = c.loop_count + 1 /\ d.break_count = c.break_count

SameFlags(c, d) ==
    /\ d.apply_filter = c.apply_filter /\ d.match_whitelist = c.match_whitelist
    /\ d.match_blacklist = c.match_blacklist

Judges(o, c, d) ==
    LET test == Filters[o.value]
    IN  /\ o.code \notin {"FILTER_VALUE", "FILTER_BUFFER", "FILTER_STRING"} => SameFlags(c, d)
        /\ o.code = "FILTER_VALUE" =>
              /\ d.apply_filter = c.apply_filter /\ d.match_whitelist = c.match_whitelist
              /\ d.match_blacklist <=> c.match_blacklist \/ Rejects(test, c.reg_value)
        /\ o.code = "FILTER_BUFFER" =>
              /\ d.apply_filter <=> c.apply_filter \/ test.type = "white"
              /\ d.match_whitelist <=>
                    c.match_whitelist \/ (test.type = "white" /\ c.read_addr \in test.at)
              /\ d.match_blacklist = c.match_blacklist
        /\ o.code = "FILTER_STRING" =>
              /\ d.apply_filter <=> c.apply_filter \/ test.type = "white"
              /\ d.match_whitelist <=>
                    c.match_whitelist \/ (test.type = "white" /\ StrMatch(c, test))
              /\ d.match_blacklist <=>
                    c.match_blacklist \/ (test.type = "black" /\ StrMatch(c, test))

Saves(o, c, e, f) ==
    LET ptr == WordAt(c.read_addr)
    IN  f = CASE o.code = "SAVE_REG" -> Append(e, RegElem(c.reg_value))
              [] o.code = "SAVE_ADDR" -> Append(e, RegElem(c.read_addr))
              [] o.code = "SAVE_STRUCT" ->
                     Append(e, BytesAt(c.read_addr, Least(c.read_len, MaxBytes)))
              [] o.code = "SAVE_STRING" -> Append(e, StringAt(c.read_addr))
              [] o.code = "SAVE_PTR_STRING" ->
                     Append(Append(e, RegElem(ptr)),
                            IF ptr \in DOMAIN Text THEN StringAt(ptr) ELSE Block(MagicLen, 0))
              [] OTHER -> e

Goes(call, o, p, c, d) ==
    d.post_code = o.post /\ Computes(call, o, c, d) /\ Loops(o, c, p, d) /\ Judges(o, c, d)

NextIndex(c) == IF c.post_code # "SKIP" THEN c.op_key_index ELSE c.op_key_index + 1

Takes(call, c, e, d, f) ==
    /\ Goes(call, NextKey(call, c), NextIndex(c), c, d)
    /\ Saves(NextKey(call, c), c, e, f)

\* The fields of a context that an opcode finds are those the turn before left.
LEMMA FetchedIs ==
    ASSUME IInv
    PROVE  LET o == NextKey(event, Ctx)
               p == IF Ctx.post_code # "SKIP" THEN Ctx.op_key_index ELSE Ctx.op_key_index + 1
           IN  /\ op_code = o.code
               /\ ~Pending => op = o
               /\ op.value = o.value /\ op.pre = o.pre
               /\ Fetched.post_code = o.post /\ Fetched.op_key_index = p
               /\ Fetched.loop_count = Ctx.loop_count /\ Fetched.break_count = Ctx.break_count
               /\ Fetched.loop_index = Ctx.loop_index /\ Fetched.str_len = Ctx.str_len
               /\ Fetched.read_len = Ctx.read_len /\ Fetched.read_addr = Ctx.read_addr
               /\ Fetched.reg_value = Ctx.reg_value /\ Fetched.tmp_value = Ctx.tmp_value
               /\ Fetched.pointer_value = Ctx.pointer_value
               /\ SameFlags(Ctx, Fetched)
<1> DEFINE c == Ctx
           k == KeyAt(c.op_key_index)
<1>1. c \in Context BY EventKnown DEF IInv
<1>2. k = KeyOf(event, c.op_key_index) BY DEF KeyAt, KeyOf, IInv, Known
<1>3. Pending <=> c.post_code # "SKIP" BY DEF Pending
<1>4. CASE Pending
    <2>1. Fetched = [c EXCEPT !.post_code = "SKIP"] /\ op = OPC_SKIP /\ op_code = c.post_code
        BY <1>3, <1>4 DEF Fetched, op, op_code
    <2>2. NextKey(event, c) = Op(c.post_code, 0) BY <1>3, <1>4 DEF NextKey
    <2> HIDE DEF c
    <2> QED BY <1>1, <1>3, <1>4, <2>1, <2>2 DEF Op, OPC_SKIP, Context, SameFlags, c
<1>5. CASE ~Pending
    <2>1. Fetched = [c EXCEPT !.post_code = k.post, !.op_key_index = @ + 1] /\ op = k
          /\ op_code = k.code
        BY <1>3, <1>5 DEF Fetched, op, op_code
    <2>2. NextKey(event, c) = k BY <1>2, <1>3, <1>5 DEF NextKey
    <2> HIDE DEF c, k
    <2> QED BY <1>1, <1>3, <1>5, <2>1, <2>2 DEF Context, SameFlags, c
<1> QED BY <1>4, <1>5

Landed == /\ event' = event /\ spoilt = {}
          /\ pc' = IF Ctx'.match_blacklist THEN "done" ELSE "run"

LEMMA TurnLands ==
    ASSUME IInv, NEW code, NEW ctx \in Context, Turn(code, ctx)
    PROVE  /\ op_code = code /\ ~OutOfTurns
           /\ event' = event /\ Ctx' = ctx
           /\ pc' = IF ctx.match_blacklist THEN "done" ELSE "run"
<1>1. Slot' = Slot /\ Slot \in {0, 1} BY EventKnown DEF Turn, Slot, IInv
<1>2. op_ctx' = [op_ctx EXCEPT ![Slot] = ctx] /\ op_ctx \in [{0, 1} -> Context]
    BY DEF Turn, IInv, TypeOK
<1> QED BY <1>1, <1>2 DEF Turn, Ctx

\* A turn that changes the context only.
LEMMA QuietTakes ==
    ASSUME IInv, NEW code, NEW ctx \in Context, Quiet(code, ctx),
           code \notin {"SAVE_REG", "SAVE_ADDR", "SAVE_STRUCT", "SAVE_STRING", "SAVE_PTR_STRING"},
           spoilt' = {}
    PROVE  /\ Landed /\ Ctx' = ctx /\ NextKey(event, Ctx).code = code
           /\ Saves(NextKey(event, Ctx), Ctx, saved, saved')
<1>1. /\ op_code = code /\ event' = event /\ Ctx' = ctx /\ ~OutOfTurns
      /\ pc' = IF ctx.match_blacklist THEN "done" ELSE "run"
    BY TurnLands DEF Quiet
<1>2. NextKey(event, Ctx).code = code BY <1>1, FetchedIs
<1>3. saved' = saved /\ spoilt' = spoilt BY DEF Quiet
<1>4. Saves(NextKey(event, Ctx), Ctx, saved, saved') BY <1>2, <1>3 DEF Saves
<1> QED BY <1>1, <1>2, <1>3, <1>4 DEF Landed

\* g holds what the opcode o finds: the fields of c but for its own place in the list.
Finds(o, p, c, g) ==
    /\ g.post_code = o.post /\ g.op_key_index = p
    /\ g.loop_count = c.loop_count /\ g.break_count = c.break_count
    /\ g.loop_index = c.loop_index /\ g.str_len = c.str_len
    /\ g.read_len = c.read_len /\ g.read_addr = c.read_addr
    /\ g.reg_value = c.reg_value /\ g.tmp_value = c.tmp_value
    /\ g.pointer_value = c.pointer_value
    /\ SameFlags(c, g)

\* Opcodes that set one field.
LEMMA ComputesOne ==
    ASSUME NEW call, NEW o, NEW p, NEW c, NEW g \in Context, Finds(o, p, c, g)
    PROVE  /\ o.code = "READ_REG" => Goes(call, o, p, c, [g EXCEPT !.reg_value = call.regs[o.value]])
           /\ o.code = "READ_RET" => Goes(call, o, p, c, [g EXCEPT !.reg_value = call.ret])
           /\ o.code = "READ_POINTER" =>
                 \A v : v = WordAt(g.read_addr + (IF o.pre = "ADD_OFFSET" THEN o.value ELSE 0))
                        => Goes(call, o, p, c, [g EXCEPT !.pointer_value = v])
           /\ o.code = "SET_READ_LEN" => Goes(call, o, p, c, [g EXCEPT !.read_len = o.value])
           /\ o.code = "SET_READ_LEN_REG_VALUE" =>
                 Goes(call, o, p, c, [g EXCEPT !.read_len = Least(g.read_len, g.reg_value)])
           /\ o.code = "SET_READ_LEN_POINTER_VALUE" =>
                 Goes(call, o, p, c, [g EXCEPT !.read_len = Least(g.read_len, g.pointer_value)])
<1> USE DEF Finds, Goes, Computes, Loops, Judges, SameFlags, Context
<1>1. o.code = "READ_REG" => Goes(call, o, p, c, [g EXCEPT !.reg_value = call.regs[o.value]])
    OBVIOUS
<1>2. o.code = "READ_RET" => Goes(call, o, p, c, [g EXCEPT !.reg_value = call.ret])
    OBVIOUS
<1>3. o.code = "READ_POINTER" =>
          \A v : v = WordAt(g.read_addr + (IF o.pre = "ADD_OFFSET" THEN o.value ELSE 0))
                 => Goes(call, o, p, c, [g EXCEPT !.pointer_value = v])
    OBVIOUS
<1>4. o.code = "SET_READ_LEN" => Goes(call, o, p, c, [g EXCEPT !.read_len = o.value])
    OBVIOUS
<1>5. o.code = "SET_READ_LEN_REG_VALUE" =>
          Goes(call, o, p, c, [g EXCEPT !.read_len = Least(g.read_len, g.reg_value)])
    OBVIOUS
<1>6. o.code = "SET_READ_LEN_POINTER_VALUE" =>
          Goes(call, o, p, c, [g EXCEPT !.read_len = Least(g.read_len, g.pointer_value)])
    OBVIOUS
<1> QED BY <1>1, <1>2, <1>3, <1>4, <1>5, <1>6

LEMMA MovesAddress ==
    ASSUME NEW call, NEW o, NEW p, NEW c, NEW g \in Context, Finds(o, p, c, g)
    PROVE  /\ o.code = "ADD_OFFSET" =>
                 Goes(call, o, p, c, [g EXCEPT !.read_addr = g.read_addr + o.value])
           /\ o.code = "SUB_OFFSET" =>
                 Goes(call, o, p, c, [g EXCEPT !.read_addr = g.read_addr - o.value])
           /\ o.code = "ADD_REG" =>
                 Goes(call, o, p, c, [g EXCEPT !.read_addr = g.read_addr + g.reg_value])
           /\ o.code = "SUB_REG" =>
                 Goes(call, o, p, c, [g EXCEPT !.read_addr = g.read_addr - g.reg_value])
           /\ o.code = "MOVE_REG_VALUE" =>
                 Goes(call, o, p, c, [g EXCEPT !.read_addr = g.reg_value])
           /\ o.code = "MOVE_POINTER_VALUE" =>
                 Goes(call, o, p, c, [g EXCEPT !.read_addr = g.pointer_value])
           /\ o.code = "MOVE_TMP_VALUE" =>
                 Goes(call, o, p, c, [g EXCEPT !.read_addr = g.tmp_value])
           /\ o.code = "SET_TMP_VALUE" =>
                 Goes(call, o, p, c, [g EXCEPT !.tmp_value = g.read_addr])
           /\ o.code = "READ_STD_STRING" =>
                 Goes(call, o, p, c, [g EXCEPT !.read_addr = StringData(g.read_addr)])
<1> USE DEF Finds, Goes, Computes, Loops, Judges, SameFlags, Context
<1>1. o.code = "ADD_OFFSET" =>
          Goes(call, o, p, c, [g EXCEPT !.read_addr = g.read_addr + o.value])
    OBVIOUS
<1>2. o.code = "SUB_OFFSET" =>
          Goes(call, o, p, c, [g EXCEPT !.read_addr = g.read_addr - o.value])
    OBVIOUS
<1>3. o.code = "MOVE_REG_VALUE" => Goes(call, o, p, c, [g EXCEPT !.read_addr = g.reg_value])
    OBVIOUS
<1>4. o.code = "MOVE_POINTER_VALUE" =>
          Goes(call, o, p, c, [g EXCEPT !.read_addr = g.pointer_value])
    OBVIOUS
<1>5. o.code = "MOVE_TMP_VALUE" => Goes(call, o, p, c, [g EXCEPT !.read_addr = g.tmp_value])
    OBVIOUS
<1>6. o.code = "SET_TMP_VALUE" => Goes(call, o, p, c, [g EXCEPT !.tmp_value = g.read_addr])
    OBVIOUS
<1>7. o.code = "READ_STD_STRING" =>
          Goes(call, o, p, c, [g EXCEPT !.read_addr = StringData(g.read_addr)])
    OBVIOUS
<1>8. o.code = "ADD_REG" =>
          Goes(call, o, p, c, [g EXCEPT !.read_addr = g.read_addr + g.reg_value])
    OBVIOUS
<1>9. o.code = "SUB_REG" =>
          Goes(call, o, p, c, [g EXCEPT !.read_addr = g.read_addr - g.reg_value])
    OBVIOUS
<1> QED BY <1>1, <1>2, <1>3, <1>4, <1>5, <1>6, <1>7, <1>8, <1>9

LEMMA LoopsOn ==
    ASSUME NEW call, NEW o, NEW p, NEW c, NEW g \in Context, Finds(o, p, c, g)
    PROVE  /\ o.code = "SET_BREAK_COUNT" =>
                 Goes(call, o, p, c, [g EXCEPT !.break_count = BreakCount(o.value)])
           /\ o.code = "SET_BREAK_COUNT_REG_VALUE" =>
                 Goes(call, o, p, c, [g EXCEPT !.break_count = BreakCount(g.reg_value)])
           /\ o.code = "SET_BREAK_COUNT_POINTER_VALUE" =>
                 Goes(call, o, p, c, [g EXCEPT !.break_count = BreakCount(g.pointer_value)])
           /\ o.code = "FOR_BREAK" => Goes(call, o, p, c, Looped(g))
           /\ o.code = "NONE" => Goes(call, o, p, c, g)
<1> USE DEF Finds, Goes, Computes, Loops, Judges, SameFlags, Context
<1>1. o.code = "SET_BREAK_COUNT" =>
          Goes(call, o, p, c, [g EXCEPT !.break_count = BreakCount(o.value)])
    OBVIOUS
<1>2. o.code = "SET_BREAK_COUNT_REG_VALUE" =>
          Goes(call, o, p, c, [g EXCEPT !.break_count = BreakCount(g.reg_value)])
    OBVIOUS
<1>3. o.code = "SET_BREAK_COUNT_POINTER_VALUE" =>
          Goes(call, o, p, c, [g EXCEPT !.break_count = BreakCount(g.pointer_value)])
    OBVIOUS
<1>4. o.code = "FOR_BREAK" => Goes(call, o, p, c, Looped(g))
    <2>1. CASE g.loop_count >= g.break_count BY <2>1 DEF Looped
    <2>2. CASE ~(g.loop_count >= g.break_count) BY <2>2 DEF Looped
    <2> QED BY <2>1, <2>2
<1>5. o.code = "NONE" => Goes(call, o, p, c, g)
    OBVIOUS
<1> QED BY <1>1, <1>2, <1>3, <1>4, <1>5

LEMMA JudgesOne ==
    ASSUME NEW call, NEW o, NEW p, NEW c, NEW g \in Context, Finds(o, p, c, g), NEW r,
           o.code = "FILTER_VALUE", r = Filters[o.value]
    PROVE  Goes(call, o, p, c, [g EXCEPT !.match_blacklist = @ \/ Rejects(r, g.reg_value)])
BY DEF Finds, Goes, Computes, Loops, Judges, SameFlags, Context

\* Opcodes that save leave all but two fields alone.
LEMMA SavesOne ==
    ASSUME NEW call, NEW o, NEW p, NEW c, NEW g \in Context, Finds(o, p, c, g)
    PROVE  /\ o.code \in {"SAVE_REG", "SAVE_ADDR"} => Goes(call, o, p, c, g)
           /\ o.code = "SAVE_STRUCT" =>
                 Goes(call, o, p, c, [g EXCEPT !.read_len = Least(g.read_len, MaxBytes)])
           /\ o.code = "SAVE_STRING" =>
                 Goes(call, o, p, c, IF g.read_addr \in DOMAIN Text
                                     THEN [g EXCEPT !.str_len = Text[g.read_addr]] ELSE g)
           /\ o.code = "SAVE_PTR_STRING" =>
                 Goes(call, o, p, c, IF WordAt(g.read_addr) \in DOMAIN Text THEN g
                                     ELSE [g EXCEPT !.loop_count = g.break_count])
<1> USE DEF Finds, Goes, Computes, Loops, Judges, SameFlags, Context
<1>1. o.code \in {"SAVE_REG", "SAVE_ADDR"} => Goes(call, o, p, c, g) OBVIOUS
<1>2. o.code = "SAVE_STRUCT" =>
          Goes(call, o, p, c, [g EXCEPT !.read_len = Least(g.read_len, MaxBytes)])
    OBVIOUS
<1>3. o.code = "SAVE_STRING" =>
          Goes(call, o, p, c, IF g.read_addr \in DOMAIN Text
                              THEN [g EXCEPT !.str_len = Text[g.read_addr]] ELSE g)
    OBVIOUS
<1>4. o.code = "SAVE_PTR_STRING" =>
          Goes(call, o, p, c, IF WordAt(g.read_addr) \in DOMAIN Text THEN g
                              ELSE [g EXCEPT !.loop_count = g.break_count])
    OBVIOUS
<1> QED BY <1>1, <1>2, <1>3, <1>4

LEMMA FetchedFinds ==
    ASSUME IInv, ~OutOfTurns
    PROVE  /\ Finds(NextKey(event, Ctx), NextIndex(Ctx), Ctx, Fetched)
           /\ op_code = NextKey(event, Ctx).code
           /\ op.value = NextKey(event, Ctx).value /\ op.pre = NextKey(event, Ctx).pre
           /\ Fetched \in Context
BY FetchedIs, FetchedType DEF Finds, NextIndex, IInv

\* A quiet turn, put together.
LEMMA QuietGoes ==
    ASSUME IInv, NEW code, NEW ctx \in Context, Quiet(code, ctx),
           code \notin {"SAVE_REG", "SAVE_ADDR", "SAVE_STRUCT", "SAVE_STRING", "SAVE_PTR_STRING"},
           spoilt' = {}, Goes(event, NextKey(event, Ctx), NextIndex(Ctx), Ctx, ctx)
    PROVE  Landed /\ Takes(event, Ctx, saved, Ctx', saved')
BY QuietTakes DEF Takes

LEMMA ComputingTakes ==
    ASSUME IInv, spoilt' = {}, Unknown \/ ReadRegister \/ ReadPointer \/ SetReadLen
    PROVE  Landed /\ Takes(event, Ctx, saved, Ctx', saved')
<1> DEFINE o == NextKey(event, Ctx)
           p == NextIndex(Ctx)
           g == Fetched
<1>1. ~OutOfTurns
    BY DEF Unknown, ReadRegister, ReadPointer, SetReadLen, Quiet, Turn
<1>2. /\ Finds(o, p, Ctx, g) /\ op_code = o.code /\ op.value = o.value /\ op.pre = o.pre
      /\ g \in Context
    BY <1>1, FetchedFinds
<1>3. CASE Unknown
    <2>1. Quiet("NONE", g) BY <1>3 DEF Unknown
    <2>2. o.code = "NONE" BY <1>2, <2>1 DEF Quiet, Turn
    <2>3. Goes(event, o, p, Ctx, g) BY <1>2, <2>2, LoopsOn
    <2> QED BY <1>2, <2>1, <2>3, QuietGoes
<1>4. CASE Quiet("READ_REG", [g EXCEPT !.reg_value = event.regs[op.value]])
    <2> DEFINE ctx == [g EXCEPT !.reg_value = event.regs[op.value]]
    <2>1. o.code = "READ_REG" BY <1>2, <1>4 DEF Quiet, Turn
    <2>2. event.regs[op.value] \in Nat
        BY <1>1, <1>2, <2>1, FetchedType, EventKnown, ReadArgsAssumption DEF IInv, IsCall
    <2>3. ctx \in Context BY <1>2, <2>2, ContextStays
    <2>4. Goes(event, o, p, Ctx, ctx) BY <1>2, <2>1, ComputesOne
    <2> HIDE DEF ctx
    <2> QED BY <1>4, <2>3, <2>4, QuietGoes DEF ctx
<1>5. CASE Quiet("READ_RET", [g EXCEPT !.reg_value = event.ret])
    <2>1. o.code = "READ_RET" BY <1>2, <1>5 DEF Quiet, Turn
    <2>2. event.ret \in Nat BY EventKnown, ReadArgsAssumption DEF IInv, IsCall
    <2>3. [g EXCEPT !.reg_value = event.ret] \in Context BY <1>2, <2>2, ContextStays
    <2>4. Goes(event, o, p, Ctx, [g EXCEPT !.reg_value = event.ret])
        BY <1>2, <2>1, ComputesOne
    <2> QED BY <1>5, <2>3, <2>4, QuietGoes
<1>6. CASE ReadPointer
    <2> DEFINE v == WordAt(g.read_addr + (IF op.pre = "ADD_OFFSET" THEN op.value ELSE 0))
               ctx == [g EXCEPT !.pointer_value = v]
    <2>1. Quiet("READ_POINTER", ctx) BY <1>6 DEF ReadPointer
    <2>2. o.code = "READ_POINTER" BY <1>2, <2>1 DEF Quiet, Turn
    <2>3. v \in Nat BY WordAtType
    <2>4. ctx \in Context BY <1>2, <2>3, ContextStays
    <2>5. v = WordAt(g.read_addr + (IF o.pre = "ADD_OFFSET" THEN o.value ELSE 0)) BY <1>2
    <2> HIDE DEF v
    <2>6. Goes(event, o, p, Ctx, ctx) BY <1>2, <2>2, <2>5, ComputesOne
    <2> HIDE DEF ctx
    <2> QED BY <2>1, <2>4, <2>6, QuietGoes
<1>7. CASE SetReadLen
    <2>1. /\ op.value \in Nat /\ g.read_len \in Nat /\ g.reg_value \in Nat
          /\ g.pointer_value \in Nat
        BY <1>1, <1>2, FetchedType DEF IInv, Opcode, Context
    <2>2. /\ [g EXCEPT !.read_len = op.value] \in Context
          /\ [g EXCEPT !.read_len = Least(g.read_len, g.reg_value)] \in Context
          /\ [g EXCEPT !.read_len = Least(g.read_len, g.pointer_value)] \in Context
        BY <1>2, <2>1, LeastType, ContextStays
    <2>3. CASE Quiet("SET_READ_LEN", [g EXCEPT !.read_len = op.value])
        <3>1. o.code = "SET_READ_LEN" BY <1>2, <2>3 DEF Quiet, Turn
        <3>2. Goes(event, o, p, Ctx, [g EXCEPT !.read_len = op.value])
            BY <1>2, <3>1, ComputesOne
        <3> QED BY <2>2, <2>3, <3>2, QuietGoes
    <2>4. CASE Quiet("SET_READ_LEN_REG_VALUE",
                     [g EXCEPT !.read_len = Least(g.read_len, g.reg_value)])
        <3>1. o.code = "SET_READ_LEN_REG_VALUE" BY <1>2, <2>4 DEF Quiet, Turn
        <3>2. Goes(event, o, p, Ctx, [g EXCEPT !.read_len = Least(g.read_len, g.reg_value)])
            BY <1>2, <3>1, ComputesOne
        <3> QED BY <2>2, <2>4, <3>2, QuietGoes
    <2>5. CASE Quiet("SET_READ_LEN_POINTER_VALUE",
                     [g EXCEPT !.read_len = Least(g.read_len, g.pointer_value)])
        <3>1. o.code = "SET_READ_LEN_POINTER_VALUE" BY <1>2, <2>5 DEF Quiet, Turn
        <3>2. Goes(event, o, p, Ctx, [g EXCEPT !.read_len = Least(g.read_len, g.pointer_value)])
            BY <1>2, <3>1, ComputesOne
        <3> QED BY <2>2, <2>5, <3>2, QuietGoes
    <2> QED BY <1>7, <2>3, <2>4, <2>5 DEF SetReadLen
<1> QED BY <1>3, <1>4, <1>5, <1>6, <1>7 DEF ReadRegister

LEMMA MovingTakes ==
    ASSUME IInv, spoilt' = {}, MoveAddress \/ ReadStdString
    PROVE  Landed /\ Takes(event, Ctx, saved, Ctx', saved')
<1> DEFINE o == NextKey(event, Ctx)
           p == NextIndex(Ctx)
           g == Fetched
<1>1. ~OutOfTurns BY DEF MoveAddress, ReadStdString, Quiet, Turn
<1>2. /\ Finds(o, p, Ctx, g) /\ op_code = o.code /\ op.value = o.value /\ op.pre = o.pre
      /\ g \in Context
    BY <1>1, FetchedFinds
<1>3. /\ op.value \in Nat /\ g.read_addr \in Int /\ g.reg_value \in Int
      /\ g.pointer_value \in Int /\ g.tmp_value \in Int
      /\ g.read_addr + op.value \in Int /\ g.read_addr - op.value \in Int
      /\ g.read_addr + g.reg_value \in Int /\ g.read_addr - g.reg_value \in Int
    BY <1>1, <1>2, FetchedType DEF IInv, Opcode, Context
<1>4. StringData(g.read_addr) \in Int BY <1>3, WordAtType DEF StringData
<1>5. /\ [g EXCEPT !.read_addr = g.read_addr + op.value] \in Context
      /\ [g EXCEPT !.read_addr = g.read_addr - op.value] \in Context
      /\ [g EXCEPT !.read_addr = g.read_addr + g.reg_value] \in Context
      /\ [g EXCEPT !.read_addr = g.read_addr - g.reg_value] \in Context
      /\ [g EXCEPT !.read_addr = g.reg_value] \in Context
      /\ [g EXCEPT !.read_addr = g.pointer_value] \in Context
      /\ [g EXCEPT !.read_addr = g.tmp_value] \in Context
      /\ [g EXCEPT !.tmp_value = g.read_addr] \in Context
      /\ [g EXCEPT !.read_addr = StringData(g.read_addr)] \in Context
    BY <1>2, <1>3, <1>4, ContextStays
<1> DEFINE Into(ctx) == Goes(event, o, p, Ctx, ctx)
<1>6. CASE Quiet("ADD_OFFSET", [g EXCEPT !.read_addr = g.read_addr + op.value])
    <2>1. o.code = "ADD_OFFSET" BY <1>2, <1>6 DEF Quiet, Turn
    <2>2. Into([g EXCEPT !.read_addr = g.read_addr + op.value]) BY <1>2, <2>1, MovesAddress
    <2> QED BY <1>5, <1>6, <2>2, QuietGoes
<1>7. CASE Quiet("SUB_OFFSET", [g EXCEPT !.read_addr = g.read_addr - op.value])
    <2>1. o.code = "SUB_OFFSET" BY <1>2, <1>7 DEF Quiet, Turn
    <2>2. Into([g EXCEPT !.read_addr = g.read_addr - op.value]) BY <1>2, <2>1, MovesAddress
    <2> QED BY <1>5, <1>7, <2>2, QuietGoes
<1>8. CASE Quiet("MOVE_REG_VALUE", [g EXCEPT !.read_addr = g.reg_value])
    <2>1. o.code = "MOVE_REG_VALUE" BY <1>2, <1>8 DEF Quiet, Turn
    <2>2. Into([g EXCEPT !.read_addr = g.reg_value]) BY <1>2, <2>1, MovesAddress
    <2> QED BY <1>5, <1>8, <2>2, QuietGoes
<1>9. CASE Quiet("MOVE_POINTER_VALUE", [g EXCEPT !.read_addr = g.pointer_value])
    <2>1. o.code = "MOVE_POINTER_VALUE" BY <1>2, <1>9 DEF Quiet, Turn
    <2>2. Into([g EXCEPT !.read_addr = g.pointer_value]) BY <1>2, <2>1, MovesAddress
    <2> QED BY <1>5, <1>9, <2>2, QuietGoes
<1>10. CASE Quiet("MOVE_TMP_VALUE", [g EXCEPT !.read_addr = g.tmp_value])
    <2>1. o.code = "MOVE_TMP_VALUE" BY <1>2, <1>10 DEF Quiet, Turn
    <2>2. Into([g EXCEPT !.read_addr = g.tmp_value]) BY <1>2, <2>1, MovesAddress
    <2> QED BY <1>5, <1>10, <2>2, QuietGoes
<1>11. CASE Quiet("SET_TMP_VALUE", [g EXCEPT !.tmp_value = g.read_addr])
    <2>1. o.code = "SET_TMP_VALUE" BY <1>2, <1>11 DEF Quiet, Turn
    <2>2. Into([g EXCEPT !.tmp_value = g.read_addr]) BY <1>2, <2>1, MovesAddress
    <2> QED BY <1>5, <1>11, <2>2, QuietGoes
<1>12. CASE ReadStdString
    <2>1. Quiet("READ_STD_STRING", [g EXCEPT !.read_addr = StringData(g.read_addr)])
        BY <1>12 DEF ReadStdString
    <2>2. o.code = "READ_STD_STRING" BY <1>2, <2>1 DEF Quiet, Turn
    <2>3. Into([g EXCEPT !.read_addr = StringData(g.read_addr)]) BY <1>2, <2>2, MovesAddress
    <2> QED BY <1>5, <2>1, <2>3, QuietGoes
<1>13. CASE Quiet("ADD_REG", [g EXCEPT !.read_addr = g.read_addr + g.reg_value])
    <2>1. o.code = "ADD_REG" BY <1>2, <1>13 DEF Quiet, Turn
    <2>2. Into([g EXCEPT !.read_addr = g.read_addr + g.reg_value]) BY <1>2, <2>1, MovesAddress
    <2> QED BY <1>5, <1>13, <2>2, QuietGoes
<1>14. CASE Quiet("SUB_REG", [g EXCEPT !.read_addr = g.read_addr - g.reg_value])
    <2>1. o.code = "SUB_REG" BY <1>2, <1>14 DEF Quiet, Turn
    <2>2. Into([g EXCEPT !.read_addr = g.read_addr - g.reg_value]) BY <1>2, <2>1, MovesAddress
    <2> QED BY <1>5, <1>14, <2>2, QuietGoes
<1> QED BY <1>6, <1>7, <1>8, <1>9, <1>10, <1>11, <1>12, <1>13, <1>14 DEF MoveAddress

LEMMA LoopingTakes ==
    ASSUME IInv, spoilt' = {}, SetBreakCount \/ ForBreak
    PROVE  Landed /\ Takes(event, Ctx, saved, Ctx', saved')
<1> DEFINE o == NextKey(event, Ctx)
           p == NextIndex(Ctx)
           g == Fetched
           Into(ctx) == Goes(event, o, p, Ctx, ctx)
<1>1. ~OutOfTurns BY DEF SetBreakCount, ForBreak, Quiet, Turn
<1>2. /\ Finds(o, p, Ctx, g) /\ op_code = o.code /\ op.value = o.value /\ op.pre = o.pre
      /\ g \in Context
    BY <1>1, FetchedFinds
<1>3. op.value \in Nat /\ g.reg_value \in Nat /\ g.pointer_value \in Nat
    BY <1>1, <1>2, FetchedType DEF IInv, Opcode, Context
<1>4. /\ [g EXCEPT !.break_count = BreakCount(op.value)] \in Context
      /\ [g EXCEPT !.break_count = BreakCount(g.reg_value)] \in Context
      /\ [g EXCEPT !.break_count = BreakCount(g.pointer_value)] \in Context
      /\ Looped(g) \in Context
    BY <1>2, <1>3, BreakCountType, ContextStays, LoopedType
<1>5. CASE Quiet("SET_BREAK_COUNT", [g EXCEPT !.break_count = BreakCount(op.value)])
    <2>1. o.code = "SET_BREAK_COUNT" BY <1>2, <1>5 DEF Quiet, Turn
    <2>2. Into([g EXCEPT !.break_count = BreakCount(op.value)]) BY <1>2, <2>1, LoopsOn
    <2> QED BY <1>4, <1>5, <2>2, QuietGoes
<1>6. CASE Quiet("SET_BREAK_COUNT_REG_VALUE",
                 [g EXCEPT !.break_count = BreakCount(g.reg_value)])
    <2>1. o.code = "SET_BREAK_COUNT_REG_VALUE" BY <1>2, <1>6 DEF Quiet, Turn
    <2>2. Into([g EXCEPT !.break_count = BreakCount(g.reg_value)]) BY <1>2, <2>1, LoopsOn
    <2> QED BY <1>4, <1>6, <2>2, QuietGoes
<1>7. CASE Quiet("SET_BREAK_COUNT_POINTER_VALUE",
                 [g EXCEPT !.break_count = BreakCount(g.pointer_value)])
    <2>1. o.code = "SET_BREAK_COUNT_POINTER_VALUE" BY <1>2, <1>7 DEF Quiet, Turn
    <2>2. Into([g EXCEPT !.break_count = BreakCount(g.pointer_value)]) BY <1>2, <2>1, LoopsOn
    <2> QED BY <1>4, <1>7, <2>2, QuietGoes
<1>8. CASE ForBreak
    <2>1. Quiet("FOR_BREAK", Looped(g)) BY <1>8 DEF ForBreak
    <2>2. o.code = "FOR_BREAK" BY <1>2, <2>1 DEF Quiet, Turn
    <2>3. Into(Looped(g)) BY <1>2, <2>2, LoopsOn
    <2> QED BY <1>4, <2>1, <2>3, QuietGoes
<1> QED BY <1>5, <1>6, <1>7, <1>8 DEF SetBreakCount

LEMMA FilterTakes ==
    ASSUME IInv, spoilt' = {}, FilterValue \/ FilterBuffer \/ FilterString
    PROVE  Landed /\ Takes(event, Ctx, saved, Ctx', saved')
<1> DEFINE o == NextKey(event, Ctx)
           p == NextIndex(Ctx)
           g == Fetched
           r == Filters[op.value]
           Into(ctx) == Goes(event, o, p, Ctx, ctx)
<1>1. ~OutOfTurns BY DEF FilterValue, FilterBuffer, FilterString, Quiet, Turn
<1>2. /\ Finds(o, p, Ctx, g) /\ op_code = o.code /\ op.value = o.value /\ op.pre = o.pre
      /\ g \in Context
    BY <1>1, FetchedFinds
<1>3. r = Filters[o.value] BY <1>2
<1>4. CASE FilterValue
    <2> DEFINE ctx == [g EXCEPT !.match_blacklist = @ \/ Rejects(r, g.reg_value)]
    <2>1. Quiet("FILTER_VALUE", ctx) BY <1>4 DEF FilterValue
    <2>2. o.code = "FILTER_VALUE" BY <1>2, <2>1 DEF Quiet, Turn
    <2> HIDE DEF r
    <2>3. Into(ctx) BY <1>2, <1>3, <2>2, JudgesOne
    <2>4. ctx \in Context BY <1>2, FlagsStay
    <2> HIDE DEF ctx
    <2> QED BY <2>1, <2>3, <2>4, QuietGoes
<1>5. CASE FilterBuffer
    <2> DEFINE ctx == [g EXCEPT !.apply_filter = @ \/ r.type = "white",
                                !.match_whitelist =
                                    @ \/ (r.type = "white" /\ g.read_addr \in r.at)]
    <2>1. Quiet("FILTER_BUFFER", ctx) BY <1>5 DEF FilterBuffer
    <2>2. o.code = "FILTER_BUFFER" BY <1>2, <2>1 DEF Quiet, Turn
    <2> HIDE DEF r
    <2>3. Into(ctx)
        <3> HIDE DEF o, p, g
        <3> QED BY <1>2, <1>3, <2>2
                DEF Finds, Goes, Computes, Loops, Judges, SameFlags, Context
    <2>4. ctx \in Context BY <1>2, FlagsStay
    <2> HIDE DEF ctx
    <2> QED BY <2>1, <2>3, <2>4, QuietGoes
<1>6. CASE FilterString
    <2> DEFINE ctx == [g EXCEPT !.apply_filter = @ \/ r.type = "white",
                                !.match_whitelist =
                                    @ \/ (r.type = "white" /\ StrMatch(g, r)),
                                !.match_blacklist =
                                    @ \/ (r.type = "black" /\ StrMatch(g, r))]
    <2>1. Quiet("FILTER_STRING", ctx) BY <1>6 DEF FilterString
    <2>2. o.code = "FILTER_STRING" BY <1>2, <2>1 DEF Quiet, Turn
    <2> HIDE DEF r
    <2>3. Into(ctx)
        <3>1. StrMatch(Ctx, r) <=> StrMatch(g, r) BY <1>2 DEF StrMatch, Finds
        <3> HIDE DEF o, p, g
        <3> QED BY <1>2, <1>3, <2>2, <3>1
                DEF Finds, Goes, Computes, Loops, Judges, SameFlags, Context
    <2>4. ctx \in Context BY <1>2, FlagsStay
    <2> HIDE DEF ctx
    <2> QED BY <2>1, <2>3, <2>4, QuietGoes
<1> QED BY <1>4, <1>5, <1>6

LEMMA SaveFits ==
    ASSUME NEW ev \in Ev, NEW elem, Save(ev, elem).full = FALSE
    PROVE  /\ Save(ev, elem).elems = Append(ev.elems, elem) /\ ev.full = FALSE
           /\ elem.kind # "reg" => BytesFit(ev.off)
BY DEF Save, Ev

\* A turn that saves, when everything fits.
LEMMA SavingGoes ==
    ASSUME IInv, NEW code, NEW ctx \in Context, Turn(code, ctx), NEW ev \in Ev, Written(ev),
           spoilt' = {}, Goes(event, NextKey(event, Ctx), NextIndex(Ctx), Ctx, ctx),
           Saves(NextKey(event, Ctx), Ctx, saved, ev.elems)
    PROVE  Landed /\ Takes(event, Ctx, saved, Ctx', saved')
<1>1. /\ event' = event /\ Ctx' = ctx
      /\ pc' = IF ctx.match_blacklist THEN "done" ELSE "run"
    BY TurnLands
<1>2. saved' = ev.elems /\ spoilt = {} BY DEF Written
<1> QED BY <1>1, <1>2 DEF Takes, Landed

LEMMA SavingTakes ==
    ASSUME IInv, spoilt' = {}, SaveRegister \/ SaveBytes \/ SaveString \/ SavePtrString
    PROVE  Landed /\ Takes(event, Ctx, saved, Ctx', saved')
<1> DEFINE o == NextKey(event, Ctx)
           p == NextIndex(Ctx)
           g == Fetched
           Into(ctx) == Goes(event, o, p, Ctx, ctx)
<1>1. ~OutOfTurns BY DEF SaveRegister, SaveBytes, SaveString, SavePtrString, Turn
<1>2. /\ Finds(o, p, Ctx, g) /\ op_code = o.code /\ op.value = o.value /\ op.pre = o.pre
      /\ g \in Context
    BY <1>1, FetchedFinds
<1>3. Event \in Ev /\ Event.elems = saved BY EventType DEF Event
<1>4. /\ g.read_addr = Ctx.read_addr /\ g.reg_value = Ctx.reg_value
      /\ g.read_len = Ctx.read_len
    BY <1>2 DEF Finds
<1>5. RegElem(g.reg_value) \in Element /\ RegElem(g.read_addr) \in Element
      /\ StringAt(g.read_addr) \in Element
    BY <1>2, ElementType DEF Context
<1>6. \A ev : Written(ev) /\ ev \in Ev => ev.full = FALSE BY DEF Written, Ev
<1>7. CASE Turn("SAVE_REG", g) /\ Written(Save(Event, RegElem(g.reg_value)))
    <2> DEFINE ev == Save(Event, RegElem(g.reg_value))
    <2>1. ev \in Ev BY <1>3, <1>5, SaveStays
    <2>2. o.code = "SAVE_REG" BY <1>2, <1>7 DEF Turn
    <2>3. ev.elems = Append(saved, RegElem(g.reg_value)) BY <1>3, <1>6, <1>7, <2>1, SaveFits
    <2> HIDE DEF ev
    <2>4. Saves(o, Ctx, saved, ev.elems) BY <1>4, <2>2, <2>3 DEF Saves
    <2>5. Into(g) BY <1>2, <2>2, SavesOne
    <2> QED BY <1>2, <1>7, <2>1, <2>4, <2>5, SavingGoes DEF ev
<1>8. CASE Turn("SAVE_ADDR", g) /\ Written(Save(Event, RegElem(g.read_addr)))
    <2> DEFINE ev == Save(Event, RegElem(g.read_addr))
    <2>1. ev \in Ev BY <1>3, <1>5, SaveStays
    <2>2. o.code = "SAVE_ADDR" BY <1>2, <1>8 DEF Turn
    <2>3. ev.elems = Append(saved, RegElem(g.read_addr)) BY <1>3, <1>6, <1>8, <2>1, SaveFits
    <2> HIDE DEF ev
    <2>4. Saves(o, Ctx, saved, ev.elems) BY <1>4, <2>2, <2>3 DEF Saves
    <2>5. Into(g) BY <1>2, <2>2, SavesOne
    <2> QED BY <1>2, <1>8, <2>1, <2>4, <2>5, SavingGoes DEF ev
<1>9. CASE SaveBytes
    <2> DEFINE n == Least(g.read_len, MaxBytes)
               ctx == [g EXCEPT !.read_len = n]
               elem == BytesAt(g.read_addr, n)
               ev == Save(Event, elem)
    <2>1. n \in Nat BY <1>2, LeastType, ArgAssumption DEF Context
    <2>2. ctx \in Context /\ ctx.read_addr = g.read_addr /\ ctx.read_len = n
        BY <1>2, <2>1, ContextStays DEF Context
    <2>3. Turn("SAVE_STRUCT", ctx) /\ Written(ev)
        BY <1>9, <2>2 DEF SaveBytes
    <2>4. elem \in Element BY <1>2, <2>1, ElementType DEF Context
    <2>5. ev \in Ev BY <1>3, <2>4, SaveStays
    <2>6. o.code = "SAVE_STRUCT" BY <1>2, <2>3 DEF Turn
    <2>7. ev.elems = Append(saved, elem) BY <1>3, <1>6, <2>3, <2>5, SaveFits
    <2>8. Into(ctx) BY <1>2, <2>6, SavesOne
    <2> HIDE DEF ev, ctx
    <2>9. Saves(o, Ctx, saved, ev.elems) BY <1>4, <2>6, <2>7 DEF Saves
    <2> QED BY <2>2, <2>3, <2>5, <2>8, <2>9, SavingGoes
<1>10. CASE SaveString
    <2> DEFINE ev  == Save(Event, StringAt(g.read_addr))
               ctx == IF g.read_addr \in DOMAIN Text
                      THEN [g EXCEPT !.str_len = Text[g.read_addr]] ELSE g
    <2>1. ev \in Ev BY <1>3, <1>5, SaveStays
    <2>2. Written(ev) BY <1>10 DEF SaveString
    <2>3. ev.full = FALSE BY <1>6, <2>1, <2>2
    <2>4. Turn("SAVE_STRING", ctx) BY <1>10, <2>3 DEF SaveString
    <2>5. o.code = "SAVE_STRING" BY <1>2, <2>4 DEF Turn
    <2>6. ev.elems = Append(saved, StringAt(g.read_addr)) BY <1>3, <2>1, <2>3, SaveFits
    <2>7. Into(ctx) BY <1>2, <2>5, SavesOne
    <2>8. g.read_addr \in DOMAIN Text => Text[g.read_addr] \in Nat BY ArgAssumption
    <2>9. ctx \in Context BY <1>2, <2>8, ContextStays
    <2> HIDE DEF ev, ctx
    <2>10. Saves(o, Ctx, saved, ev.elems) BY <1>4, <2>5, <2>6 DEF Saves
    <2> QED BY <2>1, <2>2, <2>4, <2>7, <2>9, <2>10, SavingGoes
<1>11. CASE SavePtrString
    <2> DEFINE ptr  == WordAt(g.read_addr)
               ev1  == Save(Event, RegElem(ptr))
               elem == IF ptr \in DOMAIN Text THEN StringAt(ptr) ELSE Block(MagicLen, 0)
               fits == BytesFit(ev1.off)
               elem1 == IF ptr \in DOMAIN Text /\ fits THEN StringAt(ptr) ELSE Block(MagicLen, 0)
               ev   == Save(ev1, elem1)
               ctx  == IF ptr \in DOMAIN Text THEN g
                       ELSE [g EXCEPT !.loop_count = g.break_count]
    <2>1. ptr \in Nat /\ MagicLen \in Nat BY WordAtType, ArgAssumption
    <2>2. RegElem(ptr) \in Element /\ elem1 \in Element BY <2>1, ElementType
    <2>3. ev1 \in Ev BY <1>3, <2>2, SaveStays
    <2>4. ev \in Ev BY <2>2, <2>3, SaveStays
    <2>5. Written(ev) BY <1>11 DEF SavePtrString
    <2>6. ev.full = FALSE BY <1>6, <2>4, <2>5
    <2>7. elem1.kind # "reg" BY DEF StringAt, Block
    <2>8. ev.elems = Append(ev1.elems, elem1) /\ ev1.full = FALSE /\ fits
        BY <2>3, <2>6, <2>7, SaveFits
    <2>9. ev1.elems = Append(saved, RegElem(ptr)) BY <1>3, <2>8, SaveFits
    <2>10. elem1 = elem BY <2>8
    <2>11. Turn("SAVE_PTR_STRING", ctx) BY <1>11, <2>8 DEF SavePtrString
    <2>12. o.code = "SAVE_PTR_STRING" BY <1>2, <2>11 DEF Turn
    <2>13. Into(ctx) BY <1>2, <2>12, SavesOne
    <2>14. g.break_count \in 0 .. MaxLoop BY <1>2 DEF Context
    <2>15. ctx \in Context BY <1>2, <2>14, ContextStays
    <2> HIDE DEF ev, ev1, elem1, ctx
    <2>16. Saves(o, Ctx, saved, ev.elems) BY <1>4, <2>8, <2>9, <2>10, <2>12 DEF Saves
    <2> QED BY <2>4, <2>5, <2>11, <2>13, <2>15, <2>16, SavingGoes
<1> QED BY <1>7, <1>8, <1>9, <1>10, <1>11 DEF SaveRegister

\* A turn of an event that nothing has spoilt is one of the relation above, or the end.
LEMMA RunTakes ==
    ASSUME IInv, Next, pc = "run", spoilt' = {}
    PROVE  Stop \/ (Landed /\ Takes(event, Ctx, saved, Ctx', saved'))
<1>1. \A call \in module : ~Hit(call) BY DEF Hit
<1>2. ~Skip /\ ~Submit BY DEF Skip, Submit
<1> QED BY <1>1, <1>2, ComputingTakes, MovingTakes, LoopingTakes, FilterTakes, SavingTakes DEF Next

-----------------------------------------------------------------------------
(* Where the opcodes of the arguments lie in the list.                       *)

\* The list of the call holds s from index b on.
Here(call, b, s) == \A j \in 1 .. Len(s) : KeyOf(call, b + (j - 1)) = s[j]

Base(call, k) == Len(Flat(Lists(call.point), k - 1))

ValuesAt(call, k) == Base(call, k) + Len(AddressOps(call.point.args[k]))

TypeAt(call, k) == ValuesAt(call, k) + Len(ValueFilters(call.point.args[k]))

MoreAt(call, k) == TypeAt(call, k) + Len(TypeOps(call.point.args[k].type))

LEMMA HereJoined ==
    ASSUME NEW call, NEW b \in Nat, NEW s \in Seq(Opcode), NEW t \in Seq(Opcode),
           Here(call, b, s \o t)
    PROVE  Here(call, b, s) /\ Here(call, b + Len(s), t)
<1> DEFINE u == s \o t
           n == Len(s)
<1>1. /\ Len(u) = n + Len(t) /\ n \in Nat /\ Len(t) \in Nat
      /\ \A j \in 1 .. n : u[j] = s[j]
      /\ \A j \in 1 .. Len(t) : u[n + j] = t[j]
    OBVIOUS
<1>2. \A j \in 1 .. Len(u) : KeyOf(call, b + (j - 1)) = u[j] BY DEF Here
<1> HIDE DEF u
<1>3. Here(call, b, s)
    <2>1. \A j \in 1 .. n : j \in 1 .. Len(u) BY <1>1
    <2> QED BY <1>1, <1>2, <2>1 DEF Here
<1> HIDE DEF n
<1>4. \A j \in 1 .. Len(t) : KeyOf(call, (b + n) + (j - 1)) = t[j]
    <2> TAKE j \in 1 .. Len(t)
    <2>1. n + j \in 1 .. Len(u) /\ b + ((n + j) - 1) = (b + n) + (j - 1) BY <1>1
    <2> QED BY <1>1, <1>2, <2>1
<1> QED BY <1>3, <1>4 DEF Here, n

LEMMA FirstBase == ASSUME NEW call, IsCall(call) PROVE Base(call, 1) = 0
<1>1. Lists(call.point) \in Seq(Seq(Opcode)) BY OpKeyListType DEF IsCall
<1> DEFINE lists == Lists(call.point)
<1> HIDE DEF lists
<1>2. 0 \in 0 .. Len(lists) BY <1>1 DEF lists
<1>3. Flat(lists, 0) = << >> BY <1>1, <1>2, FlatStep DEF lists
<1>4. 1 - 1 = 0 OBVIOUS
<1> QED BY <1>3, <1>4 DEF Base, lists

LEMMA ArgCode ==
    ASSUME NEW call, IsCall(call), NEW k \in DOMAIN call.point.args
    PROVE  /\ Base(call, k) \in Nat
           /\ Here(call, Base(call, k), GetOpList(call.point.args[k]))
           /\ Base(call, k + 1) = Base(call, k) + Len(GetOpList(call.point.args[k]))
           /\ Len(GetOpList(call.point.args[k])) \in Nat
<1> DEFINE lists == Lists(call.point)
           list  == OpKeyList(call.point)
           own   == GetOpList(call.point.args[k])
           b     == Base(call, k)
<1>1. call.point \in Point /\ call.point.args \in Seq(Arg) BY DEF IsCall, Point
<1>2. /\ lists \in Seq(Seq(Opcode)) /\ Len(lists) = Len(call.point.args)
      /\ list = FlattenSeq(lists) /\ list \in Seq(Opcode)
    BY <1>1, OpKeyListType
<1>3. k \in 1 .. Len(lists) BY <1>1, <1>2
<1>4. lists[k] = own BY DEF Lists
<1>5. b = Len(Flat(lists, k - 1)) /\ Base(call, k + 1) = Len(Flat(lists, (k + 1) - 1))
    BY DEF Base
<1>6. (k + 1) - 1 = k /\ k - 1 \in 0 .. Len(lists) /\ k \in 0 .. Len(lists) BY <1>2, <1>3
<1>7. own \in Seq(Opcode) BY <1>2, <1>3, <1>4
<1> HIDE DEF lists, list, own, b
<1>8. Flat(lists, k - 1) \in Seq(Opcode) /\ Flat(lists, k) \in Seq(Opcode)
    BY <1>2, <1>6, FlatStep
<1>9. /\ Len(Flat(lists, k)) = b + Len(own)
      /\ Len(Flat(lists, k)) <= Len(list)
      /\ \A j \in 1 .. Len(own) : list[b + j] = own[j]
    BY <1>2, <1>3, <1>4, <1>5, FlatIndex
<1>10. b \in Nat /\ Len(own) \in Nat /\ Len(list) \in Nat /\ b + Len(own) <= Len(list)
    BY <1>2, <1>5, <1>7, <1>8, <1>9
<1>11. \A j \in 1 .. Len(own) : KeyOf(call, b + (j - 1)) = own[j]
    <2> TAKE j \in 1 .. Len(own)
    <2>1. b + (j - 1) < Len(list) /\ (b + (j - 1)) + 1 = b + j BY <1>10
    <2> QED BY <1>9, <2>1 DEF KeyOf, list
<1> QED BY <1>5, <1>6, <1>9, <1>10, <1>11 DEF Here, b, own

LEMMA EndCode ==
    ASSUME NEW call, IsCall(call)
    PROVE  /\ KeyOf(call, Base(call, Len(call.point.args) + 1)) = OPC_SKIP
           /\ Base(call, Len(call.point.args) + 1) \in Nat
<1> DEFINE lists == Lists(call.point)
           list  == OpKeyList(call.point)
           n     == Len(call.point.args)
<1>1. call.point \in Point /\ call.point.args \in Seq(Arg) BY DEF IsCall, Point
<1>2. /\ lists \in Seq(Seq(Opcode)) /\ Len(lists) = n
      /\ list = FlattenSeq(lists) /\ list \in Seq(Opcode)
    BY <1>1, OpKeyListType
<1>3. n \in Nat /\ (n + 1) - 1 = n BY <1>1
<1>4. Base(call, n + 1) = Len(Flat(lists, n)) BY <1>3 DEF Base
<1> HIDE DEF lists, list, n
<1>5. Flat(lists, n) = list BY <1>2, FlatAll
<1>6. Base(call, n + 1) = Len(list) /\ Len(list) \in Nat BY <1>2, <1>4, <1>5
<1>7. KeyOf(call, Len(list)) = OPC_SKIP BY <1>6 DEF KeyOf, list
<1> QED BY <1>6, <1>7 DEF n

\* The parts of one argument.
LEMMA ArgParts ==
    ASSUME NEW call, IsCall(call), NEW k \in DOMAIN call.point.args
    PROVE  LET arg == call.point.args[k]
           IN  /\ arg \in Arg
               /\ Base(call, k) \in Nat /\ ValuesAt(call, k) \in Nat /\ TypeAt(call, k) \in Nat
               /\ MoreAt(call, k) \in Nat
               /\ Here(call, Base(call, k), AddressOps(arg))
               /\ Here(call, ValuesAt(call, k), ValueFilters(arg))
               /\ ReadMore(arg) => /\ Here(call, TypeAt(call, k), TypeOps(arg.type))
                                   /\ Here(call, MoreAt(call, k), MoreFilters(arg))
               /\ Base(call, k + 1) = IF ReadMore(arg)
                                      THEN MoreAt(call, k) + Len(MoreFilters(arg))
                                      ELSE TypeAt(call, k)
<1> DEFINE arg == call.point.args[k]
           a == AddressOps(arg)
           v == ValueFilters(arg)
           m == MoreOps(arg)
           t == TypeOps(arg.type)
           f == MoreFilters(arg)
           b == Base(call, k)
<1>1. arg \in Arg BY DEF IsCall, Point
<1>2. /\ GetOpList(arg) = a \o v \o m /\ a \in Seq(Opcode) /\ v \in Seq(Opcode)
      /\ m \in Seq(Opcode) /\ t \in Seq(Opcode) /\ f \in Seq(Opcode)
    BY <1>1, GetOpListIs, AddressOpsType
<1>3. /\ b \in Nat /\ Here(call, b, GetOpList(arg))
      /\ Base(call, k + 1) = b + Len(GetOpList(arg))
    BY ArgCode
<1>4. m = IF ReadMore(arg) THEN t \o f ELSE << >> BY DEF MoreOps
<1>5. /\ ValuesAt(call, k) = b + Len(a) /\ TypeAt(call, k) = ValuesAt(call, k) + Len(v)
      /\ MoreAt(call, k) = TypeAt(call, k) + Len(t)
    BY DEF ValuesAt, TypeAt, MoreAt
<1> HIDE DEF arg, a, v, m, t, f, b
<1>6. /\ Len(a) \in Nat /\ Len(v) \in Nat /\ Len(m) \in Nat /\ Len(t) \in Nat /\ Len(f) \in Nat
    BY <1>2
<1>7. a \o v \in Seq(Opcode) /\ Len(a \o v) = Len(a) + Len(v) BY <1>2, JoinedType
<1>8. Len(GetOpList(arg)) = (Len(a) + Len(v)) + Len(m) BY <1>2, <1>7, JoinedType
<1>9. Here(call, b, a \o v) /\ Here(call, b + Len(a \o v), m)
    BY <1>2, <1>3, <1>7, HereJoined
<1>10. Here(call, b, a) /\ Here(call, b + Len(a), v) BY <1>2, <1>3, <1>9, HereJoined
<1>11. /\ ValuesAt(call, k) \in Nat /\ TypeAt(call, k) \in Nat /\ MoreAt(call, k) \in Nat
       /\ b + Len(a \o v) = TypeAt(call, k)
    BY <1>3, <1>5, <1>6, <1>7
<1>12. CASE ReadMore(arg)
    <2>1. m = t \o f /\ Len(m) = Len(t) + Len(f) BY <1>2, <1>4, <1>12, JoinedType
    <2>2. Here(call, TypeAt(call, k), t) /\ Here(call, MoreAt(call, k), f)
        BY <1>2, <1>5, <1>9, <1>11, <2>1, HereJoined
    <2>3. Base(call, k + 1) = MoreAt(call, k) + Len(f)
        BY <1>3, <1>5, <1>6, <1>8, <1>11, <2>1
    <2> QED BY <1>1, <1>3, <1>5, <1>10, <1>11, <1>12, <2>2, <2>3 DEF arg, a, v, t, f, b
<1>13. CASE ~ReadMore(arg)
    <2>1. Len(m) = 0 BY <1>4, <1>13
    <2>2. Base(call, k + 1) = TypeAt(call, k) BY <1>3, <1>5, <1>6, <1>8, <1>11, <2>1
    <2> QED BY <1>1, <1>3, <1>5, <1>10, <1>11, <1>13, <2>2 DEF arg, a, v, t, f, b
<1> QED BY <1>12, <1>13

\* The registers that the opcodes name are registers of the call.
LEMMA RegisterKnown ==
    ASSUME NEW call, IsCall(call), NEW p \in Nat, KeyOf(call, p).code = "READ_REG"
    PROVE  KeyOf(call, p).value \in DOMAIN call.regs /\ call.regs[KeyOf(call, p).value] \in Nat
<1> DEFINE list == OpKeyList(call.point)
<1>1. list \in Seq(Opcode) BY OpKeyListType DEF IsCall
<1>2. p < Len(list) /\ KeyOf(call, p) = list[p + 1]
    <2>1. OPC_SKIP.code # "READ_REG" BY DEF OPC_SKIP, Op
    <2> QED BY <2>1 DEF KeyOf
<1>3. p + 1 \in DOMAIN list BY <1>1, <1>2
<1> QED BY <1>2, <1>3 DEF IsCall

-----------------------------------------------------------------------------
(* What the log is promised, element by element.                             *)

\* Joining one sequence more.
LEMMA FlatGrows ==
    ASSUME NEW S, NEW g, \A j \in Nat : g[j] \in Seq(S), NEW n \in Nat
    PROVE  /\ FlattenSeq([j \in 1 .. 0 |-> g[j]]) = << >>
           /\ FlattenSeq([j \in 1 .. n |-> g[j]]) \in Seq(S)
           /\ FlattenSeq([j \in 1 .. n + 1 |-> g[j]]) =
                 FlattenSeq([j \in 1 .. n |-> g[j]]) \o g[n + 1]
<1> DEFINE s(m) == [j \in 1 .. m |-> g[j]]
           t == s(n + 1)
<1>1. t \in Seq(Seq(S)) /\ Len(t) = n + 1 /\ \A j \in 1 .. n + 1 : t[j] = g[j]
    <2>1. \A j \in 1 .. n + 1 : j \in Nat OBVIOUS
    <2> QED BY <2>1
<1>2. [j \in 1 .. n |-> t[j]] = s(n) OBVIOUS
<1>3. [j \in 1 .. n + 1 |-> t[j]] = t OBVIOUS
<1>4. [j \in 1 .. 0 |-> t[j]] = s(0) OBVIOUS
<1> HIDE DEF t
<1>5. Flat(t, n) = FlattenSeq(s(n)) /\ Flat(t, n + 1) = FlattenSeq(t)
      /\ Flat(t, 0) = FlattenSeq(s(0))
    BY <1>2, <1>3, <1>4 DEF Flat
<1> HIDE DEF s
<1>6. n \in 0 .. Len(t) /\ n + 1 \in 0 .. Len(t) /\ n + 1 > 0 /\ (n + 1) - 1 = n
    BY <1>1
<1>7. Flat(t, 0) = << >> /\ Flat(t, n) \in Seq(S) BY <1>1, <1>6, FlatStep
<1>8. Flat(t, n + 1) = Flat(t, (n + 1) - 1) \o t[n + 1] BY <1>1, <1>6, FlatStep
<1>9. t[n + 1] = g[n + 1] BY <1>1, <1>6
<1>10. Flat(t, n + 1) = Flat(t, n) \o g[n + 1] BY <1>6, <1>8, <1>9
<1> QED BY <1>5, <1>7, <1>10 DEF s, t

IovPair(a, j) ==
    << BytesAt(a + IovecSize * (j - 1), IovecSize),
       BytesAt(WordAt(a + IovecSize * (j - 1)),
               Least(MaxBytes, WordAt(a + IovecSize * (j - 1) + 8))) >>

\* The first n pairs of an array of iovecs.
Iovs(a, n) == FlattenSeq([j \in 1 .. n |-> IovPair(a, j)])

Ptr(a, j) == WordAt(a + PtrSize * (j - 1))

\* The first n strings of an array.
Strs(a, n) == FlattenSeq([j \in 1 .. n |-> << RegElem(Ptr(a, j)), StringAt(Ptr(a, j)) >>])

LEMMA TwoMore ==
    ASSUME NEW s \in Seq(Element), NEW x \in Element, NEW y \in Element
    PROVE  s \o << x, y >> = Append(Append(s, x), y)
<1> DEFINE t == << x, y >>
           u == s \o t
           v == Append(Append(s, x), y)
<1>1. t \in Seq(Element) /\ Len(t) = 2 /\ t[1] = x /\ t[2] = y OBVIOUS
<1> HIDE DEF t
<1>2. /\ u \in Seq(Element) /\ Len(u) = Len(s) + 2 /\ Len(s) \in Nat
      /\ \A j \in 1 .. Len(s) : u[j] = s[j]
      /\ u[Len(s) + 1] = x /\ u[Len(s) + 2] = y
    <2>a. Len(s) \in Nat OBVIOUS
    <2>b. \A j \in 1 .. Len(s) : (s \o t)[j] = s[j] BY <1>1
    <2>t. t \in Seq(Element) BY <1>1
    <2>c. \A j \in 1 .. Len(t) : (s \o t)[Len(s) + j] = t[j] BY <2>t
    <2>1. /\ Len(s) \in Nat
          /\ \A j \in 1 .. Len(s) : (s \o t)[j] = s[j]
          /\ \A j \in 1 .. Len(t) : (s \o t)[Len(s) + j] = t[j]
        BY <2>a, <2>b, <2>c
    <2>2. s \o t \in Seq(Element) /\ Len(s \o t) = Len(s) + 2 BY <1>1, JoinedType
    <2>3. 1 \in 1 .. Len(t) /\ 2 \in 1 .. Len(t) BY <1>1
    <2> HIDE DEF u
    <2>4. u = s \o t BY DEF u
    <2>5. (s \o t)[Len(s) + 1] = x /\ (s \o t)[Len(s) + 2] = y BY <1>1, <2>1, <2>3
    <2> QED BY <2>1, <2>2, <2>4, <2>5
<1>3. /\ v \in Seq(Element) /\ Len(v) = Len(s) + 2
      /\ \A j \in 1 .. Len(s) : v[j] = s[j]
      /\ v[Len(s) + 1] = x /\ v[Len(s) + 2] = y
    <2> DEFINE w == Append(s, x)
    <2>1. /\ w \in Seq(Element) /\ Len(w) = Len(s) + 1 /\ Len(s) \in Nat
          /\ \A j \in 1 .. Len(s) : w[j] = s[j]
          /\ w[Len(s) + 1] = x
        OBVIOUS
    <2>2. v = Append(w, y) OBVIOUS
    <2> HIDE DEF w, v
    <2>3. /\ v \in Seq(Element) /\ Len(v) = Len(w) + 1
          /\ \A j \in 1 .. Len(w) : v[j] = w[j]
          /\ v[Len(w) + 1] = y
        BY <2>1, <2>2
    <2>4. \A j \in 1 .. Len(s) : j \in 1 .. Len(w) BY <2>1
    <2>5. Len(s) + 1 \in 1 .. Len(w) /\ (Len(s) + 1) + 1 = Len(s) + 2 BY <2>1
    <2> QED BY <2>1, <2>3, <2>4, <2>5
<1> HIDE DEF u, v
<1>4. \A j \in 1 .. Len(u) : u[j] = v[j]
    <2> TAKE j \in 1 .. Len(u)
    <2>1. j \in 1 .. Len(s) \/ j = Len(s) + 1 \/ j = Len(s) + 2 BY <1>2
    <2> QED BY <1>2, <1>3, <2>1
<1>5. u = v BY <1>2, <1>3, <1>4, SeqEqual
<1> QED BY <1>5 DEF u, v, t

LEMMA IovsGrow ==
    ASSUME NEW a \in Int, NEW n \in Nat
    PROVE  /\ Iovs(a, 0) = << >> /\ Iovs(a, n) \in Seq(Element)
           /\ Iovs(a, n + 1) = Append(Append(Iovs(a, n), IovPair(a, n + 1)[1]), IovPair(a, n + 1)[2])
<1> DEFINE g == [j \in Nat |-> IovPair(a, j)]
           first(m) == [j \in 1 .. m |-> g[j]]
<1>1. \A j \in Nat : IovPair(a, j) \in Seq(Element)
    <2> TAKE j \in Nat
    <2>1. IovecSize \in Nat /\ MaxBytes \in Nat /\ a + IovecSize * (j - 1) \in Int
        BY ArgAssumption DEF IovecSize
    <2> DEFINE iov == a + IovecSize * (j - 1)
    <2>2. WordAt(iov) \in Nat /\ Least(MaxBytes, WordAt(iov + 8)) \in Nat
        BY <2>1, WordAtType, LeastType
    <2>3. BytesAt(iov, IovecSize) \in Element
          /\ BytesAt(WordAt(iov), Least(MaxBytes, WordAt(iov + 8))) \in Element
        BY <2>1, <2>2, ElementType
    <2>4. IovPair(a, j) = << BytesAt(iov, IovecSize),
                             BytesAt(WordAt(iov), Least(MaxBytes, WordAt(iov + 8))) >>
        BY DEF IovPair
    <2> HIDE DEF iov
    <2> QED BY <2>3, <2>4
<1>2. \A j \in Nat : g[j] \in Seq(Element) BY <1>1
<1>3. \A m \in Nat : first(m) = [j \in 1 .. m |-> IovPair(a, j)]
    <2> TAKE m \in Nat
    <2>1. \A j \in 1 .. m : g[j] = IovPair(a, j) OBVIOUS
    <2> QED BY <2>1
<1>4. g[n + 1] = IovPair(a, n + 1) OBVIOUS
<1> HIDE DEF g
<1>5. /\ FlattenSeq(first(0)) = << >> /\ FlattenSeq(first(n)) \in Seq(Element)
      /\ FlattenSeq(first(n + 1)) = FlattenSeq(first(n)) \o g[n + 1]
    BY <1>2, FlatGrows
<1> HIDE DEF first
<1>6. \A m \in Nat : Iovs(a, m) = FlattenSeq(first(m))
    <2> TAKE m \in Nat
    <2>1. first(m) = [j \in 1 .. m |-> IovPair(a, j)] BY <1>3
    <2> QED BY <2>1 DEF Iovs
<1> DEFINE x == IovPair(a, n + 1)[1]
           y == IovPair(a, n + 1)[2]
<1>7. g[n + 1] = << x, y >> BY <1>4 DEF IovPair
<1>8. x \in Element /\ y \in Element
    <2>1. IovPair(a, n + 1) \in Seq(Element) BY <1>1
    <2>2. Len(IovPair(a, n + 1)) = 2 BY DEF IovPair
    <2> QED BY <2>1, <2>2
<1> HIDE DEF x, y
<1>9. 0 \in Nat /\ n + 1 \in Nat OBVIOUS
<1>10. FlattenSeq(first(n)) \o << x, y >> = Append(Append(FlattenSeq(first(n)), x), y)
    BY <1>5, <1>8, TwoMore
<1> QED BY <1>5, <1>6, <1>7, <1>9, <1>10 DEF x, y

LEMMA StrsGrow ==
    ASSUME NEW a \in Int, NEW n \in Nat
    PROVE  /\ Strs(a, 0) = << >> /\ Strs(a, n) \in Seq(Element)
           /\ Strs(a, n + 1) =
                 Append(Append(Strs(a, n), RegElem(Ptr(a, n + 1))), StringAt(Ptr(a, n + 1)))
<1> DEFINE h(j) == << RegElem(Ptr(a, j)), StringAt(Ptr(a, j)) >>
           g == [j \in Nat |-> h(j)]
           first(m) == [j \in 1 .. m |-> g[j]]
<1>1. \A j \in Nat : h(j) \in Seq(Element)
    <2> TAKE j \in Nat
    <2>1. Ptr(a, j) \in Nat BY WordAtType DEF Ptr
    <2>2. RegElem(Ptr(a, j)) \in Element /\ StringAt(Ptr(a, j)) \in Element
        BY <2>1, ElementType
    <2> QED BY <2>2
<1>2. \A j \in Nat : g[j] \in Seq(Element) BY <1>1
<1>3. \A m \in Nat : first(m) = [j \in 1 .. m |-> h(j)]
    <2> TAKE m \in Nat
    <2>1. \A j \in 1 .. m : g[j] = h(j) OBVIOUS
    <2> QED BY <2>1
<1>4. g[n + 1] = h(n + 1) OBVIOUS
<1> HIDE DEF g
<1>5. /\ FlattenSeq(first(0)) = << >> /\ FlattenSeq(first(n)) \in Seq(Element)
      /\ FlattenSeq(first(n + 1)) = FlattenSeq(first(n)) \o g[n + 1]
    BY <1>2, FlatGrows
<1> HIDE DEF first
<1>6. \A m \in Nat : Strs(a, m) = FlattenSeq(first(m))
    <2> TAKE m \in Nat
    <2>1. first(m) = [j \in 1 .. m |-> h(j)] BY <1>3
    <2> QED BY <2>1 DEF Strs
<1> DEFINE x == RegElem(Ptr(a, n + 1))
           y == StringAt(Ptr(a, n + 1))
<1>7. g[n + 1] = << x, y >> BY <1>4
<1>8. x \in Element /\ y \in Element
    <2>1. Ptr(a, n + 1) \in Nat BY WordAtType DEF Ptr
    <2> QED BY <2>1, ElementType
<1> HIDE DEF x, y
<1>9. 0 \in Nat /\ n + 1 \in Nat OBVIOUS
<1>10. FlattenSeq(first(n)) \o << x, y >> = Append(Append(FlattenSeq(first(n)), x), y)
    BY <1>5, <1>8, TwoMore
<1> QED BY <1>5, <1>6, <1>7, <1>9, <1>10 DEF x, y

LEMMA IovecAtIs ==
    ASSUME NEW a, NEW count PROVE IovecAt(a, count) = Iovs(a, Least(count, MaxIov))
BY DEF IovecAt, Iovs, IovPair

\* An array of strings that ends behind n strings, or has MaxLoop of them.
LEMMA StringsAtIs ==
    ASSUME NEW a \in Int, NEW n \in 0 .. MaxLoop, \A j \in 1 .. n : Ptr(a, j) \in DOMAIN Text,
           n < MaxLoop => Ptr(a, n + 1) \notin DOMAIN Text
    PROVE  StringsAt(a) = Strs(a, n) \o (IF n < MaxLoop
                                         THEN << RegElem(Ptr(a, n + 1)), Block(MagicLen, 0) >>
                                         ELSE << >>)
<1> DEFINE good == {j \in 1 .. MaxLoop : \A h \in 1 .. j : Ptr(a, h) \in DOMAIN Text}
<1>1. MaxLoop \in Nat /\ n \in Nat BY ArgAssumption
<1>2. good = 1 .. n
    <2>1. \A j \in good : j \in 1 .. n
        <3> TAKE j \in good
        <3>1. CASE j <= n BY <3>1
        <3>2. CASE ~(j <= n)
            <4>1. n < MaxLoop /\ n + 1 \in 1 .. j BY <1>1, <3>2
            <4> QED BY <4>1
        <3> QED BY <3>1, <3>2
    <2>2. \A j \in 1 .. n : j \in good BY <1>1
    <2> HIDE DEF good
    <2> QED BY <2>1, <2>2
<1>3. Cardinality(1 .. n) = n
    <2>1. Cardinality(1 .. n) = IF 1 > n THEN 0 ELSE n - 1 + 1 BY <1>1, FS_Interval
    <2> QED BY <1>1, <2>1
<1>4. StringsAt(a) = LET m == Cardinality(good)
                     IN  Strs(a, m) \o (IF m < MaxLoop
                                        THEN << RegElem(Ptr(a, m + 1)), Block(MagicLen, 0) >>
                                        ELSE << >>)
    BY DEF StringsAt, Strs, Ptr
<1> HIDE DEF good
<1> QED BY <1>2, <1>3, <1>4

-----------------------------------------------------------------------------
(* The address of an argument, and its elements.                             *)

\* Registers and return values are numbers.
LEMMA RegistersKnown ==
    ASSUME NEW call, IsCall(call), NEW k \in DOMAIN call.point.args
    PROVE  LET arg == call.point.args[k]
           IN  /\ arg \in Arg /\ call.ret \in Nat
               /\ ~arg.is_ret => call.regs[arg.reg] \in Nat
               /\ \A r \in Added(arg) : call.regs[r.value] \in Nat
               /\ ReadMore(arg) /\ arg.type.name \in {"buffer_reg", "iovec"} =>
                     call.regs[arg.type.reg] \in Nat
<1> DEFINE arg == call.point.args[k]
           b == Base(call, k)
           t == TypeAt(call, k)
<1>1. /\ arg \in Arg /\ b \in Nat /\ t \in Nat /\ Here(call, b, AddressOps(arg))
      /\ ReadMore(arg) => Here(call, t, TypeOps(arg.type))
    BY ArgParts
<1> HIDE DEF arg, b, t
<1>2. call.ret \in Nat BY DEF IsCall
<1>3. ASSUME ~arg.is_ret PROVE call.regs[arg.reg] \in Nat
    <2> DEFINE o == AddressOps(arg)[1]
    <2>1. o.code = "READ_REG" /\ o.value = arg.reg /\ Len(AddressOps(arg)) >= 1
        <3> DEFINE s == FlattenSeq(ExtraOps(arg))
                   r == << ReadReg(arg.reg, "MOVE_REG_VALUE") >>
                   z == << Op("SAVE_ADDR", 0) >>
        <3>1. CASE arg.read_op # << >>
            <4>1. AddressOps(arg) = r \o s \o z
                BY <1>3, <3>1 DEF AddressOps, ExtraOpList, ExtraOps
            <4>2. s \in Seq(Opcode) BY <1>1, ExtraOpsType
            <4>3. "MOVE_REG_VALUE" \in PostCodes /\ "SAVE_ADDR" \in Codes BY DEF PostCodes, Codes
            <4>4. arg.reg \in Nat BY <1>1 DEF Arg
            <4>5. r \in Seq(Opcode) /\ z \in Seq(Opcode) BY <4>3, <4>4, OpType
            <4>6. Len(r) >= 1 /\ r[1] = ReadReg(arg.reg, "MOVE_REG_VALUE") OBVIOUS
            <4> HIDE DEF s, r, z
            <4>7. r \o s \in Seq(Opcode) BY <4>2, <4>5, JoinedType
            <4>8. (r \o s)[1] = r[1] /\ Len(r \o s) >= 1 BY <4>2, <4>5, <4>6, FirstJoined
            <4>9. ((r \o s) \o z)[1] = (r \o s)[1] /\ Len((r \o s) \o z) >= 1
                BY <4>5, <4>7, <4>8, FirstJoined
            <4> QED BY <4>1, <4>6, <4>8, <4>9 DEF ReadReg
        <3>2. CASE arg.read_op = << >> BY <1>3, <3>2 DEF AddressOps, ReadReg
        <3> QED BY <3>1, <3>2
    <2>2. AddressOps(arg) \in Seq(Opcode) BY <1>1, AddressOpsType
    <2>3. KeyOf(call, b + (1 - 1)) = o BY <1>1, <2>1, <2>2 DEF Here
    <2>4. b + (1 - 1) \in Nat BY <1>1
    <2> HIDE DEF o
    <2> QED BY <2>1, <2>3, <2>4, RegisterKnown
<1>4. ASSUME ReadMore(arg), arg.type.name \in {"buffer_reg", "iovec"}
      PROVE  call.regs[arg.type.reg] \in Nat
    <2> DEFINE s == TypeOps(arg.type)
    <2>1. s \in Seq(Opcode) BY <1>1, GetOpListIs
    <2>2. Here(call, t, s) BY <1>1, <1>4
    <2>3. \E j \in {1, 2} : j <= Len(s) /\ s[j].code = "READ_REG" /\ s[j].value = arg.type.reg
        <3>1. CASE arg.type.name = "buffer_reg"
            <4>1. s[2] = ReadReg(arg.type.reg, "SET_READ_LEN_REG_VALUE") /\ Len(s) = 3
                BY <3>1 DEF TypeOps
            <4> QED BY <4>1 DEF ReadReg
        <3>2. CASE arg.type.name = "iovec"
            <4> DEFINE r == << ReadReg(arg.type.reg, "SET_BREAK_COUNT_REG_VALUE"), Op("SAVE_REG", 0) >>
            <4>1. s = r \o IovecLoop BY <3>2 DEF TypeOps
            <4>2. "SET_BREAK_COUNT_REG_VALUE" \in PostCodes /\ "SAVE_REG" \in Codes
                BY DEF PostCodes, Codes
            <4>3. arg.type.reg \in Nat BY <1>1 DEF Arg, Type
            <4>4. r \in Seq(Opcode) BY <4>2, <4>3, OpType
            <4>5. Len(r) >= 1 /\ r[1] = ReadReg(arg.type.reg, "SET_BREAK_COUNT_REG_VALUE") OBVIOUS
            <4> HIDE DEF r, s
            <4>6. s[1] = r[1] /\ Len(s) >= 1 BY <4>1, <4>4, <4>5, IovecLoopIs, FirstJoined
            <4> QED BY <4>5, <4>6 DEF ReadReg
        <3> QED BY <1>4, <3>1, <3>2
    <2> HIDE DEF s
    <2>4. PICK j \in {1, 2} : j <= Len(s) /\ s[j].code = "READ_REG" /\ s[j].value = arg.type.reg
        BY <2>3
    <2>5. KeyOf(call, t + (j - 1)) = s[j] BY <2>1, <2>2, <2>4 DEF Here
    <2>6. t + (j - 1) \in Nat BY <1>1
    <2> QED BY <2>4, <2>5, <2>6, RegisterKnown
<1>5. \A r \in Added(arg) : call.regs[r.value] \in Nat BY DEF IsCall, arg
<1> QED BY <1>1, <1>2, <1>3, <1>4, <1>5 DEF arg

\* The addresses on the way of a read_op.
LEMMA WalkedIs ==
    ASSUME NEW arg \in Arg, NEW regs, regs[arg.reg] \in Nat,
           \A r \in Added(arg) : regs[r.value] \in Nat
    PROVE  /\ Walked(arg, regs)[0] = regs[arg.reg]
           /\ \A n \in 1 .. Len(arg.read_op) :
                 Walked(arg, regs)[n] = Moved(Walked(arg, regs)[n - 1], arg.read_op[n], regs)
           /\ \A n \in 0 .. Len(arg.read_op) : Walked(arg, regs)[n] \in Int
<1> DEFINE N == Len(arg.read_op)
           b == regs[arg.reg]
           ops == arg.read_op
           Is(w) == w = [n \in 0 .. N |-> IF n = 0 THEN b ELSE Moved(w[n - 1], ops[n], regs)]
           walk == CHOOSE w : Is(w)
           g == [n \in Nat |-> [x \in Int |-> IF n \in 1 .. N THEN Moved(x, ops[n], regs) ELSE x]]
<1>1. Walked(arg, regs) = walk BY DEF Walked
<1>2. N \in Nat /\ b \in Int /\ \A n \in 1 .. N : ops[n] \in ReadOp BY DEF Arg
<1>3. \A x \in Int : \A n \in 1 .. N : Moved(x, ops[n], regs) \in Int
    <2> TAKE x \in Int
    <2> TAKE n \in 1 .. N
    <2> DEFINE r == ops[n]
    <2>1. r \in ReadOp BY <1>2
    <2>2. n \in DOMAIN ops BY DEF Arg
    <2>3. r.op \in {"+reg", "-reg"} => r \in Added(arg) BY <2>2 DEF Added, Range
    <2>4. CASE r.op \in {"+reg", "-reg"}
        <3>1. regs[r.value] \in Int BY <2>3, <2>4
        <3> QED BY <2>4, <3>1 DEF Moved
    <2>5. CASE r.op \in {"+", "-", "."} BY <2>1, <2>5, WordAtType DEF Moved, ReadOp
    <2> QED BY <2>1, <2>4, <2>5 DEF ReadOp
<1>4. g \in [Nat -> [Int -> Int]]
    <2>1. \A n \in Nat, x \in Int : (IF n \in 1 .. N THEN Moved(x, ops[n], regs) ELSE x) \in Int
        BY <1>2, <1>3
    <2> QED BY <2>1
<1>5. \A n \in 1 .. N, x \in Int : g[n][x] = Moved(x, ops[n], regs) BY <1>2
<1> HIDE DEF g
<1>6. PICK h : IsIteration(h, N, Int, b, g)
    <2> HIDE DEF N, b
    <2> QED BY <1>2, <1>4, IterationExists
<1>7. h \in [0 .. N -> Int] /\ h[0] = b /\ \A n \in 1 .. N : h[n] = g[n][h[n - 1]]
    BY <1>6 DEF IsIteration
<1>8. Is(h)
    <2>1. \A n \in 0 .. N : h[n] = IF n = 0 THEN b ELSE Moved(h[n - 1], ops[n], regs)
        <3> TAKE n \in 0 .. N
        <3>1. CASE n = 0 BY <1>7, <3>1
        <3>2. CASE n # 0
            <4>1. n \in 1 .. N /\ n - 1 \in 0 .. N BY <1>2, <3>2
            <4>2. h[n - 1] \in Int BY <1>7, <4>1
            <4> QED BY <1>5, <1>7, <3>2, <4>1, <4>2
        <3> QED BY <3>1, <3>2
    <2> QED BY <1>7, <2>1
<1>9. Is(walk) BY <1>8
<1> HIDE DEF walk
<1>10. /\ walk[0] = b
       /\ \A n \in 1 .. N : walk[n] = Moved(walk[n - 1], ops[n], regs)
    <2>1. \A n \in 0 .. N : walk[n] = IF n = 0 THEN b ELSE Moved(walk[n - 1], ops[n], regs) BY <1>9
    <2>2. 0 \in 0 .. N /\ \A n \in 1 .. N : n \in 0 .. N /\ n # 0 BY <1>2
    <2> QED BY <2>1, <2>2
<1> DEFINE T == {n \in Nat : n <= N => walk[n] \in Int}
<1>11. 0 \in T BY <1>2, <1>10
<1>12. \A n \in Nat : n \in T => n + 1 \in T
    <2> SUFFICES ASSUME NEW n \in Nat, n \in T, n + 1 <= N PROVE walk[n + 1] \in Int
        OBVIOUS
    <2>1. n + 1 \in 1 .. N /\ (n + 1) - 1 = n /\ n <= N BY <1>2
    <2>2. walk[n + 1] = Moved(walk[n], ops[n + 1], regs) BY <1>10, <2>1
    <2> QED BY <1>2, <1>3, <2>1, <2>2
<1> HIDE DEF T
<1>13. Nat \subseteq T BY <1>11, <1>12, NumberInduction
<1>14. \A n \in 0 .. N : walk[n] \in Int BY <1>13 DEF T
<1> QED BY <1>1, <1>10, <1>14

LEMMA AddressType ==
    ASSUME NEW call, IsCall(call), NEW k \in DOMAIN call.point.args
    PROVE  AddressOf(call, k) \in Int
<1> DEFINE arg == call.point.args[k]
<1>1. /\ arg \in Arg /\ call.ret \in Nat
      /\ ~arg.is_ret => call.regs[arg.reg] \in Nat
      /\ \A r \in Added(arg) : call.regs[r.value] \in Nat
    BY RegistersKnown
<1>2. AddressOf(call, k) = Address(arg, call.regs, call.ret) BY DEF AddressOf
<1> HIDE DEF arg
<1>3. Len(arg.read_op) \in 0 .. Len(arg.read_op) BY <1>1 DEF Arg
<1>4. CASE arg.is_ret BY <1>1, <1>2, <1>4 DEF Address
<1>5. CASE ~arg.is_ret
    <2>1. Walked(arg, call.regs)[Len(arg.read_op)] \in Int BY <1>1, <1>3, <1>5, WalkedIs
    <2> QED BY <1>2, <1>5, <2>1 DEF Address
<1> QED BY <1>4, <1>5

LEMMA AppendJoined ==
    \A s, t \in Seq(Element) : \A x \in Element : Append(s \o t, x) = s \o Append(t, x)
<1> TAKE s, t \in Seq(Element)
<1> TAKE x \in Element
<1> DEFINE w == << x >>
<1>1. \A u \in Seq(Element) : Append(u, x) = u \o w OBVIOUS
<1>2. w \in Seq(Element) OBVIOUS
<1> HIDE DEF w
<1>3. s \o t \in Seq(Element) OBVIOUS
<1>4. (s \o t) \o w = s \o (t \o w) BY <1>2, ConcatAssociative
<1> QED BY <1>1, <1>3, <1>4

\* An array of strings ends somewhere.
EndAt(a, n) ==
    /\ \A j \in 1 .. n : Ptr(a, j) \in DOMAIN Text
    /\ n < MaxLoop => Ptr(a, n + 1) \notin DOMAIN Text

LEMMA StringsEnd == ASSUME NEW a \in Int PROVE \E n \in 0 .. MaxLoop : EndAt(a, n)
<1> DEFINE bad == {j \in 1 .. MaxLoop : Ptr(a, j) \notin DOMAIN Text}
<1>1. MaxLoop \in Nat BY ArgAssumption
<1>2. CASE bad = {}
    <2>1. EndAt(a, MaxLoop) BY <1>1, <1>2 DEF EndAt
    <2> QED BY <1>1, <2>1
<1>3. CASE bad # {}
    <2>1. bad \subseteq Nat OBVIOUS
    <2>2. PICK j \in bad : \A h \in bad : j <= h
        <3> HIDE DEF bad
        <3> QED BY <1>3, <2>1, LeastNumber
    <2>3. j - 1 \in 0 .. MaxLoop /\ (j - 1) + 1 = j BY <1>1, <2>2
    <2>4. \A h \in 1 .. j - 1 : h \notin bad /\ h \in 1 .. MaxLoop
        <3> TAKE h \in 1 .. j - 1
        <3>1. h \in 1 .. MaxLoop /\ ~(j <= h) BY <1>1, <2>2
        <3> HIDE DEF bad
        <3> QED BY <2>2, <3>1
    <2>5. \A h \in 1 .. j - 1 : Ptr(a, h) \in DOMAIN Text BY <2>4
    <2>6. EndAt(a, j - 1) BY <2>2, <2>3, <2>5 DEF EndAt
    <2> QED BY <2>3, <2>6
<1> QED BY <1>2, <1>3

LEMMA StringsAtType == ASSUME NEW a \in Int PROVE StringsAt(a) \in Seq(Element)
<1>1. MaxLoop \in Nat /\ MagicLen \in Nat BY ArgAssumption
<1>2. PICK n \in 0 .. MaxLoop : EndAt(a, n) BY StringsEnd
<1>3. /\ \A j \in 1 .. n : Ptr(a, j) \in DOMAIN Text
      /\ n < MaxLoop => Ptr(a, n + 1) \notin DOMAIN Text
    BY <1>2 DEF EndAt
<1> DEFINE z == IF n < MaxLoop THEN << RegElem(Ptr(a, n + 1)), Block(MagicLen, 0) >> ELSE << >>
<1>4. StringsAt(a) = Strs(a, n) \o z BY <1>3, StringsAtIs
<1>5. z \in Seq(Element)
    <2>1. Ptr(a, n + 1) \in Int BY WordAtType DEF Ptr
    <2>2. RegElem(Ptr(a, n + 1)) \in Element /\ Block(MagicLen, 0) \in Element
        BY <1>1, <2>1, ElementType
    <2> QED BY <2>2
<1>6. Strs(a, n) \in Seq(Element) BY <1>1, StrsGrow
<1> HIDE DEF z
<1> QED BY <1>4, <1>5, <1>6, JoinedType

LEMMA IovecAtType ==
    ASSUME NEW a \in Int, NEW n \in Nat PROVE IovecAt(a, n) \in Seq(Element)
<1>1. MaxLoop \in Nat /\ MaxIov \in 0 .. MaxLoop BY ArgAssumption
<1>2. MaxIov \in Nat BY <1>1
<1>3. Least(n, MaxIov) \in Nat BY <1>2, LeastType
<1> QED BY <1>3, IovecAtIs, IovsGrow

Body(call, k) ==
    LET arg == call.point.args[k]
    IN  IF ReadMore(arg) THEN Content(arg.type, AddressOf(call, k), call.regs) ELSE << >>

Value(call, k) == << RegElem(AddressOf(call, k)) >>

Elems(call, k) == Value(call, k) \o Body(call, k)

ElemLists(call) == [k \in DOMAIN call.point.args |-> Elems(call, k)]

\* What is promised for the arguments before argument k.
Before(call, k) == Flat(ElemLists(call), k - 1)

LEMMA BodyType ==
    ASSUME NEW call, IsCall(call), NEW k \in DOMAIN call.point.args
    PROVE  /\ Value(call, k) \in Seq(Element) /\ Body(call, k) \in Seq(Element)
           /\ Elems(call, k) \in Seq(Element)
<1> DEFINE arg == call.point.args[k]
           t == arg.type
           a == AddressOf(call, k)
           regs == call.regs
<1>1. /\ arg \in Arg
      /\ ReadMore(arg) /\ t.name \in {"buffer_reg", "iovec"} => regs[t.reg] \in Nat
    BY RegistersKnown
<1>2. a \in Int BY AddressType
<1>3. Value(call, k) \in Seq(Element) BY <1>2, ElementType DEF Value
<1>4. ASSUME ReadMore(arg) PROVE Content(t, a, regs) \in Seq(Element)
    <2>1. t \in Type /\ t.size \in Nat /\ MaxBytes \in Nat /\ MsghdrSize \in Nat
        BY <1>1, ArgAssumption DEF Arg, Type, MsghdrSize
    <2> HIDE DEF arg, t, a, regs
    <2>2. \A n \in Nat, x \in Int : BytesAt(x, Least(MaxBytes, n)) \in Element
        BY <2>1, LeastType, ElementType
    <2>3. WordAt(a + 32) \in Nat /\ WordAt(a + 40) \in Nat /\ WordAt(a + 16) \in Nat
          /\ WordAt(a + 24) \in Nat
        BY WordAtType
    <2>4. CASE t.name \in {"num", "pointer", "array", "struct", "dirent", "buffer"}
        BY <1>2, <2>1, <2>2, <2>4 DEF Content
    <2>5. CASE t.name = "buffer_reg" BY <1>1, <1>2, <1>4, <2>2, <2>5 DEF Content
    <2>6. CASE t.name \in {"string", "std"}
        <3>1. StringData(a) \in Int BY <1>2, WordAtType DEF StringData
        <3> QED BY <1>2, <2>6, <3>1, ElementType DEF Content
    <2>7. CASE t.name = "string_array" BY <1>2, <2>7, StringsAtType DEF Content
    <2>8. CASE t.name = "iovec"
        <3>1. regs[t.reg] \in Nat BY <1>1, <1>4, <2>8
        <3>2. IovecAt(a, regs[t.reg]) \in Seq(Element) BY <1>2, <3>1, IovecAtType
        <3>3. << RegElem(regs[t.reg]) >> \in Seq(Element) BY <3>1, ElementType
        <3>4. Content(t, a, regs) = << RegElem(regs[t.reg]) >> \o IovecAt(a, regs[t.reg])
            BY <2>8 DEF Content
        <3> QED BY <3>2, <3>3, <3>4, JoinedType
    <2>9. CASE t.name = "msghdr"
        <3> DEFINE s == << BytesAt(a, MsghdrSize),
                           BytesAt(WordAt(a + 32), Least(MaxBytes, WordAt(a + 40))) >>
        <3>1. s \in Seq(Element) BY <1>2, <2>1, <2>2, <2>3, ElementType
        <3>2. IovecAt(WordAt(a + 16), WordAt(a + 24)) \in Seq(Element) BY <2>3, IovecAtType
        <3>3. Content(t, a, regs) = s \o IovecAt(WordAt(a + 16), WordAt(a + 24))
            BY <2>9 DEF Content
        <3> HIDE DEF s
        <3> QED BY <3>1, <3>2, <3>3, JoinedType
    <2> QED BY <2>1, <2>4, <2>5, <2>6, <2>7, <2>8, <2>9 DEF Type
<1>5. Body(call, k) \in Seq(Element)
    <2>1. << >> \in Seq(Element) OBVIOUS
    <2> QED BY <1>4, <2>1 DEF Body
<1> QED BY <1>3, <1>5, JoinedType DEF Elems

LEMMA BeforeIs ==
    ASSUME NEW call, IsCall(call)
    PROVE  /\ Before(call, 1) = << >>
           /\ \A k \in DOMAIN call.point.args :
                 Before(call, k) \in Seq(Element)
                 /\ Before(call, k + 1) = Before(call, k) \o Elems(call, k)
           /\ Before(call, Len(call.point.args) + 1) = FlattenSeq(ElemLists(call))
           /\ FlattenSeq(ElemLists(call)) \in Seq(Element)
<1> DEFINE lists == ElemLists(call)
           n == Len(call.point.args)
<1>1. call.point.args \in Seq(Arg) BY DEF IsCall, Point
<1>e. \A k \in DOMAIN call.point.args : Elems(call, k) \in Seq(Element) BY BodyType
<1>2. lists \in Seq(Seq(Element)) /\ Len(lists) = n /\ n \in Nat
    BY <1>1, <1>e DEF ElemLists
<1>3. \A k \in DOMAIN call.point.args : lists[k] = Elems(call, k) /\ k \in 1 .. n
    BY <1>1 DEF ElemLists
<1>4. \A k : Before(call, k) = Flat(lists, k - 1) BY DEF Before
<1> HIDE DEF lists, n
<1>5. Before(call, 1) = << >>
    <2>1. 0 \in 0 .. Len(lists) /\ 1 - 1 = 0 BY <1>2
    <2>2. Flat(lists, 0) = << >> BY <1>2, <2>1, FlatStep
    <2> QED BY <1>4, <2>1, <2>2
<1>6. ASSUME NEW k \in DOMAIN call.point.args
      PROVE  Before(call, k) \in Seq(Element)
             /\ Before(call, k + 1) = Before(call, k) \o Elems(call, k)
    <2>1. k \in 0 .. Len(lists) /\ k - 1 \in 0 .. Len(lists) /\ k > 0 /\ (k + 1) - 1 = k
        BY <1>2, <1>3
    <2>2. Flat(lists, k - 1) \in Seq(Element) BY <1>2, <2>1, FlatStep
    <2>3. Flat(lists, k) = Flat(lists, k - 1) \o lists[k] BY <1>2, <2>1, FlatStep
    <2> QED BY <1>3, <1>4, <2>1, <2>2, <2>3
<1>7. Before(call, n + 1) = FlattenSeq(lists) /\ FlattenSeq(lists) \in Seq(Element)
    <2>1. (n + 1) - 1 = n BY <1>2
    <2> QED BY <1>2, <1>4, <2>1, FlatAll
<1> QED BY <1>5, <1>6, <1>7 DEF lists, n

LEMMA PromisedIs ==
    ASSUME NEW call, IsCall(call)
    PROVE  PromisedElements(call) =
              Before(call, Len(call.point.args) + 1)
                  \o (IF call.point.kind = "exit" THEN << RegElem(call.ret) >> ELSE << >>)
<1> DEFINE p == Promises(call)
<1>1. DOMAIN p = DOMAIN call.point.args BY DEF Promises
<1>2. \A k \in DOMAIN call.point.args :
          << RegElem(p[k].value) >> \o p[k].body = Elems(call, k)
    <2> TAKE k \in DOMAIN call.point.args
    <2>1. p[k] = Promise(call.point.args[k], call.regs, call.ret) BY DEF Promises
    <2>2. p[k].value = AddressOf(call, k) /\ p[k].body = Body(call, k)
        BY <2>1 DEF Promise, AddressOf, Body
    <2> QED BY <2>2 DEF Elems, Value
<1>3. [k \in DOMAIN p |-> << RegElem(p[k].value) >> \o p[k].body] = ElemLists(call)
    <2> HIDE DEF p
    <2> QED BY <1>1, <1>2 DEF ElemLists
<1> QED BY <1>3, BeforeIs DEF PromisedElements

\* What is saved, where every count of an iovec array is one that the parser reads: nothing of
\* argument k yet, or its value and part of its body.
Starts(call, k, e) == OddIovCount(call) \/ e = Before(call, k)

Holds(call, k, e, part) ==
    OddIovCount(call) \/ e = (Before(call, k) \o Value(call, k)) \o part

LEMMA HoldsValue ==
    ASSUME NEW call, IsCall(call), NEW k \in DOMAIN call.point.args, NEW e, NEW f,
           Starts(call, k, e), f = Append(e, RegElem(AddressOf(call, k)))
    PROVE  Holds(call, k, f, << >>)
<1> DEFINE b == Before(call, k)
           x == RegElem(AddressOf(call, k))
<1>1. b \in Seq(Element) BY BeforeIs
<1>2. x \in Element BY AddressType, ElementType
<1>3. Value(call, k) = << x >> BY DEF Value
<1> HIDE DEF b, x
<1>4. Append(b, x) = (b \o << x >>) \o << >> BY <1>1, <1>2
<1> QED BY <1>3, <1>4 DEF Starts, Holds, b, x

LEMMA HoldsMore ==
    ASSUME NEW call, IsCall(call), NEW k \in DOMAIN call.point.args, NEW e, NEW f,
           NEW part \in Seq(Element), NEW x \in Element,
           Holds(call, k, e, part), f = Append(e, x)
    PROVE  Holds(call, k, f, Append(part, x))
<1> DEFINE b == Before(call, k) \o Value(call, k)
<1>1. Before(call, k) \in Seq(Element) BY BeforeIs
<1>2. Value(call, k) \in Seq(Element) BY BodyType
<1>3. b \in Seq(Element) BY <1>1, <1>2, JoinedType
<1> HIDE DEF b
<1>4. Append(b \o part, x) = b \o Append(part, x) BY <1>3, AppendJoined, Zenon
<1> QED BY <1>4 DEF Holds, b

LEMMA HoldsAll ==
    ASSUME NEW call, IsCall(call), NEW k \in DOMAIN call.point.args, NEW e,
           Holds(call, k, e, Body(call, k))
    PROVE  Starts(call, k + 1, e)
<1> DEFINE b == Before(call, k)
           v == Value(call, k)
           w == Body(call, k)
<1>1. b \in Seq(Element) /\ Before(call, k + 1) = b \o Elems(call, k) BY BeforeIs
<1>2. v \in Seq(Element) /\ w \in Seq(Element) BY BodyType
<1>3. Elems(call, k) = v \o w BY DEF Elems
<1> HIDE DEF b, v, w
<1>4. (b \o v) \o w = b \o (v \o w) BY <1>1, <1>2, ConcatAssociative
<1> QED BY <1>1, <1>3, <1>4 DEF Starts, Holds, b, v, w

-----------------------------------------------------------------------------
(* What the rules of the arguments say, one after the other.                 *)

RuleAt(call, k, n) == Filters[call.point.args[k].filters[n]]

\* The arguments whose number, or whose content, is compared.
Numeric(arg) == ~arg.is_ret /\ ~IsString(arg.type) /\ ~IsBuffer(arg.type)

Compared(arg) == ReadMore(arg) /\ (IsString(arg.type) \/ IsBuffer(arg.type))

Denies(call, k, n) ==
    LET arg == call.point.args[k]
    IN  \/ Numeric(arg) /\ Rejects(RuleAt(call, k, n), call.regs[arg.reg])
        \/ /\ ReadMore(arg) /\ IsString(arg.type)
           /\ RuleAt(call, k, n).type = "black" /\ TextAddress(call, k) \in RuleAt(call, k, n).at

Asks(call, k, n) == Compared(call.point.args[k]) /\ RuleAt(call, k, n).type = "white"

Grants(call, k, n) == Asks(call, k, n) /\ TextAddress(call, k) \in RuleAt(call, k, n).at

\* The rules before rule n of argument k, and that one.
Judged(call, k, n) ==
    {w \in Nat \X Nat : /\ w[1] \in DOMAIN call.point.args
                        /\ w[2] \in DOMAIN call.point.args[w[1]].filters
                        /\ w[1] < k \/ (w[1] = k /\ w[2] <= n)}

\* The flags of the context c say what these rules said.
Verdict(call, c, k, n) ==
    /\ ~c.match_blacklist
    /\ \A w \in Judged(call, k, n) : ~Denies(call, w[1], w[2])
    /\ c.apply_filter <=> \E w \in Judged(call, k, n) : Asks(call, w[1], w[2])
    /\ c.match_whitelist <=> \E w \in Judged(call, k, n) : Grants(call, w[1], w[2])

LEMMA VerdictStays ==
    ASSUME NEW call, NEW c, NEW d, NEW k, NEW n, Verdict(call, c, k, n), SameFlags(c, d)
    PROVE  Verdict(call, d, k, n)
BY DEF Verdict, SameFlags

LEMMA FiltersKnown ==
    ASSUME NEW call, IsCall(call), NEW k \in DOMAIN call.point.args
    PROVE  /\ k \in Nat \ {0} /\ call.point.args[k] \in Arg
           /\ call.point.args[k].filters \in Seq(DOMAIN Filters)
<1>1. call.point.args \in Seq(Arg) BY DEF IsCall, Point
<1>2. k \in Nat \ {0} /\ call.point.args[k] \in Arg BY <1>1
<1> QED BY <1>2 DEF Arg

LEMMA VerdictStarts ==
    ASSUME NEW call, IsCall(call), NEW c,
           ~c.match_blacklist, ~c.apply_filter, ~c.match_whitelist
    PROVE  Verdict(call, c, 1, 0)
<1>1. Judged(call, 1, 0) = {}
    <2> SUFFICES ASSUME NEW w \in Judged(call, 1, 0) PROVE FALSE OBVIOUS
    <2> DEFINE h == w[1]
               j == w[2]
    <2>1. /\ h \in DOMAIN call.point.args /\ j \in DOMAIN call.point.args[h].filters
          /\ h < 1 \/ (h = 1 /\ j <= 0)
        BY DEF Judged
    <2> HIDE DEF h, j
    <2>2. h \in Nat \ {0} /\ call.point.args[h].filters \in Seq(DOMAIN Filters)
        BY <2>1, FiltersKnown
    <2> QED BY <2>1, <2>2
<1> QED BY <1>1 DEF Verdict

\* All the rules of an argument are behind its last one.
LEMMA JudgedAll ==
    ASSUME NEW call, IsCall(call), NEW k \in DOMAIN call.point.args
    PROVE  Judged(call, k + 1, 0) = Judged(call, k, Len(call.point.args[k].filters))
<1> DEFINE l == Len(call.point.args[k].filters)
           Is(h, j) == h \in DOMAIN call.point.args /\ j \in DOMAIN call.point.args[h].filters
<1>1. k \in Nat /\ l \in Nat BY FiltersKnown
<1>2. ASSUME NEW h \in Nat, NEW j \in Nat, Is(h, j)
      PROVE  (h < k + 1 \/ (h = k + 1 /\ j <= 0)) <=> (h < k \/ (h = k /\ j <= l))
    <2>1. call.point.args[h].filters \in Seq(DOMAIN Filters) BY <1>2, FiltersKnown
    <2>2. j \in 1 .. Len(call.point.args[h].filters) BY <1>2, <2>1
    <2>3. j > 0 /\ (h = k => j <= l) BY <2>2
    <2> HIDE DEF l
    <2> QED BY <1>1, <2>3
<1>3. \A w \in Nat \X Nat : w[1] \in Nat /\ w[2] \in Nat OBVIOUS
<1> HIDE DEF l
<1>4. Judged(call, k + 1, 0) = Judged(call, k, l) BY <1>2, <1>3 DEF Judged
<1> QED BY <1>4 DEF l

LEMMA JudgedOne ==
    ASSUME NEW call, IsCall(call), NEW k \in DOMAIN call.point.args, NEW n \in Nat,
           n + 1 <= Len(call.point.args[k].filters)
    PROVE  Judged(call, k, n + 1) = Judged(call, k, n) \cup {<< k, n + 1 >>}
<1> DEFINE one == << k, n + 1 >>
<1>1. k \in Nat /\ call.point.args[k].filters \in Seq(DOMAIN Filters) BY FiltersKnown
<1>2. n + 1 \in DOMAIN call.point.args[k].filters BY <1>1
<1>3. one \in Judged(call, k, n + 1) BY <1>1, <1>2 DEF Judged
<1>4. \A w \in Judged(call, k, n) : w \in Judged(call, k, n + 1) BY DEF Judged
<1>5. \A w \in Judged(call, k, n + 1) : w \in Judged(call, k, n) \/ w = one
    <2> TAKE w \in Judged(call, k, n + 1)
    <2>1. w \in Nat \X Nat /\ (w[1] < k \/ (w[1] = k /\ w[2] <= n + 1)) BY DEF Judged
    <2>2. w[2] <= n + 1 => w[2] <= n \/ w[2] = n + 1 BY <2>1
    <2>3. CASE w[1] < k \/ (w[1] = k /\ w[2] <= n) BY <2>3 DEF Judged
    <2>4. CASE w[1] = k /\ w[2] = n + 1
        <3>1. w = << w[1], w[2] >> BY <2>1
        <3> QED BY <2>4, <3>1
    <2> QED BY <2>1, <2>2, <2>3, <2>4
<1> HIDE DEF one
<1>6. Judged(call, k, n + 1) = Judged(call, k, n) \cup {one} BY <1>3, <1>4, <1>5
<1> QED BY <1>6 DEF one

\* One rule more.
LEMMA VerdictGrows ==
    ASSUME NEW call, IsCall(call), NEW k \in DOMAIN call.point.args, NEW n \in Nat,
           n + 1 <= Len(call.point.args[k].filters), NEW c, NEW d, Verdict(call, c, k, n),
           ~Denies(call, k, n + 1), ~d.match_blacklist,
           d.apply_filter <=> c.apply_filter \/ Asks(call, k, n + 1),
           d.match_whitelist <=> c.match_whitelist \/ Grants(call, k, n + 1)
    PROVE  Verdict(call, d, k, n + 1)
<1> DEFINE one == << k, n + 1 >>
           s == Judged(call, k, n)
           t == Judged(call, k, n + 1)
<1>1. t = s \cup {one} BY JudgedOne
<1>2. one[1] = k /\ one[2] = n + 1 OBVIOUS
<1> HIDE DEF one, s, t
<1>3. \A w \in t : ~Denies(call, w[1], w[2]) BY <1>1, <1>2 DEF Verdict, s
<1>4. d.apply_filter <=> \E w \in t : Asks(call, w[1], w[2]) BY <1>1, <1>2 DEF Verdict, s
<1>5. d.match_whitelist <=> \E w \in t : Grants(call, w[1], w[2]) BY <1>1, <1>2 DEF Verdict, s
<1> QED BY <1>3, <1>4, <1>5 DEF Verdict, t

\* The list of an argument has its rules, in their order, where they are compared.
LEMMA VerdictEnds ==
    ASSUME NEW call, IsCall(call), NEW k \in DOMAIN call.point.args, NEW c,
           LET arg == call.point.args[k]
           IN  Verdict(call, c, k, Len(ValueFilters(arg))
                                   + (IF ReadMore(arg) THEN Len(MoreFilters(arg)) ELSE 0))
    PROVE  Verdict(call, c, k + 1, 0)
<1> DEFINE arg == call.point.args[k]
           n == Len(arg.filters)
           m == Len(ValueFilters(arg)) + (IF ReadMore(arg) THEN Len(MoreFilters(arg)) ELSE 0)
<1>1. arg \in Arg /\ n \in Nat /\ k \in Nat BY FiltersKnown
<1>2. Judged(call, k + 1, 0) = Judged(call, k, n) BY JudgedAll
<1>3. {"FILTER_VALUE", "FILTER_STRING", "FILTER_BUFFER"} \subseteq Codes BY DEF Codes
<1>4. Verdict(call, c, k, m) OBVIOUS
<1>5. CASE Numeric(arg) \/ Compared(arg)
    <2>1. ASSUME Numeric(arg) PROVE m = n
        <3>1. Len(ValueFilters(arg)) = n
            BY <1>1, <1>3, <2>1, FilterOpsType DEF Numeric, ValueFilters
        <3>2. Len(MoreFilters(arg)) = 0 BY <2>1 DEF Numeric, MoreFilters
        <3> HIDE DEF n
        <3> QED BY <1>1, <3>1, <3>2
    <2>2. ASSUME Compared(arg) PROVE m = n
        <3>1. Len(ValueFilters(arg)) = 0 BY <2>2 DEF Compared, ValueFilters
        <3>2. Len(MoreFilters(arg)) = n
            BY <1>1, <1>3, <2>2, FilterOpsType DEF Compared, MoreFilters
        <3>3. ReadMore(arg) BY <2>2 DEF Compared
        <3> HIDE DEF n
        <3> QED BY <1>1, <3>1, <3>2, <3>3
    <2>3. m = n BY <1>5, <2>1, <2>2
    <2> HIDE DEF m, n
    <2> QED BY <1>2, <1>4, <2>3 DEF Verdict
<1>6. CASE ~Numeric(arg) /\ ~Compared(arg)
    <2>1. m = 0
        <3>1. Len(ValueFilters(arg)) = 0 BY <1>6 DEF Numeric, ValueFilters
        <3>2. ReadMore(arg) => Len(MoreFilters(arg)) = 0 BY <1>6 DEF Compared, MoreFilters
        <3> QED BY <3>1, <3>2
    <2>2. \A j : ~Denies(call, k, j) /\ ~Asks(call, k, j) /\ ~Grants(call, k, j)
        BY <1>6 DEF Denies, Asks, Grants, Compared
    <2> DEFINE s == Judged(call, k, m)
               t == Judged(call, k + 1, 0)
    <2> HIDE DEF m, n
    <2>3. \A w \in s : w \in t
        <3>1. \A w \in Judged(call, k, m) : w \in Judged(call, k, n)
            BY <1>1, <2>1 DEF Judged
        <3> QED BY <1>2, <3>1
    <2>4. \A w \in t : w \in s \/ w[1] = k
        <3>1. \A w \in Judged(call, k, n) : w \in Judged(call, k, m) \/ w[1] = k
            BY DEF Judged
        <3> QED BY <1>2, <3>1
    <2> HIDE DEF s, t
    <2>5. \A w \in t : ~Denies(call, w[1], w[2]) BY <1>4, <2>2, <2>4 DEF Verdict, s
    <2>6. c.apply_filter <=> \E w \in t : Asks(call, w[1], w[2])
        BY <1>4, <2>2, <2>3, <2>4 DEF Verdict, s
    <2>7. c.match_whitelist <=> \E w \in t : Grants(call, w[1], w[2])
        BY <1>4, <2>2, <2>3, <2>4 DEF Verdict, s
    <2> QED BY <1>4, <2>5, <2>6, <2>7 DEF Verdict, t
<1> QED BY <1>5, <1>6

\* What the flags say of a call when all its rules were compared.
Condemned(call) ==
    LET one(k, n) == k \in DOMAIN call.point.args /\ n \in DOMAIN call.point.args[k].filters
    IN  \/ \E k, n : one(k, n) /\ Denies(call, k, n)
        \/ /\ \E k, n : one(k, n) /\ Asks(call, k, n)
           /\ ~\E k, n : one(k, n) /\ Grants(call, k, n)

\* That is what -f asks for, where the register is compared as the value would be.
LEMMA RejectedIs ==
    ASSUME NEW call, IsCall(call), ~Misjudged(call)
    PROVE  Rejected(call) <=> Condemned(call)
<1> DEFINE args == call.point.args
           one(k, n) == k \in DOMAIN args /\ n \in DOMAIN args[k].filters
           texts == {k \in DOMAIN args : IsString(args[k].type)}
           contents == texts \cup {k \in DOMAIN args : IsBuffer(args[k].type)}
           whites(k) == {r \in StringRules(call, k) : r.type = "white"}
           forbids == \E k \in texts : \E r \in StringRules(call, k) :
                          r.type = "black" /\ TextAddress(call, k) \in r.at
<1>1. \A k \in DOMAIN args : Rules(call, k) = {RuleAt(call, k, n) : n \in DOMAIN args[k].filters}
    BY DEF Rules, RuleAt, Range
<1>2. \A k \in DOMAIN args : StringRules(call, k) = IF ReadMore(args[k]) THEN Rules(call, k) ELSE {}
    BY DEF StringRules, Reading
<1>n. Numbers(call) = {k \in DOMAIN args : Numeric(args[k])} BY DEF Numbers, Numeric
<1>m. \A k \in Numbers(call) : \A r \in Rules(call, k) :
          ~Documented(r, AddressOf(call, k)) <=> Rejects(r, call.regs[args[k].reg])
    BY DEF Misjudged
<1>3. Rejected(call) <=>
          \/ \E k \in Numbers(call) : \E r \in Rules(call, k) : ~Documented(r, AddressOf(call, k))
          \/ forbids
          \/ /\ \E k \in contents : whites(k) # {}
             /\ \A k \in contents : \A r \in whites(k) : TextAddress(call, k) \notin r.at
    BY DEF Rejected
<1>4. (\E k, n : one(k, n) /\ Denies(call, k, n)) <=>
          \/ \E k \in Numbers(call) : \E r \in Rules(call, k) : Rejects(r, call.regs[args[k].reg])
          \/ forbids
    BY <1>1, <1>2, <1>n DEF Denies
<1>5. (\E k, n : one(k, n) /\ Asks(call, k, n)) <=> \E k \in contents : whites(k) # {}
    BY <1>1, <1>2 DEF Asks, Compared
<1>6. (\E k, n : one(k, n) /\ Grants(call, k, n)) <=>
          \E k \in contents : \E r \in whites(k) : TextAddress(call, k) \in r.at
    BY <1>1, <1>2 DEF Grants, Asks, Compared
<1>7. Condemned(call) <=>
          \/ \E k, n : one(k, n) /\ Denies(call, k, n)
          \/ /\ \E k, n : one(k, n) /\ Asks(call, k, n)
             /\ ~\E k, n : one(k, n) /\ Grants(call, k, n)
    BY DEF Condemned
<1> HIDE DEF one, forbids, contents, whites, args
<1>8. (\E k \in Numbers(call) : \E r \in Rules(call, k) : ~Documented(r, AddressOf(call, k))) <=>
          \E k \in Numbers(call) : \E r \in Rules(call, k) : Rejects(r, call.regs[args[k].reg])
    BY <1>m
<1> QED BY <1>3, <1>4, <1>5, <1>6, <1>7, <1>8

\* One rule that denies is enough.
LEMMA DeniedCondemns ==
    ASSUME NEW call, IsCall(call), NEW k \in DOMAIN call.point.args,
           NEW n \in DOMAIN call.point.args[k].filters, Denies(call, k, n)
    PROVE  Condemned(call)
BY DEF Condemned

\* Behind the last argument the flags say it.
LEMMA VerdictSays ==
    ASSUME NEW call, IsCall(call), NEW c, Verdict(call, c, Len(call.point.args) + 1, 0)
    PROVE  Unwanted(c) <=> Condemned(call)
<1> DEFINE args == call.point.args
           all == Judged(call, Len(args) + 1, 0)
           one(k, n) == k \in DOMAIN args /\ n \in DOMAIN args[k].filters
<1>1. args \in Seq(Arg) BY DEF IsCall, Point
<1>2. \A k, n : one(k, n) => << k, n >> \in all
    <2> SUFFICES ASSUME NEW k, NEW n, one(k, n) PROVE << k, n >> \in all OBVIOUS
    <2>1. k \in Nat /\ k < Len(args) + 1 BY <1>1
    <2>2. args[k].filters \in Seq(DOMAIN Filters) BY FiltersKnown
    <2>3. n \in Nat BY <2>2
    <2> QED BY <2>1, <2>3 DEF Judged
<1>3. \A w \in all : one(w[1], w[2]) BY DEF Judged
<1>e. \A k, n : one(k, n) => \E w \in all : w[1] = k /\ w[2] = n
    <2> HIDE DEF all, one
    <2> SUFFICES ASSUME NEW k, NEW n, one(k, n) PROVE \E w \in all : w[1] = k /\ w[2] = n
        OBVIOUS
    <2>1. << k, n >> \in all BY <1>2
    <2>2. << k, n >>[1] = k /\ << k, n >>[2] = n OBVIOUS
    <2> QED BY <2>1, <2>2
<1> HIDE DEF all
<1>4. ~\E k, n : one(k, n) /\ Denies(call, k, n)
    <2> HIDE DEF one
    <2> QED BY <1>e DEF Verdict, all
<1>5. c.apply_filter <=> \E k, n : one(k, n) /\ Asks(call, k, n)
    <2> HIDE DEF one
    <2> QED BY <1>3, <1>e DEF Verdict, all
<1>6. c.match_whitelist <=> \E k, n : one(k, n) /\ Grants(call, k, n)
    <2> HIDE DEF one
    <2> QED BY <1>3, <1>e DEF Verdict, all
<1>7. ~c.match_blacklist BY DEF Verdict
<1> HIDE DEF one
<1>8. Condemned(call) <=>
          \/ \E k, n : one(k, n) /\ Denies(call, k, n)
          \/ /\ \E k, n : one(k, n) /\ Asks(call, k, n)
             /\ ~\E k, n : one(k, n) /\ Grants(call, k, n)
    BY DEF Condemned, one
<1> QED BY <1>4, <1>5, <1>6, <1>7, <1>8 DEF Unwanted

-----------------------------------------------------------------------------
(* Where the program of a call may be, with the context c and e saved.       *)

At(c, p, post) == c.op_key_index = p /\ c.post_code = post

\* The first turn on a cpu.
Fresh(call, c, e) ==
    /\ At(c, 0, "NONE") /\ c.loop_count = 0
    /\ ~c.match_blacklist /\ ~c.apply_filter /\ ~c.match_whitelist
    /\ e = << >>

\* Before argument k, or behind the last one.
AtArg(call, k, c, e) ==
    /\ At(c, Base(call, k), "SKIP") /\ c.loop_count = 0
    /\ Verdict(call, c, k, 0) /\ Starts(call, k, e)

\* Among the opcodes that find the address and save the value.
Finding(call, k, c, e) ==
    /\ c.loop_count = 0 /\ Verdict(call, c, k, 0) /\ Starts(call, k, e)

ReturnRead(call, k, c, e) ==
    /\ Finding(call, k, c, e) /\ call.point.args[k].is_ret
    /\ At(c, Base(call, k) + 1, "SKIP") /\ c.reg_value = call.ret

RegisterRead(call, k, c, e) ==
    LET arg == call.point.args[k]
    IN  /\ Finding(call, k, c, e) /\ ~arg.is_ret
        /\ At(c, Base(call, k) + 1, IF arg.read_op = << >> THEN "SAVE_REG" ELSE "MOVE_REG_VALUE")
        /\ c.reg_value = call.regs[arg.reg]

RegisterSaved(call, k, c, e) ==
    LET arg == call.point.args[k]
    IN  /\ c.loop_count = 0 /\ Verdict(call, c, k, 0) /\ Holds(call, k, e, << >>)
        /\ ~arg.is_ret /\ arg.read_op = << >>
        /\ At(c, Base(call, k) + 1, "SKIP") /\ c.reg_value = call.regs[arg.reg]

\* The opcodes of a read_op, as far as step j.
WalkAt(call, k, j) == Base(call, k) + 1 + Len(Flat(ExtraOps(call.point.args[k]), j))

Walking(call, k, j, c, e) ==
    LET arg == call.point.args[k]
    IN  /\ Finding(call, k, c, e) /\ ~arg.is_ret /\ arg.read_op # << >>
        /\ c.reg_value = call.regs[arg.reg]
        /\ At(c, WalkAt(call, k, j), "SKIP") /\ c.read_addr = Walked(arg, call.regs)[j]

Dotted(call, k, j, c, e) ==
    LET arg == call.point.args[k]
    IN  /\ Finding(call, k, c, e) /\ ~arg.is_ret /\ arg.read_op # << >>
        /\ j < Len(arg.read_op) /\ arg.read_op[j + 1].op = "."
        /\ c.reg_value = call.regs[arg.reg]
        /\ At(c, WalkAt(call, k, j) + 1, "SKIP")
        /\ c.pointer_value = WordAt(Walked(arg, call.regs)[j])

\* Before rule j + 1 for the value, or behind the last one.
AtValue(call, k, j, c, e) ==
    LET arg == call.point.args[k]
    IN  /\ At(c, ValuesAt(call, k) + j, "SKIP") /\ c.loop_count = 0
        /\ Verdict(call, c, k, j) /\ Holds(call, k, e, << >>)
        /\ ~arg.is_ret => c.read_addr = AddressOf(call, k) /\ c.reg_value = call.regs[arg.reg]

\* At opcode n of the type, with part of its content saved.
InType(call, k, c, e, n, post, part) ==
    LET arg == call.point.args[k]
    IN  /\ ReadMore(arg) /\ ~arg.is_ret
        /\ At(c, TypeAt(call, k) + n, post)
        /\ Verdict(call, c, k, Len(ValueFilters(arg))) /\ Holds(call, k, e, part)

Sized(call, k, c, e) ==
    LET t == call.point.args[k].type
    IN  /\ t.name \in {"pointer", "array", "struct", "dirent", "buffer"}
        /\ InType(call, k, c, e, 1,
                  IF t.name \in {"pointer", "array"} THEN "SAVE_STRUCT" ELSE "SKIP", << >>)
        /\ c.loop_count = 0 /\ c.read_addr = AddressOf(call, k) /\ c.read_len = t.size

BufferLen(call, k, c, e) ==
    LET t == call.point.args[k].type
        r == call.regs[t.reg]
    IN  /\ t.name = "buffer_reg" /\ c.loop_count = 0 /\ c.read_addr = AddressOf(call, k)
        /\ \/ InType(call, k, c, e, 1, "SKIP", << >>) /\ c.read_len = MaxBytes
           \/ /\ InType(call, k, c, e, 2, "SET_READ_LEN_REG_VALUE", << >>)
              /\ c.read_len = MaxBytes /\ c.reg_value = r
           \/ InType(call, k, c, e, 2, "SKIP", << >>) /\ c.read_len = Least(MaxBytes, r)

StdRead(call, k, c, e) ==
    /\ call.point.args[k].type.name = "std"
    /\ InType(call, k, c, e, 1, "SKIP", << >>)
    /\ c.loop_count = 0 /\ c.read_addr = TextAddress(call, k)

\* In the loop over an array of strings, at string q; the body ends early at a pointer that
\* leads nowhere.
AtStrings(call, k, c, e) ==
    /\ call.point.args[k].type.name = "string_array"
    /\ InType(call, k, c, e, 1, "SKIP", << >>)
    /\ c.loop_count = 0 /\ c.break_count = MaxLoop /\ c.read_addr = AddressOf(call, k)

Good(call, k, q) == \A j \in 1 .. q : Ptr(AddressOf(call, k), j) \in DOMAIN Text

InStrings(call, k, q, c, e) ==
    LET a == AddressOf(call, k)
    IN  /\ call.point.args[k].type.name = "string_array"
        /\ q \in 1 .. MaxLoop /\ c.break_count = MaxLoop /\ c.loop_index = TypeAt(call, k) + 2
        /\ \/ /\ InType(call, k, c, e, 2, "SKIP", Strs(a, q - 1))
              /\ c.loop_count = q /\ Good(call, k, q - 1) /\ c.read_addr = a + PtrSize * (q - 1)
           \/ /\ \/ /\ InType(call, k, c, e, 3, "SKIP", Strs(a, q))
                    /\ c.read_addr = a + PtrSize * (q - 1)
                 \/ InType(call, k, c, e, 4, "SKIP", Strs(a, q)) /\ c.read_addr = a + PtrSize * q
              /\ c.loop_count = q /\ Good(call, k, q)
           \/ /\ \/ InType(call, k, c, e, 3, "SKIP", StringsAt(a))
                 \/ InType(call, k, c, e, 4, "SKIP", StringsAt(a))
              /\ c.loop_count = MaxLoop

\* The opcodes before the loop over an array of iovecs.
IovecRead(call, k, c, e) ==
    LET t == call.point.args[k].type
        r == call.regs[t.reg]
    IN  /\ t.name = "iovec" /\ c.loop_count = 0 /\ c.read_addr = AddressOf(call, k)
        /\ c.reg_value = r
        /\ \/ InType(call, k, c, e, 1, "SET_BREAK_COUNT_REG_VALUE", << >>)
           \/ InType(call, k, c, e, 1, "SKIP", << >>) /\ c.break_count = BreakCount(r)

MsghdrRead(call, k, c, e) ==
    LET a == AddressOf(call, k)
        b == BytesAt(a, MsghdrSize)
        n == Least(MaxBytes, WordAt(a + 40))
        one == << b >>
        two == << b, BytesAt(WordAt(a + 32), n) >>
    IN  /\ call.point.args[k].type.name = "msghdr" /\ c.loop_count = 0
        /\ \/ /\ c.read_addr = a
              /\ \/ InType(call, k, c, e, 1, "SKIP", << >>) /\ c.read_len = MsghdrSize
                 \/ InType(call, k, c, e, 2, "SKIP", one)
           \/ /\ c.read_addr = a /\ c.tmp_value = a
              /\ \/ InType(call, k, c, e, 3, "SKIP", one)
                 \/ InType(call, k, c, e, 4, "SKIP", one) /\ c.read_len = MaxBytes
                 \/ /\ InType(call, k, c, e, 5, "SET_READ_LEN_POINTER_VALUE", one)
                    /\ c.read_len = MaxBytes /\ c.pointer_value = WordAt(a + 40)
                 \/ InType(call, k, c, e, 5, "SKIP", one) /\ c.read_len = n
                 \/ /\ InType(call, k, c, e, 6, "MOVE_POINTER_VALUE", one)
                    /\ c.read_len = n /\ c.pointer_value = WordAt(a + 32)
           \/ /\ c.tmp_value = a
              /\ \/ /\ InType(call, k, c, e, 6, "SKIP", one)
                    /\ c.read_len = n /\ c.read_addr = WordAt(a + 32)
                 \/ InType(call, k, c, e, 7, "SKIP", two)
           \/ /\ c.read_addr = a
              /\ \/ InType(call, k, c, e, 8, "SKIP", two)
                 \/ /\ InType(call, k, c, e, 9, "SET_BREAK_COUNT_POINTER_VALUE", two)
                    /\ c.pointer_value = WordAt(a + 24)
                 \/ /\ InType(call, k, c, e, 9, "SKIP", two)
                    /\ c.break_count = BreakCount(WordAt(a + 24))
                 \/ /\ InType(call, k, c, e, 10, "MOVE_POINTER_VALUE", two)
                    /\ c.break_count = BreakCount(WordAt(a + 24))
                    /\ c.pointer_value = WordAt(a + 16)

\* The loop: the opcodes before it, its array, the number of pairs asked for, and what was saved
\* before it.
LoopAt(call, k, n) == (IF call.point.args[k].type.name = "iovec" THEN 2 ELSE 10) + n

ArrayOf(call, k) == IF call.point.args[k].type.name = "iovec" THEN AddressOf(call, k)
                    ELSE WordAt(AddressOf(call, k) + 16)

CountOf(call, k) == IF call.point.args[k].type.name = "iovec"
                    THEN call.regs[call.point.args[k].type.reg]
                    ELSE WordAt(AddressOf(call, k) + 24)

LeadOf(call, k) ==
    LET a == AddressOf(call, k)
    IN  IF call.point.args[k].type.name = "iovec" THEN << RegElem(CountOf(call, k)) >>
        ELSE << BytesAt(a, MsghdrSize),
                BytesAt(WordAt(a + 32), Least(MaxBytes, WordAt(a + 40))) >>

LoopReady(call, k, c, e) ==
    /\ call.point.args[k].type.name \in {"iovec", "msghdr"}
    /\ InType(call, k, c, e, LoopAt(call, k, 0), "SKIP", LeadOf(call, k))
    /\ c.loop_count = 0 /\ c.break_count = BreakCount(CountOf(call, k))
    /\ c.read_addr = ArrayOf(call, k)

\* Pair q; where no pair is asked for there is one all the same.
Turning(call, k, q, c) ==
    LET n == BreakCount(CountOf(call, k))
    IN  /\ q \in 1 .. MaxLoop /\ c.break_count = n
        /\ n = 0 => c.loop_count = 0
        /\ n # 0 => /\ q <= n /\ c.loop_count = q
                    /\ c.loop_index = TypeAt(call, k) + LoopAt(call, k, 1)

InLoop(call, k, q, c, e) ==
    LET iov  == ArrayOf(call, k) + IovecSize * (q - 1)
        size == Least(MaxBytes, WordAt(iov + 8))
        none == LeadOf(call, k) \o Iovs(ArrayOf(call, k), q - 1)
        one  == Append(none, BytesAt(iov, IovecSize))
        two  == Append(one, BytesAt(WordAt(iov), size))
        In(n, post, part) == InType(call, k, c, e, LoopAt(call, k, n), post, part)
    IN  /\ call.point.args[k].type.name \in {"iovec", "msghdr"} /\ Turning(call, k, q, c)
        /\ \/ In(1, "SKIP", none) /\ c.read_addr = iov
           \/ /\ c.read_addr = iov /\ c.tmp_value = iov
              /\ \/ In(2, "SKIP", none)
                 \/ In(3, "SKIP", none) /\ c.read_len = IovecSize
                 \/ In(4, "SKIP", one)
                 \/ In(5, "SKIP", one) /\ c.read_len = MaxBytes
                 \/ /\ In(6, "SET_READ_LEN_POINTER_VALUE", one)
                    /\ c.read_len = MaxBytes /\ c.pointer_value = WordAt(iov + 8)
                 \/ In(6, "SKIP", one) /\ c.read_len = size
                 \/ In(7, "SKIP", one) /\ c.read_len = size /\ c.pointer_value = WordAt(iov)
           \/ /\ c.tmp_value = iov
              /\ \/ In(8, "SKIP", one) /\ c.read_len = size /\ c.read_addr = WordAt(iov)
                 \/ In(9, "SKIP", two)
           \/ In(10, "SKIP", two) /\ c.read_addr = iov
           \/ In(11, "SKIP", two) /\ c.read_addr = iov + IovecSize

\* Before rule j + 1 for the content, or behind the last one.
AtMore(call, k, j, c, e) ==
    LET arg == call.point.args[k]
    IN  /\ ReadMore(arg)
        /\ At(c, MoreAt(call, k) + j, "SKIP") /\ c.loop_count = 0
        /\ Verdict(call, c, k, Len(ValueFilters(arg)) + j) /\ Holds(call, k, e, Body(call, k))
        /\ (IsString(arg.type) \/ IsBuffer(arg.type)) => c.read_addr = TextAddress(call, k)
        /\ IsString(arg.type) /\ c.read_addr \in DOMAIN Text => c.str_len = Text[c.read_addr]

InAddress(call, k, c, e) ==
    \/ ReturnRead(call, k, c, e) \/ RegisterRead(call, k, c, e) \/ RegisterSaved(call, k, c, e)
    \/ \E j \in 0 .. Len(call.point.args[k].read_op) :
          Walking(call, k, j, c, e) \/ Dotted(call, k, j, c, e)

InContent(call, k, c, e) ==
    \/ Sized(call, k, c, e) \/ BufferLen(call, k, c, e) \/ StdRead(call, k, c, e)
    \/ AtStrings(call, k, c, e) \/ IovecRead(call, k, c, e) \/ MsghdrRead(call, k, c, e)
    \/ LoopReady(call, k, c, e)
    \/ \E q \in 1 .. MaxLoop : InStrings(call, k, q, c, e) \/ InLoop(call, k, q, c, e)

Inside(call, k, c, e) ==
    LET arg == call.point.args[k]
    IN  \/ InAddress(call, k, c, e)
        \/ \E j \in 0 .. Len(ValueFilters(arg)) : AtValue(call, k, j, c, e)
        \/ InContent(call, k, c, e)
        \/ \E j \in 0 .. Len(MoreFilters(arg)) : AtMore(call, k, j, c, e)

Place(call, c, e) ==
    \/ Fresh(call, c, e)
    \/ \E k \in 1 .. Len(call.point.args) + 1 : AtArg(call, k, c, e)
    \/ \E k \in DOMAIN call.point.args : Inside(call, k, c, e)

\* The invariant behind the two properties of what is submitted.
RunInv ==
    LET behind == Len(event.point.args) + 1
    IN  spoilt = {} /\ ~ReturnsContent(event) /\ ~WalksRegisters(event) =>
            /\ pc = "run" => Place(event, Ctx, saved)
            /\ pc = "done" => \/ Ctx.match_blacklist /\ Condemned(event)
                              \/ Verdict(event, Ctx, behind, 0) /\ Starts(event, behind, saved)
            /\ pc = "submitted" => /\ ~Condemned(event)
                                   /\ OddIovCount(event) \/ saved = PromisedElements(event)
            /\ pc = "skipped" => Condemned(event)

\* Where a turn leads that starts inside argument k.
Onward(call, k, d, f) ==
    \/ d.match_blacklist /\ Condemned(call)
    \/ AtArg(call, k + 1, d, f)
    \/ Inside(call, k, d, f)

Leads(call, k, c, e, d, f) ==
    /\ NextKey(call, c).code # "SKIP"
    /\ Takes(call, c, e, d, f) => Onward(call, k, d, f)

-----------------------------------------------------------------------------
(* What is common to the turns.                                              *)

LEMMA NextAt ==
    ASSUME NEW call, NEW c, NEW p, NEW post, At(c, p, post)
    PROVE  /\ post = "SKIP" => NextKey(call, c) = KeyOf(call, p) /\ NextIndex(c) = p + 1
           /\ post # "SKIP" => NextKey(call, c) = Op(post, 0) /\ NextIndex(c) = p
BY DEF At, NextKey, NextIndex

Filtering == {"FILTER_VALUE", "FILTER_BUFFER", "FILTER_STRING"}

Saving == {"SAVE_REG", "SAVE_ADDR", "SAVE_STRUCT", "SAVE_STRING", "SAVE_PTR_STRING"}

Counting == {"SET_BREAK_COUNT", "SET_BREAK_COUNT_REG_VALUE", "SET_BREAK_COUNT_POINTER_VALUE"}

\* A turn that neither jumps nor compares.
LEMMA PlainTurn ==
    ASSUME NEW call, NEW c, NEW e, NEW d, NEW f, Takes(call, c, e, d, f),
           NEW o, NextKey(call, c) = o, NEW p, NextIndex(c) = p,
           o.code \notin Filtering, o.code \notin {"FOR_BREAK", "SAVE_PTR_STRING"}
    PROVE  /\ At(d, p, o.post) /\ SameFlags(c, d) /\ Computes(call, o, c, d)
           /\ d.loop_count = c.loop_count /\ d.loop_index = c.loop_index
           /\ o.code \notin Counting => d.break_count = c.break_count
           /\ o.code \notin Saving => f = e
<1>1. Goes(call, o, p, c, d) /\ Saves(o, c, e, f) BY DEF Takes
<1>2. At(d, p, o.post) BY <1>1 DEF Goes, Loops, At
<1>3. SameFlags(c, d) BY <1>1 DEF Goes, Judges, Filtering
<1>4. /\ d.loop_count = c.loop_count /\ d.loop_index = c.loop_index
      /\ o.code \notin Counting => d.break_count = c.break_count
    BY <1>1 DEF Goes, Loops, Counting
<1>5. o.code \notin Saving => f = e BY <1>1 DEF Saves, Saving
<1>6. Computes(call, o, c, d) BY <1>1 DEF Goes
<1> QED BY <1>2, <1>3, <1>4, <1>5, <1>6

\* The block that a turn saves.
LEMMA SavedBlock ==
    ASSUME NEW call, NEW c, NEW e, NEW d, NEW f, Takes(call, c, e, d, f),
           NextKey(call, c).code = "SAVE_STRUCT"
    PROVE  f = Append(e, BytesAt(c.read_addr, Least(c.read_len, MaxBytes)))
BY DEF Takes, Saves

\* Argument k ends behind its value, if no more of it is read, or behind the rules for its
\* content.
LEMMA ArgEnds ==
    ASSUME NEW call, IsCall(call), NEW k \in DOMAIN call.point.args, NEW d, NEW f,
           LET arg == call.point.args[k]
           IN  \/ ~ReadMore(arg) /\ AtValue(call, k, Len(ValueFilters(arg)), d, f)
               \/ AtMore(call, k, Len(MoreFilters(arg)), d, f)
    PROVE  AtArg(call, k + 1, d, f)
<1> DEFINE arg == call.point.args[k]
           v == Len(ValueFilters(arg))
           m == Len(MoreFilters(arg))
<1>1. /\ Base(call, k + 1) = IF ReadMore(arg) THEN MoreAt(call, k) + m ELSE TypeAt(call, k)
      /\ TypeAt(call, k) = ValuesAt(call, k) + v
    BY ArgParts DEF TypeAt
<1>2. CASE ~ReadMore(arg) /\ AtValue(call, k, v, d, f)
    <2>1. Verdict(call, d, k, v) /\ Holds(call, k, f, << >>) /\ d.loop_count = 0
          /\ At(d, ValuesAt(call, k) + v, "SKIP")
        BY <1>2 DEF AtValue
    <2>2. v + 0 = v
        <3>1. v \in Nat BY FiltersKnown, GetOpListIs
        <3> QED BY <3>1
    <2>3. Verdict(call, d, k, v + (IF ReadMore(arg) THEN m ELSE 0)) BY <1>2, <2>1, <2>2
    <2> HIDE DEF v, m
    <2>4. Verdict(call, d, k + 1, 0) BY <2>3, VerdictEnds DEF v, m
    <2>5. Starts(call, k + 1, f)
        <3>1. Body(call, k) = << >> BY <1>2 DEF Body
        <3> QED BY <2>1, <3>1, HoldsAll
    <2> QED BY <1>1, <1>2, <2>1, <2>4, <2>5 DEF AtArg
<1>3. CASE AtMore(call, k, m, d, f)
    <2>1. /\ Verdict(call, d, k, v + m) /\ Holds(call, k, f, Body(call, k)) /\ d.loop_count = 0
          /\ At(d, MoreAt(call, k) + m, "SKIP") /\ ReadMore(arg)
        BY <1>3 DEF AtMore
    <2>3. Verdict(call, d, k, v + (IF ReadMore(arg) THEN m ELSE 0)) BY <2>1
    <2> HIDE DEF v, m
    <2>4. Verdict(call, d, k + 1, 0) BY <2>3, VerdictEnds DEF v, m
    <2>5. Starts(call, k + 1, f) BY <2>1, HoldsAll
    <2> QED BY <1>1, <2>1, <2>4, <2>5 DEF AtArg
<1> QED BY <1>2, <1>3

\* Behind the value begins the list of the type.
LEMMA TypeStarts ==
    ASSUME NEW call, IsCall(call), ~ReturnsContent(call), NEW k \in DOMAIN call.point.args,
           NEW c, NEW e,
           LET arg == call.point.args[k]
           IN  /\ ReadMore(arg) /\ arg.type.name # "num"
               /\ AtValue(call, k, Len(ValueFilters(arg)), c, e)
    PROVE  /\ InType(call, k, c, e, 0, "SKIP", << >>)
           /\ c.loop_count = 0 /\ c.read_addr = AddressOf(call, k)
<1> DEFINE arg == call.point.args[k]
<1>1. ~arg.is_ret BY DEF ReturnsContent, Reading
<1>2. TypeAt(call, k) + 0 = ValuesAt(call, k) + Len(ValueFilters(arg))
    BY ArgParts DEF TypeAt
<1> QED BY <1>1, <1>2 DEF AtValue, InType

\* A turn in the list of a type that saves nothing, or saves x.
LEMMA TypeTurn ==
    ASSUME NEW call, IsCall(call), NEW k \in DOMAIN call.point.args,
           NEW c, NEW e, NEW d, NEW f, NEW n, NEW post, NEW part,
           InType(call, k, c, e, n, post, part), Takes(call, c, e, d, f),
           NEW o, NextKey(call, c) = o, NEW m, NextIndex(c) = TypeAt(call, k) + m,
           o.code \notin Filtering, o.code \notin {"FOR_BREAK", "SAVE_PTR_STRING"}
    PROVE  /\ o.code \notin Saving => InType(call, k, d, f, m, o.post, part)
           /\ \A x \in Element : part \in Seq(Element) /\ f = Append(e, x) =>
                 InType(call, k, d, f, m, o.post, Append(part, x))
           /\ Computes(call, o, c, d)
           /\ d.loop_count = c.loop_count /\ d.loop_index = c.loop_index
           /\ o.code \notin Counting => d.break_count = c.break_count
<1> DEFINE p == TypeAt(call, k) + m
<1> HIDE DEF p
<1>1. /\ At(d, p, o.post) /\ SameFlags(c, d) /\ Computes(call, o, c, d)
      /\ d.loop_count = c.loop_count /\ d.loop_index = c.loop_index
      /\ o.code \notin Counting => d.break_count = c.break_count
      /\ o.code \notin Saving => f = e
    BY PlainTurn DEF p
<1>2. LET arg == call.point.args[k]
      IN  /\ ReadMore(arg) /\ ~arg.is_ret
          /\ Verdict(call, c, k, Len(ValueFilters(arg))) /\ Holds(call, k, e, part)
    BY DEF InType
<1>3. LET arg == call.point.args[k] IN Verdict(call, d, k, Len(ValueFilters(arg)))
    BY <1>1, <1>2, VerdictStays
<1>4. ASSUME o.code \notin Saving PROVE InType(call, k, d, f, m, o.post, part)
    BY <1>1, <1>2, <1>3, <1>4 DEF InType, p
<1>5. ASSUME NEW x \in Element, part \in Seq(Element), f = Append(e, x)
      PROVE  InType(call, k, d, f, m, o.post, Append(part, x))
    <2>1. Holds(call, k, f, Append(part, x)) BY <1>2, <1>5, HoldsMore
    <2> QED BY <1>1, <1>2, <1>3, <2>1 DEF InType, p
<1> QED BY <1>1, <1>4, <1>5

-----------------------------------------------------------------------------
(* The turns that find the address of an argument and save its value.        *)

\* The opcodes of a return value and of a plain register.
LEMMA PlainKeys ==
    ASSUME NEW call, IsCall(call), NEW k \in DOMAIN call.point.args,
           LET arg == call.point.args[k] IN arg.is_ret \/ arg.read_op = << >>
    PROVE  LET arg == call.point.args[k]
               b   == Base(call, k)
           IN  /\ arg.is_ret => /\ KeyOf(call, b) = Op("READ_RET", 0)
                                /\ KeyOf(call, b + 1) = Op("SAVE_REG", 0)
               /\ ~arg.is_ret => /\ KeyOf(call, b) = ReadReg(arg.reg, "SAVE_REG")
                                 /\ KeyOf(call, b + 1) = Op("MOVE_REG_VALUE", 0)
               /\ ValuesAt(call, k) = b + 2
<1> DEFINE arg == call.point.args[k]
           b == Base(call, k)
           s == AddressOps(arg)
<1>1. b \in Nat /\ Here(call, b, s) /\ ValuesAt(call, k) = b + Len(s)
    BY ArgParts DEF ValuesAt
<1>2. b + (1 - 1) = b /\ b + (2 - 1) = b + 1 BY <1>1
<1>3. Len(s) = 2
    BY DEF AddressOps
<1>4. s[1] = IF arg.is_ret THEN Op("READ_RET", 0) ELSE ReadReg(arg.reg, "SAVE_REG")
    BY DEF AddressOps
<1>5. s[2] = IF arg.is_ret THEN Op("SAVE_REG", 0) ELSE Op("MOVE_REG_VALUE", 0)
    BY DEF AddressOps
<1> HIDE DEF b, s
<1>6. KeyOf(call, b + (1 - 1)) = s[1] /\ KeyOf(call, b + (2 - 1)) = s[2]
    BY <1>1, <1>3 DEF Here
<1> QED BY <1>1, <1>2, <1>3, <1>4, <1>5, <1>6 DEF b

\* The three parts of the list of a read_op.
LEMMA WalkParts ==
    ASSUME NEW call, IsCall(call), NEW k \in DOMAIN call.point.args,
           LET arg == call.point.args[k] IN ~arg.is_ret /\ arg.read_op # << >>
    PROVE  LET arg == call.point.args[k]
               b   == Base(call, k)
               ops == FlattenSeq(ExtraOps(arg))
           IN  /\ b \in Nat /\ Len(ops) \in Nat /\ KeyOf(call, b) = ReadReg(arg.reg, "MOVE_REG_VALUE")
               /\ Here(call, b + 1, ops)
               /\ KeyOf(call, b + 1 + Len(ops)) = Op("SAVE_ADDR", 0)
               /\ ValuesAt(call, k) = b + 1 + Len(ops) + 1
<1> DEFINE arg == call.point.args[k]
           b == Base(call, k)
           s == FlattenSeq(ExtraOps(arg))
           r == << ReadReg(arg.reg, "MOVE_REG_VALUE") >>
           z == << Op("SAVE_ADDR", 0) >>
           all == AddressOps(arg)
<1>1. arg \in Arg /\ b \in Nat /\ Here(call, b, all) /\ ValuesAt(call, k) = b + Len(all)
    BY ArgParts DEF ValuesAt
<1>2. all = r \o s \o z BY DEF AddressOps, ExtraOpList, ExtraOps
<1>3. s \in Seq(Opcode) BY <1>1, ExtraOpsType
<1>4. "MOVE_REG_VALUE" \in PostCodes /\ "SAVE_ADDR" \in Codes /\ arg.reg \in Nat
    BY <1>1 DEF PostCodes, Codes, Arg
<1>5. r \in Seq(Opcode) /\ z \in Seq(Opcode) BY <1>4, OpType
<1>6. r[1] = ReadReg(arg.reg, "MOVE_REG_VALUE") /\ z[1] = Op("SAVE_ADDR", 0) OBVIOUS
<1>7. Len(r) = 1 /\ Len(z) = 1 OBVIOUS
<1> HIDE DEF b, s, r, z, all
<1>8. Len(s) \in Nat BY <1>3
<1>9. r \o s \in Seq(Opcode) /\ Len(r \o s) = 1 + Len(s) BY <1>3, <1>5, <1>7, JoinedType
<1>10. Len(all) = (1 + Len(s)) + 1 BY <1>2, <1>5, <1>7, <1>9, JoinedType
<1>11. Here(call, b, r \o s) /\ Here(call, b + Len(r \o s), z)
    BY <1>1, <1>2, <1>5, <1>9, HereJoined
<1>12. Here(call, b, r) /\ Here(call, b + Len(r), s) BY <1>1, <1>3, <1>5, <1>11, HereJoined
<1>13. KeyOf(call, b + (1 - 1)) = r[1] BY <1>7, <1>12 DEF Here
<1>14. KeyOf(call, (b + Len(r \o s)) + (1 - 1)) = z[1] BY <1>7, <1>11 DEF Here
<1>15. /\ b + (1 - 1) = b /\ (b + Len(r \o s)) + (1 - 1) = b + 1 + Len(s)
       /\ ValuesAt(call, k) = b + 1 + Len(s) + 1
    BY <1>1, <1>8, <1>9, <1>10
<1>16. Here(call, b + 1, s) BY <1>7, <1>12
<1> QED BY <1>1, <1>6, <1>8, <1>13, <1>14, <1>15, <1>16 DEF b, s

\* The opcodes of step j + 1.
LEMMA WalkKeys ==
    ASSUME NEW call, IsCall(call), NEW k \in DOMAIN call.point.args,
           LET arg == call.point.args[k] IN ~arg.is_ret /\ arg.read_op # << >>,
           NEW j \in Nat, j < Len(call.point.args[k].read_op)
    PROVE  LET r == call.point.args[k].read_op[j + 1]
               w == WalkAt(call, k, j)
           IN  /\ w \in Nat /\ r \in ReadOp
               /\ r.op = "+" => /\ KeyOf(call, w) = Op("ADD_OFFSET", r.value)
                                /\ WalkAt(call, k, j + 1) = w + 1
               /\ r.op = "-" => /\ KeyOf(call, w) = Op("SUB_OFFSET", r.value)
                                /\ WalkAt(call, k, j + 1) = w + 1
               /\ r.op = "." => /\ KeyOf(call, w) = Op("READ_POINTER", 0)
                                /\ KeyOf(call, w + 1) = Op("MOVE_POINTER_VALUE", 0)
                                /\ WalkAt(call, k, j + 1) = w + 1 + 1
<1> DEFINE arg == call.point.args[k]
           b == Base(call, k) + 1
           lists == ExtraOps(arg)
           ops == FlattenSeq(lists)
           r == arg.read_op[j + 1]
           own == ExtraOp(r)
           l == Len(Flat(lists, j))
<1>1. arg \in Arg BY FiltersKnown
<1>2. lists \in Seq(Seq(Opcode)) /\ Len(lists) = Len(arg.read_op) BY <1>1, ExtraOpsType
<1>3. r \in ReadOp /\ j + 1 \in 1 .. Len(arg.read_op) BY <1>1 DEF Arg
<1>4. lists[j + 1] = own BY <1>1, <1>3 DEF ExtraOps, Arg
<1>5. b \in Nat /\ Here(call, b, ops)
    <2>1. Base(call, k) \in Nat /\ Here(call, Base(call, k) + 1, ops) BY WalkParts
    <2> QED BY <2>1
<1>6. WalkAt(call, k, j) = b + l /\ WalkAt(call, k, j + 1) = b + Len(Flat(lists, j + 1))
    BY DEF WalkAt
<1> HIDE DEF b, lists, ops, own, arg
<1>7. j + 1 \in 1 .. Len(lists) /\ j \in 0 .. Len(lists) /\ (j + 1) - 1 = j BY <1>2, <1>3
<1>8. Flat(lists, j) \in Seq(Opcode) BY <1>2, <1>7, FlatStep
<1>9. l \in Nat BY <1>8
<1>10. own \in Seq(Opcode) /\ Len(own) \in Nat BY <1>2, <1>4, <1>7
<1>11. /\ Len(Flat(lists, j + 1)) = l + Len(own)
       /\ Len(Flat(lists, j + 1)) <= Len(ops)
       /\ \A n \in 1 .. Len(own) : ops[l + n] = own[n]
    <2> DEFINE h == j + 1
    <2>1. h \in 1 .. Len(lists) /\ h - 1 = j /\ lists[h] = own BY <1>4, <1>7
    <2> HIDE DEF h
    <2>2. Len(Flat(lists, h)) = Len(Flat(lists, h - 1)) + Len(lists[h])
        BY <1>2, <2>1, FlatIndex
    <2>3. Len(Flat(lists, h)) <= Len(FlattenSeq(lists)) BY <1>2, <2>1, FlatIndex
    <2>4. \A n \in 1 .. Len(lists[h]) :
              FlattenSeq(lists)[Len(Flat(lists, h - 1)) + n] = lists[h][n]
        BY <1>2, <2>1, FlatIndex
    <2> QED BY <2>1, <2>2, <2>3, <2>4 DEF h, ops
<1> HIDE DEF l
<1>12. Len(ops) \in Nat
    <2>1. ops \in Seq(Opcode) BY <1>2, FlatAll DEF ops
    <2> QED BY <2>1
<1>13. \A n \in 1 .. Len(own) : KeyOf(call, (b + l) + (n - 1)) = own[n]
    <2> TAKE n \in 1 .. Len(own)
    <2>1. l + n \in 1 .. Len(ops) /\ b + ((l + n) - 1) = (b + l) + (n - 1)
        BY <1>5, <1>9, <1>10, <1>11, <1>12
    <2>2. KeyOf(call, b + ((l + n) - 1)) = ops[l + n] BY <1>5, <2>1 DEF Here
    <2> QED BY <1>11, <2>1, <2>2
<1> DEFINE w == b + l
<1>14. w \in Nat /\ WalkAt(call, k, j) = w /\ WalkAt(call, k, j + 1) = w + Len(own)
    <2>1. WalkAt(call, k, j + 1) = b + (l + Len(own)) BY <1>6, <1>11
    <2>2. b + (l + Len(own)) = (b + l) + Len(own) /\ b + l \in Nat BY <1>5, <1>9, <1>10
    <2> QED BY <1>6, <2>1, <2>2
<1>15. \A n \in 1 .. Len(own) : KeyOf(call, w + (n - 1)) = own[n] BY <1>13, Zenon
<1> HIDE DEF w, r
<1>16. CASE r.op \in {"+", "-"}
    <2>1. Len(own) = 1 /\ own[1] = Op(IF r.op = "+" THEN "ADD_OFFSET" ELSE "SUB_OFFSET", r.value)
        BY <1>16 DEF own, ExtraOp
    <2>2. w + (1 - 1) = w BY <1>14
    <2>3. KeyOf(call, w) = own[1] BY <1>15, <2>1, <2>2
    <2> QED BY <1>3, <1>14, <1>16, <2>1, <2>3 DEF r, arg
<1>17. CASE r.op = "."
    <2>1. Len(own) = 2 /\ own[1] = Op("READ_POINTER", 0) /\ own[2] = Op("MOVE_POINTER_VALUE", 0)
        BY <1>17 DEF own, ExtraOp
    <2>2. w + (1 - 1) = w /\ w + (2 - 1) = w + 1 /\ w + 2 = w + 1 + 1 BY <1>14
    <2>3. KeyOf(call, w) = own[1] /\ KeyOf(call, w + 1) = own[2] BY <1>15, <2>1, <2>2
    <2> QED BY <1>3, <1>14, <1>17, <2>1, <2>2, <2>3 DEF r, arg
<1>18. w \in Nat /\ WalkAt(call, k, j) = w BY <1>14
<1> QED BY <1>3, <1>16, <1>17, <1>18 DEF r, arg

\* Where the walk begins and ends.
LEMMA WalkEnds ==
    ASSUME NEW call, IsCall(call), NEW k \in DOMAIN call.point.args,
           LET arg == call.point.args[k] IN ~arg.is_ret /\ arg.read_op # << >>
    PROVE  LET n == Len(call.point.args[k].read_op)
           IN  /\ WalkAt(call, k, 0) = Base(call, k) + 1
               /\ KeyOf(call, WalkAt(call, k, n)) = Op("SAVE_ADDR", 0)
               /\ ValuesAt(call, k) = WalkAt(call, k, n) + 1
<1> DEFINE arg == call.point.args[k]
           lists == ExtraOps(arg)
           n == Len(arg.read_op)
<1>1. arg \in Arg BY FiltersKnown
<1>2. lists \in Seq(Seq(Opcode)) /\ Len(lists) = n BY <1>1, ExtraOpsType
<1>3. /\ WalkAt(call, k, n) = Base(call, k) + 1 + Len(Flat(lists, n))
      /\ WalkAt(call, k, 0) = Base(call, k) + 1 + Len(Flat(lists, 0))
    BY DEF WalkAt
<1> HIDE DEF lists, n
<1>4. 0 \in 0 .. Len(lists) BY <1>2
<1>5. Len(Flat(lists, 0)) = 0
    <2>1. Flat(lists, 0) = << >> BY <1>2, <1>4, FlatStep
    <2> QED BY <2>1
<1>6. Flat(lists, n) = FlattenSeq(ExtraOps(arg)) BY <1>2, FlatAll DEF lists
<1>7. Base(call, k) \in Nat BY ArgParts
<1>8. /\ KeyOf(call, Base(call, k) + 1 + Len(Flat(lists, n))) = Op("SAVE_ADDR", 0)
      /\ ValuesAt(call, k) = Base(call, k) + 1 + Len(Flat(lists, n)) + 1
    BY <1>6, WalkParts
<1> QED BY <1>3, <1>5, <1>7, <1>8 DEF n

LEMMA ArgStarts ==
    ASSUME NEW call, IsCall(call), NEW k \in DOMAIN call.point.args,
           NEW c, NEW e, NEW d, NEW f, AtArg(call, k, c, e)
    PROVE  Leads(call, k, c, e, d, f)
<1> DEFINE arg == call.point.args[k]
           b == Base(call, k)
           o == KeyOf(call, b)
<1>1. At(c, b, "SKIP") /\ c.loop_count = 0 /\ Verdict(call, c, k, 0) /\ Starts(call, k, e)
    BY DEF AtArg
<1>2. NextKey(call, c) = o /\ NextIndex(c) = b + 1 BY <1>1, NextAt
<1>3. /\ arg.is_ret => o = Op("READ_RET", 0)
      /\ ~arg.is_ret => o = ReadReg(arg.reg, IF arg.read_op = << >> THEN "SAVE_REG"
                                             ELSE "MOVE_REG_VALUE")
    <2>1. CASE arg.is_ret \/ arg.read_op = << >> BY <2>1, PlainKeys
    <2>2. CASE ~(arg.is_ret \/ arg.read_op = << >>) BY <2>2, WalkParts
    <2> QED BY <2>1, <2>2
<1> HIDE DEF o, b
<1>4. CASE arg.is_ret
    <2>1. o.code = "READ_RET" /\ o.post = "SKIP" BY <1>3, <1>4 DEF Op
    <2>2. SUFFICES ASSUME Takes(call, c, e, d, f) PROVE ReturnRead(call, k, d, f)
        BY <1>2, <2>1 DEF Leads, Onward, Inside, InAddress
    <2>3. /\ At(d, b + 1, "SKIP") /\ SameFlags(c, d) /\ Computes(call, o, c, d)
          /\ d.loop_count = c.loop_count /\ f = e
        BY <1>2, <2>1, <2>2, PlainTurn DEF Filtering, Saving
    <2>4. d.reg_value = call.ret BY <2>1, <2>3 DEF Computes
    <2>5. Verdict(call, d, k, 0) BY <1>1, <2>3, VerdictStays
    <2> QED BY <1>1, <1>4, <2>3, <2>4, <2>5 DEF ReturnRead, Finding, b
<1>5. CASE ~arg.is_ret
    <2> DEFINE post == IF arg.read_op = << >> THEN "SAVE_REG" ELSE "MOVE_REG_VALUE"
    <2>1. o.code = "READ_REG" /\ o.post = post /\ o.value = arg.reg BY <1>3, <1>5 DEF ReadReg
    <2>2. SUFFICES ASSUME Takes(call, c, e, d, f) PROVE RegisterRead(call, k, d, f)
        BY <1>2, <2>1 DEF Leads, Onward, Inside, InAddress
    <2> HIDE DEF post
    <2>3. /\ At(d, b + 1, post) /\ SameFlags(c, d) /\ Computes(call, o, c, d)
          /\ d.loop_count = c.loop_count /\ f = e
        BY <1>2, <2>1, <2>2, PlainTurn DEF Filtering, Saving
    <2>4. d.reg_value = call.regs[arg.reg] BY <2>1, <2>3 DEF Computes
    <2>5. Verdict(call, d, k, 0) BY <1>1, <2>3, VerdictStays
    <2> QED BY <1>1, <1>5, <2>3, <2>4, <2>5 DEF RegisterRead, Finding, b, post
<1> QED BY <1>4, <1>5

\* The value is saved: the return value, the register, or the address that a read_op found.
LEMMA ValueSaved ==
    ASSUME NEW call, IsCall(call), NEW k \in DOMAIN call.point.args,
           NEW c, NEW e, NEW d, NEW f, Finding(call, k, c, e),
           Takes(call, c, e, d, f), NEW o, NextKey(call, c) = o,
           LET arg == call.point.args[k]
           IN  \/ o.code = "SAVE_REG" /\ c.reg_value = AddressOf(call, k)
               \/ o.code = "SAVE_ADDR" /\ c.read_addr = AddressOf(call, k)
    PROVE  /\ At(d, NextIndex(c), o.post) /\ d.loop_count = 0 /\ Verdict(call, d, k, 0)
           /\ Holds(call, k, f, << >>)
           /\ d.reg_value = c.reg_value /\ d.read_addr = c.read_addr
<1>1. o.code \in {"SAVE_REG", "SAVE_ADDR"} OBVIOUS
<1>2. /\ At(d, NextIndex(c), o.post) /\ SameFlags(c, d) /\ Computes(call, o, c, d)
      /\ d.loop_count = c.loop_count
    BY <1>1, PlainTurn DEF Filtering
<1>3. Verdict(call, d, k, 0) BY <1>2, VerdictStays DEF Finding
<1>4. f = Append(e, RegElem(AddressOf(call, k))) BY DEF Takes, Saves
<1>5. Holds(call, k, f, << >>) BY <1>4, HoldsValue DEF Finding
<1>6. d.reg_value = c.reg_value /\ d.read_addr = c.read_addr BY <1>1, <1>2 DEF Computes
<1> QED BY <1>2, <1>3, <1>5, <1>6 DEF Finding

LEMMA ValueFound ==
    ASSUME NEW call, IsCall(call), NEW k \in DOMAIN call.point.args, NEW c, NEW e,
           AtValue(call, k, 0, c, e)
    PROVE  Inside(call, k, c, e)
<1>1. Len(ValueFilters(call.point.args[k])) \in Nat BY FiltersKnown, GetOpListIs
<1>2. 0 \in 0 .. Len(ValueFilters(call.point.args[k])) BY <1>1
<1> QED BY <1>2 DEF Inside

LEMMA ReturnReadLeads ==
    ASSUME NEW call, IsCall(call), NEW k \in DOMAIN call.point.args,
           NEW c, NEW e, NEW d, NEW f, ReturnRead(call, k, c, e)
    PROVE  Leads(call, k, c, e, d, f)
<1> DEFINE b == Base(call, k)
<1>1. /\ Finding(call, k, c, e) /\ At(c, b + 1, "SKIP") /\ c.reg_value = call.ret
      /\ call.point.args[k].is_ret
    BY DEF ReturnRead
<1>2. KeyOf(call, b + 1) = Op("SAVE_REG", 0) /\ ValuesAt(call, k) = b + 2 /\ b \in Nat
    BY <1>1, PlainKeys, ArgParts
<1> HIDE DEF b
<1>3. NextKey(call, c) = Op("SAVE_REG", 0) /\ NextIndex(c) = (b + 1) + 1
    BY <1>1, <1>2, NextAt
<1>4. (b + 1) + 1 = ValuesAt(call, k) + 0 BY <1>2
<1>5. c.reg_value = AddressOf(call, k) BY <1>1 DEF AddressOf, Address
<1>6. Op("SAVE_REG", 0).code = "SAVE_REG" /\ Op("SAVE_REG", 0).post = "SKIP" BY DEF Op
<1>7. SUFFICES ASSUME Takes(call, c, e, d, f) PROVE AtValue(call, k, 0, d, f)
    BY <1>3, <1>6, ValueFound DEF Leads, Onward
<1>8. /\ At(d, ValuesAt(call, k) + 0, "SKIP") /\ d.loop_count = 0 /\ Verdict(call, d, k, 0)
      /\ Holds(call, k, f, << >>)
    BY <1>1, <1>3, <1>4, <1>5, <1>6, <1>7, ValueSaved
<1> QED BY <1>1, <1>8 DEF AtValue

\* Without a read_op the value is the register.
LEMMA PlainAddress ==
    ASSUME NEW call, IsCall(call), NEW k \in DOMAIN call.point.args,
           LET arg == call.point.args[k] IN ~arg.is_ret /\ arg.read_op = << >>
    PROVE  AddressOf(call, k) = call.regs[call.point.args[k].reg]
<1> DEFINE arg == call.point.args[k]
<1>1. /\ arg \in Arg /\ call.regs[arg.reg] \in Nat
      /\ \A r \in Added(arg) : call.regs[r.value] \in Nat
    BY RegistersKnown
<1>2. Len(arg.read_op) = 0 OBVIOUS
<1>3. AddressOf(call, k) = Walked(arg, call.regs)[0] BY <1>2 DEF AddressOf, Address
<1> QED BY <1>1, <1>3, WalkedIs

LEMMA RegisterReadLeads ==
    ASSUME NEW call, IsCall(call), NEW k \in DOMAIN call.point.args,
           NEW c, NEW e, NEW d, NEW f, RegisterRead(call, k, c, e)
    PROVE  Leads(call, k, c, e, d, f)
<1> DEFINE arg == call.point.args[k]
           b == Base(call, k)
<1>1. /\ Finding(call, k, c, e) /\ ~arg.is_ret /\ c.reg_value = call.regs[arg.reg]
      /\ At(c, b + 1, IF arg.read_op = << >> THEN "SAVE_REG" ELSE "MOVE_REG_VALUE")
    BY DEF RegisterRead
<1>2. CASE arg.read_op = << >>
    <2>1. NextKey(call, c) = Op("SAVE_REG", 0) /\ NextIndex(c) = b + 1 BY <1>1, <1>2, NextAt
    <2>2. c.reg_value = AddressOf(call, k) BY <1>1, <1>2, PlainAddress
    <2>3. Op("SAVE_REG", 0).code = "SAVE_REG" /\ Op("SAVE_REG", 0).post = "SKIP" BY DEF Op
    <2>4. SUFFICES ASSUME Takes(call, c, e, d, f) PROVE RegisterSaved(call, k, d, f)
        BY <2>1, <2>3 DEF Leads, Onward, Inside, InAddress
    <2>5. /\ At(d, b + 1, "SKIP") /\ d.loop_count = 0 /\ Verdict(call, d, k, 0)
          /\ Holds(call, k, f, << >>) /\ d.reg_value = c.reg_value
        BY <1>1, <2>1, <2>2, <2>3, <2>4, ValueSaved
    <2> QED BY <1>1, <1>2, <2>5 DEF RegisterSaved
<1>3. CASE arg.read_op # << >>
    <2> DEFINE o == Op("MOVE_REG_VALUE", 0)
    <2>1. NextKey(call, c) = o /\ NextIndex(c) = b + 1 BY <1>1, <1>3, NextAt
    <2>2. o.code = "MOVE_REG_VALUE" /\ o.post = "SKIP" BY DEF Op
    <2> HIDE DEF o
    <2>3. 0 \in 0 .. Len(arg.read_op)
        <3>1. arg.read_op \in Seq(ReadOp) BY FiltersKnown DEF Arg
        <3> QED BY <3>1
    <2>4. SUFFICES ASSUME Takes(call, c, e, d, f) PROVE Walking(call, k, 0, d, f)
        BY <2>1, <2>2, <2>3 DEF Leads, Onward, Inside, InAddress
    <2>5. /\ At(d, b + 1, "SKIP") /\ SameFlags(c, d) /\ Computes(call, o, c, d)
          /\ d.loop_count = c.loop_count /\ f = e
        BY <2>1, <2>2, <2>4, PlainTurn DEF Filtering, Saving
    <2>6. d.read_addr = c.reg_value /\ d.reg_value = c.reg_value BY <2>2, <2>5 DEF Computes
    <2>7. WalkAt(call, k, 0) = b + 1 BY <1>1, <1>3, WalkEnds
    <2>8. Walked(arg, call.regs)[0] = call.regs[arg.reg]
        BY <1>1, RegistersKnown, WalkedIs
    <2>9. Finding(call, k, d, f) BY <1>1, <2>5, VerdictStays DEF Finding
    <2> QED BY <1>1, <1>3, <2>5, <2>6, <2>7, <2>8, <2>9 DEF Walking
<1> QED BY <1>2, <1>3

LEMMA RegisterSavedLeads ==
    ASSUME NEW call, IsCall(call), NEW k \in DOMAIN call.point.args,
           NEW c, NEW e, NEW d, NEW f, RegisterSaved(call, k, c, e)
    PROVE  Leads(call, k, c, e, d, f)
<1> DEFINE arg == call.point.args[k]
           b == Base(call, k)
           o == Op("MOVE_REG_VALUE", 0)
<1>1. /\ c.loop_count = 0 /\ Verdict(call, c, k, 0) /\ Holds(call, k, e, << >>)
      /\ ~arg.is_ret /\ arg.read_op = << >>
      /\ At(c, b + 1, "SKIP") /\ c.reg_value = call.regs[arg.reg]
    BY DEF RegisterSaved
<1>2. KeyOf(call, b + 1) = o /\ ValuesAt(call, k) = b + 2 /\ b \in Nat
    BY <1>1, PlainKeys, ArgParts
<1> HIDE DEF b
<1>3. NextKey(call, c) = o /\ NextIndex(c) = (b + 1) + 1 BY <1>1, <1>2, NextAt
<1>4. (b + 1) + 1 = ValuesAt(call, k) + 0 BY <1>2
<1>5. o.code = "MOVE_REG_VALUE" /\ o.post = "SKIP" BY DEF Op
<1> HIDE DEF o
<1>6. SUFFICES ASSUME Takes(call, c, e, d, f) PROVE AtValue(call, k, 0, d, f)
    BY <1>3, <1>5, ValueFound DEF Leads, Onward
<1>7. /\ At(d, (b + 1) + 1, "SKIP") /\ SameFlags(c, d) /\ Computes(call, o, c, d)
      /\ d.loop_count = c.loop_count /\ f = e
    BY <1>3, <1>5, <1>6, PlainTurn DEF Filtering, Saving
<1>8. d.read_addr = c.reg_value /\ d.reg_value = c.reg_value BY <1>5, <1>7 DEF Computes
<1>9. Verdict(call, d, k, 0) BY <1>1, <1>7, VerdictStays
<1> QED BY <1>1, <1>4, <1>7, <1>8, <1>9, PlainAddress DEF AtValue

\* No register is added to an address on the way.
LEMMA WalkIsStraight ==
    ASSUME NEW call, IsCall(call), ~WalksRegisters(call), NEW k \in DOMAIN call.point.args,
           NEW n \in 1 .. Len(call.point.args[k].read_op)
    PROVE  call.point.args[k].read_op[n].op \in {"+", "-", "."}
<1> DEFINE arg == call.point.args[k]
<1>1. arg.read_op \in Seq(ReadOp) BY FiltersKnown DEF Arg
<1>2. n \in DOMAIN arg.read_op /\ arg.read_op[n] \in ReadOp BY <1>1
<1>3. arg.read_op[n] \notin Added(arg) BY DEF WalksRegisters
<1> QED BY <1>2, <1>3 DEF Added, Range, ReadOp

LEMMA WalkingLeads ==
    ASSUME NEW call, IsCall(call), ~WalksRegisters(call), NEW k \in DOMAIN call.point.args,
           NEW j \in 0 .. Len(call.point.args[k].read_op),
           NEW c, NEW e, NEW d, NEW f, Walking(call, k, j, c, e)
    PROVE  Leads(call, k, c, e, d, f)
<1> DEFINE arg == call.point.args[k]
           n == Len(arg.read_op)
           w == WalkAt(call, k, j)
           r == arg.read_op[j + 1]
           x == Walked(arg, call.regs)[j]
           y == Walked(arg, call.regs)[j + 1]
<1>1. /\ Finding(call, k, c, e) /\ ~arg.is_ret /\ arg.read_op # << >>
      /\ c.reg_value = call.regs[arg.reg] /\ At(c, w, "SKIP") /\ c.read_addr = x
    BY DEF Walking
<1>2. /\ arg \in Arg /\ n \in Nat /\ call.regs[arg.reg] \in Nat
      /\ \A a \in Added(arg) : call.regs[a.value] \in Nat
    BY <1>1, RegistersKnown DEF Arg
<1>3. NextKey(call, c) = KeyOf(call, w) /\ NextIndex(c) = w + 1 BY <1>1, NextAt
<1>4. CASE j = n
    <2> DEFINE o == Op("SAVE_ADDR", 0)
    <2>1. KeyOf(call, w) = o /\ ValuesAt(call, k) = w + 1 BY <1>1, <1>4, WalkEnds
    <2>2. o.code = "SAVE_ADDR" /\ o.post = "SKIP" BY DEF Op
    <2>3. c.read_addr = AddressOf(call, k) BY <1>1, <1>4 DEF AddressOf, Address
    <2> HIDE DEF o
    <2>4. SUFFICES ASSUME Takes(call, c, e, d, f) PROVE AtValue(call, k, 0, d, f)
        BY <1>3, <2>1, <2>2, ValueFound DEF Leads, Onward
    <2>5. /\ At(d, w + 1, "SKIP") /\ d.loop_count = 0 /\ Verdict(call, d, k, 0)
          /\ Holds(call, k, f, << >>) /\ d.reg_value = c.reg_value /\ d.read_addr = c.read_addr
        BY <1>1, <1>3, <2>1, <2>2, <2>3, <2>4, ValueSaved
    <2>6. ValuesAt(call, k) + 0 = w + 1
        <3>1. ValuesAt(call, k) \in Nat BY ArgParts
        <3> QED BY <2>1, <3>1
    <2> QED BY <1>1, <2>3, <2>5, <2>6 DEF AtValue
<1>5. CASE j # n
    <2>1. j \in Nat /\ j < n /\ j + 1 \in 0 .. n /\ j + 1 \in 1 .. n /\ (j + 1) - 1 = j
        BY <1>2, <1>5
    <2>2. /\ w \in Nat /\ r \in ReadOp
          /\ r.op = "+" => /\ KeyOf(call, w) = Op("ADD_OFFSET", r.value)
                           /\ WalkAt(call, k, j + 1) = w + 1
          /\ r.op = "-" => /\ KeyOf(call, w) = Op("SUB_OFFSET", r.value)
                           /\ WalkAt(call, k, j + 1) = w + 1
          /\ r.op = "." => KeyOf(call, w) = Op("READ_POINTER", 0)
        BY <1>1, <2>1, WalkKeys
    <2>3. y = Moved(x, r, call.regs) BY <1>2, <2>1, WalkedIs
    <2>s. r.op \in {"+", "-", "."} BY <2>1, WalkIsStraight
    <2> DEFINE o == KeyOf(call, w)
    <2> HIDE DEF o, r, w, x, y, n
    <2>4. o.code \in {"ADD_OFFSET", "SUB_OFFSET", "READ_POINTER"} /\ o.post = "SKIP"
        BY <2>2, <2>s DEF Op, o
    <2>5. SUFFICES ASSUME Takes(call, c, e, d, f)
                   PROVE  Walking(call, k, j + 1, d, f) \/ Dotted(call, k, j, d, f)
        BY <1>3, <2>1, <2>4 DEF Leads, Onward, Inside, InAddress, o, n
    <2>6. /\ At(d, w + 1, "SKIP") /\ SameFlags(c, d) /\ Computes(call, o, c, d)
          /\ d.loop_count = c.loop_count /\ f = e
        BY <1>3, <2>4, <2>5, PlainTurn DEF Filtering, Saving, o
    <2>7. Finding(call, k, d, f) BY <1>1, <2>6, VerdictStays DEF Finding
    <2>8. d.reg_value = c.reg_value BY <2>4, <2>6 DEF Computes
    <2>9. CASE r.op \in {"+", "-"}
        <3>1. d.read_addr = Moved(x, r, call.regs)
            <4>1. CASE r.op = "+"
                <5>1. o.code = "ADD_OFFSET" /\ o.value = r.value BY <2>2, <4>1 DEF Op, o
                <5> QED BY <1>1, <2>6, <4>1, <5>1 DEF Computes, Moved
            <4>2. CASE r.op = "-"
                <5>1. o.code = "SUB_OFFSET" /\ o.value = r.value BY <2>2, <4>2 DEF Op, o
                <5> QED BY <1>1, <2>6, <4>2, <5>1 DEF Computes, Moved
            <4> QED BY <2>9, <4>1, <4>2
        <3>2. WalkAt(call, k, j + 1) = w + 1 BY <2>2, <2>9
        <3> QED BY <1>1, <2>3, <2>6, <2>7, <2>8, <3>1, <3>2 DEF Walking, y
    <2>10. CASE r.op = "."
        <3>1. o.code = "READ_POINTER" /\ o.pre = "SKIP" BY <2>2, <2>10 DEF Op, o
        <3>2. x \in Int
            <4>1. j \in 0 .. n BY DEF n
            <4> QED BY <1>2, <4>1, WalkedIs DEF x, n
        <3>3. d.pointer_value = WordAt(x + 0) BY <1>1, <2>6, <3>1 DEF Computes
        <3>4. d.pointer_value = WordAt(x)
            <4>1. x + 0 = x BY <3>2
            <4> QED BY <3>3, <4>1
        <3> QED BY <1>1, <2>1, <2>6, <2>7, <2>8, <2>10, <3>4 DEF Dotted, r, w, x, n
    <2> QED BY <2>9, <2>10, <2>s
<1> QED BY <1>4, <1>5

LEMMA DottedLeads ==
    ASSUME NEW call, IsCall(call), NEW k \in DOMAIN call.point.args,
           NEW j \in 0 .. Len(call.point.args[k].read_op),
           NEW c, NEW e, NEW d, NEW f, Dotted(call, k, j, c, e)
    PROVE  Leads(call, k, c, e, d, f)
<1> DEFINE arg == call.point.args[k]
           n == Len(arg.read_op)
           w == WalkAt(call, k, j)
           r == arg.read_op[j + 1]
           x == Walked(arg, call.regs)[j]
           y == Walked(arg, call.regs)[j + 1]
           o == Op("MOVE_POINTER_VALUE", 0)
<1>1. /\ Finding(call, k, c, e) /\ ~arg.is_ret /\ arg.read_op # << >>
      /\ j < n /\ r.op = "." /\ c.reg_value = call.regs[arg.reg]
      /\ At(c, w + 1, "SKIP") /\ c.pointer_value = WordAt(x)
    BY DEF Dotted
<1>2. /\ arg \in Arg /\ n \in Nat /\ call.regs[arg.reg] \in Nat
      /\ \A a \in Added(arg) : call.regs[a.value] \in Nat
    BY <1>1, RegistersKnown DEF Arg
<1>3. j \in Nat /\ j + 1 \in 0 .. n /\ j + 1 \in 1 .. n /\ (j + 1) - 1 = j BY <1>1, <1>2
<1>4. KeyOf(call, w + 1) = o /\ WalkAt(call, k, j + 1) = w + 1 + 1
    BY <1>1, <1>3, WalkKeys
<1>5. NextKey(call, c) = o /\ NextIndex(c) = w + 1 + 1 BY <1>1, <1>4, NextAt
<1>6. y = WordAt(x)
    <2>1. y = Moved(x, r, call.regs) BY <1>2, <1>3, WalkedIs
    <2> QED BY <1>1, <2>1 DEF Moved
<1>7. o.code = "MOVE_POINTER_VALUE" /\ o.post = "SKIP" BY DEF Op
<1> HIDE DEF o, w, x, y, n
<1>8. SUFFICES ASSUME Takes(call, c, e, d, f) PROVE Walking(call, k, j + 1, d, f)
    BY <1>3, <1>5, <1>7 DEF Leads, Onward, Inside, InAddress, n
<1>9. /\ At(d, w + 1 + 1, "SKIP") /\ SameFlags(c, d) /\ Computes(call, o, c, d)
      /\ d.loop_count = c.loop_count /\ f = e
    BY <1>5, <1>7, <1>8, PlainTurn DEF Filtering, Saving
<1>10. d.read_addr = c.pointer_value /\ d.reg_value = c.reg_value BY <1>7, <1>9 DEF Computes
<1>11. Finding(call, k, d, f) BY <1>1, <1>9, VerdictStays DEF Finding
<1> QED BY <1>1, <1>4, <1>6, <1>9, <1>10, <1>11 DEF Walking, y

-----------------------------------------------------------------------------
(* The turns that compare.                                                   *)

LEMMA HereAt ==
    ASSUME NEW call, NEW b \in Nat, NEW s, Here(call, b, s), NEW j \in Nat, j + 1 \in 1 .. Len(s)
    PROVE  KeyOf(call, b + j) = s[j + 1]
<1>1. (j + 1) - 1 = j OBVIOUS
<1>2. KeyOf(call, b + ((j + 1) - 1)) = s[j + 1] BY DEF Here
<1> QED BY <1>1, <1>2

\* Where the rules of an argument stand in its list.
LEMMA FilterKeys ==
    ASSUME NEW call, IsCall(call), NEW k \in DOMAIN call.point.args, NEW j \in Nat
    PROVE  LET arg == call.point.args[k]
           IN  /\ Len(ValueFilters(arg)) \in Nat /\ Len(MoreFilters(arg)) \in Nat
               /\ j < Len(ValueFilters(arg)) =>
                     /\ Numeric(arg) /\ j + 1 \in DOMAIN arg.filters
                     /\ KeyOf(call, ValuesAt(call, k) + j) = Op("FILTER_VALUE", arg.filters[j + 1])
               /\ j < Len(MoreFilters(arg)) /\ ReadMore(arg) =>
                     /\ Compared(arg) /\ j + 1 \in DOMAIN arg.filters
                     /\ ValueFilters(arg) = << >>
                     /\ KeyOf(call, MoreAt(call, k) + j) =
                           Op(IF IsString(arg.type) THEN "FILTER_STRING" ELSE "FILTER_BUFFER",
                              arg.filters[j + 1])
<1> DEFINE arg == call.point.args[k]
           v == ValueFilters(arg)
           m == MoreFilters(arg)
<1>1. arg \in Arg /\ arg.filters \in Seq(DOMAIN Filters) BY FiltersKnown
<1>2. v \in Seq(Opcode) /\ m \in Seq(Opcode) BY <1>1, GetOpListIs
<1>3. /\ ValuesAt(call, k) \in Nat /\ MoreAt(call, k) \in Nat /\ Here(call, ValuesAt(call, k), v)
      /\ ReadMore(arg) => Here(call, MoreAt(call, k), m)
    BY ArgParts
<1>4. ASSUME NEW code, code \in Codes
      PROVE  /\ Len(FilterOps(arg, code)) = Len(arg.filters)
             /\ \A n \in DOMAIN arg.filters : FilterOps(arg, code)[n] = Op(code, arg.filters[n])
    BY <1>1, <1>4, FilterOpsType DEF FilterOps
<1>5. ASSUME j < Len(v)
      PROVE  /\ Numeric(arg) /\ j + 1 \in DOMAIN arg.filters
             /\ KeyOf(call, ValuesAt(call, k) + j) = Op("FILTER_VALUE", arg.filters[j + 1])
    <2>1. Numeric(arg) /\ v = FilterOps(arg, "FILTER_VALUE")
        BY <1>5 DEF ValueFilters, Numeric
    <2>2. Len(v) = Len(arg.filters) BY <1>4, <2>1 DEF Codes
    <2> HIDE DEF v, m
    <2>3. j + 1 \in 1 .. Len(v) BY <1>2, <1>5
    <2>4. j + 1 \in DOMAIN arg.filters BY <1>1, <2>2, <2>3
    <2>5. KeyOf(call, ValuesAt(call, k) + j) = v[j + 1] BY <1>3, <2>3, HereAt
    <2>6. v[j + 1] = Op("FILTER_VALUE", arg.filters[j + 1]) BY <1>4, <2>1, <2>4 DEF Codes
    <2> QED BY <2>1, <2>4, <2>5, <2>6
<1>6. ASSUME j < Len(m), ReadMore(arg)
      PROVE  /\ Compared(arg) /\ j + 1 \in DOMAIN arg.filters
             /\ v = << >>
             /\ KeyOf(call, MoreAt(call, k) + j) =
                   Op(IF IsString(arg.type) THEN "FILTER_STRING" ELSE "FILTER_BUFFER",
                      arg.filters[j + 1])
    <2> DEFINE code == IF IsString(arg.type) THEN "FILTER_STRING" ELSE "FILTER_BUFFER"
    <2>1. Compared(arg) /\ v = << >> /\ m = FilterOps(arg, code)
        BY <1>6 DEF MoreFilters, ValueFilters, Compared
    <2>2. code \in Codes BY DEF Codes
    <2> HIDE DEF v, m, code
    <2>3. Len(m) = Len(arg.filters) BY <1>4, <2>1, <2>2
    <2>4. j + 1 \in 1 .. Len(m) BY <1>2, <1>6
    <2>5. j + 1 \in DOMAIN arg.filters BY <1>1, <2>3, <2>4
    <2>6. KeyOf(call, MoreAt(call, k) + j) = m[j + 1] BY <1>3, <1>6, <2>4, HereAt
    <2>7. m[j + 1] = Op(code, arg.filters[j + 1]) BY <1>4, <2>1, <2>2, <2>5
    <2> QED BY <2>1, <2>5, <2>6, <2>7 DEF code
<1> QED BY <1>2, <1>5, <1>6

\* A turn that compares.
LEMMA FilterTurn ==
    ASSUME NEW call, NEW c, NEW e, NEW d, NEW f, Takes(call, c, e, d, f),
           NEW o, NextKey(call, c) = o, NEW p, NextIndex(c) = p, o.code \in Filtering
    PROVE  /\ At(d, p, o.post) /\ d.loop_count = c.loop_count
           /\ d.read_addr = c.read_addr /\ d.reg_value = c.reg_value /\ d.str_len = c.str_len
           /\ f = e /\ Judges(o, c, d)
<1>1. Goes(call, o, p, c, d) /\ Saves(o, c, e, f) BY DEF Takes
<1>2. o.code # "FOR_BREAK" /\ o.code # "SAVE_PTR_STRING" BY DEF Filtering
<1>3. At(d, p, o.post) /\ d.loop_count = c.loop_count BY <1>1, <1>2 DEF Goes, Loops, At
<1>4. d.read_addr = c.read_addr /\ d.reg_value = c.reg_value /\ d.str_len = c.str_len
    BY <1>1 DEF Goes, Computes, Filtering
<1>5. f = e BY <1>1 DEF Saves, Filtering
<1> QED BY <1>1, <1>3, <1>4, <1>5 DEF Goes

\* The rules for a number (utils.h, OPC_FILTER_VALUE).
LEMMA ValueRuleLeads ==
    ASSUME NEW call, IsCall(call), NEW k \in DOMAIN call.point.args, NEW j \in Nat,
           j < Len(ValueFilters(call.point.args[k])),
           NEW c, NEW e, NEW d, NEW f, AtValue(call, k, j, c, e)
    PROVE  Leads(call, k, c, e, d, f)
<1> DEFINE arg == call.point.args[k]
           o == Op("FILTER_VALUE", arg.filters[j + 1])
           v == Len(ValueFilters(arg))
<1>1. /\ Numeric(arg) /\ j + 1 \in DOMAIN arg.filters /\ v \in Nat
      /\ KeyOf(call, ValuesAt(call, k) + j) = o
    BY FilterKeys
<1>2. /\ At(c, ValuesAt(call, k) + j, "SKIP") /\ c.loop_count = 0
      /\ Verdict(call, c, k, j) /\ Holds(call, k, e, << >>)
      /\ c.read_addr = AddressOf(call, k) /\ c.reg_value = call.regs[arg.reg]
    BY <1>1 DEF AtValue, Numeric
<1>3. NextKey(call, c) = o /\ NextIndex(c) = ValuesAt(call, k) + j + 1 BY <1>1, <1>2, NextAt
<1>4. o.code = "FILTER_VALUE" /\ o.post = "SKIP" /\ Filters[o.value] = RuleAt(call, k, j + 1)
    BY DEF Op, RuleAt
<1> HIDE DEF o, v
<1>5. SUFFICES ASSUME Takes(call, c, e, d, f) PROVE Onward(call, k, d, f)
    BY <1>3, <1>4 DEF Leads
<1>6. /\ At(d, ValuesAt(call, k) + j + 1, "SKIP") /\ d.loop_count = c.loop_count
      /\ d.read_addr = c.read_addr /\ d.reg_value = c.reg_value /\ f = e /\ Judges(o, c, d)
    BY <1>3, <1>4, <1>5, FilterTurn DEF Filtering
<1>7. /\ d.apply_filter = c.apply_filter /\ d.match_whitelist = c.match_whitelist
      /\ d.match_blacklist <=>
            c.match_blacklist \/ Rejects(RuleAt(call, k, j + 1), call.regs[arg.reg])
    BY <1>2, <1>4, <1>6 DEF Judges
<1>8. CASE Rejects(RuleAt(call, k, j + 1), call.regs[arg.reg])
    <2>1. Denies(call, k, j + 1) BY <1>1, <1>8 DEF Denies
    <2>2. Condemned(call) BY <1>1, <2>1, DeniedCondemns
    <2> QED BY <1>7, <1>8, <2>2 DEF Onward
<1>9. CASE ~Rejects(RuleAt(call, k, j + 1), call.regs[arg.reg])
    <2>1. ~Denies(call, k, j + 1) BY <1>1, <1>9 DEF Denies, Numeric
    <2>2. ~Asks(call, k, j + 1) /\ ~Grants(call, k, j + 1)
        BY <1>1 DEF Asks, Grants, Compared, Numeric
    <2>3. ~d.match_blacklist BY <1>2, <1>7, <1>9 DEF Verdict
    <2>4. j + 1 <= Len(arg.filters) BY <1>1, FiltersKnown
    <2>5. Verdict(call, d, k, j + 1) BY <1>2, <1>7, <2>1, <2>2, <2>3, <2>4, VerdictGrows
    <2>6. ValuesAt(call, k) + j + 1 = ValuesAt(call, k) + (j + 1) BY ArgParts
    <2>7. AtValue(call, k, j + 1, d, f) BY <1>2, <1>6, <2>5, <2>6 DEF AtValue
    <2>8. j + 1 \in 0 .. v BY <1>1 DEF v
    <2> QED BY <2>7, <2>8 DEF Onward, Inside, v
<1> QED BY <1>8, <1>9

\* A string that a rule matches is long enough for it, so that str_len decides nothing.
LEMMA MatchIsContent ==
    ASSUME NEW c, NEW x \in DOMAIN Filters, c.read_addr \in DOMAIN Text => c.str_len = Text[c.read_addr]
    PROVE  StrMatch(c, Filters[x]) <=> c.read_addr \in Filters[x].at
<1> DEFINE r == Filters[x]
           a == c.read_addr
<1>1. r.at \subseteq DOMAIN Text /\ r.len \in Nat BY ArgAssumption DEF Filter
<1>2. ASSUME a \in r.at PROVE r.len <= Text[a] /\ Text[a] \in Nat
    <2>1. \A y \in r.at : r.len <= Text[y] BY ArgAssumption
    <2>2. \A y \in DOMAIN Text : Text[y] \in 1 .. MaxBytes BY ArgAssumption
    <2>3. a \in DOMAIN Text BY <1>1, <1>2
    <2>4. Text[a] \in Nat BY <2>2, <2>3, ArgAssumption
    <2> QED BY <1>2, <2>1, <2>4
<1>3. ASSUME a \in r.at PROVE c.str_len >= r.len
    <2>1. c.str_len = Text[a] BY <1>1, <1>3
    <2> QED BY <1>1, <1>2, <1>3, <2>1
<1> QED BY <1>3 DEF StrMatch

\* The rules for a string or a buffer.
LEMMA MoreRuleLeads ==
    ASSUME NEW call, IsCall(call), NEW k \in DOMAIN call.point.args, NEW j \in Nat,
           j < Len(MoreFilters(call.point.args[k])),
           NEW c, NEW e, NEW d, NEW f, AtMore(call, k, j, c, e)
    PROVE  Leads(call, k, c, e, d, f)
<1> DEFINE arg == call.point.args[k]
           x == arg.filters[j + 1]
           r == RuleAt(call, k, j + 1)
           o == Op(IF IsString(arg.type) THEN "FILTER_STRING" ELSE "FILTER_BUFFER", x)
           m == Len(MoreFilters(arg))
           text == TextAddress(call, k)
<1>1. ReadMore(arg) BY DEF AtMore
<1>2. /\ Compared(arg) /\ j + 1 \in DOMAIN arg.filters /\ m \in Nat
      /\ ValueFilters(arg) = << >> /\ KeyOf(call, MoreAt(call, k) + j) = o
    BY <1>1, FilterKeys
<1>3. 0 + j = j /\ Len(ValueFilters(arg)) = 0 BY <1>2
<1>4. /\ At(c, MoreAt(call, k) + j, "SKIP") /\ c.loop_count = 0
      /\ Verdict(call, c, k, j) /\ Holds(call, k, e, Body(call, k))
      /\ c.read_addr = text
      /\ IsString(arg.type) /\ c.read_addr \in DOMAIN Text => c.str_len = Text[c.read_addr]
    BY <1>2, <1>3 DEF AtMore, Compared
<1>5. NextKey(call, c) = o /\ NextIndex(c) = MoreAt(call, k) + j + 1 BY <1>2, <1>4, NextAt
<1>6. /\ o.code = (IF IsString(arg.type) THEN "FILTER_STRING" ELSE "FILTER_BUFFER")
      /\ o.post = "SKIP" /\ Filters[o.value] = r
    BY DEF Op, RuleAt
<1>7. x \in DOMAIN Filters /\ r = Filters[x] BY <1>2, FiltersKnown DEF RuleAt
<1>8. j + 1 <= Len(arg.filters) /\ j + 1 \in 0 .. m BY <1>2, FiltersKnown
<1> HIDE DEF o, m, r, x, text
<1>9. SUFFICES ASSUME Takes(call, c, e, d, f) PROVE Onward(call, k, d, f)
    BY <1>5, <1>6 DEF Leads
<1>10. /\ At(d, MoreAt(call, k) + j + 1, "SKIP") /\ d.loop_count = c.loop_count
       /\ d.read_addr = c.read_addr /\ d.str_len = c.str_len /\ f = e /\ Judges(o, c, d)
    BY <1>5, <1>6, <1>9, FilterTurn DEF Filtering
<1>11. Asks(call, k, j + 1) <=> r.type = "white" BY <1>2 DEF Asks, r
<1>12. Grants(call, k, j + 1) <=> r.type = "white" /\ text \in r.at
    BY <1>11 DEF Grants, r, text
<1>13. ASSUME ~Denies(call, k, j + 1), ~d.match_blacklist,
              d.apply_filter <=> c.apply_filter \/ Asks(call, k, j + 1),
              d.match_whitelist <=> c.match_whitelist \/ Grants(call, k, j + 1)
       PROVE  Onward(call, k, d, f)
    <2>1. Verdict(call, d, k, j + 1) BY <1>4, <1>8, <1>13, VerdictGrows
    <2>2. MoreAt(call, k) + j + 1 = MoreAt(call, k) + (j + 1) BY ArgParts
    <2>3. Len(ValueFilters(arg)) + (j + 1) = j + 1 BY <1>3
    <2>4. AtMore(call, k, j + 1, d, f)
        BY <1>1, <1>4, <1>10, <2>1, <2>2, <2>3 DEF AtMore, text
    <2> QED BY <1>8, <2>4 DEF Onward, Inside, m
<1>14. CASE IsString(arg.type)
    <2>1. StrMatch(c, r) <=> text \in r.at BY <1>4, <1>7, <1>14, MatchIsContent
    <2>2. /\ d.apply_filter <=> c.apply_filter \/ r.type = "white"
          /\ d.match_whitelist <=> c.match_whitelist \/ (r.type = "white" /\ StrMatch(c, r))
          /\ d.match_blacklist <=> c.match_blacklist \/ (r.type = "black" /\ StrMatch(c, r))
        BY <1>6, <1>10, <1>14 DEF Judges
    <2>3. Denies(call, k, j + 1) <=> r.type = "black" /\ text \in r.at
        BY <1>1, <1>14 DEF Denies, Numeric, r, text
    <2>4. CASE Denies(call, k, j + 1)
        <3>1. Condemned(call) BY <1>2, <2>4, DeniedCondemns
        <3> QED BY <2>1, <2>2, <2>3, <2>4, <3>1 DEF Onward
    <2>5. CASE ~Denies(call, k, j + 1)
        <3>1. ~c.match_blacklist BY <1>4 DEF Verdict
        <3> QED BY <1>11, <1>12, <1>13, <2>1, <2>2, <2>3, <2>5, <3>1
    <2> QED BY <2>4, <2>5
<1>15. CASE ~IsString(arg.type)
    <2>1. /\ d.apply_filter <=> c.apply_filter \/ r.type = "white"
          /\ d.match_whitelist <=>
                c.match_whitelist \/ (r.type = "white" /\ c.read_addr \in r.at)
          /\ d.match_blacklist = c.match_blacklist
        BY <1>6, <1>10, <1>15 DEF Judges
    <2>2. ~Denies(call, k, j + 1) BY <1>2, <1>15 DEF Denies, Numeric, Compared
    <2>3. ~c.match_blacklist BY <1>4 DEF Verdict
    <2> QED BY <1>4, <1>11, <1>12, <1>13, <2>1, <2>2, <2>3
<1> QED BY <1>14, <1>15

-----------------------------------------------------------------------------
(* The turns that save the content: what is common to the types.             *)

\* The opcode of the type that runs next.
TypeOp(call, k, n, post) ==
    IF post = "SKIP" THEN TypeOps(call.point.args[k].type)[n + 1] ELSE Op(post, 0)

TypeNextAt(n, post) == IF post = "SKIP" THEN n + 1 ELSE n

InOps(call, k, n, post) ==
    n \in Nat /\ (post = "SKIP" => n + 1 \in 1 .. Len(TypeOps(call.point.args[k].type)))

LEMMA TypeNext ==
    ASSUME NEW call, IsCall(call), NEW k \in DOMAIN call.point.args, NEW c, NEW e,
           NEW n, NEW post, NEW part, InType(call, k, c, e, n, post, part), InOps(call, k, n, post)
    PROVE  /\ NextKey(call, c) = TypeOp(call, k, n, post)
           /\ NextIndex(c) = TypeAt(call, k) + TypeNextAt(n, post)
<1> DEFINE ops == TypeOps(call.point.args[k].type)
           t == TypeAt(call, k)
<1>1. t \in Nat /\ Here(call, t, ops) BY ArgParts DEF InType
<1>2. At(c, t + n, post) /\ n \in Nat BY DEF InType, InOps
<1> HIDE DEF ops, t
<1>3. CASE post = "SKIP"
    <2>1. n + 1 \in 1 .. Len(ops) BY <1>3 DEF InOps, ops
    <2>2. KeyOf(call, t + n) = ops[n + 1] BY <1>1, <1>2, <2>1, HereAt
    <2>3. NextKey(call, c) = ops[n + 1] /\ NextIndex(c) = (t + n) + 1
        BY <1>2, <1>3, <2>2, NextAt
    <2>4. (t + n) + 1 = t + (n + 1) BY <1>1, <1>2
    <2> QED BY <1>3, <2>3, <2>4 DEF TypeOp, TypeNextAt, ops, t
<1>4. CASE post # "SKIP" BY <1>2, <1>4, NextAt DEF TypeOp, TypeNextAt, t
<1> QED BY <1>3, <1>4

\* Plain opcodes of a type.
Plain(o) == o.code \notin Filtering /\ o.code \notin {"FOR_BREAK", "SAVE_PTR_STRING"}

LEMMA TypeMoves ==
    ASSUME NEW call, IsCall(call), NEW k \in DOMAIN call.point.args,
           NEW c, NEW e, NEW d, NEW f, Takes(call, c, e, d, f),
           NEW n, NEW post, NEW part, InType(call, k, c, e, n, post, part), InOps(call, k, n, post),
           NEW o, o = TypeOp(call, k, n, post), Plain(o),
           NEW m, m = TypeNextAt(n, post)
    PROVE  /\ o.code \notin Saving => InType(call, k, d, f, m, o.post, part)
           /\ Computes(call, o, c, d)
           /\ d.loop_count = c.loop_count /\ d.loop_index = c.loop_index
           /\ o.code \notin Counting => d.break_count = c.break_count
<1>1. NextKey(call, c) = o /\ NextIndex(c) = TypeAt(call, k) + m BY TypeNext
<1> QED BY <1>1, TypeTurn DEF Plain

\* One that saves x.
LEMMA TypeSaves ==
    ASSUME NEW call, IsCall(call), NEW k \in DOMAIN call.point.args,
           NEW c, NEW e, NEW d, NEW f, Takes(call, c, e, d, f),
           NEW n, NEW post, NEW part, InType(call, k, c, e, n, post, part), InOps(call, k, n, post),
           NEW o, o = TypeOp(call, k, n, post), Plain(o),
           NEW m, m = TypeNextAt(n, post), part \in Seq(Element), NEW x,
           \/ /\ o.code = "SAVE_STRUCT" /\ x = BytesAt(c.read_addr, Least(c.read_len, MaxBytes))
              /\ c.read_addr \in Int /\ c.read_len \in Nat
           \/ o.code = "SAVE_STRING" /\ x = StringAt(c.read_addr) /\ c.read_addr \in Int
           \/ o.code = "SAVE_REG" /\ x = RegElem(c.reg_value) /\ c.reg_value \in Int
    PROVE  InType(call, k, d, f, m, o.post, Append(part, x))
<1>1. NextKey(call, c) = o /\ NextIndex(c) = TypeAt(call, k) + m BY TypeNext
<1> DEFINE p == TypeAt(call, k) + m
<1>2. At(d, p, o.post) /\ SameFlags(c, d)
    <2>1. o.code \notin Filtering /\ o.code \notin {"FOR_BREAK", "SAVE_PTR_STRING"} BY DEF Plain
    <2> HIDE DEF p
    <2> QED BY <1>1, <2>1, PlainTurn DEF p
<1>3. Saves(o, c, e, f) BY <1>1 DEF Takes
<1>4. f = Append(e, x) BY <1>3 DEF Saves
<1>5. x \in Element
    <2>1. CASE o.code = "SAVE_STRUCT"
        <3>1. Least(c.read_len, MaxBytes) \in Nat BY <2>1, ArgAssumption DEF Least
        <3> QED BY <2>1, <3>1, ElementType
    <2>2. CASE o.code # "SAVE_STRUCT" BY <2>2, ElementType
    <2> QED BY <2>1, <2>2
<1>6. LET arg == call.point.args[k]
      IN  /\ ReadMore(arg) /\ ~arg.is_ret
          /\ Verdict(call, c, k, Len(ValueFilters(arg))) /\ Holds(call, k, e, part)
    BY DEF InType
<1>7. Holds(call, k, f, Append(part, x)) BY <1>4, <1>5, <1>6, HoldsMore
<1>8. Verdict(call, d, k, Len(ValueFilters(call.point.args[k]))) BY <1>2, <1>6, VerdictStays
<1> HIDE DEF p
<1> QED BY <1>2, <1>6, <1>7, <1>8 DEF InType, p

LEMMA TypeOpIs ==
    ASSUME NEW call, NEW k, NEW n
    PROVE  /\ TypeOp(call, k, n, "SKIP") = TypeOps(call.point.args[k].type)[n + 1]
           /\ TypeNextAt(n, "SKIP") = n + 1
BY DEF TypeOp, TypeNextAt

LEMMA PendingIs ==
    ASSUME NEW call, NEW k, NEW n, NEW post, post # "SKIP"
    PROVE  TypeOp(call, k, n, post) = Op(post, 0) /\ TypeNextAt(n, post) = n
BY DEF TypeOp, TypeNextAt

\* Behind the list of the type.
LEMMA TypeEnds ==
    ASSUME NEW call, IsCall(call), NEW k \in DOMAIN call.point.args, NEW d, NEW f,
           LET t == call.point.args[k].type
           IN  /\ InType(call, k, d, f, Len(TypeOps(t)), "SKIP", Body(call, k))
               /\ IsString(t) \/ IsBuffer(t) => d.read_addr = TextAddress(call, k)
               /\ IsString(t) /\ d.read_addr \in DOMAIN Text => d.str_len = Text[d.read_addr],
           d.loop_count = 0
    PROVE  Onward(call, k, d, f)
<1> DEFINE arg == call.point.args[k]
           v == Len(ValueFilters(arg))
           m == Len(MoreFilters(arg))
<1>1. /\ ReadMore(arg) /\ At(d, TypeAt(call, k) + Len(TypeOps(arg.type)), "SKIP")
      /\ Verdict(call, d, k, v) /\ Holds(call, k, f, Body(call, k))
    BY DEF InType
<1>2. v \in Nat /\ m \in Nat
    <2>1. 0 \in Nat OBVIOUS
    <2> QED BY <2>1, FilterKeys
<1>3. MoreAt(call, k) + 0 = TypeAt(call, k) + Len(TypeOps(arg.type)) BY ArgParts DEF MoreAt
<1>4. v + 0 = v /\ 0 \in 0 .. m BY <1>2
<1> HIDE DEF v, m
<1>5. AtMore(call, k, 0, d, f) BY <1>1, <1>3, <1>4 DEF AtMore, v
<1> QED BY <1>4, <1>5 DEF Onward, Inside, m

\* Behind the value of an argument of which no more is read begins the next one.
LEMMA ValueEnds ==
    ASSUME NEW call, IsCall(call), NEW k \in DOMAIN call.point.args, NEW c, NEW e,
           LET arg == call.point.args[k]
           IN  /\ ~ReadMore(arg) \/ arg.type.name = "num"
               /\ AtValue(call, k, Len(ValueFilters(arg)), c, e)
    PROVE  AtArg(call, k + 1, c, e)
<1> DEFINE arg == call.point.args[k]
           v == Len(ValueFilters(arg))
<1>1. CASE ~ReadMore(arg) BY <1>1, ArgEnds
<1>2. CASE ReadMore(arg) /\ arg.type.name = "num"
    <2>1. /\ At(c, ValuesAt(call, k) + v, "SKIP") /\ c.loop_count = 0
          /\ Verdict(call, c, k, v) /\ Holds(call, k, e, << >>)
        BY DEF AtValue
    <2>2. Body(call, k) = << >> BY <1>2 DEF Body, Content
    <2>3. TypeOps(arg.type) = << >> BY <1>2 DEF TypeOps
    <2>4. ~IsString(arg.type) /\ ~IsBuffer(arg.type) BY <1>2 DEF IsString, IsBuffer
    <2>5. MoreFilters(arg) = << >> BY <2>4 DEF MoreFilters
    <2>6. v \in Nat
        <3>1. 0 \in Nat OBVIOUS
        <3> QED BY <3>1, FilterKeys
    <2>7. v + 0 = v BY <2>6
    <2> HIDE DEF v
    <2>8. MoreAt(call, k) + 0 = ValuesAt(call, k) + v
        <3>1. Len(TypeOps(arg.type)) = 0 BY <2>3
        <3>2. TypeAt(call, k) \in Nat /\ TypeAt(call, k) = ValuesAt(call, k) + v
            BY ArgParts DEF TypeAt, v
        <3> QED BY <3>1, <3>2 DEF MoreAt
    <2>9. AtMore(call, k, 0, c, e) BY <1>2, <2>1, <2>2, <2>4, <2>7, <2>8 DEF AtMore, v
    <2>10. Len(MoreFilters(arg)) = 0 BY <2>5
    <2> QED BY <2>9, <2>10, ArgEnds
<1> QED BY <1>1, <1>2

LEMMA LeastCommutes ==
    ASSUME NEW n \in Nat PROVE Least(n, MaxBytes) = Least(MaxBytes, n) /\ Least(n, MaxBytes) \in Nat
BY ArgAssumption DEF Least

-----------------------------------------------------------------------------
(* Structures and buffers of a fixed size.                                   *)

LEMMA SizedKeys ==
    ASSUME NEW t \in Type, t.name \in {"pointer", "array", "struct", "dirent", "buffer"}
    PROVE  /\ t.name \in {"pointer", "array"} =>
                 Len(TypeOps(t)) = 1 /\ TypeOps(t)[1] = SaveStruct(t.size)
           /\ t.name \notin {"pointer", "array"} =>
                 /\ Len(TypeOps(t)) = 2
                 /\ TypeOps(t)[1] = Op("SET_READ_LEN", t.size) /\ TypeOps(t)[2] = Op("SAVE_STRUCT", 0)
BY DEF TypeOps

LEMMA SizedStarts ==
    ASSUME NEW call, IsCall(call), ~ReturnsContent(call), NEW k \in DOMAIN call.point.args,
           NEW c, NEW e, NEW d, NEW f,
           LET arg == call.point.args[k]
           IN  /\ ReadMore(arg) /\ AtValue(call, k, Len(ValueFilters(arg)), c, e)
               /\ arg.type.name \in {"pointer", "array", "struct", "dirent", "buffer"}
    PROVE  Leads(call, k, c, e, d, f)
<1> DEFINE t == call.point.args[k].type
           post == IF t.name \in {"pointer", "array"} THEN "SAVE_STRUCT" ELSE "SKIP"
           o == TypeOp(call, k, 0, "SKIP")
<1>1. t \in Type BY FiltersKnown DEF Arg
<1>2. InType(call, k, c, e, 0, "SKIP", << >>) /\ c.loop_count = 0 /\ c.read_addr = AddressOf(call, k)
    BY TypeStarts
<1>3. /\ InOps(call, k, 0, "SKIP") /\ o.code = "SET_READ_LEN" /\ o.value = t.size /\ o.post = post
    <2>1. o = TypeOps(t)[1] /\ Len(TypeOps(t)) \in {1, 2} BY <1>1, SizedKeys, TypeOpIs
    <2>2. InOps(call, k, 0, "SKIP") BY <2>1 DEF InOps
    <2>3. CASE t.name \in {"pointer", "array"}
        <3>1. o = SaveStruct(t.size) /\ post = "SAVE_STRUCT" BY <1>1, <2>1, <2>3, SizedKeys
        <3> HIDE DEF o, post
        <3> QED BY <2>2, <3>1 DEF Op, SaveStruct
    <2>4. CASE t.name \notin {"pointer", "array"}
        <3>1. o = Op("SET_READ_LEN", t.size) /\ post = "SKIP" BY <1>1, <2>1, <2>4, SizedKeys
        <3> HIDE DEF o, post
        <3> QED BY <2>2, <3>1 DEF Op
    <2> QED BY <2>3, <2>4
<1>4. NextKey(call, c) = o BY <1>2, <1>3, TypeNext
<1>5. TypeNextAt(0, "SKIP") = 1 BY DEF TypeNextAt
<1> HIDE DEF o, post
<1>6. SUFFICES ASSUME Takes(call, c, e, d, f) PROVE Sized(call, k, d, f)
    BY <1>3, <1>4 DEF Leads, Onward, Inside, InContent
<1>7. Plain(o) /\ o.code \notin Saving BY <1>3 DEF Plain, Filtering, Saving
<1>8. /\ InType(call, k, d, f, 1, o.post, << >>) /\ Computes(call, o, c, d)
      /\ d.loop_count = c.loop_count
    BY <1>2, <1>3, <1>5, <1>6, <1>7, TypeMoves DEF o
<1>9. d.read_len = t.size /\ d.read_addr = c.read_addr BY <1>3, <1>8 DEF Computes
<1> QED BY <1>2, <1>3, <1>8, <1>9 DEF Sized, post

LEMMA SizedLeads ==
    ASSUME NEW call, IsCall(call), NEW k \in DOMAIN call.point.args,
           NEW c, NEW e, NEW d, NEW f, Sized(call, k, c, e)
    PROVE  Leads(call, k, c, e, d, f)
<1> DEFINE t == call.point.args[k].type
           post == IF t.name \in {"pointer", "array"} THEN "SAVE_STRUCT" ELSE "SKIP"
           o == TypeOp(call, k, 1, post)
           x == BytesAt(c.read_addr, Least(c.read_len, MaxBytes))
<1>1. t \in Type BY FiltersKnown DEF Arg
<1>2. /\ t.name \in {"pointer", "array", "struct", "dirent", "buffer"}
      /\ InType(call, k, c, e, 1, post, << >>)
      /\ c.loop_count = 0 /\ c.read_addr = AddressOf(call, k) /\ c.read_len = t.size
    BY DEF Sized
<1>3. /\ InOps(call, k, 1, post) /\ o.code = "SAVE_STRUCT" /\ o.post = "SKIP"
      /\ TypeNextAt(1, post) = Len(TypeOps(t))
    <2>1. CASE t.name \in {"pointer", "array"}
        <3>1. post = "SAVE_STRUCT" /\ Len(TypeOps(t)) = 1 BY <1>1, <2>1, SizedKeys
        <3> HIDE DEF post
        <3>2. o = Op("SAVE_STRUCT", 0) /\ TypeNextAt(1, post) = 1 BY <3>1, PendingIs
        <3> HIDE DEF o
        <3> QED BY <3>1, <3>2 DEF InOps, Op
    <2>2. CASE t.name \notin {"pointer", "array"}
        <3>1. /\ post = "SKIP" /\ Len(TypeOps(t)) = 2
              /\ TypeOps(t)[2] = Op("SAVE_STRUCT", 0)
            BY <1>1, <1>2, <2>2, SizedKeys
        <3> HIDE DEF post
        <3>2. o = Op("SAVE_STRUCT", 0) /\ TypeNextAt(1, post) = 2 BY <3>1, TypeOpIs
        <3> HIDE DEF o
        <3> QED BY <3>1, <3>2 DEF InOps, Op
    <2> QED BY <2>1, <2>2
<1>4. NextKey(call, c) = o BY <1>2, <1>3, TypeNext
<1>5. Plain(o) BY <1>3 DEF Plain, Filtering
<1>6. c.read_addr \in Int /\ c.read_len \in Nat /\ << >> \in Seq(Element)
    BY <1>1, <1>2, AddressType DEF Type
<1>7. Append(<< >>, x) = Body(call, k)
    <2>1. ReadMore(call.point.args[k]) BY <1>2, Zenon DEF InType
    <2>2. Body(call, k) = << BytesAt(AddressOf(call, k), Least(MaxBytes, t.size)) >>
        BY <1>2, <2>1 DEF Body, Content
    <2>3. x = BytesAt(AddressOf(call, k), Least(MaxBytes, t.size))
        BY <1>2, <1>6, LeastCommutes
    <2> QED BY <2>2, <2>3
<1>12. o = TypeOp(call, k, 1, post) /\ x = BytesAt(c.read_addr, Least(c.read_len, MaxBytes))
    OBVIOUS
<1> HIDE DEF o, post, x
<1>8. SUFFICES ASSUME Takes(call, c, e, d, f) PROVE Onward(call, k, d, f)
    BY <1>3, <1>4 DEF Leads
<1>9. /\ InType(call, k, d, f, Len(TypeOps(t)), "SKIP", Append(<< >>, x))
      /\ Computes(call, o, c, d) /\ d.loop_count = c.loop_count
    <2>1. Computes(call, o, c, d) /\ d.loop_count = c.loop_count
        BY <1>2, <1>3, <1>5, <1>8, <1>12, TypeMoves
    <2>2. InType(call, k, d, f, TypeNextAt(1, post), o.post, Append(<< >>, x))
        BY <1>2, <1>3, <1>5, <1>6, <1>8, <1>12, TypeSaves
    <2> QED BY <1>3, <2>1, <2>2
<1>10. d.read_addr = c.read_addr BY <1>3, <1>9 DEF Computes
<1>11. ~IsString(t) /\ TextAddress(call, k) = AddressOf(call, k)
    BY <1>2 DEF IsString, TextAddress
<1> QED BY <1>2, <1>7, <1>9, <1>10, <1>11, TypeEnds

-----------------------------------------------------------------------------
(* Buffers with their length in a register, and strings.                     *)

\* Behind opcode o, with part saved.
After(call, k, o, m, part, c, d, f) ==
    /\ InType(call, k, d, f, m, o.post, part) /\ Computes(call, o, c, d)
    /\ d.loop_count = c.loop_count /\ d.loop_index = c.loop_index
    /\ o.code \notin Counting => d.break_count = c.break_count

LEMMA QuietLeads ==
    ASSUME NEW call, IsCall(call), NEW k \in DOMAIN call.point.args,
           NEW c, NEW e, NEW d, NEW f, NEW n, NEW post, NEW part,
           InType(call, k, c, e, n, post, part), InOps(call, k, n, post),
           NEW o, o = TypeOp(call, k, n, post), Plain(o), o.code \notin Saving, o.code # "SKIP",
           NEW m, m = TypeNextAt(n, post),
           After(call, k, o, m, part, c, d, f) => Onward(call, k, d, f)
    PROVE  Leads(call, k, c, e, d, f)
<1>1. NextKey(call, c) = o BY TypeNext
<1>2. SUFFICES ASSUME Takes(call, c, e, d, f) PROVE After(call, k, o, m, part, c, d, f)
    BY <1>1 DEF Leads
<1> QED BY <1>2, TypeMoves DEF After

LEMMA SaveLeads ==
    ASSUME NEW call, IsCall(call), NEW k \in DOMAIN call.point.args,
           NEW c, NEW e, NEW d, NEW f, NEW n, NEW post, NEW part,
           InType(call, k, c, e, n, post, part), InOps(call, k, n, post),
           NEW o, o = TypeOp(call, k, n, post),
           NEW m, m = TypeNextAt(n, post), part \in Seq(Element), NEW x,
           \/ /\ o.code = "SAVE_STRUCT" /\ x = BytesAt(c.read_addr, Least(c.read_len, MaxBytes))
              /\ c.read_addr \in Int /\ c.read_len \in Nat
           \/ o.code = "SAVE_STRING" /\ x = StringAt(c.read_addr) /\ c.read_addr \in Int
           \/ o.code = "SAVE_REG" /\ x = RegElem(c.reg_value) /\ c.reg_value \in Int,
           After(call, k, o, m, Append(part, x), c, d, f) => Onward(call, k, d, f)
    PROVE  Leads(call, k, c, e, d, f)
<1>1. NextKey(call, c) = o BY TypeNext
<1>2. Plain(o) /\ o.code # "SKIP" BY DEF Plain, Filtering
<1>3. SUFFICES ASSUME Takes(call, c, e, d, f)
               PROVE  After(call, k, o, m, Append(part, x), c, d, f)
    BY <1>1, <1>2 DEF Leads
<1>4. InType(call, k, d, f, m, o.post, Append(part, x)) BY <1>2, <1>3, TypeSaves
<1>5. /\ Computes(call, o, c, d) /\ d.loop_count = c.loop_count /\ d.loop_index = c.loop_index
      /\ o.code \notin Counting => d.break_count = c.break_count
    BY <1>2, <1>3, TypeMoves
<1> QED BY <1>4, <1>5 DEF After

LEMMA BufferKeys ==
    ASSUME NEW t, t.name = "buffer_reg"
    PROVE  /\ Len(TypeOps(t)) = 3 /\ TypeOps(t)[1] = Op("SET_READ_LEN", MaxBytes)
           /\ TypeOps(t)[2] = ReadReg(t.reg, "SET_READ_LEN_REG_VALUE")
           /\ TypeOps(t)[3] = Op("SAVE_STRUCT", 0)
BY DEF TypeOps

LEMMA BufferStarts ==
    ASSUME NEW call, IsCall(call), ~ReturnsContent(call), NEW k \in DOMAIN call.point.args,
           NEW c, NEW e, NEW d, NEW f,
           LET arg == call.point.args[k]
           IN  /\ ReadMore(arg) /\ AtValue(call, k, Len(ValueFilters(arg)), c, e)
               /\ arg.type.name = "buffer_reg"
    PROVE  Leads(call, k, c, e, d, f)
<1> DEFINE t == call.point.args[k].type
           o == TypeOp(call, k, 0, "SKIP")
<1>1. InType(call, k, c, e, 0, "SKIP", << >>) /\ c.loop_count = 0 /\ c.read_addr = AddressOf(call, k)
    BY TypeStarts
<1>2. /\ InOps(call, k, 0, "SKIP") /\ o = Op("SET_READ_LEN", MaxBytes)
      /\ TypeNextAt(0, "SKIP") = 1
    BY BufferKeys, TypeOpIs DEF InOps
<1> HIDE DEF o
<1>3. o.code = "SET_READ_LEN" /\ o.value = MaxBytes /\ o.post = "SKIP" BY <1>2 DEF Op
<1>4. ASSUME After(call, k, o, 1, << >>, c, d, f) PROVE BufferLen(call, k, d, f)
    BY <1>1, <1>3, <1>4 DEF After, Computes, BufferLen
<1>5. Plain(o) /\ o.code \notin Saving /\ o.code # "SKIP"
    BY <1>3 DEF Plain, Filtering, Saving
<1>6. BufferLen(call, k, d, f) => Onward(call, k, d, f) BY DEF Onward, Inside, InContent
<1> QED BY <1>1, <1>2, <1>4, <1>5, <1>6, QuietLeads DEF o

LEMMA BufferLenLeads ==
    ASSUME NEW call, IsCall(call), NEW k \in DOMAIN call.point.args,
           NEW c, NEW e, NEW d, NEW f, BufferLen(call, k, c, e)
    PROVE  Leads(call, k, c, e, d, f)
<1> DEFINE t == call.point.args[k].type
           r == call.regs[t.reg]
           a == AddressOf(call, k)
<1>1. /\ t.name = "buffer_reg" /\ c.loop_count = 0 /\ c.read_addr = a
      /\ \/ InType(call, k, c, e, 1, "SKIP", << >>) /\ c.read_len = MaxBytes
         \/ /\ InType(call, k, c, e, 2, "SET_READ_LEN_REG_VALUE", << >>)
            /\ c.read_len = MaxBytes /\ c.reg_value = r
         \/ InType(call, k, c, e, 2, "SKIP", << >>) /\ c.read_len = Least(MaxBytes, r)
    BY DEF BufferLen
<1>2. BufferLen(call, k, d, f) => Onward(call, k, d, f) BY Zenon DEF Onward, Inside, InContent
<1>3. r \in Nat /\ a \in Int BY <1>1, RegistersKnown, AddressType DEF InType
<1>4. CASE InType(call, k, c, e, 1, "SKIP", << >>) /\ c.read_len = MaxBytes
    <2> DEFINE o == TypeOp(call, k, 1, "SKIP")
    <2>1. /\ InOps(call, k, 1, "SKIP") /\ o = ReadReg(t.reg, "SET_READ_LEN_REG_VALUE")
          /\ TypeNextAt(1, "SKIP") = 2
        BY <1>1, BufferKeys, TypeOpIs DEF InOps
    <2> HIDE DEF o
    <2>2. o.code = "READ_REG" /\ o.value = t.reg /\ o.post = "SET_READ_LEN_REG_VALUE"
        BY <2>1 DEF ReadReg
    <2> HIDE DEF r, a
    <2>3. ASSUME After(call, k, o, 2, << >>, c, d, f) PROVE BufferLen(call, k, d, f)
        BY <1>1, <1>4, <2>2, <2>3 DEF After, Computes, BufferLen, r, a
    <2>4. Plain(o) /\ o.code \notin Saving /\ o.code # "SKIP"
        BY <2>2 DEF Plain, Filtering, Saving
    <2> QED BY <1>2, <1>4, <2>1, <2>3, <2>4, QuietLeads DEF o
<1>5. CASE /\ InType(call, k, c, e, 2, "SET_READ_LEN_REG_VALUE", << >>)
           /\ c.read_len = MaxBytes /\ c.reg_value = r
    <2> DEFINE o == TypeOp(call, k, 2, "SET_READ_LEN_REG_VALUE")
    <2>1. /\ InOps(call, k, 2, "SET_READ_LEN_REG_VALUE")
          /\ o = Op("SET_READ_LEN_REG_VALUE", 0)
          /\ TypeNextAt(2, "SET_READ_LEN_REG_VALUE") = 2
        BY PendingIs DEF InOps
    <2> HIDE DEF o
    <2>2. o.code = "SET_READ_LEN_REG_VALUE" /\ o.post = "SKIP" BY <2>1 DEF Op
    <2> HIDE DEF r, a
    <2>3. ASSUME After(call, k, o, 2, << >>, c, d, f) PROVE BufferLen(call, k, d, f)
        BY <1>1, <1>5, <2>2, <2>3 DEF After, Computes, BufferLen, r, a
    <2>4. Plain(o) /\ o.code \notin Saving /\ o.code # "SKIP"
        BY <2>2 DEF Plain, Filtering, Saving
    <2> QED BY <1>2, <1>5, <2>1, <2>3, <2>4, QuietLeads DEF o
<1>6. CASE InType(call, k, c, e, 2, "SKIP", << >>) /\ c.read_len = Least(MaxBytes, r)
    <2> DEFINE o == TypeOp(call, k, 2, "SKIP")
               x == BytesAt(c.read_addr, Least(c.read_len, MaxBytes))
    <2>1. /\ InOps(call, k, 2, "SKIP") /\ o = Op("SAVE_STRUCT", 0)
          /\ TypeNextAt(2, "SKIP") = 3 /\ Len(TypeOps(t)) = 3
        BY <1>1, BufferKeys, TypeOpIs DEF InOps
    <2> HIDE DEF o
    <2>2. o.code = "SAVE_STRUCT" /\ o.post = "SKIP" BY <2>1 DEF Op
    <2>3. c.read_len \in Nat /\ c.read_len <= MaxBytes /\ c.read_addr \in Int
        BY <1>1, <1>3, <1>6, ArgAssumption, LeastType
    <2>4. Least(c.read_len, MaxBytes) = Least(MaxBytes, r)
        BY <1>6, <2>3, ArgAssumption DEF Least
    <2>5. Append(<< >>, x) = Body(call, k)
        <3>1. ReadMore(call.point.args[k]) BY <1>6 DEF InType
        <3>2. Body(call, k) = << BytesAt(a, Least(MaxBytes, r)) >>
            BY <1>1, <3>1 DEF Body, Content
        <3> QED BY <1>1, <2>4, <3>2
    <2>6. << >> \in Seq(Element) OBVIOUS
    <2>7. ~IsString(t) /\ TextAddress(call, k) = a BY <1>1 DEF IsString, TextAddress
    <2>8. x = BytesAt(c.read_addr, Least(c.read_len, MaxBytes)) OBVIOUS
    <2> HIDE DEF r, a, x
    <2>9. ASSUME After(call, k, o, 3, Append(<< >>, x), c, d, f) PROVE Onward(call, k, d, f)
        <3>1. /\ InType(call, k, d, f, 3, "SKIP", Body(call, k)) /\ d.loop_count = 0
              /\ d.read_addr = TextAddress(call, k)
            BY <1>1, <2>2, <2>5, <2>7, <2>9 DEF After, Computes
        <3> QED BY <2>1, <2>7, <3>1, TypeEnds
    <2> QED BY <1>6, <2>1, <2>2, <2>3, <2>6, <2>8, <2>9, SaveLeads DEF o
<1> QED BY <1>1, <1>4, <1>5, <1>6

LEMMA StringKeys ==
    ASSUME NEW t
    PROVE  /\ t.name = "string" =>
                 Len(TypeOps(t)) = 1 /\ TypeOps(t)[1] = Op("SAVE_STRING", 0)
           /\ t.name = "std" => /\ Len(TypeOps(t)) = 2
                                /\ TypeOps(t)[1] = Op("READ_STD_STRING", 0)
                                /\ TypeOps(t)[2] = Op("SAVE_STRING", 0)
BY DEF TypeOps

\* The last opcode of a string: it also notes the length for the rules.
LEMMA StringLeads ==
    ASSUME NEW call, IsCall(call), NEW k \in DOMAIN call.point.args,
           NEW c, NEW e, NEW d, NEW f, NEW n, InType(call, k, c, e, n, "SKIP", << >>),
           InOps(call, k, n, "SKIP"), c.loop_count = 0, c.read_addr = TextAddress(call, k),
           LET t == call.point.args[k].type
           IN  /\ IsString(t) /\ Len(TypeOps(t)) = n + 1
               /\ TypeOps(t)[n + 1] = Op("SAVE_STRING", 0)
    PROVE  Leads(call, k, c, e, d, f)
<1> DEFINE t == call.point.args[k].type
           o == TypeOp(call, k, n, "SKIP")
           m == TypeNextAt(n, "SKIP")
           x == StringAt(c.read_addr)
<1>1. o = Op("SAVE_STRING", 0) /\ m = Len(TypeOps(t)) BY TypeOpIs
<1>2. c.read_addr \in Int
    <2>1. AddressOf(call, k) \in Int BY AddressType
    <2> QED BY <2>1, WordAtType DEF TextAddress, StringData
<1>3. Append(<< >>, x) = Body(call, k)
    <2>1. ReadMore(call.point.args[k]) BY Zenon DEF InType
    <2>2. Body(call, k) = << StringAt(TextAddress(call, k)) >>
        BY <2>1 DEF Body, Content, TextAddress, IsString
    <2> QED BY <2>2
<1>4. o = TypeOp(call, k, n, "SKIP") /\ m = TypeNextAt(n, "SKIP") /\ x = StringAt(c.read_addr)
    OBVIOUS
<1> HIDE DEF o, m, x
<1>5. o.code = "SAVE_STRING" /\ o.post = "SKIP" BY <1>1 DEF Op
<1>6. ASSUME After(call, k, o, m, Append(<< >>, x), c, d, f) PROVE Onward(call, k, d, f)
    <2>1. /\ InType(call, k, d, f, Len(TypeOps(t)), "SKIP", Body(call, k)) /\ d.loop_count = 0
          /\ d.read_addr = c.read_addr
          /\ c.read_addr \in DOMAIN Text => d.str_len = Text[c.read_addr]
        BY <1>1, <1>3, <1>5, <1>6 DEF After, Computes
    <2> QED BY <2>1, TypeEnds
<1>7. << >> \in Seq(Element) OBVIOUS
<1> QED BY <1>2, <1>4, <1>5, <1>6, <1>7, SaveLeads

LEMMA StringStarts ==
    ASSUME NEW call, IsCall(call), ~ReturnsContent(call), NEW k \in DOMAIN call.point.args,
           NEW c, NEW e, NEW d, NEW f,
           LET arg == call.point.args[k]
           IN  /\ ReadMore(arg) /\ AtValue(call, k, Len(ValueFilters(arg)), c, e)
               /\ IsString(arg.type)
    PROVE  Leads(call, k, c, e, d, f)
<1> DEFINE t == call.point.args[k].type
           o == TypeOp(call, k, 0, "SKIP")
<1>1. t.name \in {"string", "std"} BY DEF IsString
<1>2. InType(call, k, c, e, 0, "SKIP", << >>) /\ c.loop_count = 0 /\ c.read_addr = AddressOf(call, k)
    BY <1>1, TypeStarts
<1>3. CASE t.name = "string"
    <2>1. Len(TypeOps(t)) = 0 + 1 /\ TypeOps(t)[0 + 1] = Op("SAVE_STRING", 0)
        BY <1>3, StringKeys
    <2>2. InOps(call, k, 0, "SKIP") BY <2>1 DEF InOps
    <2>3. TextAddress(call, k) = AddressOf(call, k) BY <1>3 DEF TextAddress
    <2> QED BY <1>2, <2>1, <2>2, <2>3, StringLeads
<1>4. CASE t.name = "std"
    <2>1. /\ InOps(call, k, 0, "SKIP") /\ o = Op("READ_STD_STRING", 0)
          /\ TypeNextAt(0, "SKIP") = 1
        BY <1>4, StringKeys, TypeOpIs DEF InOps
    <2> HIDE DEF o
    <2>2. o.code = "READ_STD_STRING" /\ o.post = "SKIP" BY <2>1 DEF Op
    <2>3. TextAddress(call, k) = StringData(AddressOf(call, k)) BY <1>4 DEF TextAddress
    <2>4. ASSUME After(call, k, o, 1, << >>, c, d, f) PROVE StdRead(call, k, d, f)
        BY <1>2, <1>4, <2>2, <2>3, <2>4 DEF After, Computes, StdRead
    <2>5. Plain(o) /\ o.code \notin Saving /\ o.code # "SKIP"
        BY <2>2 DEF Plain, Filtering, Saving
    <2>6. StdRead(call, k, d, f) => Onward(call, k, d, f) BY DEF Onward, Inside, InContent
    <2> QED BY <1>2, <2>1, <2>4, <2>5, <2>6, QuietLeads DEF o
<1> QED BY <1>1, <1>3, <1>4

LEMMA StdReadLeads ==
    ASSUME NEW call, IsCall(call), NEW k \in DOMAIN call.point.args,
           NEW c, NEW e, NEW d, NEW f, StdRead(call, k, c, e)
    PROVE  Leads(call, k, c, e, d, f)
<1> DEFINE t == call.point.args[k].type
<1>1. /\ t.name = "std" /\ InType(call, k, c, e, 1, "SKIP", << >>)
      /\ c.loop_count = 0 /\ c.read_addr = TextAddress(call, k)
    BY DEF StdRead
<1>2. Len(TypeOps(t)) = 1 + 1 /\ TypeOps(t)[1 + 1] = Op("SAVE_STRING", 0) BY <1>1, StringKeys
<1>3. InOps(call, k, 1, "SKIP") /\ IsString(t) BY <1>1, <1>2 DEF InOps, IsString
<1> QED BY <1>1, <1>2, <1>3, StringLeads

-----------------------------------------------------------------------------
(* Loops, and arrays of strings.                                             *)

Counted(o, c) == CASE o.code = "SET_BREAK_COUNT" -> BreakCount(o.value)
                   [] o.code = "SET_BREAK_COUNT_REG_VALUE" -> BreakCount(c.reg_value)
                   [] o.code = "SET_BREAK_COUNT_POINTER_VALUE" -> BreakCount(c.pointer_value)

\* An opcode that sets the break count.
LEMMA CountLeads ==
    ASSUME NEW call, IsCall(call), NEW k \in DOMAIN call.point.args,
           NEW c, NEW e, NEW d, NEW f, NEW n, NEW post, NEW part,
           InType(call, k, c, e, n, post, part), InOps(call, k, n, post),
           NEW o, o = TypeOp(call, k, n, post), o.code \in Counting,
           NEW m, m = TypeNextAt(n, post),
           After(call, k, o, m, part, c, d, f) /\ d.break_count = Counted(o, c)
               => Onward(call, k, d, f)
    PROVE  Leads(call, k, c, e, d, f)
<1>1. NextKey(call, c) = o BY TypeNext
<1>2. Plain(o) /\ o.code \notin Saving /\ o.code # "SKIP"
    BY DEF Plain, Filtering, Saving, Counting
<1>3. SUFFICES ASSUME Takes(call, c, e, d, f)
               PROVE  After(call, k, o, m, part, c, d, f) /\ d.break_count = Counted(o, c)
    BY <1>1, <1>2 DEF Leads
<1>4. After(call, k, o, m, part, c, d, f) BY <1>2, <1>3, TypeMoves DEF After
<1>5. d.break_count = Counted(o, c)
    <2>1. Loops(o, c, NextIndex(c), d) BY <1>1, <1>3 DEF Takes, Goes
    <2> QED BY <2>1 DEF Loops, Counted, Counting
<1> QED BY <1>4, <1>5

\* What the start or the end of a loop leaves alone.
SameValues(c, d) ==
    /\ d.reg_value = c.reg_value /\ d.pointer_value = c.pointer_value
    /\ d.read_addr = c.read_addr /\ d.tmp_value = c.tmp_value

LoopLeft(call, k, m, part, c, d, f) ==
    /\ SameValues(c, d) /\ d.loop_count = 0 /\ d.break_count = 0
    /\ InType(call, k, d, f, m, "SKIP", part)

LoopAgain(call, k, m, part, c, d, f) ==
    /\ SameValues(c, d) /\ d.loop_count = c.loop_count + 1 /\ d.break_count = c.break_count
    /\ d.loop_index = TypeAt(call, k) + m /\ InType(call, k, d, f, m, "SKIP", part)

\* Where a loop goes on, for the body that begins at opcode m.
LEMMA LoopLeads ==
    ASSUME NEW call, IsCall(call), NEW k \in DOMAIN call.point.args,
           NEW c, NEW e, NEW d, NEW f, NEW n, NEW part,
           InType(call, k, c, e, n, "SKIP", part), InOps(call, k, n, "SKIP"),
           TypeOps(call.point.args[k].type)[n + 1] = Op("FOR_BREAK", 0),
           NEW m, IF c.loop_count = 0 THEN m = n + 1 ELSE c.loop_index = TypeAt(call, k) + m,
           c.loop_count >= c.break_count /\ LoopLeft(call, k, n + 1, part, c, d, f)
               => Onward(call, k, d, f),
           ~(c.loop_count >= c.break_count) /\ LoopAgain(call, k, m, part, c, d, f)
               => Onward(call, k, d, f)
    PROVE  Leads(call, k, c, e, d, f)
<1> DEFINE o == Op("FOR_BREAK", 0)
<1>1. NextKey(call, c) = o /\ NextIndex(c) = TypeAt(call, k) + (n + 1) BY TypeNext, TypeOpIs
<1>2. o.code = "FOR_BREAK" /\ o.post = "SKIP" BY DEF Op
<1> HIDE DEF o
<1>3. SUFFICES ASSUME Takes(call, c, e, d, f) PROVE Onward(call, k, d, f)
    BY <1>1, <1>2 DEF Leads
<1> DEFINE p == TypeAt(call, k) + (n + 1)
<1>4. Goes(call, o, p, c, d) /\ Saves(o, c, e, f) BY <1>1, <1>3 DEF Takes
<1>5. f = e BY <1>2, <1>4 DEF Saves
<1>6. SameFlags(c, d) BY <1>2, <1>4 DEF Goes, Judges
<1>7. SameValues(c, d) BY <1>2, <1>4 DEF Goes, Computes, SameValues
<1>8. LET arg == call.point.args[k]
      IN  /\ ReadMore(arg) /\ ~arg.is_ret
          /\ Verdict(call, c, k, Len(ValueFilters(arg))) /\ Holds(call, k, e, part)
    BY DEF InType
<1>9. Verdict(call, d, k, Len(ValueFilters(call.point.args[k]))) BY <1>6, <1>8, VerdictStays
<1>10. d.post_code = "SKIP" /\ Loops(o, c, p, d) BY <1>2, <1>4 DEF Goes
<1> HIDE DEF p
<1>11. CASE c.loop_count >= c.break_count
    <2>1. d.op_key_index = p /\ d.loop_count = 0 /\ d.break_count = 0
        BY <1>2, <1>10, <1>11 DEF Loops
    <2>2. InType(call, k, d, f, n + 1, "SKIP", part)
        BY <1>5, <1>8, <1>9, <1>10, <2>1 DEF InType, At, p
    <2> QED BY <1>7, <1>11, <2>1, <2>2 DEF LoopLeft
<1>12. CASE ~(c.loop_count >= c.break_count)
    <2>1. /\ d.op_key_index = (IF c.loop_count = 0 THEN p ELSE c.loop_index)
          /\ d.loop_index = d.op_key_index
          /\ d.loop_count = c.loop_count + 1 /\ d.break_count = c.break_count
        BY <1>2, <1>10, <1>12 DEF Loops
    <2>2. d.op_key_index = TypeAt(call, k) + m BY <2>1 DEF p
    <2>3. InType(call, k, d, f, m, "SKIP", part)
        BY <1>5, <1>8, <1>9, <1>10, <2>2 DEF InType, At
    <2> QED BY <1>7, <1>12, <2>1, <2>2, <2>3 DEF LoopAgain
<1> QED BY <1>11, <1>12

LEMMA StringsKeys ==
    ASSUME NEW t, t.name = "string_array"
    PROVE  /\ Len(TypeOps(t)) = 5 /\ TypeOps(t)[1] = Op("SET_BREAK_COUNT", MaxLoop)
           /\ TypeOps(t)[2] = Op("FOR_BREAK", 0) /\ TypeOps(t)[3] = Op("SAVE_PTR_STRING", 0)
           /\ TypeOps(t)[4] = Op("ADD_OFFSET", PtrSize) /\ TypeOps(t)[5] = Op("FOR_BREAK", 0)
BY DEF TypeOps

LEMMA StringsStart ==
    ASSUME NEW call, IsCall(call), ~ReturnsContent(call), NEW k \in DOMAIN call.point.args,
           NEW c, NEW e, NEW d, NEW f,
           LET arg == call.point.args[k]
           IN  /\ ReadMore(arg) /\ AtValue(call, k, Len(ValueFilters(arg)), c, e)
               /\ arg.type.name = "string_array"
    PROVE  Leads(call, k, c, e, d, f)
<1> DEFINE o == TypeOp(call, k, 0, "SKIP")
<1>1. InType(call, k, c, e, 0, "SKIP", << >>) /\ c.loop_count = 0 /\ c.read_addr = AddressOf(call, k)
    BY TypeStarts
<1>2. /\ InOps(call, k, 0, "SKIP") /\ o = Op("SET_BREAK_COUNT", MaxLoop)
      /\ TypeNextAt(0, "SKIP") = 1
    BY StringsKeys, TypeOpIs DEF InOps
<1> HIDE DEF o
<1>3. o.code = "SET_BREAK_COUNT" /\ o.value = MaxLoop /\ o.post = "SKIP" BY <1>2 DEF Op
<1>4. Counted(o, c) = MaxLoop
    <2>1. BreakCount(MaxLoop) = MaxLoop BY ArgAssumption DEF BreakCount, Least
    <2> QED BY <1>3, <2>1 DEF Counted
<1>5. ASSUME After(call, k, o, 1, << >>, c, d, f), d.break_count = Counted(o, c)
      PROVE  AtStrings(call, k, d, f)
    BY <1>1, <1>3, <1>4, <1>5 DEF After, Computes, AtStrings
<1>6. o.code \in Counting BY <1>3 DEF Counting
<1>7. AtStrings(call, k, d, f) => Onward(call, k, d, f) BY DEF Onward, Inside, InContent
<1> QED BY <1>1, <1>2, <1>5, <1>6, <1>7, CountLeads DEF o

LEMMA AtStringsLeads ==
    ASSUME NEW call, IsCall(call), NEW k \in DOMAIN call.point.args,
           NEW c, NEW e, NEW d, NEW f, AtStrings(call, k, c, e)
    PROVE  Leads(call, k, c, e, d, f)
<1> DEFINE t == call.point.args[k].type
           a == AddressOf(call, k)
<1>1. /\ t.name = "string_array" /\ InType(call, k, c, e, 1, "SKIP", << >>)
      /\ c.loop_count = 0 /\ c.break_count = MaxLoop /\ c.read_addr = a
    BY DEF AtStrings
<1>2. /\ InOps(call, k, 1, "SKIP") /\ TypeOps(t)[1 + 1] = Op("FOR_BREAK", 0)
    BY <1>1, StringsKeys DEF InOps
<1>3. MaxLoop \in Nat \ {0} /\ a \in Int BY ArgAssumption, AddressType
<1>4. ~(c.loop_count >= c.break_count) BY <1>1, <1>3
<1>5. Strs(a, 1 - 1) = << >>
    <2>1. Strs(a, 0) = << >>
        <3>1. 0 \in Nat OBVIOUS
        <3> QED BY <1>3, <3>1, StrsGrow
    <2> QED BY <2>1
<1>6. Good(call, k, 1 - 1) BY DEF Good
<1>7. a + PtrSize * (1 - 1) = a BY <1>3 DEF PtrSize
<1>8. 1 \in 1 .. MaxLoop BY <1>3
<1>9. 2 = 1 + 1 /\ 0 + 1 = 1 OBVIOUS
<1> HIDE DEF a, t
<1> DEFINE n == 1
           m == 2
<1>10. ASSUME LoopAgain(call, k, m, << >>, c, d, f) PROVE Onward(call, k, d, f)
    <2>1. d.loop_count = 1 /\ d.break_count = MaxLoop /\ d.read_addr = a
        BY <1>1, <1>9, <1>10 DEF LoopAgain, SameValues
    <2>2. InType(call, k, d, f, 2, "SKIP", Strs(a, 1 - 1)) BY <1>5, <1>10 DEF LoopAgain
    <2>3. d.read_addr = a + PtrSize * (1 - 1) BY <1>7, <2>1
    <2>4. InStrings(call, k, 1, d, f)
        BY <1>1, <1>6, <1>8, <1>10, <2>1, <2>2, <2>3 DEF LoopAgain, InStrings, a, t
    <2> QED BY <1>8, <2>4 DEF Onward, Inside, InContent
<1>11. /\ InType(call, k, c, e, n, "SKIP", << >>) /\ InOps(call, k, n, "SKIP")
       /\ TypeOps(t)[n + 1] = Op("FOR_BREAK", 0)
       /\ IF c.loop_count = 0 THEN m = n + 1 ELSE c.loop_index = TypeAt(call, k) + m
    BY <1>1, <1>2
<1> HIDE DEF n, m
<1> QED BY <1>4, <1>10, <1>11, LoopLeads DEF t

PtrSaved(call, k, m, part, known, c, d, f) ==
    /\ InType(call, k, d, f, m, "SKIP", part)
    /\ d.read_addr = c.read_addr /\ d.loop_index = c.loop_index
    /\ d.break_count = c.break_count
    /\ d.loop_count = IF known THEN c.loop_count ELSE c.break_count

\* A pointer and its string, or the mark that ends the array.
LEMMA PtrLeads ==
    ASSUME NEW call, IsCall(call), NEW k \in DOMAIN call.point.args,
           NEW c, NEW e, NEW d, NEW f, NEW n, NEW part \in Seq(Element),
           InType(call, k, c, e, n, "SKIP", part), InOps(call, k, n, "SKIP"),
           TypeOps(call.point.args[k].type)[n + 1] = Op("SAVE_PTR_STRING", 0),
           NEW x, x = WordAt(c.read_addr),
           NEW y, y = IF x \in DOMAIN Text THEN StringAt(x) ELSE Block(MagicLen, 0),
           PtrSaved(call, k, n + 1, Append(Append(part, RegElem(x)), y), x \in DOMAIN Text, c, d, f)
               => Onward(call, k, d, f)
    PROVE  Leads(call, k, c, e, d, f)
<1> DEFINE o == Op("SAVE_PTR_STRING", 0)
           p == TypeAt(call, k) + (n + 1)
<1>1. NextKey(call, c) = o /\ NextIndex(c) = p BY TypeNext, TypeOpIs
<1>2. o.code = "SAVE_PTR_STRING" /\ o.post = "SKIP" BY DEF Op
<1> HIDE DEF o
<1>3. SUFFICES ASSUME Takes(call, c, e, d, f) PROVE Onward(call, k, d, f)
    BY <1>1, <1>2 DEF Leads
<1>4. Goes(call, o, p, c, d) /\ Saves(o, c, e, f) BY <1>1, <1>3 DEF Takes
<1> HIDE DEF p
<1>5. f = Append(Append(e, RegElem(x)), y) BY <1>2, <1>4 DEF Saves
<1>6. SameFlags(c, d) BY <1>2, <1>4 DEF Goes, Judges
<1>7. d.read_addr = c.read_addr BY <1>2, <1>4 DEF Goes, Computes
<1>8. /\ At(d, p, "SKIP") /\ d.loop_index = c.loop_index /\ d.break_count = c.break_count
      /\ d.loop_count = IF x \in DOMAIN Text THEN c.loop_count ELSE c.break_count
    BY <1>2, <1>4 DEF Goes, Loops, At
<1>9. LET arg == call.point.args[k]
      IN  /\ ReadMore(arg) /\ ~arg.is_ret
          /\ Verdict(call, c, k, Len(ValueFilters(arg))) /\ Holds(call, k, e, part)
    BY DEF InType
<1>10. Verdict(call, d, k, Len(ValueFilters(call.point.args[k]))) BY <1>6, <1>9, VerdictStays
<1>11. x \in Int /\ RegElem(x) \in Element /\ y \in Element
    <2>1. x \in Int BY WordAtType
    <2>2. MagicLen \in Nat BY ArgAssumption
    <2> QED BY <2>1, <2>2, ElementType
<1> DEFINE one == Append(part, RegElem(x))
           mid == Append(e, RegElem(x))
<1>12. Holds(call, k, mid, one) BY <1>9, <1>11, HoldsMore
<1>13. one \in Seq(Element) BY <1>11
<1>14. f = Append(mid, y) BY <1>5
<1> HIDE DEF one, mid
<1>15. Holds(call, k, f, Append(one, y)) BY <1>11, <1>12, <1>13, <1>14, HoldsMore
<1>16. InType(call, k, d, f, n + 1, "SKIP", Append(one, y))
    BY <1>8, <1>9, <1>10, <1>15 DEF InType, p
<1> QED BY <1>7, <1>8, <1>16 DEF PtrSaved, one

\* A string more, or the end of the array.
LEMMA StringNext ==
    ASSUME NEW call, IsCall(call), NEW k \in DOMAIN call.point.args, NEW q \in 1 .. MaxLoop,
           NEW c, NEW e, NEW d, NEW f, call.point.args[k].type.name = "string_array",
           c.break_count = MaxLoop, c.loop_index = TypeAt(call, k) + 2,
           InType(call, k, c, e, 2, "SKIP", Strs(AddressOf(call, k), q - 1)),
           c.loop_count = q, Good(call, k, q - 1),
           c.read_addr = AddressOf(call, k) + PtrSize * (q - 1)
    PROVE  Leads(call, k, c, e, d, f)
<1> DEFINE a == AddressOf(call, k)
           t == call.point.args[k].type
           x == WordAt(c.read_addr)
           y == IF x \in DOMAIN Text THEN StringAt(x) ELSE Block(MagicLen, 0)
           part == Strs(a, q - 1)
           n == 2
<1>1. InOps(call, k, n, "SKIP") /\ TypeOps(t)[n + 1] = Op("SAVE_PTR_STRING", 0)
    BY StringsKeys DEF InOps
<1>2. MaxLoop \in Nat /\ q - 1 \in Nat /\ (q - 1) + 1 = q /\ q <= MaxLoop /\ a \in Int
    BY ArgAssumption, AddressType
<1>3. part \in Seq(Element) /\ Strs(a, q) = Append(Append(part, RegElem(Ptr(a, q))), StringAt(Ptr(a, q)))
    <2> DEFINE w == q - 1
    <2>1. w \in Nat /\ w + 1 = q BY <1>2
    <2> HIDE DEF w
    <2>2. /\ Strs(a, w) \in Seq(Element)
          /\ Strs(a, w + 1) = Append(Append(Strs(a, w), RegElem(Ptr(a, w + 1))), StringAt(Ptr(a, w + 1)))
        BY <1>2, <2>1, StrsGrow
    <2> QED BY <2>1, <2>2 DEF w
<1>4. x = Ptr(a, q) BY DEF Ptr
<1>5. InType(call, k, c, e, n, "SKIP", part) OBVIOUS
<1>6. x = WordAt(c.read_addr) /\ y = IF x \in DOMAIN Text THEN StringAt(x) ELSE Block(MagicLen, 0)
    OBVIOUS
<1>7. ASSUME PtrSaved(call, k, n + 1, Append(Append(part, RegElem(x)), y), x \in DOMAIN Text, c, d, f)
      PROVE  Onward(call, k, d, f)
    <2>1. n + 1 = 3 OBVIOUS
    <2> HIDE DEF x, y, part, n, a
    <2>2. /\ InType(call, k, d, f, 3, "SKIP", Append(Append(part, RegElem(x)), y))
          /\ d.read_addr = c.read_addr /\ d.loop_index = TypeAt(call, k) + 2
          /\ d.break_count = MaxLoop
          /\ d.loop_count = IF x \in DOMAIN Text THEN q ELSE MaxLoop
        BY <1>7, <2>1 DEF PtrSaved
    <2>3. CASE x \in DOMAIN Text
        <3>1. Append(Append(part, RegElem(x)), y) = Strs(a, q) BY <1>3, <1>4, <1>6, <2>3
        <3>2. Good(call, k, q)
            <4>1. \A j \in 1 .. q : j = q \/ j \in 1 .. q - 1 BY <1>2
            <4> QED BY <1>4, <2>3, <4>1 DEF Good, a
        <3>3. InStrings(call, k, q, d, f)
            BY <2>2, <2>3, <3>1, <3>2 DEF InStrings, a
        <3> QED BY <3>3 DEF Onward, Inside, InContent
    <2>4. CASE x \notin DOMAIN Text
        <3>1. StringsAt(a) = part \o << RegElem(x), Block(MagicLen, 0) >>
            <4> DEFINE w == q - 1
            <4>1. w \in 0 .. MaxLoop /\ w < MaxLoop /\ w + 1 = q BY <1>2
            <4>2. \A j \in 1 .. w : Ptr(a, j) \in DOMAIN Text BY DEF Good, a
            <4>3. part = Strs(a, w) BY DEF part
            <4> HIDE DEF w
            <4>4. Ptr(a, w + 1) \notin DOMAIN Text BY <1>4, <2>4, <4>1
            <4>5. StringsAt(a) = Strs(a, w) \o (IF w < MaxLoop
                                               THEN << RegElem(Ptr(a, w + 1)), Block(MagicLen, 0) >>
                                               ELSE << >>)
                BY <1>2, <4>1, <4>2, <4>4, StringsAtIs
            <4> QED BY <1>4, <4>1, <4>3, <4>5
        <3>2. RegElem(x) \in Element /\ Block(MagicLen, 0) \in Element
            <4>1. x \in Int BY <1>4, WordAtType DEF Ptr
            <4>2. MagicLen \in Nat BY ArgAssumption
            <4> QED BY <4>1, <4>2, ElementType
        <3>3. StringsAt(a) = Append(Append(part, RegElem(x)), y)
            <4> DEFINE s == RegElem(x)
                       u == Block(MagicLen, 0)
            <4>1. s \in Element /\ u \in Element /\ y = u BY <1>6, <2>4, <3>2
            <4> HIDE DEF s, u
            <4>2. part \o << s, u >> = Append(Append(part, s), u) BY <1>3, <4>1, TwoMore
            <4> QED BY <3>1, <4>1, <4>2 DEF s, u
        <3>4. InStrings(call, k, q, d, f)
            BY <2>2, <2>4, <3>3 DEF InStrings, a
        <3> QED BY <3>4 DEF Onward, Inside, InContent
    <2> QED BY <2>3, <2>4
<1> HIDE DEF x, y, part, n, a
<1> QED BY <1>1, <1>3, <1>5, <1>6, <1>7, PtrLeads

\* The end of the body: one more turn, or the end of the content.
LEMMA StringsTurn ==
    ASSUME NEW call, IsCall(call), NEW k \in DOMAIN call.point.args, NEW q \in 1 .. MaxLoop,
           NEW c, NEW e, NEW d, NEW f, call.point.args[k].type.name = "string_array",
           c.break_count = MaxLoop, c.loop_index = TypeAt(call, k) + 2,
           LET a == AddressOf(call, k)
           IN  \/ /\ InType(call, k, c, e, 4, "SKIP", Strs(a, q)) /\ c.read_addr = a + PtrSize * q
                  /\ c.loop_count = q /\ Good(call, k, q)
               \/ InType(call, k, c, e, 4, "SKIP", StringsAt(a)) /\ c.loop_count = MaxLoop
    PROVE  Leads(call, k, c, e, d, f)
<1> DEFINE a == AddressOf(call, k)
           t == call.point.args[k].type
           n == 4
           m == 2
<1>1. MaxLoop \in Nat \ {0} /\ q \in Nat \ {0} /\ q <= MaxLoop /\ a \in Int
    BY ArgAssumption, AddressType
<1>2. InOps(call, k, n, "SKIP") /\ TypeOps(t)[n + 1] = Op("FOR_BREAK", 0) /\ n + 1 = Len(TypeOps(t))
    BY StringsKeys DEF InOps
<1>3. c.loop_count # 0 /\ c.loop_index = TypeAt(call, k) + m BY <1>1
<1>4. ~IsString(t) /\ ~IsBuffer(t) BY DEF IsString, IsBuffer
<1> HIDE DEF n, a
<1>5. ASSUME LoopLeft(call, k, n + 1, StringsAt(a), c, d, f) PROVE Onward(call, k, d, f)
    <2>1. InType(call, k, d, f, Len(TypeOps(t)), "SKIP", StringsAt(a)) /\ d.loop_count = 0
        BY <1>2, <1>5 DEF LoopLeft
    <2>2. Body(call, k) = StringsAt(a) BY <2>1 DEF Body, Content, InType, a
    <2> QED BY <1>4, <2>1, <2>2, TypeEnds
<1>6. CASE InType(call, k, c, e, n, "SKIP", StringsAt(a)) /\ c.loop_count = MaxLoop
    <2>1. c.loop_count >= c.break_count BY <1>1, <1>6
    <2> HIDE DEF m, t
    <2> QED BY <1>2, <1>3, <1>5, <1>6, <2>1, LoopLeads DEF t
<1>7. CASE /\ InType(call, k, c, e, n, "SKIP", Strs(a, q)) /\ c.read_addr = a + PtrSize * q
           /\ c.loop_count = q /\ Good(call, k, q)
    <2>1. ASSUME c.loop_count >= c.break_count, LoopLeft(call, k, n + 1, Strs(a, q), c, d, f)
          PROVE  Onward(call, k, d, f)
        <3>1. q = MaxLoop /\ q \in 0 .. MaxLoop /\ ~(q < MaxLoop) BY <1>1, <1>7, <2>1
        <3>2. \A j \in 1 .. q : Ptr(a, j) \in DOMAIN Text BY <1>7 DEF Good, a
        <3>3. StringsAt(a) = Strs(a, q) \o (IF q < MaxLoop
                                           THEN << RegElem(Ptr(a, q + 1)), Block(MagicLen, 0) >>
                                           ELSE << >>)
            BY <1>1, <3>1, <3>2, StringsAtIs
        <3>4. StringsAt(a) = Strs(a, q) \o << >> BY <3>1, <3>3
        <3>5. Strs(a, q) \in Seq(Element) BY <1>1, StrsGrow
        <3>6. StringsAt(a) = Strs(a, q) BY <3>4, <3>5
        <3> QED BY <1>5, <2>1, <3>6
    <2>2. ASSUME ~(c.loop_count >= c.break_count), LoopAgain(call, k, m, Strs(a, q), c, d, f)
          PROVE  Onward(call, k, d, f)
        <3> DEFINE w == q + 1
        <3>1. w \in 1 .. MaxLoop /\ w - 1 = q BY <1>1, <1>7, <2>2
        <3> HIDE DEF w
        <3>2. /\ d.loop_count = w /\ d.break_count = MaxLoop /\ d.read_addr = a + PtrSize * q
              /\ d.loop_index = TypeAt(call, k) + 2
              /\ InType(call, k, d, f, 2, "SKIP", Strs(a, q))
            BY <1>7, <2>2 DEF LoopAgain, SameValues, w
        <3>3. InStrings(call, k, w, d, f)
            BY <1>7, <3>1, <3>2 DEF InStrings, a
        <3> QED BY <3>1, <3>3 DEF Onward, Inside, InContent
    <2> HIDE DEF m, t
    <2>3. IF c.loop_count = 0 THEN m = n + 1 ELSE c.loop_index = TypeAt(call, k) + m BY <1>3
    <2> QED BY <1>2, <1>7, <2>1, <2>2, <2>3, LoopLeads DEF t
<1> QED BY <1>6, <1>7 DEF n, a

LEMMA InStringsLeads ==
    ASSUME NEW call, IsCall(call), NEW k \in DOMAIN call.point.args, NEW q \in 1 .. MaxLoop,
           NEW c, NEW e, NEW d, NEW f, InStrings(call, k, q, c, e)
    PROVE  Leads(call, k, c, e, d, f)
<1> DEFINE a == AddressOf(call, k)
           t == call.point.args[k].type
           o == TypeOp(call, k, 3, "SKIP")
<1>1. /\ t.name = "string_array" /\ c.break_count = MaxLoop
      /\ c.loop_index = TypeAt(call, k) + 2
    BY DEF InStrings
<1>2. /\ InOps(call, k, 3, "SKIP") /\ o = Op("ADD_OFFSET", PtrSize) /\ TypeNextAt(3, "SKIP") = 4
    <2>1. Len(TypeOps(t)) = 5 /\ TypeOps(t)[3 + 1] = Op("ADD_OFFSET", PtrSize)
        BY <1>1, StringsKeys
    <2>2. InOps(call, k, 3, "SKIP") BY <2>1 DEF InOps
    <2>3. o = TypeOps(t)[3 + 1] /\ TypeNextAt(3, "SKIP") = 3 + 1 BY TypeOpIs
    <2> QED BY <2>1, <2>2, <2>3
<1>3. a \in Int /\ q \in Nat BY ArgAssumption, AddressType
<1>4. CASE /\ InType(call, k, c, e, 2, "SKIP", Strs(a, q - 1))
           /\ c.loop_count = q /\ Good(call, k, q - 1) /\ c.read_addr = a + PtrSize * (q - 1)
    BY <1>1, <1>4, StringNext
<1>5. CASE \/ /\ InType(call, k, c, e, 4, "SKIP", Strs(a, q)) /\ c.read_addr = a + PtrSize * q
              /\ c.loop_count = q /\ Good(call, k, q)
           \/ InType(call, k, c, e, 4, "SKIP", StringsAt(a)) /\ c.loop_count = MaxLoop
    BY <1>1, <1>5, StringsTurn
<1>6. InStrings(call, k, q, d, f) => Onward(call, k, d, f) BY DEF Onward, Inside, InContent
<1> HIDE DEF o
<1>7. o.code = "ADD_OFFSET" /\ o.value = PtrSize /\ o.post = "SKIP" BY <1>2 DEF Op
<1>8. Plain(o) /\ o.code \notin Saving /\ o.code # "SKIP" /\ o.code \notin Counting
    BY <1>7 DEF Plain, Filtering, Saving, Counting
<1>9. CASE /\ InType(call, k, c, e, 3, "SKIP", Strs(a, q))
           /\ c.read_addr = a + PtrSize * (q - 1) /\ c.loop_count = q /\ Good(call, k, q)
    <2>1. ASSUME After(call, k, o, 4, Strs(a, q), c, d, f) PROVE InStrings(call, k, q, d, f)
        <3>1. d.read_addr = c.read_addr + PtrSize BY <1>7, <2>1 DEF After, Computes
        <3>2. d.read_addr = a + PtrSize * q BY <1>3, <1>9, <3>1 DEF PtrSize
        <3> HIDE DEF a
        <3> QED BY <1>1, <1>7, <1>8, <1>9, <2>1, <3>2 DEF After, InStrings, a
    <2> HIDE DEF a
    <2> QED BY <1>2, <1>6, <1>8, <1>9, <2>1, QuietLeads DEF o
<1>10. CASE InType(call, k, c, e, 3, "SKIP", StringsAt(a)) /\ c.loop_count = MaxLoop
    <2> HIDE DEF a
    <2>1. ASSUME After(call, k, o, 4, StringsAt(a), c, d, f) PROVE InStrings(call, k, q, d, f)
        BY <1>1, <1>7, <1>8, <1>10, <2>1 DEF After, InStrings, a
    <2> QED BY <1>2, <1>6, <1>8, <1>10, <2>1, QuietLeads DEF o
<1> QED BY <1>4, <1>5, <1>9, <1>10 DEF InStrings

-----------------------------------------------------------------------------
(* Arrays of iovecs: the opcodes.                                            *)

LEMMA JoinedAt ==
    \A s, t \in Seq(Opcode) : /\ \A j \in 1 .. Len(s) : (s \o t)[j] = s[j]
                              /\ \A j \in 1 .. Len(t) : (s \o t)[Len(s) + j] = t[j]
OBVIOUS

LEMMA LoopKeys ==
    /\ IovecLoop[1] = Op("FOR_BREAK", 0) /\ IovecLoop[2] = Op("SET_TMP_VALUE", 0)
    /\ IovecLoop[3] = Op("SET_READ_LEN", IovecSize) /\ IovecLoop[4] = Op("SAVE_STRUCT", 0)
    /\ IovecLoop[5] = Op("SET_READ_LEN", MaxBytes)
    /\ IovecLoop[6] = ReadPtr(8, "SET_READ_LEN_POINTER_VALUE")
    /\ IovecLoop[7] = Op("READ_POINTER", 0) /\ IovecLoop[8] = Op("MOVE_POINTER_VALUE", 0)
    /\ IovecLoop[9] = Op("SAVE_STRUCT", 0) /\ IovecLoop[10] = Op("MOVE_TMP_VALUE", 0)
    /\ IovecLoop[11] = Op("ADD_OFFSET", IovecSize) /\ IovecLoop[12] = Op("FOR_BREAK", 0)
<1> DEFINE two == LoopHead \o IOVEC
<1>1. /\ LoopHead \in Seq(Opcode) /\ Len(LoopHead) = 2
      /\ IOVEC \in Seq(Opcode) /\ Len(IOVEC) = 7
      /\ LoopEnd \in Seq(Opcode) /\ Len(LoopEnd) = 3
      /\ IovecLoop = two \o LoopEnd
    BY IovecLoopIs
<1>2. two \in Seq(Opcode) /\ Len(two) = 9
    <2>1. two \in Seq(Opcode) /\ Len(two) = Len(LoopHead) + Len(IOVEC) BY <1>1, JoinedType
    <2> QED BY <1>1, <2>1
<1>12. LoopHead \in Seq(Opcode) /\ IOVEC \in Seq(Opcode) /\ LoopEnd \in Seq(Opcode) BY <1>1
<1>3. /\ \A j \in 1 .. Len(LoopHead) : two[j] = LoopHead[j]
      /\ \A j \in 1 .. Len(IOVEC) : two[Len(LoopHead) + j] = IOVEC[j]
    BY <1>12, JoinedAt
<1>13. two \in Seq(Opcode) /\ IovecLoop = two \o LoopEnd BY <1>1, <1>2
<1> HIDE DEF two
<1>4. /\ \A j \in 1 .. Len(two) : IovecLoop[j] = two[j]
      /\ \A j \in 1 .. Len(LoopEnd) : IovecLoop[Len(two) + j] = LoopEnd[j]
    BY <1>12, <1>13, JoinedAt
<1>5. two[1] = LoopHead[1] /\ two[2] = LoopHead[2] BY <1>1, <1>3
<1>6. /\ two[3] = IOVEC[1] /\ two[4] = IOVEC[2] /\ two[5] = IOVEC[3] /\ two[6] = IOVEC[4]
      /\ two[7] = IOVEC[5] /\ two[8] = IOVEC[6] /\ two[9] = IOVEC[7]
    <2>1. \A j \in 1 .. 7 : two[2 + j] = IOVEC[j] BY <1>1, <1>3
    <2> QED BY <2>1
<1>7. /\ IovecLoop[1] = two[1] /\ IovecLoop[2] = two[2] /\ IovecLoop[3] = two[3]
      /\ IovecLoop[4] = two[4] /\ IovecLoop[5] = two[5] /\ IovecLoop[6] = two[6]
      /\ IovecLoop[7] = two[7] /\ IovecLoop[8] = two[8] /\ IovecLoop[9] = two[9]
    BY <1>2, <1>4
<1>8. /\ IovecLoop[10] = LoopEnd[1] /\ IovecLoop[11] = LoopEnd[2]
      /\ IovecLoop[12] = LoopEnd[3]
    <2>1. \A j \in 1 .. 3 : IovecLoop[9 + j] = LoopEnd[j] BY <1>1, <1>2, <1>4
    <2> QED BY <2>1
<1>9. LoopHead[1] = Op("FOR_BREAK", 0) /\ LoopHead[2] = Op("SET_TMP_VALUE", 0) BY DEF LoopHead
<1>10. /\ IOVEC[1] = Op("SET_READ_LEN", IovecSize) /\ IOVEC[2] = Op("SAVE_STRUCT", 0)
       /\ IOVEC[3] = Op("SET_READ_LEN", MaxBytes)
       /\ IOVEC[4] = ReadPtr(8, "SET_READ_LEN_POINTER_VALUE")
       /\ IOVEC[5] = Op("READ_POINTER", 0) /\ IOVEC[6] = Op("MOVE_POINTER_VALUE", 0)
       /\ IOVEC[7] = Op("SAVE_STRUCT", 0)
    BY DEF IOVEC
<1>11. /\ LoopEnd[1] = Op("MOVE_TMP_VALUE", 0) /\ LoopEnd[2] = Op("ADD_OFFSET", IovecSize)
       /\ LoopEnd[3] = Op("FOR_BREAK", 0)
    BY DEF LoopEnd
<1> QED BY <1>5, <1>6, <1>7, <1>8, <1>9, <1>10, <1>11

IovecHead(t) == << ReadReg(t.reg, "SET_BREAK_COUNT_REG_VALUE"), Op("SAVE_REG", 0) >>

MsghdrHead ==
    << Op("SET_READ_LEN", MsghdrSize), Op("SAVE_STRUCT", 0), Op("SET_TMP_VALUE", 0),
       Op("SET_READ_LEN", MaxBytes), ReadPtr(40, "SET_READ_LEN_POINTER_VALUE"),
       ReadPtr(32, "MOVE_POINTER_VALUE"), Op("SAVE_STRUCT", 0), Op("MOVE_TMP_VALUE", 0),
       ReadPtr(24, "SET_BREAK_COUNT_POINTER_VALUE"), ReadPtr(16, "MOVE_POINTER_VALUE") >>

HeadOf(t) == IF t.name = "iovec" THEN IovecHead(t) ELSE MsghdrHead

LEMMA HeadIs ==
    ASSUME NEW t \in Type, t.name \in {"iovec", "msghdr"}
    PROVE  /\ TypeOps(t) = HeadOf(t) \o IovecLoop /\ HeadOf(t) \in Seq(Opcode)
           /\ Len(HeadOf(t)) = IF t.name = "iovec" THEN 2 ELSE 10
<1>1. CASE t.name = "iovec"
    <2>1. t.reg \in Nat BY DEF Type
    <2>2. ReadReg(t.reg, "SET_BREAK_COUNT_REG_VALUE") \in Opcode /\ Op("SAVE_REG", 0) \in Opcode
        BY <2>1, OpType DEF PostCodes, Codes
    <2>3. HeadOf(t) = IovecHead(t) BY <1>1 DEF HeadOf
    <2>4. TypeOps(t) = IovecHead(t) \o IovecLoop BY <1>1 DEF TypeOps, IovecHead
    <2>5. IovecHead(t) \in Seq(Opcode) /\ Len(IovecHead(t)) = 2 BY <2>2 DEF IovecHead
    <2> QED BY <1>1, <2>3, <2>4, <2>5
<1>2. CASE t.name = "msghdr"
    <2>1. HeadOf(t) = MsghdrHead BY <1>2 DEF HeadOf
    <2>2. TypeOps(t) = MsghdrHead \o IovecLoop BY <1>2 DEF TypeOps, MSGHDR, MsghdrHead
    <2>3. /\ Op("SET_READ_LEN", MsghdrSize) \in Opcode /\ Op("SAVE_STRUCT", 0) \in Opcode
          /\ Op("SET_TMP_VALUE", 0) \in Opcode /\ Op("SET_READ_LEN", MaxBytes) \in Opcode
          /\ ReadPtr(40, "SET_READ_LEN_POINTER_VALUE") \in Opcode
          /\ ReadPtr(32, "MOVE_POINTER_VALUE") \in Opcode /\ Op("MOVE_TMP_VALUE", 0) \in Opcode
          /\ ReadPtr(24, "SET_BREAK_COUNT_POINTER_VALUE") \in Opcode
          /\ ReadPtr(16, "MOVE_POINTER_VALUE") \in Opcode
        BY OpType, ArgAssumption DEF PostCodes, Codes, MsghdrSize
    <2>4. MsghdrHead \in Seq(Opcode) /\ Len(MsghdrHead) = 10 BY <2>3 DEF MsghdrHead
    <2> QED BY <1>2, <2>1, <2>2, <2>4
<1> QED BY <1>1, <1>2

LoopStep(n, m) == n \in 0 .. 11 /\ m = n + 1

LEMMA LoopOps ==
    ASSUME NEW call, IsCall(call), NEW k \in DOMAIN call.point.args,
           call.point.args[k].type.name \in {"iovec", "msghdr"}, NEW n, NEW m, LoopStep(n, m)
    PROVE  /\ InOps(call, k, LoopAt(call, k, n), "SKIP")
           /\ TypeOp(call, k, LoopAt(call, k, n), "SKIP") = IovecLoop[m]
           /\ TypeNextAt(LoopAt(call, k, n), "SKIP") = LoopAt(call, k, m)
           /\ Len(TypeOps(call.point.args[k].type)) = LoopAt(call, k, 12)
<1> DEFINE t == call.point.args[k].type
           h == HeadOf(t)
           l == Len(h)
<1>1. t \in Type BY FiltersKnown DEF Arg
<1>2. /\ TypeOps(t) = h \o IovecLoop /\ h \in Seq(Opcode)
      /\ l = IF t.name = "iovec" THEN 2 ELSE 10
    BY <1>1, HeadIs
<1>3. \A j : LoopAt(call, k, j) = l + j BY <1>2 DEF LoopAt
<1>4. IovecLoop \in Seq(Opcode) /\ Len(IovecLoop) = 12 BY IovecLoopIs
<1>5. l \in Nat BY <1>2
<1> HIDE DEF h, l, t
<1>6. /\ \A j \in 1 .. Len(IovecLoop) : TypeOps(t)[Len(h) + j] = IovecLoop[j]
      /\ Len(TypeOps(t)) = l + 12
    <2>1. h \in Seq(Opcode) /\ IovecLoop \in Seq(Opcode) /\ TypeOps(t) = h \o IovecLoop
        BY <1>2, <1>4
    <2>2. \A j \in 1 .. Len(IovecLoop) : TypeOps(t)[Len(h) + j] = IovecLoop[j]
        BY <2>1, JoinedAt
    <2>3. Len(TypeOps(t)) = Len(h) + Len(IovecLoop) BY <2>1, JoinedType
    <2> QED BY <1>4, <2>2, <2>3 DEF l
<1>7. n \in Nat /\ m \in 1 .. 12 /\ m = n + 1 BY DEF LoopStep
<1>8. TypeOps(t)[l + m] = IovecLoop[m] BY <1>4, <1>6, <1>7 DEF l
<1>9. (l + n) + 1 = l + m /\ l + n \in Nat /\ l + m \in 1 .. l + 12 BY <1>5, <1>7
<1>10. InOps(call, k, l + n, "SKIP") BY <1>6, <1>9 DEF InOps, t
<1>11. TypeOp(call, k, l + n, "SKIP") = IovecLoop[m] /\ TypeNextAt(l + n, "SKIP") = l + m
    BY <1>8, <1>9, TypeOpIs DEF t
<1> QED BY <1>3, <1>6, <1>10, <1>11 DEF t

\* Opcode o comes next and leads to opcode m.
TypeStep(call, k, n, post, o, m) ==
    InOps(call, k, n, post) /\ o = TypeOp(call, k, n, post) /\ m = TypeNextAt(n, post)

LEMMA PendingStep ==
    ASSUME NEW call, NEW k, NEW n \in Nat, NEW post, post # "SKIP"
    PROVE  TypeStep(call, k, n, post, Op(post, 0), n)
BY PendingIs DEF TypeStep, InOps

LEMMA HeadStep ==
    ASSUME NEW call, IsCall(call), NEW k \in DOMAIN call.point.args,
           call.point.args[k].type.name \in {"iovec", "msghdr"}, NEW n \in Nat,
           n + 1 \in 1 .. Len(HeadOf(call.point.args[k].type))
    PROVE  TypeStep(call, k, n, "SKIP", HeadOf(call.point.args[k].type)[n + 1], n + 1)
<1> DEFINE t == call.point.args[k].type
           h == HeadOf(t)
<1>1. t \in Type BY FiltersKnown DEF Arg
<1>2. TypeOps(t) = h \o IovecLoop /\ h \in Seq(Opcode) /\ IovecLoop \in Seq(Opcode)
    BY <1>1, HeadIs, IovecLoopIs
<1> HIDE DEF h
<1>3. TypeOps(t)[n + 1] = h[n + 1] BY <1>2, JoinedAt DEF h
<1>4. Len(TypeOps(t)) = Len(h) + Len(IovecLoop) BY <1>2, JoinedType
<1>5. n + 1 \in 1 .. Len(TypeOps(t)) BY <1>2, <1>4 DEF h
<1> QED BY <1>3, <1>5, TypeOpIs DEF TypeStep, InOps, h

LEMMA IovecSteps ==
    ASSUME NEW call, IsCall(call), NEW k \in DOMAIN call.point.args,
           call.point.args[k].type.name = "iovec"
    PROVE  LET r == call.point.args[k].type.reg
           IN  /\ TypeStep(call, k, 0, "SKIP", ReadReg(r, "SET_BREAK_COUNT_REG_VALUE"), 1)
               /\ TypeStep(call, k, 1, "SKIP", Op("SAVE_REG", 0), 2)
<1> DEFINE t == call.point.args[k].type
           h == HeadOf(t)
           r == t.reg
<1>1. h = << ReadReg(r, "SET_BREAK_COUNT_REG_VALUE"), Op("SAVE_REG", 0) >>
    BY DEF HeadOf, IovecHead
<1>2. Len(h) = 2 /\ h[1] = ReadReg(r, "SET_BREAK_COUNT_REG_VALUE") /\ h[2] = Op("SAVE_REG", 0)
    BY <1>1
<1> HIDE DEF h, r
<1>3. \A n \in 0 .. 1 : TypeStep(call, k, n, "SKIP", h[n + 1], n + 1)
    <2> SUFFICES ASSUME NEW n \in 0 .. 1 PROVE TypeStep(call, k, n, "SKIP", h[n + 1], n + 1)
        OBVIOUS
    <2>1. n \in Nat /\ n + 1 \in 1 .. Len(h) BY <1>2
    <2> QED BY <2>1, HeadStep DEF h
<1>4. TypeStep(call, k, 0, "SKIP", h[1], 1) /\ TypeStep(call, k, 1, "SKIP", h[2], 2)
    <2>1. TypeStep(call, k, 0, "SKIP", h[0 + 1], 0 + 1) BY <1>3
    <2>2. TypeStep(call, k, 1, "SKIP", h[1 + 1], 1 + 1) BY <1>3
    <2> QED BY <2>1, <2>2
<1> QED BY <1>2, <1>4 DEF r

LEMMA MsghdrSteps ==
    ASSUME NEW call, IsCall(call), NEW k \in DOMAIN call.point.args,
           call.point.args[k].type.name = "msghdr"
    PROVE  /\ TypeStep(call, k, 0, "SKIP", Op("SET_READ_LEN", MsghdrSize), 1)
           /\ TypeStep(call, k, 1, "SKIP", Op("SAVE_STRUCT", 0), 2)
           /\ TypeStep(call, k, 2, "SKIP", Op("SET_TMP_VALUE", 0), 3)
           /\ TypeStep(call, k, 3, "SKIP", Op("SET_READ_LEN", MaxBytes), 4)
           /\ TypeStep(call, k, 4, "SKIP", ReadPtr(40, "SET_READ_LEN_POINTER_VALUE"), 5)
           /\ TypeStep(call, k, 5, "SKIP", ReadPtr(32, "MOVE_POINTER_VALUE"), 6)
           /\ TypeStep(call, k, 6, "SKIP", Op("SAVE_STRUCT", 0), 7)
           /\ TypeStep(call, k, 7, "SKIP", Op("MOVE_TMP_VALUE", 0), 8)
           /\ TypeStep(call, k, 8, "SKIP", ReadPtr(24, "SET_BREAK_COUNT_POINTER_VALUE"), 9)
           /\ TypeStep(call, k, 9, "SKIP", ReadPtr(16, "MOVE_POINTER_VALUE"), 10)
<1> DEFINE t == call.point.args[k].type
           h == HeadOf(t)
<1>1. h = MsghdrHead BY DEF HeadOf
<1>2. /\ Len(h) = 10
      /\ h[1] = Op("SET_READ_LEN", MsghdrSize) /\ h[2] = Op("SAVE_STRUCT", 0)
      /\ h[3] = Op("SET_TMP_VALUE", 0) /\ h[4] = Op("SET_READ_LEN", MaxBytes)
      /\ h[5] = ReadPtr(40, "SET_READ_LEN_POINTER_VALUE")
      /\ h[6] = ReadPtr(32, "MOVE_POINTER_VALUE") /\ h[7] = Op("SAVE_STRUCT", 0)
      /\ h[8] = Op("MOVE_TMP_VALUE", 0) /\ h[9] = ReadPtr(24, "SET_BREAK_COUNT_POINTER_VALUE")
      /\ h[10] = ReadPtr(16, "MOVE_POINTER_VALUE")
    BY <1>1 DEF MsghdrHead
<1> HIDE DEF h
<1>3. \A n \in 0 .. 9 : TypeStep(call, k, n, "SKIP", h[n + 1], n + 1)
    <2> SUFFICES ASSUME NEW n \in 0 .. 9 PROVE TypeStep(call, k, n, "SKIP", h[n + 1], n + 1)
        OBVIOUS
    <2>1. n \in Nat /\ n + 1 \in 1 .. Len(h) BY <1>2
    <2> QED BY <2>1, HeadStep DEF h
<1>4. /\ TypeStep(call, k, 0, "SKIP", h[0 + 1], 0 + 1) /\ TypeStep(call, k, 1, "SKIP", h[1 + 1], 1 + 1)
      /\ TypeStep(call, k, 2, "SKIP", h[2 + 1], 2 + 1) /\ TypeStep(call, k, 3, "SKIP", h[3 + 1], 3 + 1)
      /\ TypeStep(call, k, 4, "SKIP", h[4 + 1], 4 + 1) /\ TypeStep(call, k, 5, "SKIP", h[5 + 1], 5 + 1)
      /\ TypeStep(call, k, 6, "SKIP", h[6 + 1], 6 + 1) /\ TypeStep(call, k, 7, "SKIP", h[7 + 1], 7 + 1)
      /\ TypeStep(call, k, 8, "SKIP", h[8 + 1], 8 + 1) /\ TypeStep(call, k, 9, "SKIP", h[9 + 1], 9 + 1)
    BY <1>3
<1>5. /\ TypeStep(call, k, 0, "SKIP", h[1], 1) /\ TypeStep(call, k, 1, "SKIP", h[2], 2)
      /\ TypeStep(call, k, 2, "SKIP", h[3], 3) /\ TypeStep(call, k, 3, "SKIP", h[4], 4)
      /\ TypeStep(call, k, 4, "SKIP", h[5], 5) /\ TypeStep(call, k, 5, "SKIP", h[6], 6)
      /\ TypeStep(call, k, 6, "SKIP", h[7], 7) /\ TypeStep(call, k, 7, "SKIP", h[8], 8)
      /\ TypeStep(call, k, 8, "SKIP", h[9], 9) /\ TypeStep(call, k, 9, "SKIP", h[10], 10)
    BY <1>4
<1> QED BY <1>2, <1>5

-----------------------------------------------------------------------------
(* Arrays of iovecs: the turns before the loop.                              *)

LEMMA IovecStarts ==
    ASSUME NEW call, IsCall(call), ~ReturnsContent(call), NEW k \in DOMAIN call.point.args,
           NEW c, NEW e, NEW d, NEW f,
           LET arg == call.point.args[k]
           IN  /\ ReadMore(arg) /\ AtValue(call, k, Len(ValueFilters(arg)), c, e)
               /\ arg.type.name = "iovec"
    PROVE  Leads(call, k, c, e, d, f)
<1> DEFINE r == call.point.args[k].type.reg
           o == ReadReg(r, "SET_BREAK_COUNT_REG_VALUE")
<1>1. InType(call, k, c, e, 0, "SKIP", << >>) /\ c.loop_count = 0 /\ c.read_addr = AddressOf(call, k)
    BY TypeStarts
<1>2. TypeStep(call, k, 0, "SKIP", o, 1) BY IovecSteps
<1>3. o.code = "READ_REG" /\ o.value = r /\ o.post = "SET_BREAK_COUNT_REG_VALUE" BY DEF ReadReg
<1> HIDE DEF o
<1>4. ASSUME After(call, k, o, 1, << >>, c, d, f) PROVE IovecRead(call, k, d, f)
    BY <1>1, <1>3, <1>4 DEF After, Computes, IovecRead
<1>5. Plain(o) /\ o.code \notin Saving /\ o.code # "SKIP"
    BY <1>3 DEF Plain, Filtering, Saving
<1>6. IovecRead(call, k, d, f) => Onward(call, k, d, f) BY DEF Onward, Inside, InContent
<1> QED BY <1>1, <1>2, <1>4, <1>5, <1>6, QuietLeads DEF TypeStep

LEMMA IovecReadLeads ==
    ASSUME NEW call, IsCall(call), NEW k \in DOMAIN call.point.args,
           NEW c, NEW e, NEW d, NEW f, IovecRead(call, k, c, e)
    PROVE  Leads(call, k, c, e, d, f)
<1> DEFINE t == call.point.args[k].type
           r == call.regs[t.reg]
<1>1. /\ t.name = "iovec" /\ c.loop_count = 0 /\ c.read_addr = AddressOf(call, k)
      /\ c.reg_value = r
      /\ \/ InType(call, k, c, e, 1, "SET_BREAK_COUNT_REG_VALUE", << >>)
         \/ InType(call, k, c, e, 1, "SKIP", << >>) /\ c.break_count = BreakCount(r)
    BY DEF IovecRead
<1>2. CASE InType(call, k, c, e, 1, "SET_BREAK_COUNT_REG_VALUE", << >>)
    <2> DEFINE o == Op("SET_BREAK_COUNT_REG_VALUE", 0)
    <2>1. o.code = "SET_BREAK_COUNT_REG_VALUE" /\ o.post = "SKIP" BY DEF Op
    <2>2. TypeStep(call, k, 1, "SET_BREAK_COUNT_REG_VALUE", o, 1)
        <3>1. 1 \in Nat OBVIOUS
        <3> QED BY <3>1, PendingStep
    <2> HIDE DEF o, r
    <2>3. o.code \in Counting /\ Counted(o, c) = BreakCount(c.reg_value)
        BY <2>1, Zenon DEF Counting, Counted
    <2>4. ASSUME After(call, k, o, 1, << >>, c, d, f), d.break_count = Counted(o, c)
          PROVE  IovecRead(call, k, d, f)
        BY <1>1, <2>1, <2>3, <2>4 DEF After, Computes, IovecRead, r
    <2>5. IovecRead(call, k, d, f) => Onward(call, k, d, f) BY DEF Onward, Inside, InContent
    <2> QED BY <1>2, <2>2, <2>3, <2>4, <2>5, CountLeads DEF TypeStep
<1>3. CASE InType(call, k, c, e, 1, "SKIP", << >>) /\ c.break_count = BreakCount(r)
    <2> DEFINE o == Op("SAVE_REG", 0)
               x == RegElem(c.reg_value)
    <2>1. o.code = "SAVE_REG" /\ o.post = "SKIP" BY DEF Op
    <2>2. TypeStep(call, k, 1, "SKIP", o, 2) BY <1>1, IovecSteps
    <2>3. /\ Append(<< >>, x) = LeadOf(call, k) /\ CountOf(call, k) = r
          /\ ArrayOf(call, k) = AddressOf(call, k) /\ LoopAt(call, k, 0) = 2
        BY <1>1 DEF LeadOf, CountOf, ArrayOf, LoopAt
    <2>4. c.reg_value \in Int /\ x = RegElem(c.reg_value)
        <3>1. ReadMore(call.point.args[k]) BY <1>3, Zenon DEF InType
        <3>2. call.regs[t.reg] \in Nat BY <1>1, <3>1, RegistersKnown
        <3>3. c.reg_value \in Nat BY <1>1, <3>2
        <3> HIDE DEF r, t
        <3> QED BY <3>3
    <2>5. << >> \in Seq(Element) OBVIOUS
    <2>6. o.code \notin Counting BY <2>1 DEF Counting
    <2> HIDE DEF o, x, r
    <2>7. ASSUME After(call, k, o, 2, Append(<< >>, x), c, d, f) PROVE LoopReady(call, k, d, f)
        BY <1>1, <1>3, <2>1, <2>3, <2>6, <2>7 DEF After, Computes, LoopReady
    <2>8. LoopReady(call, k, d, f) => Onward(call, k, d, f) BY DEF Onward, Inside, InContent
    <2> QED BY <1>3, <2>1, <2>2, <2>4, <2>5, <2>7, <2>8, SaveLeads DEF TypeStep
<1> QED BY <1>1, <1>2, <1>3

LEMMA MsghdrStarts ==
    ASSUME NEW call, IsCall(call), ~ReturnsContent(call), NEW k \in DOMAIN call.point.args,
           NEW c, NEW e, NEW d, NEW f,
           LET arg == call.point.args[k]
           IN  /\ ReadMore(arg) /\ AtValue(call, k, Len(ValueFilters(arg)), c, e)
               /\ arg.type.name = "msghdr"
    PROVE  Leads(call, k, c, e, d, f)
<1> DEFINE o == Op("SET_READ_LEN", MsghdrSize)
<1>1. InType(call, k, c, e, 0, "SKIP", << >>) /\ c.loop_count = 0 /\ c.read_addr = AddressOf(call, k)
    BY TypeStarts
<1>2. TypeStep(call, k, 0, "SKIP", o, 1) BY MsghdrSteps
<1>3. o.code = "SET_READ_LEN" /\ o.value = MsghdrSize /\ o.post = "SKIP" BY DEF Op
<1> HIDE DEF o
<1>4. ASSUME After(call, k, o, 1, << >>, c, d, f) PROVE MsghdrRead(call, k, d, f)
    BY <1>1, <1>3, <1>4 DEF After, Computes, MsghdrRead
<1>5. Plain(o) /\ o.code \notin Saving /\ o.code # "SKIP"
    BY <1>3 DEF Plain, Filtering, Saving
<1>6. MsghdrRead(call, k, d, f) => Onward(call, k, d, f) BY DEF Onward, Inside, InContent
<1> QED BY <1>1, <1>2, <1>4, <1>5, <1>6, QuietLeads DEF TypeStep

LEMMA AppendPair == ASSUME NEW x, NEW y PROVE Append(<< x >>, y) = << x, y >>
<1> DEFINE S == {x, y}
           s == << x >>
           t == << x, y >>
           n == 1
<1>1. s \in Seq(S) /\ t \in Seq(S) /\ y \in S OBVIOUS
<1>2. /\ Len(s) = n /\ s[n] = x /\ Len(t) = n + 1 /\ t[n] = x /\ t[n + 1] = y
      /\ n \in Nat /\ n = 1
    OBVIOUS
<1> HIDE DEF S, s, t, n
<1>3. Append(s, y) \in Seq(S) /\ Len(Append(s, y)) = Len(s) + 1 BY <1>1
<1>4. Append(s, y)[Len(s) + 1] = y /\ \A j \in 1 .. Len(s) : Append(s, y)[j] = s[j] BY <1>1
<1>5. Append(s, y)[n] = x /\ Append(s, y)[n + 1] = y BY <1>2, <1>4
<1>6. \A j \in 1 .. Len(t) : Append(s, y)[j] = t[j]
    <2> SUFFICES ASSUME NEW j \in 1 .. Len(t) PROVE Append(s, y)[j] = t[j] OBVIOUS
    <2>1. j = n \/ j = n + 1 BY <1>2
    <2> QED BY <1>2, <1>5, <2>1
<1>7. Len(Append(s, y)) = Len(t) BY <1>2, <1>3
<1>8. Append(s, y) = t BY <1>1, <1>3, <1>6, <1>7
<1> QED BY <1>8 DEF s, t

\* The turns of a msghdr before the loop.
LEMMA MsghdrReadLeads ==
    ASSUME NEW call, IsCall(call), NEW k \in DOMAIN call.point.args,
           NEW c, NEW e, NEW d, NEW f, MsghdrRead(call, k, c, e)
    PROVE  Leads(call, k, c, e, d, f)
<1> DEFINE a == AddressOf(call, k)
           b == BytesAt(a, MsghdrSize)
           n == Least(MaxBytes, WordAt(a + 40))
           one == << b >>
           two == << b, BytesAt(WordAt(a + 32), n) >>
           Goal == MsghdrRead(call, k, d, f) \/ LoopReady(call, k, d, f)
<1>1. call.point.args[k].type.name = "msghdr" /\ c.loop_count = 0 BY DEF MsghdrRead
<1>2. /\ a \in Int /\ n \in Nat /\ n <= MaxBytes /\ WordAt(a + 32) \in Int
      /\ MsghdrSize \in Nat /\ MsghdrSize <= MaxBytes /\ MaxBytes \in Nat
      /\ \A s \in Nat : s <= MaxBytes => Least(s, MaxBytes) = s
      /\ << >> \in Seq(Element) /\ one \in Seq(Element)
    <2>1. a \in Int BY AddressType
    <2>2. WordAt(a + 40) \in Nat /\ WordAt(a + 32) \in Nat BY WordAtType
    <2>3. MaxBytes \in Nat /\ MsghdrSize \in Nat /\ MsghdrSize <= MaxBytes
        BY ArgAssumption DEF MsghdrSize
    <2>4. n \in Nat /\ n <= MaxBytes BY <2>2, <2>3 DEF Least
    <2>5. \A s \in Nat : s <= MaxBytes => Least(s, MaxBytes) = s BY <2>3 DEF Least
    <2>6. b \in Element BY <2>1, <2>3, ElementType
    <2> QED BY <2>1, <2>2, <2>3, <2>4, <2>5, <2>6
<1>3. Goal => Onward(call, k, d, f) BY DEF Onward, Inside, InContent
<1>17. \/ /\ InType(call, k, c, e, 1, "SKIP", << >>)
            /\ c.read_addr = a
            /\ c.read_len = MsghdrSize
      \/ /\ InType(call, k, c, e, 2, "SKIP", one)
            /\ c.read_addr = a
      \/ /\ InType(call, k, c, e, 3, "SKIP", one)
            /\ c.read_addr = a
            /\ c.tmp_value = a
      \/ /\ InType(call, k, c, e, 4, "SKIP", one)
            /\ c.read_addr = a
            /\ c.tmp_value = a
            /\ c.read_len = MaxBytes
      \/ /\ InType(call, k, c, e, 5, "SET_READ_LEN_POINTER_VALUE", one)
            /\ c.read_addr = a
            /\ c.tmp_value = a
            /\ c.read_len = MaxBytes
            /\ c.pointer_value = WordAt(a + 40)
      \/ /\ InType(call, k, c, e, 5, "SKIP", one)
            /\ c.read_addr = a
            /\ c.tmp_value = a
            /\ c.read_len = n
      \/ /\ InType(call, k, c, e, 6, "MOVE_POINTER_VALUE", one)
            /\ c.tmp_value = a
            /\ c.read_len = n
            /\ c.pointer_value = WordAt(a + 32)
      \/ /\ InType(call, k, c, e, 6, "SKIP", one)
            /\ c.tmp_value = a
            /\ c.read_len = n
            /\ c.read_addr = WordAt(a + 32)
      \/ /\ InType(call, k, c, e, 7, "SKIP", two)
            /\ c.tmp_value = a
      \/ /\ InType(call, k, c, e, 8, "SKIP", two)
            /\ c.read_addr = a
      \/ /\ InType(call, k, c, e, 9, "SET_BREAK_COUNT_POINTER_VALUE", two)
            /\ c.read_addr = a
            /\ c.pointer_value = WordAt(a + 24)
      \/ /\ InType(call, k, c, e, 9, "SKIP", two)
            /\ c.read_addr = a
            /\ c.break_count = BreakCount(WordAt(a + 24))
      \/ /\ InType(call, k, c, e, 10, "MOVE_POINTER_VALUE", two)
            /\ c.break_count = BreakCount(WordAt(a + 24))
            /\ c.pointer_value = WordAt(a + 16)
    BY DEF MsghdrRead
<1>18. LoopAt(call, k, 0) = 10 /\ LeadOf(call, k) = two /\ CountOf(call, k) = WordAt(a + 24)
      /\ ArrayOf(call, k) = WordAt(a + 16)
    BY <1>1 DEF LoopAt, LeadOf, CountOf, ArrayOf
<1> HIDE DEF a, b, n, one, two, Goal
<1>4. CASE /\ InType(call, k, c, e, 1, "SKIP", << >>)
             /\ c.read_addr = a
             /\ c.read_len = MsghdrSize
    <2> DEFINE o == Op("SAVE_STRUCT", 0)
    <2>1. o.code = "SAVE_STRUCT" /\ o.post = "SKIP" BY DEF Op
    <2>2. TypeStep(call, k, 1, "SKIP", o, 2) BY <1>1, MsghdrSteps
    <2> HIDE DEF o
    <2>3. c.read_addr \in Int /\ c.read_len \in Nat /\ Least(c.read_len, MaxBytes) = c.read_len
        BY <1>2, <1>4
    <2>4. << >> \in Seq(Element) /\ Append(<< >>, BytesAt(c.read_addr, Least(c.read_len, MaxBytes))) = one
        BY <1>2, <1>4, <2>3 DEF one, two, b
    <2>5. ASSUME After(call, k, o, 2, one, c, d, f) PROVE Goal
        BY <1>1, <1>4, <2>1, <2>5 DEF After, Computes, MsghdrRead, Counting, Goal, a, b, n, one, two
    <2> QED BY <1>4, <1>3, <2>1, <2>2, <2>3, <2>4, <2>5, SaveLeads DEF TypeStep
<1>5. CASE /\ InType(call, k, c, e, 2, "SKIP", one)
             /\ c.read_addr = a
    <2> DEFINE o == Op("SET_TMP_VALUE", 0)
    <2>1. o.code = "SET_TMP_VALUE" /\ o.post = "SKIP" BY DEF Op
    <2>2. TypeStep(call, k, 2, "SKIP", o, 3) BY <1>1, MsghdrSteps
    <2> HIDE DEF o
    <2>3. ASSUME After(call, k, o, 3, one, c, d, f) PROVE Goal
        BY <1>1, <1>5, <2>1, <2>3 DEF After, Computes, MsghdrRead, Counting, Goal, a, b, n, one, two
    <2>4. Plain(o) /\ o.code \notin Saving /\ o.code # "SKIP"
        BY <2>1 DEF Plain, Filtering, Saving
    <2> QED BY <1>5, <1>3, <2>2, <2>3, <2>4, QuietLeads DEF TypeStep
<1>6. CASE /\ InType(call, k, c, e, 3, "SKIP", one)
             /\ c.read_addr = a
             /\ c.tmp_value = a
    <2> DEFINE o == Op("SET_READ_LEN", MaxBytes)
    <2>1. o.code = "SET_READ_LEN" /\ o.value = MaxBytes /\ o.post = "SKIP" BY DEF Op
    <2>2. TypeStep(call, k, 3, "SKIP", o, 4) BY <1>1, MsghdrSteps
    <2> HIDE DEF o
    <2>3. ASSUME After(call, k, o, 4, one, c, d, f) PROVE Goal
        BY <1>1, <1>6, <2>1, <2>3 DEF After, Computes, MsghdrRead, Counting, Goal, a, b, n, one, two
    <2>4. Plain(o) /\ o.code \notin Saving /\ o.code # "SKIP"
        BY <2>1 DEF Plain, Filtering, Saving
    <2> QED BY <1>6, <1>3, <2>2, <2>3, <2>4, QuietLeads DEF TypeStep
<1>7. CASE /\ InType(call, k, c, e, 4, "SKIP", one)
             /\ c.read_addr = a
             /\ c.tmp_value = a
             /\ c.read_len = MaxBytes
    <2> DEFINE o == ReadPtr(40, "SET_READ_LEN_POINTER_VALUE")
    <2>1. o.code = "READ_POINTER" /\ o.value = 40 /\ o.pre = "ADD_OFFSET" /\ o.post = "SET_READ_LEN_POINTER_VALUE" BY DEF ReadPtr
    <2>2. TypeStep(call, k, 4, "SKIP", o, 5) BY <1>1, MsghdrSteps
    <2> HIDE DEF o
    <2>3. ASSUME After(call, k, o, 5, one, c, d, f) PROVE Goal
        BY <1>1, <1>7, <2>1, <2>3 DEF After, Computes, MsghdrRead, Counting, Goal, a, b, n, one, two
    <2>4. Plain(o) /\ o.code \notin Saving /\ o.code # "SKIP"
        BY <2>1 DEF Plain, Filtering, Saving
    <2> QED BY <1>7, <1>3, <2>2, <2>3, <2>4, QuietLeads DEF TypeStep
<1>8. CASE /\ InType(call, k, c, e, 5, "SET_READ_LEN_POINTER_VALUE", one)
             /\ c.read_addr = a
             /\ c.tmp_value = a
             /\ c.read_len = MaxBytes
             /\ c.pointer_value = WordAt(a + 40)
    <2> DEFINE o == Op("SET_READ_LEN_POINTER_VALUE", 0)
    <2>1. o.code = "SET_READ_LEN_POINTER_VALUE" /\ o.post = "SKIP" BY DEF Op
    <2>2. TypeStep(call, k, 5, "SET_READ_LEN_POINTER_VALUE", o, 5)
        <3>1. 5 \in Nat OBVIOUS
        <3> QED BY <3>1, PendingStep
    <2> HIDE DEF o
    <2>3. ASSUME After(call, k, o, 5, one, c, d, f) PROVE Goal
        BY <1>1, <1>8, <2>1, <2>3 DEF After, Computes, MsghdrRead, Counting, Goal, a, b, n, one, two
    <2>4. Plain(o) /\ o.code \notin Saving /\ o.code # "SKIP"
        BY <2>1 DEF Plain, Filtering, Saving
    <2> QED BY <1>8, <1>3, <2>2, <2>3, <2>4, QuietLeads DEF TypeStep
<1>9. CASE /\ InType(call, k, c, e, 5, "SKIP", one)
             /\ c.read_addr = a
             /\ c.tmp_value = a
             /\ c.read_len = n
    <2> DEFINE o == ReadPtr(32, "MOVE_POINTER_VALUE")
    <2>1. o.code = "READ_POINTER" /\ o.value = 32 /\ o.pre = "ADD_OFFSET" /\ o.post = "MOVE_POINTER_VALUE" BY DEF ReadPtr
    <2>2. TypeStep(call, k, 5, "SKIP", o, 6) BY <1>1, MsghdrSteps
    <2> HIDE DEF o
    <2>3. ASSUME After(call, k, o, 6, one, c, d, f) PROVE Goal
        BY <1>1, <1>9, <2>1, <2>3 DEF After, Computes, MsghdrRead, Counting, Goal, a, b, n, one, two
    <2>4. Plain(o) /\ o.code \notin Saving /\ o.code # "SKIP"
        BY <2>1 DEF Plain, Filtering, Saving
    <2> QED BY <1>9, <1>3, <2>2, <2>3, <2>4, QuietLeads DEF TypeStep
<1>10. CASE /\ InType(call, k, c, e, 6, "MOVE_POINTER_VALUE", one)
             /\ c.tmp_value = a
             /\ c.read_len = n
             /\ c.pointer_value = WordAt(a + 32)
    <2> DEFINE o == Op("MOVE_POINTER_VALUE", 0)
    <2>1. o.code = "MOVE_POINTER_VALUE" /\ o.post = "SKIP" BY DEF Op
    <2>2. TypeStep(call, k, 6, "MOVE_POINTER_VALUE", o, 6)
        <3>1. 6 \in Nat OBVIOUS
        <3> QED BY <3>1, PendingStep
    <2> HIDE DEF o
    <2>3. ASSUME After(call, k, o, 6, one, c, d, f) PROVE Goal
        BY <1>1, <1>10, <2>1, <2>3 DEF After, Computes, MsghdrRead, Counting, Goal, a, b, n, one, two
    <2>4. Plain(o) /\ o.code \notin Saving /\ o.code # "SKIP"
        BY <2>1 DEF Plain, Filtering, Saving
    <2> QED BY <1>10, <1>3, <2>2, <2>3, <2>4, QuietLeads DEF TypeStep
<1>11. CASE /\ InType(call, k, c, e, 6, "SKIP", one)
             /\ c.tmp_value = a
             /\ c.read_len = n
             /\ c.read_addr = WordAt(a + 32)
    <2> DEFINE o == Op("SAVE_STRUCT", 0)
    <2>1. o.code = "SAVE_STRUCT" /\ o.post = "SKIP" BY DEF Op
    <2>2. TypeStep(call, k, 6, "SKIP", o, 7) BY <1>1, MsghdrSteps
    <2> HIDE DEF o
    <2>3. c.read_addr \in Int /\ c.read_len \in Nat /\ Least(c.read_len, MaxBytes) = c.read_len
        BY <1>2, <1>11
    <2>4. one \in Seq(Element) /\ Append(one, BytesAt(c.read_addr, Least(c.read_len, MaxBytes))) = two
        <3> DEFINE y == BytesAt(c.read_addr, Least(c.read_len, MaxBytes))
        <3>1. two = << b, y >> BY <1>11, <2>3 DEF two
        <3>2. one \in Seq(Element) BY <1>2
        <3> HIDE DEF y
        <3>3. Append(one, y) = << b, y >> BY AppendPair DEF one
        <3>4. one \in Seq(Element) /\ Append(one, y) = two BY <3>1, <3>2, <3>3
        <3> QED BY <3>4 DEF y
    <2>5. ASSUME After(call, k, o, 7, two, c, d, f) PROVE Goal
        BY <1>1, <1>11, <2>1, <2>5 DEF After, Computes, MsghdrRead, Counting, Goal, a, b, n, one, two
    <2> QED BY <1>11, <1>3, <2>1, <2>2, <2>3, <2>4, <2>5, SaveLeads DEF TypeStep
<1>12. CASE /\ InType(call, k, c, e, 7, "SKIP", two)
             /\ c.tmp_value = a
    <2> DEFINE o == Op("MOVE_TMP_VALUE", 0)
    <2>1. o.code = "MOVE_TMP_VALUE" /\ o.post = "SKIP" BY DEF Op
    <2>2. TypeStep(call, k, 7, "SKIP", o, 8) BY <1>1, MsghdrSteps
    <2> HIDE DEF o
    <2>3. ASSUME After(call, k, o, 8, two, c, d, f) PROVE Goal
        BY <1>1, <1>12, <2>1, <2>3 DEF After, Computes, MsghdrRead, Counting, Goal, a, b, n, one, two
    <2>4. Plain(o) /\ o.code \notin Saving /\ o.code # "SKIP"
        BY <2>1 DEF Plain, Filtering, Saving
    <2> QED BY <1>12, <1>3, <2>2, <2>3, <2>4, QuietLeads DEF TypeStep
<1>13. CASE /\ InType(call, k, c, e, 8, "SKIP", two)
             /\ c.read_addr = a
    <2> DEFINE o == ReadPtr(24, "SET_BREAK_COUNT_POINTER_VALUE")
    <2>1. o.code = "READ_POINTER" /\ o.value = 24 /\ o.pre = "ADD_OFFSET" /\ o.post = "SET_BREAK_COUNT_POINTER_VALUE" BY DEF ReadPtr
    <2>2. TypeStep(call, k, 8, "SKIP", o, 9) BY <1>1, MsghdrSteps
    <2> HIDE DEF o
    <2>3. ASSUME After(call, k, o, 9, two, c, d, f) PROVE Goal
        BY <1>1, <1>13, <2>1, <2>3 DEF After, Computes, MsghdrRead, Counting, Goal, a, b, n, one, two
    <2>4. Plain(o) /\ o.code \notin Saving /\ o.code # "SKIP"
        BY <2>1 DEF Plain, Filtering, Saving
    <2> QED BY <1>13, <1>3, <2>2, <2>3, <2>4, QuietLeads DEF TypeStep
<1>14. CASE /\ InType(call, k, c, e, 9, "SET_BREAK_COUNT_POINTER_VALUE", two)
             /\ c.read_addr = a
             /\ c.pointer_value = WordAt(a + 24)
    <2> DEFINE o == Op("SET_BREAK_COUNT_POINTER_VALUE", 0)
    <2>1. o.code = "SET_BREAK_COUNT_POINTER_VALUE" /\ o.post = "SKIP" BY DEF Op
    <2>2. TypeStep(call, k, 9, "SET_BREAK_COUNT_POINTER_VALUE", o, 9)
        <3>1. 9 \in Nat OBVIOUS
        <3> QED BY <3>1, PendingStep
    <2> HIDE DEF o
    <2>3. o.code \in Counting /\ Counted(o, c) = BreakCount(c.pointer_value)
        BY <2>1 DEF Counting, Counted
    <2>4. ASSUME After(call, k, o, 9, two, c, d, f), d.break_count = Counted(o, c) PROVE Goal
        BY <1>1, <1>14, <2>1, <2>3, <2>4 DEF After, Computes, MsghdrRead, Counting, Goal, a, b, n, one, two
    <2> QED BY <1>14, <1>3, <2>2, <2>3, <2>4, CountLeads DEF TypeStep
<1>15. CASE /\ InType(call, k, c, e, 9, "SKIP", two)
             /\ c.read_addr = a
             /\ c.break_count = BreakCount(WordAt(a + 24))
    <2> DEFINE o == ReadPtr(16, "MOVE_POINTER_VALUE")
    <2>1. o.code = "READ_POINTER" /\ o.value = 16 /\ o.pre = "ADD_OFFSET" /\ o.post = "MOVE_POINTER_VALUE" BY DEF ReadPtr
    <2>2. TypeStep(call, k, 9, "SKIP", o, 10) BY <1>1, MsghdrSteps
    <2> HIDE DEF o
    <2>3. ASSUME After(call, k, o, 10, two, c, d, f) PROVE Goal
        BY <1>1, <1>15, <2>1, <2>3 DEF After, Computes, MsghdrRead, Counting, Goal, a, b, n, one, two
    <2>4. Plain(o) /\ o.code \notin Saving /\ o.code # "SKIP"
        BY <2>1 DEF Plain, Filtering, Saving
    <2> QED BY <1>15, <1>3, <2>2, <2>3, <2>4, QuietLeads DEF TypeStep
<1>16. CASE /\ InType(call, k, c, e, 10, "MOVE_POINTER_VALUE", two)
             /\ c.break_count = BreakCount(WordAt(a + 24))
             /\ c.pointer_value = WordAt(a + 16)
    <2> DEFINE o == Op("MOVE_POINTER_VALUE", 0)
    <2>1. o.code = "MOVE_POINTER_VALUE" /\ o.post = "SKIP" BY DEF Op
    <2>2. TypeStep(call, k, 10, "MOVE_POINTER_VALUE", o, 10)
        <3>1. 10 \in Nat OBVIOUS
        <3> QED BY <3>1, PendingStep
    <2> HIDE DEF o
    <2>3. ASSUME After(call, k, o, 10, two, c, d, f) PROVE Goal
        BY <1>1, <1>16, <1>18, <2>1, <2>3 DEF After, Computes, LoopReady, Counting, Goal
    <2>4. Plain(o) /\ o.code \notin Saving /\ o.code # "SKIP"
        BY <2>1 DEF Plain, Filtering, Saving
    <2> QED BY <1>16, <1>3, <2>2, <2>3, <2>4, QuietLeads DEF TypeStep
<1> QED BY <1>4, <1>5, <1>6, <1>7, <1>8, <1>9, <1>10, <1>11, <1>12, <1>13, <1>14, <1>15, <1>16, <1>17

-----------------------------------------------------------------------------
(* Arrays of iovecs: the turns of the loop.                                  *)

LEMMA LoopSteps ==
    ASSUME NEW call, IsCall(call), NEW k \in DOMAIN call.point.args,
           call.point.args[k].type.name \in {"iovec", "msghdr"},
           NEW at, at = [n \in 0 .. 12 |-> LoopAt(call, k, n)]
    PROVE  /\ TypeStep(call, k, at[1], "SKIP", Op("SET_TMP_VALUE", 0), at[2])
           /\ TypeStep(call, k, at[2], "SKIP", Op("SET_READ_LEN", IovecSize), at[3])
           /\ TypeStep(call, k, at[3], "SKIP", Op("SAVE_STRUCT", 0), at[4])
           /\ TypeStep(call, k, at[4], "SKIP", Op("SET_READ_LEN", MaxBytes), at[5])
           /\ TypeStep(call, k, at[5], "SKIP", ReadPtr(8, "SET_READ_LEN_POINTER_VALUE"), at[6])
           /\ TypeStep(call, k, at[6], "SKIP", Op("READ_POINTER", 0), at[7])
           /\ TypeStep(call, k, at[7], "SKIP", Op("MOVE_POINTER_VALUE", 0), at[8])
           /\ TypeStep(call, k, at[8], "SKIP", Op("SAVE_STRUCT", 0), at[9])
           /\ TypeStep(call, k, at[9], "SKIP", Op("MOVE_TMP_VALUE", 0), at[10])
           /\ TypeStep(call, k, at[10], "SKIP", Op("ADD_OFFSET", IovecSize), at[11])
<1>1. \A n \in 0 .. 11 : TypeStep(call, k, at[n], "SKIP", IovecLoop[n + 1], at[n + 1])
    <2> SUFFICES ASSUME NEW n \in 0 .. 11
                 PROVE  TypeStep(call, k, at[n], "SKIP", IovecLoop[n + 1], at[n + 1])
        OBVIOUS
    <2> DEFINE m == n + 1
    <2>1. LoopStep(n, m) /\ n \in 0 .. 12 /\ m \in 0 .. 12 BY DEF LoopStep
    <2>2. at[n] = LoopAt(call, k, n) /\ at[m] = LoopAt(call, k, m) BY <2>1
    <2> HIDE DEF m
    <2>3. /\ InOps(call, k, LoopAt(call, k, n), "SKIP")
          /\ TypeOp(call, k, LoopAt(call, k, n), "SKIP") = IovecLoop[m]
          /\ TypeNextAt(LoopAt(call, k, n), "SKIP") = LoopAt(call, k, m)
        BY <2>1, LoopOps
    <2>4. TypeStep(call, k, at[n], "SKIP", IovecLoop[m], at[m]) BY <2>2, <2>3 DEF TypeStep
    <2> QED BY <2>4 DEF m
<1>2. /\ TypeStep(call, k, at[1], "SKIP", IovecLoop[2], at[2])
      /\ TypeStep(call, k, at[2], "SKIP", IovecLoop[3], at[3])
      /\ TypeStep(call, k, at[3], "SKIP", IovecLoop[4], at[4])
      /\ TypeStep(call, k, at[4], "SKIP", IovecLoop[5], at[5])
      /\ TypeStep(call, k, at[5], "SKIP", IovecLoop[6], at[6])
      /\ TypeStep(call, k, at[6], "SKIP", IovecLoop[7], at[7])
      /\ TypeStep(call, k, at[7], "SKIP", IovecLoop[8], at[8])
      /\ TypeStep(call, k, at[8], "SKIP", IovecLoop[9], at[9])
      /\ TypeStep(call, k, at[9], "SKIP", IovecLoop[10], at[10])
      /\ TypeStep(call, k, at[10], "SKIP", IovecLoop[11], at[11])
    <2>1. /\ TypeStep(call, k, at[1], "SKIP", IovecLoop[1 + 1], at[1 + 1])
          /\ TypeStep(call, k, at[2], "SKIP", IovecLoop[2 + 1], at[2 + 1])
          /\ TypeStep(call, k, at[3], "SKIP", IovecLoop[3 + 1], at[3 + 1])
          /\ TypeStep(call, k, at[4], "SKIP", IovecLoop[4 + 1], at[4 + 1])
          /\ TypeStep(call, k, at[5], "SKIP", IovecLoop[5 + 1], at[5 + 1])
          /\ TypeStep(call, k, at[6], "SKIP", IovecLoop[6 + 1], at[6 + 1])
          /\ TypeStep(call, k, at[7], "SKIP", IovecLoop[7 + 1], at[7 + 1])
          /\ TypeStep(call, k, at[8], "SKIP", IovecLoop[8 + 1], at[8 + 1])
          /\ TypeStep(call, k, at[9], "SKIP", IovecLoop[9 + 1], at[9 + 1])
          /\ TypeStep(call, k, at[10], "SKIP", IovecLoop[10 + 1], at[10 + 1])
        BY <1>1
    <2> QED BY <2>1
<1> QED BY <1>2, LoopKeys

LEMMA ArrayKnown ==
    ASSUME NEW call, IsCall(call), NEW k \in DOMAIN call.point.args,
           ReadMore(call.point.args[k]), call.point.args[k].type.name \in {"iovec", "msghdr"}
    PROVE  /\ ArrayOf(call, k) \in Int /\ CountOf(call, k) \in Nat /\ LeadOf(call, k) \in Seq(Element)
           /\ CountOf(call, k) \in IovCounts(call)
           /\ Body(call, k) = LeadOf(call, k) \o Iovs(ArrayOf(call, k), Least(CountOf(call, k), MaxIov))
<1> DEFINE t == call.point.args[k].type
           a == AddressOf(call, k)
           b == BytesAt(a, MsghdrSize)
           s == BytesAt(WordAt(a + 32), Least(MaxBytes, WordAt(a + 40)))
<1>1. a \in Int BY AddressType
<1>2. k \in Reading(call) BY DEF Reading
<1>3. CASE t.name = "iovec"
    <2>1. call.regs[t.reg] \in Nat BY <1>3, RegistersKnown
    <2>2. ArrayOf(call, k) = a /\ CountOf(call, k) = call.regs[t.reg]
          /\ LeadOf(call, k) = << RegElem(call.regs[t.reg]) >>
        BY <1>3, Zenon DEF ArrayOf, CountOf, LeadOf
    <2>3. call.regs[t.reg] \in IovCounts(call) BY <1>2, <1>3, Zenon DEF IovCounts
    <2>4. Body(call, k) = << RegElem(call.regs[t.reg]) >> \o IovecAt(a, call.regs[t.reg])
        BY <1>3 DEF Body, Content
    <2>5. RegElem(call.regs[t.reg]) \in Element BY <2>1, ElementType
    <2> HIDE DEF a, t
    <2> QED BY <1>1, <2>1, <2>2, <2>3, <2>4, <2>5, IovecAtIs
<1>4. CASE t.name = "msghdr"
    <2>1. /\ WordAt(a + 16) \in Nat /\ WordAt(a + 24) \in Nat /\ WordAt(a + 32) \in Nat
          /\ WordAt(a + 40) \in Nat
        BY WordAtType
    <2>2. /\ ArrayOf(call, k) = WordAt(a + 16) /\ CountOf(call, k) = WordAt(a + 24)
          /\ LeadOf(call, k) = << b, s >>
        BY <1>4 DEF ArrayOf, CountOf, LeadOf
    <2>3. WordAt(a + 24) \in IovCounts(call) BY <1>2, <1>4 DEF IovCounts
    <2>4. Body(call, k) = << b, s >> \o IovecAt(WordAt(a + 16), WordAt(a + 24))
        BY <1>4 DEF Body, Content
    <2>5. MaxBytes \in Nat /\ MsghdrSize \in Nat BY ArgAssumption DEF MsghdrSize
    <2>6. Least(MaxBytes, WordAt(a + 40)) \in Nat BY <2>1, <2>5, LeastType
    <2>7. b \in Element BY <1>1, <2>5, ElementType
    <2>8. s \in Element BY <2>1, <2>6, ElementType
    <2> HIDE DEF a, t, b, s
    <2> QED BY <2>1, <2>2, <2>3, <2>4, <2>7, <2>8, IovecAtIs
<1> QED BY <1>3, <1>4

\* How much of the argument is in the event matters only if the count is as promised.
LEMMA PartIs ==
    ASSUME NEW call, NEW k, NEW d, NEW f, NEW n, NEW post, NEW part, NEW whole,
           InType(call, k, d, f, n, post, part), OddIovCount(call) \/ part = whole
    PROVE  InType(call, k, d, f, n, post, whole)
BY DEF InType, Holds

LEMMA LoopReadyLeads ==
    ASSUME NEW call, IsCall(call), NEW k \in DOMAIN call.point.args,
           NEW c, NEW e, NEW d, NEW f, LoopReady(call, k, c, e)
    PROVE  Leads(call, k, c, e, d, f)
<1> DEFINE x == LoopAt(call, k, 0)
           m == LoopAt(call, k, 1)
           array == ArrayOf(call, k)
           count == CountOf(call, k)
           lead == LeadOf(call, k)
           one == 1
<1>1. /\ call.point.args[k].type.name \in {"iovec", "msghdr"}
      /\ InType(call, k, c, e, x, "SKIP", lead) /\ c.loop_count = 0
      /\ c.break_count = BreakCount(count) /\ c.read_addr = array
    BY DEF LoopReady
<1>2. ReadMore(call.point.args[k]) BY <1>1 DEF InType
<1>3. array \in Int /\ count \in Nat /\ lead \in Seq(Element) BY <1>1, <1>2, ArrayKnown
<1>4. m = x + 1 BY DEF LoopAt
<1>5. InOps(call, k, x, "SKIP") /\ TypeOps(call.point.args[k].type)[x + 1] = Op("FOR_BREAK", 0)
    <2> DEFINE n == 0
               h == 1
    <2>1. LoopStep(n, h) BY DEF LoopStep
    <2>2. x = LoopAt(call, k, n) /\ IovecLoop[h] = Op("FOR_BREAK", 0) BY LoopKeys
    <2> HIDE DEF n, h, x
    <2>3. InOps(call, k, x, "SKIP") /\ TypeOp(call, k, x, "SKIP") = IovecLoop[h]
        BY <1>1, <2>1, <2>2, LoopOps
    <2> QED BY <2>2, <2>3, TypeOpIs
<1>6. lead \o Iovs(array, one - 1) = lead /\ array + IovecSize * (one - 1) = array
    <2>1. Iovs(array, 0) = << >> BY <1>3, IovsGrow
    <2>2. lead \o << >> = lead BY <1>3
    <2>3. one - 1 = 0 /\ IovecSize * (one - 1) = 0 BY DEF IovecSize
    <2> HIDE DEF array, lead, one
    <2> QED BY <1>3, <2>1, <2>2, <2>3
<1>7. one \in 1 .. MaxLoop /\ one \in Nat /\ one = 1 BY ArgAssumption
<1>8. BreakCount(count) \in 0 .. MaxLoop BY <1>3, BreakCountType
<1> HIDE DEF x, m, array, count, lead, one
<1>9. ASSUME c.loop_count >= c.break_count, LoopLeft(call, k, m, lead, c, d, f)
      PROVE  InLoop(call, k, one, d, f)
    <2>1. BreakCount(count) = 0 BY <1>1, <1>8, <1>9
    <2>2. Turning(call, k, one, d) BY <1>7, <1>9, <2>1 DEF Turning, LoopLeft, count
    <2>3. InType(call, k, d, f, m, "SKIP", lead \o Iovs(array, one - 1))
          /\ d.read_addr = array + IovecSize * (one - 1)
        BY <1>1, <1>6, <1>9 DEF LoopLeft, SameValues
    <2> QED BY <1>1, <2>2, <2>3 DEF InLoop, m, array, lead
<1>10. ASSUME ~(c.loop_count >= c.break_count), LoopAgain(call, k, m, lead, c, d, f)
       PROVE  InLoop(call, k, one, d, f)
    <2>1. /\ BreakCount(count) # 0 /\ one <= BreakCount(count) /\ d.loop_count = one
          /\ d.break_count = BreakCount(count) /\ d.loop_index = TypeAt(call, k) + m
        BY <1>1, <1>7, <1>8, <1>10 DEF LoopAgain
    <2>2. Turning(call, k, one, d) BY <1>7, <2>1 DEF Turning, count, m
    <2>3. InType(call, k, d, f, m, "SKIP", lead \o Iovs(array, one - 1))
          /\ d.read_addr = array + IovecSize * (one - 1)
        BY <1>1, <1>6, <1>10 DEF LoopAgain, SameValues
    <2> QED BY <1>1, <2>2, <2>3 DEF InLoop, m, array, lead
<1>11. InLoop(call, k, one, d, f) => Onward(call, k, d, f)
    BY <1>7 DEF Onward, Inside, InContent
<1> QED BY <1>1, <1>4, <1>5, <1>9, <1>10, <1>11, LoopLeads

\* What is saved behind pair q, and the place of the opcode that ends the loop.
LoopPart(call, k, q) ==
    LET iov  == ArrayOf(call, k) + IovecSize * (q - 1)
        none == LeadOf(call, k) \o Iovs(ArrayOf(call, k), q - 1)
    IN  Append(Append(none, BytesAt(iov, IovecSize)),
               BytesAt(WordAt(iov), Least(MaxBytes, WordAt(iov + 8))))

AtLoopEnd(call, k, q, c, e) ==
    /\ InType(call, k, c, e, LoopAt(call, k, 11), "SKIP", LoopPart(call, k, q))
    /\ c.read_addr = (ArrayOf(call, k) + IovecSize * (q - 1)) + IovecSize

\* The turns inside the body of the loop.
LEMMA LoopBodyLeads ==
    ASSUME NEW call, IsCall(call), NEW k \in DOMAIN call.point.args, NEW q \in 1 .. MaxLoop,
           NEW c, NEW e, NEW d, NEW f, InLoop(call, k, q, c, e), ~AtLoopEnd(call, k, q, c, e)
    PROVE  Leads(call, k, c, e, d, f)
<1> DEFINE iov == ArrayOf(call, k) + IovecSize * (q - 1)
           size == Least(MaxBytes, WordAt(iov + 8))
           none == LeadOf(call, k) \o Iovs(ArrayOf(call, k), q - 1)
           one == Append(none, BytesAt(iov, IovecSize))
           two == Append(one, BytesAt(WordAt(iov), size))
           at == [n \in 0 .. 12 |-> LoopAt(call, k, n)]
           Goal == InLoop(call, k, q, d, f)
<1>1. call.point.args[k].type.name \in {"iovec", "msghdr"} /\ Turning(call, k, q, c) BY DEF InLoop
<1>3. ReadMore(call.point.args[k]) BY DEF InLoop, InType
<1>4. /\ iov \in Int /\ size \in Nat /\ size <= MaxBytes /\ WordAt(iov) \in Int
      /\ IovecSize \in Nat /\ IovecSize <= MaxBytes /\ MaxBytes \in Nat
      /\ \A s \in Nat : s <= MaxBytes => Least(s, MaxBytes) = s
      /\ none \in Seq(Element) /\ one \in Seq(Element)
    <2>1. /\ ArrayOf(call, k) \in Int /\ LeadOf(call, k) \in Seq(Element)
        BY <1>1, <1>3, ArrayKnown
    <2>2. q - 1 \in Nat OBVIOUS
    <2>3. MaxBytes \in Nat /\ IovecSize \in Nat /\ IovecSize <= MaxBytes
        BY ArgAssumption DEF MsghdrSize, IovecSize
    <2>4. iov \in Int BY <2>1, <2>2, <2>3 DEF IovecSize
    <2>5. WordAt(iov) \in Nat /\ WordAt(iov + 8) \in Nat BY WordAtType
    <2>6. size \in Nat /\ size <= MaxBytes BY <2>3, <2>5 DEF Least
    <2>7. \A s \in Nat : s <= MaxBytes => Least(s, MaxBytes) = s BY <2>3 DEF Least
    <2>8. Iovs(ArrayOf(call, k), q - 1) \in Seq(Element) BY <2>1, <2>2, IovsGrow
    <2>9. none \in Seq(Element) BY <2>1, <2>8
    <2>10. BytesAt(iov, IovecSize) \in Element BY <2>3, <2>4, ElementType
    <2> HIDE DEF none, iov, size
    <2> QED BY <2>3, <2>4, <2>5, <2>6, <2>7, <2>9, <2>10
<1>5. \A n \in 0 .. 12 : at[n] = LoopAt(call, k, n) OBVIOUS
<1>6. /\ at[1] = LoopAt(call, k, 1) /\ at[2] = LoopAt(call, k, 2) /\ at[3] = LoopAt(call, k, 3)
      /\ at[4] = LoopAt(call, k, 4) /\ at[5] = LoopAt(call, k, 5) /\ at[6] = LoopAt(call, k, 6)
      /\ at[7] = LoopAt(call, k, 7) /\ at[8] = LoopAt(call, k, 8) /\ at[9] = LoopAt(call, k, 9)
      /\ at[10] = LoopAt(call, k, 10) /\ at[11] = LoopAt(call, k, 11)
    BY <1>5
<1>7. LoopAt(call, k, 6) \in Nat BY DEF LoopAt
<1>8. Goal => Onward(call, k, d, f) BY DEF Onward, Inside, InContent
<1>9. ASSUME d.loop_count = c.loop_count, d.loop_index = c.loop_index,
             d.break_count = c.break_count
      PROVE  Turning(call, k, q, d)
    BY <1>1, <1>9 DEF Turning
<1>10. \/ /\ InType(call, k, c, e, LoopAt(call, k, 1), "SKIP", none)
          /\ c.read_addr = iov
       \/ /\ InType(call, k, c, e, LoopAt(call, k, 2), "SKIP", none)
          /\ c.read_addr = iov
          /\ c.tmp_value = iov
       \/ /\ InType(call, k, c, e, LoopAt(call, k, 3), "SKIP", none)
          /\ c.read_addr = iov
          /\ c.tmp_value = iov
          /\ c.read_len = IovecSize
       \/ /\ InType(call, k, c, e, LoopAt(call, k, 4), "SKIP", one)
          /\ c.read_addr = iov
          /\ c.tmp_value = iov
       \/ /\ InType(call, k, c, e, LoopAt(call, k, 5), "SKIP", one)
          /\ c.read_addr = iov
          /\ c.tmp_value = iov
          /\ c.read_len = MaxBytes
       \/ /\ InType(call, k, c, e, LoopAt(call, k, 6), "SET_READ_LEN_POINTER_VALUE", one)
          /\ c.read_addr = iov
          /\ c.tmp_value = iov
          /\ c.read_len = MaxBytes
          /\ c.pointer_value = WordAt(iov + 8)
       \/ /\ InType(call, k, c, e, LoopAt(call, k, 6), "SKIP", one)
          /\ c.read_addr = iov
          /\ c.tmp_value = iov
          /\ c.read_len = size
       \/ /\ InType(call, k, c, e, LoopAt(call, k, 7), "SKIP", one)
          /\ c.read_addr = iov
          /\ c.tmp_value = iov
          /\ c.read_len = size
          /\ c.pointer_value = WordAt(iov)
       \/ /\ InType(call, k, c, e, LoopAt(call, k, 8), "SKIP", one)
          /\ c.tmp_value = iov
          /\ c.read_len = size
          /\ c.read_addr = WordAt(iov)
       \/ /\ InType(call, k, c, e, LoopAt(call, k, 9), "SKIP", two)
          /\ c.tmp_value = iov
       \/ /\ InType(call, k, c, e, LoopAt(call, k, 10), "SKIP", two)
          /\ c.read_addr = iov
    BY DEF InLoop, AtLoopEnd, LoopPart
<1>24. at = [n \in 0 .. 12 |-> LoopAt(call, k, n)] OBVIOUS
<1> HIDE DEF iov, size, none, one, two, at, Goal
<1>11. CASE /\ InType(call, k, c, e, LoopAt(call, k, 1), "SKIP", none)
             /\ c.read_addr = iov
    <2> DEFINE o == Op("SET_TMP_VALUE", 0)
               m == LoopAt(call, k, 2)
    <2>1. o.code = "SET_TMP_VALUE" /\ o.post = "SKIP"
        BY DEF Op
    <2>2. TypeStep(call, k, LoopAt(call, k, 1), "SKIP", o, m)
        <3>1. TypeStep(call, k, at[1], "SKIP", o, at[2]) BY <1>1, <1>24, LoopSteps
        <3> QED BY <1>6, <3>1
    <2> HIDE DEF o
    <2>3. ASSUME After(call, k, o, m, none, c, d, f) PROVE Goal
        <3>1. o.code \notin Counting BY <2>1 DEF Counting
        <3>2. Turning(call, k, q, d) BY <1>9, <2>3, <3>1 DEF After
        <3> QED BY <1>1, <1>11, <2>1, <2>3, <3>2 DEF After, Computes, InLoop, Goal, iov, size, none, one, two
    <2>4. Plain(o) /\ o.code \notin Saving /\ o.code # "SKIP"
        BY <2>1 DEF Plain, Filtering, Saving
    <2> QED BY <1>11, <1>8, <2>2, <2>3, <2>4, QuietLeads DEF TypeStep
<1>12. CASE /\ InType(call, k, c, e, LoopAt(call, k, 2), "SKIP", none)
             /\ c.read_addr = iov
             /\ c.tmp_value = iov
    <2> DEFINE o == Op("SET_READ_LEN", IovecSize)
               m == LoopAt(call, k, 3)
    <2>1. o.code = "SET_READ_LEN" /\ o.value = IovecSize /\ o.post = "SKIP"
        BY DEF Op
    <2>2. TypeStep(call, k, LoopAt(call, k, 2), "SKIP", o, m)
        <3>1. TypeStep(call, k, at[2], "SKIP", o, at[3]) BY <1>1, <1>24, LoopSteps
        <3> QED BY <1>6, <3>1
    <2> HIDE DEF o
    <2>3. ASSUME After(call, k, o, m, none, c, d, f) PROVE Goal
        <3>1. o.code \notin Counting BY <2>1 DEF Counting
        <3>2. Turning(call, k, q, d) BY <1>9, <2>3, <3>1 DEF After
        <3> QED BY <1>1, <1>12, <2>1, <2>3, <3>2 DEF After, Computes, InLoop, Goal, iov, size, none, one, two
    <2>4. Plain(o) /\ o.code \notin Saving /\ o.code # "SKIP"
        BY <2>1 DEF Plain, Filtering, Saving
    <2> QED BY <1>12, <1>8, <2>2, <2>3, <2>4, QuietLeads DEF TypeStep
<1>13. CASE /\ InType(call, k, c, e, LoopAt(call, k, 3), "SKIP", none)
             /\ c.read_addr = iov
             /\ c.tmp_value = iov
             /\ c.read_len = IovecSize
    <2> DEFINE o == Op("SAVE_STRUCT", 0)
               m == LoopAt(call, k, 4)
    <2>1. o.code = "SAVE_STRUCT" /\ o.post = "SKIP"
        BY DEF Op
    <2>2. TypeStep(call, k, LoopAt(call, k, 3), "SKIP", o, m)
        <3>1. TypeStep(call, k, at[3], "SKIP", o, at[4]) BY <1>1, <1>24, LoopSteps
        <3> QED BY <1>6, <3>1
    <2> HIDE DEF o
    <2>3. c.read_addr \in Int /\ c.read_len \in Nat /\ Least(c.read_len, MaxBytes) = c.read_len
        BY <1>4, <1>13
    <2>4. none \in Seq(Element) /\ Append(none, BytesAt(c.read_addr, Least(c.read_len, MaxBytes))) = one
        BY <1>4, <1>13, <2>3 DEF one
    <2>5. ASSUME After(call, k, o, m, one, c, d, f) PROVE Goal
        <3>1. o.code \notin Counting BY <2>1 DEF Counting
        <3>2. Turning(call, k, q, d) BY <1>9, <2>5, <3>1 DEF After
        <3> QED BY <1>1, <1>13, <2>1, <2>5, <3>2 DEF After, Computes, InLoop, Goal, iov, size, none, one, two
    <2> QED BY <1>13, <1>8, <2>1, <2>2, <2>3, <2>4, <2>5, SaveLeads DEF TypeStep
<1>14. CASE /\ InType(call, k, c, e, LoopAt(call, k, 4), "SKIP", one)
             /\ c.read_addr = iov
             /\ c.tmp_value = iov
    <2> DEFINE o == Op("SET_READ_LEN", MaxBytes)
               m == LoopAt(call, k, 5)
    <2>1. o.code = "SET_READ_LEN" /\ o.value = MaxBytes /\ o.post = "SKIP"
        BY DEF Op
    <2>2. TypeStep(call, k, LoopAt(call, k, 4), "SKIP", o, m)
        <3>1. TypeStep(call, k, at[4], "SKIP", o, at[5]) BY <1>1, <1>24, LoopSteps
        <3> QED BY <1>6, <3>1
    <2> HIDE DEF o
    <2>3. ASSUME After(call, k, o, m, one, c, d, f) PROVE Goal
        <3>1. o.code \notin Counting BY <2>1 DEF Counting
        <3>2. Turning(call, k, q, d) BY <1>9, <2>3, <3>1 DEF After
        <3> QED BY <1>1, <1>14, <2>1, <2>3, <3>2 DEF After, Computes, InLoop, Goal, iov, size, none, one, two
    <2>4. Plain(o) /\ o.code \notin Saving /\ o.code # "SKIP"
        BY <2>1 DEF Plain, Filtering, Saving
    <2> QED BY <1>14, <1>8, <2>2, <2>3, <2>4, QuietLeads DEF TypeStep
<1>15. CASE /\ InType(call, k, c, e, LoopAt(call, k, 5), "SKIP", one)
             /\ c.read_addr = iov
             /\ c.tmp_value = iov
             /\ c.read_len = MaxBytes
    <2> DEFINE o == ReadPtr(8, "SET_READ_LEN_POINTER_VALUE")
               m == LoopAt(call, k, 6)
    <2>1. o.code = "READ_POINTER" /\ o.value = 8 /\ o.pre = "ADD_OFFSET" /\ o.post = "SET_READ_LEN_POINTER_VALUE"
        BY DEF ReadPtr
    <2>2. TypeStep(call, k, LoopAt(call, k, 5), "SKIP", o, m)
        <3>1. TypeStep(call, k, at[5], "SKIP", o, at[6]) BY <1>1, <1>24, LoopSteps
        <3> QED BY <1>6, <3>1
    <2> HIDE DEF o
    <2>3. ASSUME After(call, k, o, m, one, c, d, f) PROVE Goal
        <3>1. o.code \notin Counting BY <2>1 DEF Counting
        <3>2. Turning(call, k, q, d) BY <1>9, <2>3, <3>1 DEF After
        <3> QED BY <1>1, <1>15, <2>1, <2>3, <3>2 DEF After, Computes, InLoop, Goal, iov, size, none, one, two
    <2>4. Plain(o) /\ o.code \notin Saving /\ o.code # "SKIP"
        BY <2>1 DEF Plain, Filtering, Saving
    <2> QED BY <1>15, <1>8, <2>2, <2>3, <2>4, QuietLeads DEF TypeStep
<1>16. CASE /\ InType(call, k, c, e, LoopAt(call, k, 6), "SET_READ_LEN_POINTER_VALUE", one)
             /\ c.read_addr = iov
             /\ c.tmp_value = iov
             /\ c.read_len = MaxBytes
             /\ c.pointer_value = WordAt(iov + 8)
    <2> DEFINE o == Op("SET_READ_LEN_POINTER_VALUE", 0)
               m == LoopAt(call, k, 6)
    <2>1. o.code = "SET_READ_LEN_POINTER_VALUE" /\ o.post = "SKIP"
        BY DEF Op
    <2>2. TypeStep(call, k, LoopAt(call, k, 6), "SET_READ_LEN_POINTER_VALUE", o, m) BY <1>7, PendingStep
    <2> HIDE DEF o
    <2>3. ASSUME After(call, k, o, m, one, c, d, f) PROVE Goal
        <3>1. o.code \notin Counting BY <2>1 DEF Counting
        <3>2. Turning(call, k, q, d) BY <1>9, <2>3, <3>1 DEF After
        <3> QED BY <1>1, <1>16, <2>1, <2>3, <3>2 DEF After, Computes, InLoop, Goal, iov, size, none, one, two
    <2>4. Plain(o) /\ o.code \notin Saving /\ o.code # "SKIP"
        BY <2>1 DEF Plain, Filtering, Saving
    <2> QED BY <1>16, <1>8, <2>2, <2>3, <2>4, QuietLeads DEF TypeStep
<1>17. CASE /\ InType(call, k, c, e, LoopAt(call, k, 6), "SKIP", one)
             /\ c.read_addr = iov
             /\ c.tmp_value = iov
             /\ c.read_len = size
    <2> DEFINE o == Op("READ_POINTER", 0)
               m == LoopAt(call, k, 7)
    <2>1. o.code = "READ_POINTER" /\ o.pre = "SKIP" /\ o.post = "SKIP"
        BY DEF Op
    <2>2. TypeStep(call, k, LoopAt(call, k, 6), "SKIP", o, m)
        <3>1. TypeStep(call, k, at[6], "SKIP", o, at[7]) BY <1>1, <1>24, LoopSteps
        <3> QED BY <1>6, <3>1
    <2> HIDE DEF o
    <2>3. ASSUME After(call, k, o, m, one, c, d, f) PROVE Goal
        <3>1. o.code \notin Counting BY <2>1 DEF Counting
        <3>2. Turning(call, k, q, d) BY <1>9, <2>3, <3>1 DEF After
        <3>3. iov + 0 = iov BY <1>4
        <3>4. d.pointer_value = WordAt(iov) BY <1>17, <2>1, <2>3, <3>3 DEF After, Computes
        <3>5. /\ InType(call, k, d, f, m, "SKIP", one) /\ d.read_addr = iov
              /\ d.tmp_value = iov /\ d.read_len = size
            BY <1>17, <2>1, <2>3 DEF After, Computes
        <3> QED BY <1>1, <3>2, <3>4, <3>5 DEF InLoop, Goal, iov, size, none, one, two
    <2>4. Plain(o) /\ o.code \notin Saving /\ o.code # "SKIP"
        BY <2>1 DEF Plain, Filtering, Saving
    <2> QED BY <1>17, <1>8, <2>2, <2>3, <2>4, QuietLeads DEF TypeStep
<1>18. CASE /\ InType(call, k, c, e, LoopAt(call, k, 7), "SKIP", one)
             /\ c.read_addr = iov
             /\ c.tmp_value = iov
             /\ c.read_len = size
             /\ c.pointer_value = WordAt(iov)
    <2> DEFINE o == Op("MOVE_POINTER_VALUE", 0)
               m == LoopAt(call, k, 8)
    <2>1. o.code = "MOVE_POINTER_VALUE" /\ o.post = "SKIP"
        BY DEF Op
    <2>2. TypeStep(call, k, LoopAt(call, k, 7), "SKIP", o, m)
        <3>1. TypeStep(call, k, at[7], "SKIP", o, at[8]) BY <1>1, <1>24, LoopSteps
        <3> QED BY <1>6, <3>1
    <2> HIDE DEF o
    <2>3. ASSUME After(call, k, o, m, one, c, d, f) PROVE Goal
        <3>1. o.code \notin Counting BY <2>1 DEF Counting
        <3>2. Turning(call, k, q, d) BY <1>9, <2>3, <3>1 DEF After
        <3> QED BY <1>1, <1>18, <2>1, <2>3, <3>2 DEF After, Computes, InLoop, Goal, iov, size, none, one, two
    <2>4. Plain(o) /\ o.code \notin Saving /\ o.code # "SKIP"
        BY <2>1 DEF Plain, Filtering, Saving
    <2> QED BY <1>18, <1>8, <2>2, <2>3, <2>4, QuietLeads DEF TypeStep
<1>19. CASE /\ InType(call, k, c, e, LoopAt(call, k, 8), "SKIP", one)
             /\ c.tmp_value = iov
             /\ c.read_len = size
             /\ c.read_addr = WordAt(iov)
    <2> DEFINE o == Op("SAVE_STRUCT", 0)
               m == LoopAt(call, k, 9)
    <2>1. o.code = "SAVE_STRUCT" /\ o.post = "SKIP"
        BY DEF Op
    <2>2. TypeStep(call, k, LoopAt(call, k, 8), "SKIP", o, m)
        <3>1. TypeStep(call, k, at[8], "SKIP", o, at[9]) BY <1>1, <1>24, LoopSteps
        <3> QED BY <1>6, <3>1
    <2> HIDE DEF o
    <2>3. c.read_addr \in Int /\ c.read_len \in Nat /\ Least(c.read_len, MaxBytes) = c.read_len
        BY <1>4, <1>19
    <2>4. one \in Seq(Element) /\ Append(one, BytesAt(c.read_addr, Least(c.read_len, MaxBytes))) = two
        BY <1>4, <1>19, <2>3 DEF two
    <2>5. ASSUME After(call, k, o, m, two, c, d, f) PROVE Goal
        <3>1. o.code \notin Counting BY <2>1 DEF Counting
        <3>2. Turning(call, k, q, d) BY <1>9, <2>5, <3>1 DEF After
        <3> QED BY <1>1, <1>19, <2>1, <2>5, <3>2 DEF After, Computes, InLoop, Goal, iov, size, none, one, two
    <2> QED BY <1>19, <1>8, <2>1, <2>2, <2>3, <2>4, <2>5, SaveLeads DEF TypeStep
<1>20. CASE /\ InType(call, k, c, e, LoopAt(call, k, 9), "SKIP", two)
             /\ c.tmp_value = iov
    <2> DEFINE o == Op("MOVE_TMP_VALUE", 0)
               m == LoopAt(call, k, 10)
    <2>1. o.code = "MOVE_TMP_VALUE" /\ o.post = "SKIP"
        BY DEF Op
    <2>2. TypeStep(call, k, LoopAt(call, k, 9), "SKIP", o, m)
        <3>1. TypeStep(call, k, at[9], "SKIP", o, at[10]) BY <1>1, <1>24, LoopSteps
        <3> QED BY <1>6, <3>1
    <2> HIDE DEF o
    <2>3. ASSUME After(call, k, o, m, two, c, d, f) PROVE Goal
        <3>1. o.code \notin Counting BY <2>1 DEF Counting
        <3>2. Turning(call, k, q, d) BY <1>9, <2>3, <3>1 DEF After
        <3> QED BY <1>1, <1>20, <2>1, <2>3, <3>2 DEF After, Computes, InLoop, Goal, iov, size, none, one, two
    <2>4. Plain(o) /\ o.code \notin Saving /\ o.code # "SKIP"
        BY <2>1 DEF Plain, Filtering, Saving
    <2> QED BY <1>20, <1>8, <2>2, <2>3, <2>4, QuietLeads DEF TypeStep
<1>21. CASE /\ InType(call, k, c, e, LoopAt(call, k, 10), "SKIP", two)
             /\ c.read_addr = iov
    <2> DEFINE o == Op("ADD_OFFSET", IovecSize)
               m == LoopAt(call, k, 11)
    <2>1. o.code = "ADD_OFFSET" /\ o.value = IovecSize /\ o.post = "SKIP"
        BY DEF Op
    <2>2. TypeStep(call, k, LoopAt(call, k, 10), "SKIP", o, m)
        <3>1. TypeStep(call, k, at[10], "SKIP", o, at[11]) BY <1>1, <1>24, LoopSteps
        <3> QED BY <1>6, <3>1
    <2> HIDE DEF o
    <2>3. ASSUME After(call, k, o, m, two, c, d, f) PROVE Goal
        <3>1. o.code \notin Counting BY <2>1 DEF Counting
        <3>2. Turning(call, k, q, d) BY <1>9, <2>3, <3>1 DEF After
        <3> QED BY <1>1, <1>21, <2>1, <2>3, <3>2 DEF After, Computes, InLoop, Goal, iov, size, none, one, two
    <2>4. Plain(o) /\ o.code \notin Saving /\ o.code # "SKIP"
        BY <2>1 DEF Plain, Filtering, Saving
    <2> QED BY <1>21, <1>8, <2>2, <2>3, <2>4, QuietLeads DEF TypeStep
<1> QED BY <1>10, <1>11, <1>12, <1>13, <1>14, <1>15, <1>16, <1>17, <1>18, <1>19, <1>20, <1>21

LEMMA LoopPartIs ==
    ASSUME NEW call, IsCall(call), NEW k \in DOMAIN call.point.args, NEW q \in 1 .. MaxLoop,
           ReadMore(call.point.args[k]), call.point.args[k].type.name \in {"iovec", "msghdr"}
    PROVE  LoopPart(call, k, q) = LeadOf(call, k) \o Iovs(ArrayOf(call, k), q)
<1> DEFINE a == ArrayOf(call, k)
           lead == LeadOf(call, k)
           n == q - 1
           x == BytesAt(a + IovecSize * n, IovecSize)
           y == BytesAt(WordAt(a + IovecSize * n),
                        Least(MaxBytes, WordAt(a + IovecSize * n + 8)))
<1>1. a \in Int /\ lead \in Seq(Element) BY ArrayKnown
<1>2. n \in Nat /\ n + 1 = q OBVIOUS
<1>3. IovPair(a, q) = << x, y >> BY DEF IovPair
<1>4. LoopPart(call, k, q) = Append(Append(lead \o Iovs(a, n), x), y) BY DEF LoopPart
<1>5. x \in Element
    <2>1. IovecSize \in Nat /\ a + IovecSize * n \in Int BY <1>1, <1>2 DEF IovecSize
    <2> QED BY <2>1, ElementType
<1> HIDE DEF a, lead, n, x, y
<1>6. Iovs(a, n) \in Seq(Element) BY <1>1, <1>2, IovsGrow
<1>7. Iovs(a, n + 1) = Append(Append(Iovs(a, n), IovPair(a, n + 1)[1]), IovPair(a, n + 1)[2])
    BY <1>1, <1>2, IovsGrow
<1>8. Iovs(a, q) = Append(Append(Iovs(a, n), x), y) BY <1>2, <1>3, <1>7
<1>9. y \in Element
    <2>1. WordAt(a + IovecSize * n + 8) \in Nat /\ MaxBytes \in Nat /\ WordAt(a + IovecSize * n) \in Nat
        BY WordAtType, ArgAssumption
    <2>2. Least(MaxBytes, WordAt(a + IovecSize * n + 8)) \in Nat BY <2>1, LeastType
    <2> QED BY <2>1, <2>2, ElementType DEF y
<1>10. Append(lead \o Iovs(a, n), x) = lead \o Append(Iovs(a, n), x)
    BY <1>1, <1>5, <1>6, AppendJoined
<1>11. Append(Iovs(a, n), x) \in Seq(Element) BY <1>5, <1>6
<1>12. Append(lead \o Append(Iovs(a, n), x), y) = lead \o Append(Append(Iovs(a, n), x), y)
    BY <1>1, <1>9, <1>11, AppendJoined
<1> QED BY <1>4, <1>8, <1>10, <1>12 DEF a, lead

\* Where the loop goes on: behind the last pair the parser will read with the content as
\* promised, else with the next pair.
LEMMA LoopEndLeads ==
    ASSUME NEW call, IsCall(call), NEW k \in DOMAIN call.point.args, NEW q \in 1 .. MaxLoop,
           NEW c, NEW e, NEW d, NEW f, InLoop(call, k, q, c, e), AtLoopEnd(call, k, q, c, e)
    PROVE  Leads(call, k, c, e, d, f)
<1> DEFINE t == call.point.args[k].type
           x == LoopAt(call, k, 11)
           m == LoopAt(call, k, 1)
           end == LoopAt(call, k, 12)
           array == ArrayOf(call, k)
           count == CountOf(call, k)
           lead == LeadOf(call, k)
           part == lead \o Iovs(array, q)
           n == BreakCount(count)
           back == IF c.loop_count = 0 THEN end ELSE m
<1>1. /\ t.name \in {"iovec", "msghdr"} /\ Turning(call, k, q, c)
      /\ InType(call, k, c, e, x, "SKIP", LoopPart(call, k, q))
      /\ c.read_addr = (array + IovecSize * (q - 1)) + IovecSize
    BY DEF InLoop, AtLoopEnd
<1>2. ReadMore(call.point.args[k]) BY <1>1 DEF InType
<1>3. /\ array \in Int /\ count \in Nat /\ count \in IovCounts(call)
      /\ Body(call, k) = lead \o Iovs(array, Least(count, MaxIov))
    BY <1>1, <1>2, ArrayKnown
<1>4. InType(call, k, c, e, x, "SKIP", part) BY <1>1, <1>2, LoopPartIs
<1>5. c.read_addr = array + IovecSize * q
    <2>1. IovecSize * (q - 1) + IovecSize = IovecSize * q BY DEF IovecSize
    <2>2. IovecSize * (q - 1) \in Int BY DEF IovecSize
    <2> HIDE DEF array
    <2> QED BY <1>1, <1>3, <2>1, <2>2 DEF IovecSize
<1>6. /\ InOps(call, k, x, "SKIP") /\ TypeOps(t)[x + 1] = Op("FOR_BREAK", 0)
      /\ end = x + 1 /\ Len(TypeOps(t)) = end
    <2> DEFINE i1 == 11
               i2 == 12
    <2>1. LoopStep(i1, i2) BY DEF LoopStep
    <2>2. x = LoopAt(call, k, i1) /\ IovecLoop[i2] = Op("FOR_BREAK", 0) BY LoopKeys
    <2>3. end = x + 1 BY DEF LoopAt
    <2> HIDE DEF i1, i2, x, t, end
    <2>4. InOps(call, k, x, "SKIP") /\ TypeOp(call, k, x, "SKIP") = IovecLoop[i2]
        BY <1>1, <2>1, <2>2, LoopOps DEF t
    <2>5. Len(TypeOps(t)) = end BY <1>1, <2>1, LoopOps DEF t, end
    <2> QED BY <2>2, <2>3, <2>4, <2>5, TypeOpIs DEF t
<1>7. /\ c.break_count = n /\ q \in Nat /\ n \in 0 .. MaxLoop /\ MaxLoop \in Nat
      /\ n = 0 => c.loop_count = 0
      /\ n # 0 => q <= n /\ c.loop_count = q /\ c.loop_index = TypeAt(call, k) + m
    BY <1>1, <1>3, ArgAssumption, BreakCountType DEF Turning
<1>8. ASSUME NEW r \in 1 .. MaxLoop, InLoop(call, k, r, d, f) PROVE Onward(call, k, d, f)
    BY <1>8 DEF Onward, Inside, InContent
<1>9. t.name # "string" /\ ~IsString(t) /\ ~IsBuffer(t) BY <1>1 DEF IsString, IsBuffer
<1>10. MaxIov \in 0 .. MaxLoop /\ \A y \in Nat : Least(MaxLoop, y) = IF MaxLoop < y THEN MaxLoop ELSE y
    BY ArgAssumption DEF Least
<1> HIDE DEF x, m, end, array, count, lead
<1>11. ASSUME c.loop_count >= c.break_count, LoopLeft(call, k, end, part, c, d, f)
       PROVE  Onward(call, k, d, f)
    <2>1. OddIovCount(call) \/ part = Body(call, k)
        <3>1. CASE count = 0 \/ count > MaxIov BY <1>3, <3>1 DEF OddIovCount
        <3>2. CASE ~(count = 0 \/ count > MaxIov)
            <4>1. n = count /\ count # 0 BY <1>3, <1>7, <1>10, <3>2 DEF BreakCount
            <4>2. q = count BY <1>3, <1>7, <1>11, <4>1
            <4>3. Least(count, MaxIov) = count BY <1>3, <1>10, <3>2 DEF Least
            <4> QED BY <1>3, <4>2, <4>3
        <3> QED BY <3>1, <3>2
    <2>2. InType(call, k, d, f, end, "SKIP", part) /\ d.loop_count = 0 BY <1>11 DEF LoopLeft
    <2>3. InType(call, k, d, f, end, "SKIP", Body(call, k)) BY <2>1, <2>2, PartIs
    <2> HIDE DEF t
    <2> QED BY <1>6, <1>9, <2>2, <2>3, TypeEnds DEF t
<1>12. ASSUME ~(c.loop_count >= c.break_count), LoopAgain(call, k, back, part, c, d, f)
       PROVE  Onward(call, k, d, f)
    <2> DEFINE r == q + 1
    <2>1. n # 0 /\ q < n /\ c.loop_count = q /\ back = m BY <1>7, <1>12
    <2>2. r \in 1 .. MaxLoop /\ r <= n /\ r - 1 = q BY <1>7, <2>1
    <2>3. d.loop_count = r /\ d.break_count = n /\ d.loop_index = TypeAt(call, k) + m
        BY <1>7, <1>12, <2>1 DEF LoopAgain
    <2>4. InType(call, k, d, f, m, "SKIP", part) /\ d.read_addr = c.read_addr
        BY <1>12, <2>1 DEF LoopAgain, SameValues
    <2> HIDE DEF r, part, t
    <2>5. Turning(call, k, r, d) BY <2>1, <2>2, <2>3 DEF Turning, count, m
    <2>6. InType(call, k, d, f, m, "SKIP", lead \o Iovs(array, r - 1))
          /\ d.read_addr = array + IovecSize * (r - 1)
        BY <1>5, <2>2, <2>4 DEF part
    <2>7. InLoop(call, k, r, d, f) BY <1>1, <2>5, <2>6 DEF InLoop, m, array, lead, t
    <2> QED BY <1>8, <2>2, <2>7
<1>13. IF c.loop_count = 0 THEN back = x + 1 ELSE c.loop_index = TypeAt(call, k) + back
    BY <1>6, <1>7
<1> HIDE DEF part, n, back, t
<1>14. c.loop_count >= c.break_count /\ LoopLeft(call, k, x + 1, part, c, d, f)
           => Onward(call, k, d, f)
    BY <1>6, <1>11
<1> QED BY <1>4, <1>6, <1>12, <1>13, <1>14, LoopLeads DEF t

LEMMA InLoopLeads ==
    ASSUME NEW call, IsCall(call), NEW k \in DOMAIN call.point.args, NEW q \in 1 .. MaxLoop,
           NEW c, NEW e, NEW d, NEW f, InLoop(call, k, q, c, e)
    PROVE  Leads(call, k, c, e, d, f)
BY LoopBodyLeads, LoopEndLeads

-----------------------------------------------------------------------------
(* Every turn leads from a place to a place.                                 *)

\* The list has ended, or the turn leads to the next place or to the blacklist.
Proceeds(call, c, e, d, f) ==
    \/ NextKey(call, c).code = "SKIP" /\ AtArg(call, Len(call.point.args) + 1, c, e)
    \/ /\ NextKey(call, c).code # "SKIP"
       /\ Takes(call, c, e, d, f) => \/ d.match_blacklist /\ Condemned(call)
                                     \/ Place(call, d, f)

LEMMA LeadsProceeds ==
    ASSUME NEW call, IsCall(call), NEW k \in DOMAIN call.point.args,
           NEW c, NEW e, NEW d, NEW f, Leads(call, k, c, e, d, f)
    PROVE  Proceeds(call, c, e, d, f)
<1>1. k + 1 \in 1 .. Len(call.point.args) + 1
    <2>1. call.point.args \in Seq(Arg) BY DEF IsCall, Point
    <2> QED BY <2>1
<1>2. Onward(call, k, d, f) => (d.match_blacklist /\ Condemned(call)) \/ Place(call, d, f)
    BY <1>1 DEF Onward, Place
<1> QED BY <1>2 DEF Leads, Proceeds

LEMMA ArgProceeds ==
    ASSUME NEW call, IsCall(call), NEW k \in 1 .. Len(call.point.args) + 1,
           NEW c, NEW e, NEW d, NEW f, AtArg(call, k, c, e)
    PROVE  Proceeds(call, c, e, d, f)
<1> DEFINE args == call.point.args
<1>1. args \in Seq(Arg) BY DEF IsCall, Point
<1>2. k \in DOMAIN args \/ k = Len(args) + 1 BY <1>1
<1>3. CASE k \in DOMAIN args BY <1>3, ArgStarts, LeadsProceeds
<1>4. CASE k = Len(args) + 1
    <2>1. At(c, Base(call, k), "SKIP") BY DEF AtArg
    <2>2. NextKey(call, c) = KeyOf(call, Base(call, k)) BY <2>1, NextAt
    <2>3. NextKey(call, c) = OPC_SKIP BY <1>4, <2>2, EndCode
    <2>4. NextKey(call, c).code = "SKIP" BY <2>3 DEF OPC_SKIP, Op
    <2> QED BY <1>4, <2>4 DEF Proceeds
<1> QED BY <1>2, <1>3, <1>4

LEMMA ContentLeads ==
    ASSUME NEW call, IsCall(call), NEW k \in DOMAIN call.point.args,
           NEW c, NEW e, NEW d, NEW f, InContent(call, k, c, e)
    PROVE  Leads(call, k, c, e, d, f)
<1>1. CASE \E q \in 1 .. MaxLoop : InStrings(call, k, q, c, e) \/ InLoop(call, k, q, c, e)
    <2>1. PICK q \in 1 .. MaxLoop : InStrings(call, k, q, c, e) \/ InLoop(call, k, q, c, e)
        BY <1>1
    <2> QED BY <2>1, InStringsLeads, InLoopLeads
<1> QED BY <1>1, SizedLeads, BufferLenLeads, StdReadLeads, AtStringsLeads, IovecReadLeads,
           MsghdrReadLeads, LoopReadyLeads DEF InContent

LEMMA AddressLeads ==
    ASSUME NEW call, IsCall(call), ~WalksRegisters(call), NEW k \in DOMAIN call.point.args,
           NEW c, NEW e, NEW d, NEW f, InAddress(call, k, c, e)
    PROVE  Leads(call, k, c, e, d, f)
<1>1. CASE \E j \in 0 .. Len(call.point.args[k].read_op) :
              Walking(call, k, j, c, e) \/ Dotted(call, k, j, c, e)
    <2>1. PICK j \in 0 .. Len(call.point.args[k].read_op) :
              Walking(call, k, j, c, e) \/ Dotted(call, k, j, c, e)
        BY <1>1
    <2> QED BY <2>1, WalkingLeads, DottedLeads
<1> QED BY <1>1, ReturnReadLeads, RegisterReadLeads, RegisterSavedLeads DEF InAddress

\* Behind the last rule for the value the content starts, if there is one.
LEMMA ValueProceeds ==
    ASSUME NEW call, IsCall(call), ~ReturnsContent(call), NEW k \in DOMAIN call.point.args,
           NEW j \in 0 .. Len(ValueFilters(call.point.args[k])),
           NEW c, NEW e, NEW d, NEW f, AtValue(call, k, j, c, e)
    PROVE  Proceeds(call, c, e, d, f)
<1> DEFINE arg == call.point.args[k]
           t == arg.type
           n == Len(ValueFilters(arg))
<1>1. j \in Nat /\ (j < n \/ j = n)
    <2>1. n \in Nat BY FiltersKnown
    <2> QED BY <2>1
<1>2. CASE j < n BY <1>1, <1>2, ValueRuleLeads, LeadsProceeds
<1>3. CASE j = n /\ (~ReadMore(arg) \/ t.name = "num")
    <2>1. AtArg(call, k + 1, c, e) BY <1>3, ValueEnds
    <2>2. k + 1 \in 1 .. Len(call.point.args) + 1
        <3>1. call.point.args \in Seq(Arg) BY DEF IsCall, Point
        <3> QED BY <3>1
    <2> QED BY <2>1, <2>2, ArgProceeds
<1>4. CASE j = n /\ ReadMore(arg) /\ t.name # "num"
    <2>1. arg \in Arg /\ t \in Type BY FiltersKnown DEF Arg
    <2>2. \/ t.name \in {"pointer", "array", "struct", "dirent", "buffer"}
          \/ t.name = "buffer_reg" \/ IsString(t) \/ t.name = "string_array"
          \/ t.name = "iovec" \/ t.name = "msghdr"
        BY <1>4, <2>1 DEF Type, IsString
    <2>3. AtValue(call, k, Len(ValueFilters(arg)), c, e) BY <1>4
    <2>4. Leads(call, k, c, e, d, f)
        BY <1>4, <2>2, <2>3, SizedStarts, BufferStarts, StringStarts, StringsStart, IovecStarts,
           MsghdrStarts
    <2> QED BY <2>4, LeadsProceeds
<1> QED BY <1>1, <1>2, <1>3, <1>4

LEMMA MoreProceeds ==
    ASSUME NEW call, IsCall(call), NEW k \in DOMAIN call.point.args,
           NEW j \in 0 .. Len(MoreFilters(call.point.args[k])),
           NEW c, NEW e, NEW d, NEW f, AtMore(call, k, j, c, e)
    PROVE  Proceeds(call, c, e, d, f)
<1> DEFINE n == Len(MoreFilters(call.point.args[k]))
<1>1. j \in Nat /\ (j < n \/ j = n)
    <2>1. n \in Nat BY FiltersKnown
    <2> QED BY <2>1
<1>2. CASE j < n BY <1>1, <1>2, MoreRuleLeads, LeadsProceeds
<1>3. CASE j = n
    <2>1. AtArg(call, k + 1, c, e) BY <1>3, ArgEnds
    <2>2. k + 1 \in 1 .. Len(call.point.args) + 1
        <3>1. call.point.args \in Seq(Arg) BY DEF IsCall, Point
        <3> QED BY <3>1
    <2> QED BY <2>1, <2>2, ArgProceeds
<1> QED BY <1>1, <1>2, <1>3

\* The first turn on a cpu runs an opcode that no case of the switch knows.
LEMMA FreshProceeds ==
    ASSUME NEW call, IsCall(call), NEW c, NEW e, NEW d, NEW f, Fresh(call, c, e)
    PROVE  Proceeds(call, c, e, d, f)
<1> DEFINE o == Op("NONE", 0)
<1>1. NextKey(call, c) = o /\ NextIndex(c) = 0 BY NextAt DEF Fresh
<1>2. o.code = "NONE" /\ o.post = "SKIP" BY DEF Op
<1> HIDE DEF o
<1>3. ASSUME Takes(call, c, e, d, f) PROVE AtArg(call, 1, d, f)
    <2>1. o.code \notin Filtering /\ o.code \notin {"FOR_BREAK", "SAVE_PTR_STRING"}
          /\ o.code \notin Saving
        BY <1>2 DEF Filtering, Saving
    <2>2. At(d, 0, "SKIP") /\ SameFlags(c, d) /\ d.loop_count = c.loop_count /\ f = e
        BY <1>1, <1>2, <1>3, <2>1, PlainTurn
    <2>3. ~d.match_blacklist /\ ~d.apply_filter /\ ~d.match_whitelist
        BY <2>2 DEF SameFlags, Fresh
    <2>4. Verdict(call, d, 1, 0) BY <2>3, VerdictStarts
    <2>5. Base(call, 1) = 0 /\ Before(call, 1) = << >> BY FirstBase, BeforeIs
    <2> QED BY <2>2, <2>4, <2>5 DEF AtArg, Starts, Fresh
<1>4. 1 \in 1 .. Len(call.point.args) + 1
    <2>1. call.point.args \in Seq(Arg) BY DEF IsCall, Point
    <2> QED BY <2>1
<1> QED BY <1>1, <1>2, <1>3, <1>4 DEF Proceeds, Place

LEMMA PlaceProceeds ==
    ASSUME NEW call, IsCall(call), ~ReturnsContent(call), ~WalksRegisters(call),
           NEW c, NEW e, NEW d, NEW f, Place(call, c, e)
    PROVE  Proceeds(call, c, e, d, f)
<1>1. CASE Fresh(call, c, e) BY <1>1, FreshProceeds
<1>2. CASE \E k \in 1 .. Len(call.point.args) + 1 : AtArg(call, k, c, e)
    BY <1>2, ArgProceeds
<1>3. CASE \E k \in DOMAIN call.point.args : Inside(call, k, c, e)
    <2>1. PICK k \in DOMAIN call.point.args : Inside(call, k, c, e) BY <1>3
    <2>2. CASE InAddress(call, k, c, e) BY <2>2, AddressLeads, LeadsProceeds
    <2>3. CASE \E j \in 0 .. Len(ValueFilters(call.point.args[k])) : AtValue(call, k, j, c, e)
        BY <2>3, ValueProceeds
    <2>4. CASE InContent(call, k, c, e) BY <2>4, ContentLeads, LeadsProceeds
    <2>5. CASE \E j \in 0 .. Len(MoreFilters(call.point.args[k])) : AtMore(call, k, j, c, e)
        BY <2>5, MoreProceeds
    <2> QED BY <2>1, <2>2, <2>3, <2>4, <2>5 DEF Inside
<1> QED BY <1>1, <1>2, <1>3 DEF Place

\* A program that goes on has not met its blacklist.
LEMMA PlaceIsClean ==
    ASSUME NEW call, NEW c, NEW e, Place(call, c, e) PROVE ~c.match_blacklist
<1>1. ASSUME NEW k, NEW n, Verdict(call, c, k, n) PROVE ~c.match_blacklist BY <1>1 DEF Verdict
<1>2. ASSUME NEW k, NEW n, NEW post, NEW part, InType(call, k, c, e, n, post, part)
      PROVE  ~c.match_blacklist
    BY <1>1, <1>2 DEF InType
<1>3. ASSUME NEW k, Finding(call, k, c, e) PROVE ~c.match_blacklist BY <1>1, <1>3 DEF Finding
<1>4. CASE Fresh(call, c, e) BY <1>4 DEF Fresh
<1>5. CASE \E k \in 1 .. Len(call.point.args) + 1 : AtArg(call, k, c, e)
    BY <1>1, <1>5 DEF AtArg
<1>6. CASE \E k \in DOMAIN call.point.args : Inside(call, k, c, e)
    <2>1. PICK k \in DOMAIN call.point.args : Inside(call, k, c, e) BY <1>6
    <2>2. CASE InAddress(call, k, c, e)
        BY <1>1, <1>3, <2>2
           DEF InAddress, ReturnRead, RegisterRead, RegisterSaved, Walking, Dotted
    <2>3. CASE \E j \in 0 .. Len(ValueFilters(call.point.args[k])) : AtValue(call, k, j, c, e)
        BY <1>1, <2>3 DEF AtValue
    <2>4. CASE InContent(call, k, c, e)
        <3>1. CASE Sized(call, k, c, e) BY <1>2, <3>1 DEF Sized
        <3>2. CASE BufferLen(call, k, c, e) BY <1>2, <3>2 DEF BufferLen
        <3>3. CASE StdRead(call, k, c, e) BY <1>2, <3>3 DEF StdRead
        <3>4. CASE AtStrings(call, k, c, e) BY <1>2, <3>4 DEF AtStrings
        <3>5. CASE IovecRead(call, k, c, e) BY <1>2, <3>5 DEF IovecRead
        <3>6. CASE MsghdrRead(call, k, c, e) BY <1>2, <3>6 DEF MsghdrRead
        <3>7. CASE LoopReady(call, k, c, e) BY <1>2, <3>7 DEF LoopReady
        <3>8. ASSUME NEW q \in 1 .. MaxLoop, InStrings(call, k, q, c, e) PROVE ~c.match_blacklist
            BY <1>2, <3>8 DEF InStrings
        <3>9. ASSUME NEW q \in 1 .. MaxLoop, InLoop(call, k, q, c, e) PROVE ~c.match_blacklist
            BY <1>2, <3>9 DEF InLoop
        <3> QED BY <2>4, <3>1, <3>2, <3>3, <3>4, <3>5, <3>6, <3>7, <3>8, <3>9 DEF InContent
    <2>5. CASE \E j \in 0 .. Len(MoreFilters(call.point.args[k])) : AtMore(call, k, j, c, e)
        BY <1>1, <2>5 DEF AtMore
    <2> QED BY <2>1, <2>2, <2>3, <2>4, <2>5 DEF Inside
<1> QED BY <1>4, <1>5, <1>6 DEF Place

-----------------------------------------------------------------------------
(* What is submitted.                                                        *)

\* A turn on which the opcode is OP_SKIP ends the program.
LEMMA SkipStops == ASSUME Next, pc = "run", op_code = "SKIP" PROVE Stop
<1>1. \A call \in module : ~Hit(call) BY DEF Hit
<1>2. ~Skip /\ ~Submit BY DEF Skip, Submit
<1>3. \A code, ctx : Turn(code, ctx) => code = "SKIP" BY DEF Turn
<1>4. \A code, ctx : Quiet(code, ctx) => code = "SKIP" BY <1>3 DEF Quiet
<1>5. ~(Unknown \/ ReadRegister \/ ReadPointer \/ SetReadLen)
    BY <1>4 DEF Unknown, ReadRegister, ReadPointer, SetReadLen
<1>6. ~(MoveAddress \/ ReadStdString) BY <1>4 DEF MoveAddress, ReadStdString
<1>7. ~(SetBreakCount \/ ForBreak) BY <1>4 DEF SetBreakCount, ForBreak
<1>8. ~(FilterValue \/ FilterBuffer \/ FilterString)
    BY <1>4 DEF FilterValue, FilterBuffer, FilterString
<1>9. ~(SaveRegister \/ SaveBytes \/ SaveString \/ SavePtrString)
    BY <1>3 DEF SaveRegister, SaveBytes, SaveString, SavePtrString
<1> QED BY <1>1, <1>2, <1>5, <1>6, <1>7, <1>8, <1>9 DEF Next

LEMMA RunInvInit == ASSUME Init PROVE RunInv
BY DEF Init, RunInv

LEMMA HitRuns == ASSUME IInv, NEW call \in module, Hit(call) PROVE RunInv'
<1> DEFINE slot == SlotOf(call.point)
           ctx == op_ctx[slot]
<1>1. slot \in {0, 1} BY SlotType
<1>2. op_ctx \in [{0, 1} -> Context] /\ IsCall(call) BY ReadArgsAssumption DEF IInv, TypeOK
<1>3. Ctx' = Cleared(ctx) BY <1>1, <1>2 DEF Hit, Ctx, Slot
<1>4. ctx \in Context BY <1>1, <1>2
<1>5. event' = call /\ pc' = "run" /\ saved' = << >> BY DEF Hit
<1>6. spoilt' = {} => ctx.post_code \in {"SKIP", "NONE"} BY DEF Hit
<1> HIDE DEF ctx, slot
<1>7. /\ Ctx'.loop_count = 0 /\ Ctx'.op_key_index = 0 /\ Ctx'.post_code = ctx.post_code
      /\ ~Ctx'.match_blacklist /\ ~Ctx'.apply_filter /\ ~Ctx'.match_whitelist
    BY <1>3, <1>4 DEF Cleared, Context
<1>8. ASSUME spoilt' = {} PROVE Place(call, Ctx', << >>)
    <2>1. CASE ctx.post_code = "NONE"
        <3>1. Fresh(call, Ctx', << >>) BY <1>7, <2>1 DEF Fresh, At
        <3> QED BY <3>1 DEF Place
    <2>2. CASE ctx.post_code = "SKIP"
        <3>1. Base(call, 1) = 0 /\ Before(call, 1) = << >> BY <1>2, FirstBase, BeforeIs
        <3>2. Verdict(call, Ctx', 1, 0) BY <1>2, <1>7, VerdictStarts
        <3>3. AtArg(call, 1, Ctx', << >>) BY <1>7, <2>2, <3>1, <3>2 DEF AtArg, At, Starts
        <3>4. 1 \in 1 .. Len(call.point.args) + 1
            <4>1. call.point.args \in Seq(Arg) BY <1>2 DEF IsCall, Point
            <4> QED BY <4>1
        <3> QED BY <3>3, <3>4 DEF Place
    <2> QED BY <1>6, <1>8, <2>1, <2>2
<1> QED BY <1>5, <1>8 DEF RunInv

LEMMA TurnRuns ==
    ASSUME IInv, RunInv, Next, pc = "run", spoilt' = {}, ~Stop PROVE RunInv'
<1>1. Landed /\ Takes(event, Ctx, saved, Ctx', saved') BY RunTakes
<1>2. spoilt = {} /\ event' = event /\ pc' = IF Ctx'.match_blacklist THEN "done" ELSE "run"
    BY <1>1 DEF Landed
<1>3. IsCall(event) BY EventKnown DEF IInv
<1>4. NextKey(event, Ctx).code # "SKIP"
    <2>1. op_code # "SKIP" BY SkipStops
    <2> QED BY <2>1, FetchedIs
<1>5. CASE ReturnsContent(event) \/ WalksRegisters(event) BY <1>2, <1>5 DEF RunInv
<1>6. CASE ~ReturnsContent(event) /\ ~WalksRegisters(event)
    <2>1. Place(event, Ctx, saved) BY <1>2, <1>6 DEF RunInv
    <2>2. Proceeds(event, Ctx, saved, Ctx', saved') BY <1>3, <1>6, <2>1, PlaceProceeds
    <2>3. (Ctx'.match_blacklist /\ Condemned(event)) \/ Place(event, Ctx', saved')
        BY <1>1, <1>4, <2>2 DEF Proceeds
    <2>4. Place(event, Ctx', saved') => ~Ctx'.match_blacklist BY PlaceIsClean
    <2>5. (pc' = "run" /\ Place(event, Ctx', saved'))
          \/ (pc' = "done" /\ Ctx'.match_blacklist /\ Condemned(event))
        BY <1>2, <2>3, <2>4
    <2> QED BY <1>2, <2>5 DEF RunInv
<1> QED BY <1>5, <1>6

LEMMA StopJudges == ASSUME IInv, RunInv, Stop, spoilt' = {} PROVE RunInv'
<1> DEFINE behind == Len(event.point.args) + 1
<1>1. spoilt = {} /\ op_code = "SKIP" /\ event' = event /\ saved' = saved
      /\ pc = "run" /\ pc' = "done"
    BY DEF Stop
<1>2. IsCall(event) /\ Ctx \in Context /\ Slot \in {0, 1} BY EventKnown DEF IInv
<1>3. NextKey(event, Ctx).code = "SKIP" /\ SameFlags(Ctx, Fetched) BY <1>1, FetchedIs
<1>4. Ctx' = IF OutOfTurns THEN Ctx ELSE Fetched
    <2>1. op_ctx \in [{0, 1} -> Context] BY DEF IInv, TypeOK
    <2>2. Slot' = Slot BY <1>1 DEF Slot
    <2>3. op_ctx' = [op_ctx EXCEPT ![Slot] = IF OutOfTurns THEN op_ctx[Slot] ELSE Fetched]
        BY DEF Stop
    <2> QED BY <1>2, <2>1, <2>2, <2>3 DEF Ctx
<1>5. SameFlags(Ctx, Ctx') BY <1>3, <1>4 DEF SameFlags
<1>6. CASE ReturnsContent(event) \/ WalksRegisters(event) BY <1>1, <1>6 DEF RunInv
<1>7. CASE ~ReturnsContent(event) /\ ~WalksRegisters(event)
    <2>1. Place(event, Ctx, saved) BY <1>1, <1>7 DEF RunInv
    <2>2. Proceeds(event, Ctx, saved, Ctx, saved) BY <1>2, <1>7, <2>1, PlaceProceeds
    <2>3. AtArg(event, behind, Ctx, saved) BY <1>3, <2>2 DEF Proceeds
    <2>4. Verdict(event, Ctx, behind, 0) /\ Starts(event, behind, saved) BY <2>3 DEF AtArg
    <2>5. Verdict(event, Ctx', behind, 0) BY <1>5, <2>4 DEF Verdict, SameFlags
    <2> QED BY <1>1, <2>4, <2>5 DEF RunInv
<1> QED BY <1>6, <1>7

LEMMA SkipRejects == ASSUME IInv, RunInv, Skip PROVE RunInv'
<1>1. /\ pc = "done" /\ Unwanted(Ctx) /\ pc' = "skipped" /\ event' = event /\ spoilt' = spoilt
    BY DEF Skip, Ctx
<1>2. IsCall(event) BY EventKnown DEF IInv
<1>3. Condemned(event) \/ spoilt # {} \/ ReturnsContent(event) \/ WalksRegisters(event)
    BY <1>1, <1>2, VerdictSays DEF RunInv
<1> QED BY <1>1, <1>3 DEF RunInv

LEMMA SubmitKeeps == ASSUME IInv, RunInv, Submit, spoilt' = {} PROVE RunInv'
<1> DEFINE behind == Len(event.point.args) + 1
           ret == RegElem(event.ret)
           ev == IF event.point.kind = "exit" THEN Save(Event, ret) ELSE Event
<1>1. /\ pc = "done" /\ ~Unwanted(Ctx) /\ pc' = "submitted" /\ event' = event
      /\ Written(ev)
    BY DEF Submit, Ctx
<1>2. IsCall(event) /\ Event \in Ev BY EventKnown, EventType DEF IInv
<1>3. saved' = ev.elems /\ ev.full = FALSE /\ spoilt = {}
    <2>1. ev.full \in BOOLEAN
        <3>1. CASE event.point.kind = "exit"
            <4>1. event.ret \in Int BY <1>2 DEF IsCall
            <4>2. ret \in Element BY <4>1, ElementType
            <4> QED BY <1>2, <3>1, <4>2, SaveStays DEF Ev
        <3>2. CASE event.point.kind # "exit" BY <1>2, <3>2 DEF Ev
        <3> QED BY <3>1, <3>2
    <2> HIDE DEF ev
    <2> QED BY <1>1, <2>1 DEF Written
<1>4. Event.elems = saved BY DEF Event
<1>5. saved \in Seq(Element) BY DEF IInv, TypeOK
<1>6. saved' = saved \o (IF event.point.kind = "exit" THEN << ret >> ELSE << >>)
    <2>1. CASE event.point.kind = "exit"
        <3>1. ev.elems = Append(Event.elems, ret) BY <1>2, <1>3, <2>1, SaveFits
        <3> HIDE DEF ret, ev
        <3> QED BY <1>3, <1>4, <1>5, <2>1, <3>1
    <2>2. CASE event.point.kind # "exit" BY <1>3, <1>4, <1>5, <2>2
    <2> QED BY <2>1, <2>2
<1> HIDE DEF ev, ret
<1>7. CASE ReturnsContent(event) \/ WalksRegisters(event) BY <1>1, <1>7 DEF RunInv
<1>8. CASE ~ReturnsContent(event) /\ ~WalksRegisters(event)
    <2>1. Verdict(event, Ctx, behind, 0) /\ Starts(event, behind, saved)
        BY <1>1, <1>3, <1>8 DEF RunInv, Unwanted
    <2>2. ~Condemned(event) BY <1>1, <1>2, <2>1, VerdictSays
    <2>3. OddIovCount(event) \/ saved' = PromisedElements(event)
        BY <1>2, <1>6, <2>1, PromisedIs DEF Starts, ret
    <2> QED BY <1>1, <2>2, <2>3 DEF RunInv
<1> QED BY <1>7, <1>8

LEMMA NextRuns == ASSUME IInv, RunInv, [Next]_vars PROVE RunInv'
<1>1. CASE UNCHANGED vars BY <1>1 DEF vars, RunInv, Ctx, Slot
<1>2. CASE spoilt' # {} BY <1>2 DEF RunInv
<1>3. CASE Next /\ spoilt' = {}
    <2>1. CASE \E call \in module : Hit(call) BY <2>1, HitRuns
    <2>2. CASE pc = "run" BY <1>3, <2>2, TurnRuns, StopJudges
    <2>3. CASE Skip BY <2>3, SkipRejects
    <2>4. CASE Submit BY <1>3, <2>4, SubmitKeeps
    <2>5. \A code, ctx : Turn(code, ctx) => pc = "run" BY DEF Turn
    <2>6. \A code, ctx : Quiet(code, ctx) => pc = "run" BY <2>5 DEF Quiet
    <2>7. Stop => pc = "run" BY DEF Stop
    <2>8. Unknown \/ ReadRegister \/ ReadPointer \/ SetReadLen \/ MoveAddress \/ ReadStdString
              => pc = "run"
        BY <2>6 DEF Unknown, ReadRegister, ReadPointer, SetReadLen, MoveAddress, ReadStdString
    <2>9. SetBreakCount \/ ForBreak \/ FilterValue \/ FilterBuffer \/ FilterString => pc = "run"
        BY <2>6 DEF SetBreakCount, ForBreak, FilterValue, FilterBuffer, FilterString
    <2>10. SaveRegister \/ SaveBytes \/ SaveString \/ SavePtrString => pc = "run"
        BY <2>5 DEF SaveRegister, SaveBytes, SaveString, SavePtrString
    <2> QED BY <1>3, <2>1, <2>2, <2>3, <2>4, <2>7, <2>8, <2>9, <2>10 DEF Next
<1> QED BY <1>1, <1>2, <1>3

LEMMA RunInvariance == Spec => [](IInv /\ RunInv)
<1>1. Init => IInv /\ RunInv BY InitType, RunInvInit
<1>2. IInv /\ RunInv /\ [Next]_vars => (IInv /\ RunInv)' BY NextStays, NextRuns
<1> QED BY <1>1, <1>2, PTL DEF Spec

\* An event that was submitted holds, element by element, what its arguments promise, unless
\* a named cause has spoilt it, its return value was to be read, a register was added on the
\* way to an address, or an iovec argument asks for an odd number of pairs (utils.h:29-314,
\* syscall.c:143).
THEOREM SubmittedAsPromised == Spec => []AsPromised
<1>1. RunInv => AsPromised BY DEF RunInv, AsPromised, AsDocumented
<1> QED BY <1>1, RunInvariance, PTL

\* Wherever the number that is compared passes the rules as the value of the argument would,
\* the documented rules of the event's own arguments decide whether it is submitted, no flag
\* of an event before it on the same cpu (utils.h:151-208, syscall.c:136-141).
THEOREM VerdictOfOwnRules == Spec => []VerdictIsOwn
<1>1. ASSUME IInv, RunInv PROVE VerdictIsOwn
    <2>1. IsCall(event) BY <1>1, EventKnown DEF IInv
    <2>2. ~Misjudged(event) => (Rejected(event) <=> Condemned(event)) BY <2>1, RejectedIs
    <2> QED BY <1>1, <2>2 DEF RunInv, VerdictIsOwn
<1> QED BY <1>1, RunInvariance, PTL

-----------------------------------------------------------------------------
(* What the parsers take from the elements of an event.                      *)

\* A sequence that grows by pairs.
Pairing(f, x, y) ==
    /\ f[0] = << >>
    /\ \A m \in Nat : /\ f[m] \in Seq(Element) /\ x[m + 1] \in Element /\ y[m + 1] \in Element
                      /\ f[m + 1] = Append(Append(f[m], x[m + 1]), y[m + 1])

Paired(s, x, y, n) ==
    /\ Len(s) = 2 * n
    /\ \A j \in 1 .. n : s[2 * j - 1] = x[j] /\ s[2 * j] = y[j]

LEMMA PairsIndex ==
    ASSUME NEW f, NEW x, NEW y, NEW n \in Nat, Pairing(f, x, y)
    PROVE  Paired(f[n], x, y, n)
<1> DEFINE T == {m \in Nat : Paired(f[m], x, y, m)}
<1>1. 0 \in T BY DEF Pairing, Paired
<1>2. \A m \in Nat : m \in T => m + 1 \in T
    <2> SUFFICES ASSUME NEW m \in Nat, Paired(f[m], x, y, m)
                 PROVE  Paired(f[m + 1], x, y, m + 1)
        OBVIOUS
    <2> DEFINE s == f[m]
               u == x[m + 1]
               v == y[m + 1]
               w == Append(s, u)
               z == Append(w, v)
    <2>1. s \in Seq(Element) /\ u \in Element /\ v \in Element /\ f[m + 1] = z BY DEF Pairing
    <2>2. Len(s) = 2 * m /\ \A j \in 1 .. m : s[2 * j - 1] = x[j] /\ s[2 * j] = y[j]
        BY DEF Paired
    <2> HIDE DEF s, u, v, z
    <2>3. /\ w \in Seq(Element) /\ Len(w) = Len(s) + 1 /\ w[Len(s) + 1] = u
          /\ \A j \in 1 .. Len(s) : w[j] = s[j]
        BY <2>1, AppendProperties
    <2> HIDE DEF w
    <2>4. /\ Len(z) = Len(w) + 1 /\ z[Len(w) + 1] = v
          /\ \A j \in 1 .. Len(w) : z[j] = w[j]
        BY <2>1, <2>3, AppendProperties DEF z
    <2>5. Len(z) = 2 * (m + 1) BY <2>2, <2>3, <2>4
    <2>6. ASSUME NEW j \in 1 .. m + 1 PROVE z[2 * j - 1] = x[j] /\ z[2 * j] = y[j]
        <3>1. CASE j = m + 1
            <4>1. /\ 2 * j - 1 = Len(s) + 1 /\ 2 * j = Len(w) + 1
                  /\ Len(s) + 1 \in 1 .. Len(w)
                BY <2>2, <2>3, <3>1
            <4> QED BY <2>3, <2>4, <3>1, <4>1 DEF u, v
        <3>2. CASE j # m + 1
            <4>1. /\ j \in 1 .. m /\ 2 * j - 1 \in 1 .. Len(s) /\ 2 * j \in 1 .. Len(s)
                  /\ 2 * j - 1 \in 1 .. Len(w) /\ 2 * j \in 1 .. Len(w)
                BY <2>2, <2>3, <3>2
            <4> QED BY <2>2, <2>3, <2>4, <4>1
        <3> QED BY <3>1, <3>2
    <2>7. Paired(z, x, y, m + 1) BY <2>5, <2>6 DEF Paired
    <2> QED BY <2>1, <2>7
<1> HIDE DEF T
<1>3. Nat \subseteq T BY <1>1, <1>2, NumberInduction
<1> QED BY <1>3 DEF T

LEMMA IovsIndex ==
    ASSUME NEW a \in Int, NEW n \in Nat
    PROVE  /\ Len(Iovs(a, n)) = 2 * n
           /\ \A j \in 1 .. n : /\ Iovs(a, n)[2 * j - 1] = IovPair(a, j)[1]
                                /\ Iovs(a, n)[2 * j] = IovPair(a, j)[2]
<1> DEFINE f == [m \in Nat |-> Iovs(a, m)]
           x == [m \in Nat |-> IovPair(a, m)[1]]
           y == [m \in Nat |-> IovPair(a, m)[2]]
<1>1. \A m \in Nat : IovPair(a, m)[1] \in Element /\ IovPair(a, m)[2] \in Element
    <2> TAKE m \in Nat
    <2> DEFINE iov == a + IovecSize * (m - 1)
    <2>1. iov \in Int /\ IovecSize \in Nat /\ MaxBytes \in Nat BY ArgAssumption DEF IovecSize
    <2>2. IovPair(a, m)[1] = BytesAt(iov, IovecSize)
          /\ IovPair(a, m)[2] = BytesAt(WordAt(iov), Least(MaxBytes, WordAt(iov + 8)))
        BY DEF IovPair
    <2> HIDE DEF iov
    <2>3. WordAt(iov) \in Int /\ Least(MaxBytes, WordAt(iov + 8)) \in Nat
        BY <2>1, WordAtType, LeastType
    <2> QED BY <2>1, <2>2, <2>3, ElementType
<1>2. \A m \in Nat : /\ Iovs(a, 0) = << >> /\ Iovs(a, m) \in Seq(Element)
                     /\ Iovs(a, m + 1) =
                           Append(Append(Iovs(a, m), IovPair(a, m + 1)[1]), IovPair(a, m + 1)[2])
    BY IovsGrow
<1>3. \A m \in Nat : /\ f[m] = Iovs(a, m) /\ x[m] = IovPair(a, m)[1] /\ y[m] = IovPair(a, m)[2]
                     /\ m + 1 \in Nat
    OBVIOUS
<1> HIDE DEF f, x, y
<1>4. f[0] = << >> BY <1>2, <1>3
<1>5. \A m \in Nat : /\ f[m] \in Seq(Element) /\ x[m + 1] \in Element /\ y[m + 1] \in Element
                     /\ f[m + 1] = Append(Append(f[m], x[m + 1]), y[m + 1])
    BY <1>1, <1>2, <1>3
<1>6. Pairing(f, x, y) BY <1>4, <1>5 DEF Pairing
<1>7. Paired(f[n], x, y, n) BY <1>6, PairsIndex
<1>8. f[n] = Iovs(a, n) BY <1>3
<1>9. \A j \in 1 .. n : x[j] = IovPair(a, j)[1] /\ y[j] = IovPair(a, j)[2] BY <1>3
<1> QED BY <1>7, <1>8, <1>9 DEF Paired

LEMMA StrsIndex ==
    ASSUME NEW a \in Int, NEW n \in Nat
    PROVE  /\ Len(Strs(a, n)) = 2 * n
           /\ \A j \in 1 .. n : /\ Strs(a, n)[2 * j - 1] = RegElem(Ptr(a, j))
                                /\ Strs(a, n)[2 * j] = StringAt(Ptr(a, j))
<1> DEFINE f == [m \in Nat |-> Strs(a, m)]
           x == [m \in Nat |-> RegElem(Ptr(a, m))]
           y == [m \in Nat |-> StringAt(Ptr(a, m))]
<1>1. \A m \in Nat : RegElem(Ptr(a, m)) \in Element /\ StringAt(Ptr(a, m)) \in Element
    <2> TAKE m \in Nat
    <2>1. Ptr(a, m) \in Int BY WordAtType DEF Ptr
    <2> QED BY <2>1, ElementType
<1>2. \A m \in Nat : /\ Strs(a, 0) = << >> /\ Strs(a, m) \in Seq(Element)
                     /\ Strs(a, m + 1) = Append(Append(Strs(a, m), RegElem(Ptr(a, m + 1))),
                                                StringAt(Ptr(a, m + 1)))
    BY StrsGrow
<1>3. \A m \in Nat : /\ f[m] = Strs(a, m) /\ x[m] = RegElem(Ptr(a, m))
                     /\ y[m] = StringAt(Ptr(a, m)) /\ m + 1 \in Nat
    OBVIOUS
<1> HIDE DEF f, x, y
<1>4. f[0] = << >> BY <1>2, <1>3
<1>5. \A m \in Nat : /\ f[m] \in Seq(Element) /\ x[m + 1] \in Element /\ y[m + 1] \in Element
                     /\ f[m + 1] = Append(Append(f[m], x[m + 1]), y[m + 1])
    BY <1>1, <1>2, <1>3
<1>6. Pairing(f, x, y) BY <1>4, <1>5 DEF Pairing
<1>7. Paired(f[n], x, y, n) BY <1>6, PairsIndex
<1>8. f[n] = Strs(a, n) BY <1>3
<1>9. \A j \in 1 .. n : x[j] = RegElem(Ptr(a, j)) /\ y[j] = StringAt(Ptr(a, j)) BY <1>3
<1> QED BY <1>7, <1>8, <1>9 DEF Paired

\* One argument at the head of r: its value x, and behind it u, its body b and the rest t.
Leading(x, b, t, r, u) ==
    /\ Len(r) >= 1 /\ r[1] = x /\ Tail(r) = u
    /\ u \in Seq(Element) /\ Len(u) >= Len(b)
    /\ \A j \in 1 .. Len(b) : u[j] = b[j]
    /\ SubSeq(u, 1, Len(b)) = b /\ SubSeq(u, Len(b) + 1, Len(u)) = t

LEMMA TakesBody ==
    ASSUME NEW x \in Element, NEW b \in Seq(Element), NEW t \in Seq(Element)
    PROVE  Leading(x, b, t, (<< x >> \o b) \o t, b \o t)
<1> DEFINE v == << x >>
           u == b \o t
           r == (v \o b) \o t
<1>1. v \in Seq(Element) /\ Len(v) = 1 /\ v[1] = x OBVIOUS
<1>2. u \in Seq(Element) /\ Len(u) = Len(b) + Len(t) BY ConcatProperties
<1>3. \A j \in 1 .. Len(u) : u[j] = IF j <= Len(b) THEN b[j] ELSE t[j - Len(b)]
    BY ConcatProperties
<1>l. Len(b) \in Nat /\ Len(t) \in Nat OBVIOUS
<1>v. v \in Seq(Element) BY <1>1
<1>4. r = v \o u
    <2> HIDE DEF v
    <2> QED BY <1>v, ConcatAssociative
<1> HIDE DEF u, r
<1>5. Len(r) >= 1 /\ r[1] = x /\ Tail(r) = u
    <2> DEFINE s == v \o u
    <2> HIDE DEF v
    <2>u. u \in Seq(Element) BY <1>2
    <2>s. /\ s \in Seq(Element) /\ Len(s) = Len(v) + Len(u)
          /\ \A j \in 1 .. Len(v) + Len(u) : s[j] = IF j <= Len(v) THEN v[j] ELSE u[j - Len(v)]
        BY <1>v, <2>u, ConcatProperties
    <2> HIDE DEF s
    <2>1. s \in Seq(Element) /\ Len(s) = 1 + Len(u) /\ Len(u) \in Nat BY <1>1, <2>u, <2>s
    <2>2. \A j \in 1 .. 1 + Len(u) : s[j] = IF j <= 1 THEN v[j] ELSE u[j - 1] BY <1>1, <2>s
    <2> HIDE DEF s
    <2>3. s # << >> BY <2>1
    <2>4. /\ Tail(s) \in Seq(Element) /\ Len(Tail(s)) = Len(s) - 1
          /\ \A j \in 1 .. Len(Tail(s)) : Tail(s)[j] = s[j + 1]
        BY <2>1, <2>3, HeadTailProperties
    <2> DEFINE w == Tail(s)
    <2> HIDE DEF w
    <2>5. w \in Seq(Element) /\ Len(w) = Len(u) BY <2>1, <2>4 DEF w
    <2>6. \A j \in 1 .. Len(w) : w[j] = u[j]
        <3> TAKE j \in 1 .. Len(w)
        <3>1. w[j] = s[j + 1] BY <2>4 DEF w
        <3>2. j + 1 \in 1 .. 1 + Len(u) /\ ~(j + 1 <= 1) /\ (j + 1) - 1 = j BY <2>1, <2>5
        <3> QED BY <2>2, <3>1, <3>2
    <2>7. w = u BY <1>2, <2>5, <2>6, SeqEqual
    <2>8. 1 \in 1 .. 1 + Len(u) BY <2>1
    <2>9. s[1] = x BY <1>1, <2>2, <2>8
    <2> QED BY <1>4, <2>1, <2>7, <2>9 DEF s, w
<1>6. \A j \in 1 .. Len(b) : u[j] = b[j] BY <1>2, <1>3, <1>l
<1>7. SubSeq(u, 1, Len(b)) = b
    <2> DEFINE n == Len(b)
               w == SubSeq(u, 1, n)
    <2>1. \A j \in 1 .. n : u[j] \in Element /\ u[j] = b[j] BY <1>6
    <2>2. /\ w \in Seq(Element) /\ Len(w) = n
          /\ \A j \in 1 .. n : w[j] = u[j]
        <3>1. n \in Int /\ 1 \in Int BY <1>l
        <3> HIDE DEF n
        <3>2. /\ SubSeq(u, 1, n) \in Seq(Element)
              /\ Len(SubSeq(u, 1, n)) = IF 1 <= n THEN n - 1 + 1 ELSE 0
              /\ \A j \in 1 .. n - 1 + 1 : SubSeq(u, 1, n)[j] = u[1 + j - 1]
            BY <2>1, <3>1, SubSeqProperties
        <3>3. n \in Nat BY <1>l DEF n
        <3>4. \A j \in 1 .. n : j \in 1 .. n - 1 + 1 /\ 1 + j - 1 = j BY <3>3
        <3>5. (IF 1 <= n THEN n - 1 + 1 ELSE 0) = n BY <3>3
        <3> QED BY <3>2, <3>4, <3>5
    <2> HIDE DEF w
    <2>3. \A j \in 1 .. Len(w) : w[j] = b[j] BY <2>1, <2>2
    <2>4. w = b BY <2>2, <2>3, SeqEqual
    <2> QED BY <2>4 DEF w
<1>8. SubSeq(u, Len(b) + 1, Len(u)) = t
    <2> DEFINE m == Len(b) + 1
               n == Len(u)
               w == SubSeq(u, m, n)
    <2>1. \A j \in m .. n : u[j] \in Element BY <1>2, <1>l
    <2>2. m \in Nat /\ n \in Nat /\ n = m + Len(t) - 1 BY <1>2, <1>l
    <2>3. \A j \in 1 .. Len(t) : u[m + j - 1] = t[j]
        <3> TAKE j \in 1 .. Len(t)
        <3>1. /\ m + j - 1 \in 1 .. Len(u) /\ ~(m + j - 1 <= Len(b))
              /\ (m + j - 1) - Len(b) = j
            BY <1>2, <1>l
        <3> QED BY <1>3, <3>1
    <2> HIDE DEF m, n
    <2>4. /\ w \in Seq(Element)
          /\ Len(w) = IF m <= n THEN n - m + 1 ELSE 0
          /\ \A j \in 1 .. n - m + 1 : w[j] = u[m + j - 1]
        BY <2>1, <2>2, SubSeqProperties
    <2> HIDE DEF w
    <2>5. Len(w) = Len(t) /\ n - m + 1 = Len(t) BY <1>l, <2>2, <2>4
    <2>6. \A j \in 1 .. Len(w) : w[j] = t[j] BY <2>3, <2>4, <2>5
    <2>7. w = t BY <2>4, <2>5, <2>6, SeqEqual
    <2> QED BY <2>7 DEF w, m, n
<1>9. Leading(x, b, t, r, u) BY <1>2, <1>l, <1>5, <1>6, <1>7, <1>8 DEF Leading
<1> QED BY <1>9 DEF u, r, v

Begins(u, b) ==
    /\ u \in Seq(Element) /\ b \in Seq(Element) /\ Len(u) >= Len(b)
    /\ \A j \in 1 .. Len(b) : u[j] = b[j]

Parses(t, u, b) == Parse(t, u) = [ok |-> TRUE, n |-> Len(b)]

LEMMA BytesAtIs ==
    ASSUME NEW a, NEW n
    PROVE  /\ BytesAt(a, n).kind = "blk" /\ BytesAt(a, n).len \in {0, n}
           /\ BytesAt(a, n) # Block(0, 0) => BytesAt(a, n).len = n /\ BytesAt(a, n) = Block(n, a)
BY DEF BytesAt, Block

\* A block is what the parsers of strings and buffers want, and those of structures if it is
\* empty or has their size.
LEMMA ParsesBlock ==
    ASSUME NEW t, NEW u, NEW b, NEW x, Begins(u, b), b = << x >>, x.kind = "blk",
           \/ IsString(t) \/ IsBuffer(t)
           \/ t.name \in {"struct", "array", "pointer"} /\ x.len \in {0, t.size}
           \/ t.name = "dirent" /\ x.len = 0
    PROVE  Parses(t, u, b)
<1>1. Len(b) = 1 /\ b[1] = x OBVIOUS
<1>2. Len(u) >= 1 /\ u[1] = x BY <1>1 DEF Begins
<1>3. IsBlock(u, 1) BY <1>2 DEF IsBlock, Fits
<1>4. CASE t.name \in {"struct", "array", "pointer"} /\ x.len \in {0, t.size}
    <2>1. IsStruct(u, t.size) BY <1>2, <1>3, <1>4 DEF IsStruct, IsSized
    <2>2. Parse(t, u) = [ok |-> IsStruct(u, t.size), n |-> 1]
        BY <1>4 DEF Parse, IsString, IsBuffer
    <2> QED BY <1>1, <2>1, <2>2 DEF Parses
<1>5. CASE t.name = "dirent" /\ x.len = 0
    <2>1. IsSized(u, 1, 0) BY <1>2, <1>3, <1>5 DEF IsSized
    <2>2. Parse(t, u) = [ok |-> IsSized(u, 1, 0), n |-> 1]
        BY <1>5 DEF Parse, IsString, IsBuffer
    <2> QED BY <1>1, <2>1, <2>2 DEF Parses
<1>6. CASE IsString(t) \/ IsBuffer(t)
    <2>1. Parse(t, u) = [ok |-> IsBlock(u, 1), n |-> 1]
        BY <1>6 DEF Parse, IsString, IsBuffer
    <2> QED BY <1>1, <1>3, <2>1 DEF Parses
<1> QED BY <1>4, <1>5, <1>6

\* The pairs behind what leads an array of iovecs.
LEMMA ParsesPairs ==
    ASSUME NEW u, NEW lead \in Seq(Element), NEW a \in Int, NEW n \in Nat,
           Begins(u, lead \o Iovs(a, n)),
           \A j \in 1 .. n : Iovs(a, n)[2 * j - 1] # Block(0, 0)
    PROVE  IsIovec(u, Len(lead) + 1, n) /\ Len(lead \o Iovs(a, n)) = Len(lead) + 2 * n
<1> DEFINE s == Iovs(a, n)
           b == lead \o s
           l == Len(lead)
<1>1. s \in Seq(Element) BY IovsGrow
<1>2. Len(s) = 2 * n BY IovsIndex
<1>3. \A j \in 1 .. n : s[2 * j - 1] = IovPair(a, j)[1] /\ s[2 * j] = IovPair(a, j)[2]
    BY IovsIndex
<1>4. \A j \in 1 .. n : s[2 * j - 1] # Block(0, 0) OBVIOUS
<1> HIDE DEF s
<1>5. Len(b) = l + Len(s) /\ l \in Nat /\ \A j \in 1 .. Len(s) : b[l + j] = s[j]
    <2>1. Len(b) = l + Len(s) /\ \A j \in 1 .. l + Len(s) :
              b[j] = IF j <= l THEN lead[j] ELSE s[j - l]
        BY <1>1, ConcatProperties
    <2>2. l \in Nat /\ Len(s) \in Nat BY <1>1
    <2> HIDE DEF b, l
    <2>3. \A j \in 1 .. Len(s) : l + j \in 1 .. l + Len(s) /\ ~(l + j <= l) /\ (l + j) - l = j
        BY <2>2
    <2> QED BY <2>1, <2>2, <2>3
<1>6. Len(u) >= Len(b) /\ \A j \in 1 .. Len(b) : u[j] = b[j] BY DEF Begins, s
<1>7. Len(u) \in Nat BY DEF Begins
<1> HIDE DEF b, l
<1>8. ASSUME NEW m \in 0 .. n - 1
      PROVE  IsSized(u, l + 1 + 2 * m, IovecSize) /\ IsBlock(u, l + 1 + 2 * m + 1)
    <2> DEFINE j == m + 1
    <2>1. j \in 1 .. n /\ 2 * j - 1 \in 1 .. Len(s) /\ 2 * j \in 1 .. Len(s) BY <1>2
    <2>2. l + 1 + 2 * m = l + (2 * j - 1) /\ l + 1 + 2 * m + 1 = l + 2 * j BY <1>5
    <2>3. /\ l + (2 * j - 1) \in 1 .. Len(b) /\ l + 2 * j \in 1 .. Len(b)
          /\ l + (2 * j - 1) <= Len(u) /\ l + 2 * j <= Len(u)
        BY <1>2, <1>5, <1>6, <1>7, <2>1
    <2> HIDE DEF j
    <2>4. u[l + (2 * j - 1)] = s[2 * j - 1] /\ u[l + 2 * j] = s[2 * j]
        BY <1>5, <1>6, <2>1, <2>3
    <2>5. s[2 * j - 1] = BytesAt(a + IovecSize * (j - 1), IovecSize)
        BY <1>3, <2>1 DEF IovPair
    <2>6. s[2 * j] = BytesAt(WordAt(a + IovecSize * (j - 1)),
                             Least(MaxBytes, WordAt(a + IovecSize * (j - 1) + 8)))
        BY <1>3, <2>1 DEF IovPair
    <2>7. s[2 * j - 1].kind = "blk" /\ s[2 * j - 1].len = IovecSize
        BY <1>4, <2>1, <2>5, BytesAtIs
    <2>8. s[2 * j].kind = "blk" BY <2>6, BytesAtIs
    <2> QED BY <2>2, <2>3, <2>4, <2>7, <2>8 DEF IsSized, IsBlock, Fits
<1>9. IsIovec(u, l + 1, n) BY <1>8 DEF IsIovec
<1> QED BY <1>2, <1>5, <1>9 DEF s, b, l

LEMMA ParsesIovec ==
    ASSUME NEW t, NEW u, NEW b, NEW a \in Int, NEW r \in 1 .. MaxIov, t.name = "iovec",
           Begins(u, b), b = << RegElem(r) >> \o IovecAt(a, r),
           \A j \in 1 .. Len(b) : j % 2 = 0 => b[j] # Block(0, 0)
    PROVE  Parses(t, u, b)
<1> DEFINE lead == << RegElem(r) >>
           s == Iovs(a, r)
<1>1. MaxIov \in Nat /\ r \in Nat /\ Least(r, MaxIov) = r
    <2>1. MaxLoop \in Nat /\ MaxIov \in 0 .. MaxLoop BY ArgAssumption
    <2>2. MaxIov \in Nat BY <2>1
    <2>3. r \in Nat /\ r <= MaxIov BY <2>2
    <2> QED BY <2>2, <2>3 DEF Least
<1>2. lead \in Seq(Element) /\ Len(lead) = 1 /\ lead[1] = RegElem(r)
    BY <1>1, ElementType
<1>3. s \in Seq(Element) /\ Len(s) = 2 * r BY <1>1, IovsGrow, IovsIndex
<1>4. b = lead \o s BY <1>1, IovecAtIs
<1> HIDE DEF lead, s
<1>5. /\ Len(b) = Len(lead) + Len(s)
      /\ \A j \in 1 .. Len(lead) + Len(s) : b[j] = IF j <= Len(lead) THEN lead[j] ELSE s[j - Len(lead)]
    <2>1. lead \in Seq(Element) /\ s \in Seq(Element) BY <1>2, <1>3
    <2>2. /\ Len(lead \o s) = Len(lead) + Len(s)
          /\ \A j \in 1 .. Len(lead) + Len(s) :
                (lead \o s)[j] = IF j <= Len(lead) THEN lead[j] ELSE s[j - Len(lead)]
        BY <2>1, ConcatProperties
    <2>3. b = lead \o s BY <1>4
    <2> QED BY <2>2, <2>3
<1>6. \A j \in 1 .. r : s[2 * j - 1] # Block(0, 0)
    <2> TAKE j \in 1 .. r
    <2>1. /\ 2 * j \in 1 .. 1 + 2 * r /\ ~(2 * j <= 1) /\ (2 * j) % 2 = 0
        BY <1>1
    <2>2. b[2 * j] = s[2 * j - 1] BY <1>2, <1>3, <1>5, <2>1
    <2> QED BY <1>2, <1>3, <1>5, <2>1, <2>2
<1>7. IsIovec(u, Len(lead) + 1, r) BY <1>1, <1>2, <1>4, <1>6, ParsesPairs DEF s
<1>8. Len(u) >= 1 /\ u[1] = RegElem(r)
    <2>1. 1 \in 1 .. Len(b) /\ b[1] = lead[1] BY <1>1, <1>2, <1>3, <1>5
    <2>2. Len(u) >= Len(b) /\ u[1] = b[1] BY <2>1 DEF Begins
    <2>3. Len(u) \in Nat BY DEF Begins
    <2> QED BY <1>2, <2>1, <2>2, <2>3
<1>9. IsReg(u, 1) /\ u[1].data = r BY <1>8 DEF IsReg, Fits, RegElem
<1>10. Parse(t, u) = [ok |-> IsReg(u, 1) /\ IsIovec(u, 2, Least(u[1].data, MaxIov)),
                      n  |-> 1 + 2 * Least(u[1].data, MaxIov)]
    BY <1>9 DEF Parse, IsString, IsBuffer
<1>11. Parse(t, u) = [ok |-> TRUE, n |-> 1 + 2 * r]
    <2>1. Len(lead) + 1 = 2 BY <1>2
    <2> QED BY <1>1, <1>7, <1>9, <1>10, <2>1
<1>12. Len(b) = 1 + 2 * r BY <1>2, <1>3, <1>5
<1> QED BY <1>11, <1>12 DEF Parses

LEMMA ParsesMsghdr ==
    ASSUME NEW t, NEW u, NEW b, NEW a \in Int, NEW r \in 1 .. MaxIov, t.name = "msghdr",
           NEW x, NEW y, r = WordAt(a + 24), x = BytesAt(a, MsghdrSize),
           y = BytesAt(WordAt(a + 32), Least(MaxBytes, WordAt(a + 40))),
           Begins(u, b), b = << x, y >> \o IovecAt(WordAt(a + 16), r),
           \A j \in 1 .. Len(b) : j % 2 = 1 => b[j] # Block(0, 0)
    PROVE  Parses(t, u, b)
<1> DEFINE lead == << x, y >>
           w == WordAt(a + 16)
           s == Iovs(w, r)
<1>1. MaxIov \in Nat /\ r \in Nat /\ Least(r, MaxIov) = r
    <2>1. MaxLoop \in Nat /\ MaxIov \in 0 .. MaxLoop BY ArgAssumption
    <2>2. MaxIov \in Nat BY <2>1
    <2>3. r \in Nat /\ r <= MaxIov BY <2>2
    <2> QED BY <2>2, <2>3 DEF Least
<1>w. w \in Int BY WordAtType
<1> HIDE DEF w
<1>2. lead \in Seq(Element) /\ Len(lead) = 2 /\ lead[1] = x /\ lead[2] = y
    <2>1. MsghdrSize \in Nat /\ MaxBytes \in Nat BY ArgAssumption DEF MsghdrSize
    <2>w. \A z : WordAt(z) \in Nat BY WordAtType
    <2>l. \A m \in Nat : Least(MaxBytes, m) \in Nat BY <2>1, LeastType
    <2>2. WordAt(a + 32) \in Int /\ Least(MaxBytes, WordAt(a + 40)) \in Nat BY <2>w, <2>l
    <2>3. x \in Element /\ y \in Element BY <2>1, <2>2, ElementType
    <2> QED BY <2>3
<1>3. s \in Seq(Element) /\ Len(s) = 2 * r BY <1>1, <1>w, IovsGrow, IovsIndex
<1>4. b = lead \o s BY <1>1, IovecAtIs DEF w
<1> HIDE DEF lead, s
<1>5. /\ Len(b) = Len(lead) + Len(s)
      /\ \A j \in 1 .. Len(lead) + Len(s) : b[j] = IF j <= Len(lead) THEN lead[j] ELSE s[j - Len(lead)]
    <2>1. lead \in Seq(Element) /\ s \in Seq(Element) BY <1>2, <1>3
    <2>2. /\ Len(lead \o s) = Len(lead) + Len(s)
          /\ \A j \in 1 .. Len(lead) + Len(s) :
                (lead \o s)[j] = IF j <= Len(lead) THEN lead[j] ELSE s[j - Len(lead)]
        BY <2>1, ConcatProperties
    <2>3. b = lead \o s BY <1>4
    <2> QED BY <2>2, <2>3
<1>6. \A j \in 1 .. r : s[2 * j - 1] # Block(0, 0)
    <2> TAKE j \in 1 .. r
    <2>1. /\ 2 * j + 1 \in 1 .. 2 + 2 * r /\ ~(2 * j + 1 <= 2) /\ (2 * j + 1) % 2 = 1
          /\ (2 * j + 1) - 2 = 2 * j - 1
        BY <1>1
    <2>2. b[2 * j + 1] = s[2 * j - 1] BY <1>2, <1>3, <1>5, <2>1
    <2> QED BY <1>2, <1>3, <1>5, <2>1, <2>2
<1>7. IsIovec(u, Len(lead) + 1, r) BY <1>1, <1>w, <1>2, <1>4, <1>6, ParsesPairs DEF s
<1>8. Len(u) >= 2 /\ u[1] = x /\ u[2] = y
    <2>1. 1 \in 1 .. Len(b) /\ b[1] = lead[1] /\ 2 \in 1 .. Len(b) /\ b[2] = lead[2]
        BY <1>1, <1>2, <1>3, <1>5
    <2>2. Len(u) >= Len(b) /\ u[1] = b[1] /\ u[2] = b[2] BY <2>1 DEF Begins
    <2>3. Len(u) \in Nat /\ Len(b) \in Nat BY DEF Begins
    <2> QED BY <1>2, <2>1, <2>2, <2>3
<1>9. IsSized(u, 1, MsghdrSize) /\ u[1].data = a /\ IsBlock(u, 2)
    <2>1. 1 \in 1 .. Len(b) /\ b[1] = x BY <1>1, <1>2, <1>3, <1>5
    <2>2. x # Block(0, 0) BY <2>1
    <2>3. x.kind = "blk" /\ x.len = MsghdrSize /\ x = Block(MsghdrSize, a) /\ y.kind = "blk"
        BY <2>2, BytesAtIs
    <2>4. x.data = a BY <2>3 DEF Block, MsghdrSize
    <2>5. Len(u) \in Nat BY DEF Begins
    <2> QED BY <1>8, <2>3, <2>4, <2>5 DEF IsSized, IsBlock, Fits
<1>10. Parse(t, u) = [ok |-> /\ IsSized(u, 1, MsghdrSize) /\ IsBlock(u, 2)
                             /\ IsIovec(u, 3, Least(WordAt(u[1].data + 24), MaxIov)),
                      n  |-> 2 + 2 * Least(WordAt(u[1].data + 24), MaxIov)]
    BY <1>9 DEF Parse, IsString, IsBuffer
<1>11. Parse(t, u) = [ok |-> TRUE, n |-> 2 + 2 * r]
    <2>1. Len(lead) + 1 = 3 BY <1>2
    <2> QED BY <1>1, <1>7, <1>9, <1>10, <2>1
<1>12. Len(b) = 2 + 2 * r BY <1>2, <1>3, <1>5
<1> QED BY <1>11, <1>12 DEF Parses

LEMMA ParsesStrings ==
    ASSUME NEW t, NEW u, NEW b, NEW a \in Int, t.name = "string_array",
           Begins(u, b), b = StringsAt(a)
    PROVE  Parses(t, u, b)
<1>1. MaxLoop \in Nat /\ MagicLen \in Nat /\ MaxBytes \in Nat /\ MagicLen > MaxBytes
    BY ArgAssumption
<1>p. PICK n \in 0 .. MaxLoop : EndAt(a, n) BY StringsEnd
<1>2. /\ \A j \in 1 .. n : Ptr(a, j) \in DOMAIN Text
      /\ n < MaxLoop => Ptr(a, n + 1) \notin DOMAIN Text
    BY <1>p DEF EndAt
<1> DEFINE s == Strs(a, n)
           x == RegElem(Ptr(a, n + 1))
           y == Block(MagicLen, 0)
           z == IF n < MaxLoop THEN << x, y >> ELSE << >>
           ends == {j \in 1 .. MaxLoop : Fits(u, 2 * j) /\ EndsStrings(u, j)}
<1>n. n \in Nat BY <1>1
<1>3. b = s \o z BY <1>2, StringsAtIs
<1>4. s \in Seq(Element) /\ Len(s) = 2 * n
      /\ \A j \in 1 .. n : s[2 * j - 1] = RegElem(Ptr(a, j)) /\ s[2 * j] = StringAt(Ptr(a, j))
    BY <1>n, StrsGrow, StrsIndex
<1>5. x \in Element /\ y \in Element
    <2>1. Ptr(a, n + 1) \in Int BY WordAtType DEF Ptr
    <2> QED BY <1>1, <2>1, ElementType
<1>k. x.kind = "reg" /\ y.kind = "blk" /\ y.len = MagicLen BY DEF RegElem, Block
<1>6. \A j \in 1 .. n : Ptr(a, j) \in DOMAIN Text BY <1>2
<1>7. Len(u) \in Nat /\ Len(b) \in Nat /\ Len(u) >= Len(b) /\ \A j \in 1 .. Len(b) : u[j] = b[j]
    BY DEF Begins
<1>8. n < MaxLoop => z = << x, y >> OBVIOUS
<1>9. ~(n < MaxLoop) => z = << >> OBVIOUS
<1> HIDE DEF s, x, y, z
<1>z. z \in Seq(Element)
    <2>1. << x, y >> \in Seq(Element) BY <1>5
    <2>2. << >> \in Seq(Element) OBVIOUS
    <2> QED BY <1>8, <1>9, <2>1, <2>2
<1>10. /\ Len(b) = Len(s) + Len(z)
       /\ \A j \in 1 .. Len(s) : b[j] = s[j]
       /\ \A j \in 1 .. Len(z) : b[Len(s) + j] = z[j]
    <2>1. s \in Seq(Element) BY <1>4
    <2>2. /\ Len(s \o z) = Len(s) + Len(z) /\ Len(s) \in Nat /\ Len(z) \in Nat
          /\ \A j \in 1 .. Len(s) + Len(z) :
                (s \o z)[j] = IF j <= Len(s) THEN s[j] ELSE z[j - Len(s)]
        BY <1>z, <2>1, ConcatProperties
    <2>3. b = s \o z BY <1>3
    <2>4. \A j \in 1 .. Len(s) : j \in 1 .. Len(s) + Len(z) /\ j <= Len(s) BY <2>2
    <2>5. \A j \in 1 .. Len(z) : /\ Len(s) + j \in 1 .. Len(s) + Len(z)
                                 /\ ~(Len(s) + j <= Len(s)) /\ (Len(s) + j) - Len(s) = j
        BY <2>2
    <2> QED BY <2>2, <2>3, <2>4, <2>5
<1>l. Len(z) \in Nat BY <1>z
\* The strings before the end.
<1>11. ASSUME NEW j \in 1 .. n
       PROVE  /\ IsReg(u, 2 * j - 1) /\ IsBlock(u, 2 * j) /\ ~EndsStrings(u, j)
    <2>1. 2 * j - 1 \in 1 .. Len(s) /\ 2 * j \in 1 .. Len(s) BY <1>4, <1>n
    <2>2. 2 * j - 1 \in 1 .. Len(b) /\ 2 * j \in 1 .. Len(b) /\ 2 * j <= Len(u)
          /\ 2 * j - 1 <= Len(u)
        BY <1>l, <1>4, <1>n, <1>7, <1>10, <2>1
    <2>3. u[2 * j - 1] = RegElem(Ptr(a, j)) /\ u[2 * j] = StringAt(Ptr(a, j))
        BY <1>4, <1>7, <1>10, <2>1, <2>2
    <2> DEFINE p == Ptr(a, j)
    <2>4. p \in DOMAIN Text BY <1>6
    <2>5. p \in Nat \ {0} /\ Text[p] \in 1 .. MaxBytes BY <2>4, ArgAssumption
    <2>6. StringAt(p) = Block(Text[p], p) BY <2>4 DEF StringAt
    <2> HIDE DEF p
    <2>7. /\ RegElem(p).kind = "reg" /\ RegElem(p).data = p
          /\ Block(Text[p], p).kind = "blk" /\ Block(Text[p], p).len = Text[p]
        BY DEF RegElem, Block
    <2>8. u[2 * j - 1].kind = "reg" /\ u[2 * j - 1].data = p /\ u[2 * j].kind = "blk"
          /\ u[2 * j].len = Text[p]
        BY <2>3, <2>6, <2>7 DEF p
    <2>9. ~EndsStrings(u, j) BY <1>1, <2>5, <2>8 DEF EndsStrings
    <2> QED BY <2>2, <2>8, <2>9 DEF IsReg, IsBlock, Fits
<1>12. CASE ~(n < MaxLoop)
    <2>1. n = MaxLoop BY <1>1, <1>12
    <2>2. ends = {} BY <1>11, <2>1
    <2>3. StringCount(u) = n BY <2>1, <2>2 DEF StringCount
    <2>4. Len(b) = 2 * n
        <3>1. Len(z) = 0 BY <1>9, <1>12
        <3> QED BY <1>4, <1>n, <1>10, <3>1
    <2>5. Parse(t, u) = [ok |-> \A j \in 1 .. n : IsReg(u, 2 * j - 1) /\ IsBlock(u, 2 * j),
                         n  |-> 2 * n]
        BY <2>3 DEF Parse, IsString, IsBuffer
    <2> QED BY <1>11, <2>4, <2>5 DEF Parses
<1>13. CASE n < MaxLoop
    <2> DEFINE m == n + 1
    <2>1. Len(z) = 2 /\ z[1] = x /\ z[2] = y BY <1>8, <1>13
    <2>2. /\ 1 \in 1 .. Len(z) /\ 2 \in 1 .. Len(z)
          /\ 2 * m - 1 = Len(s) + 1 /\ 2 * m = Len(s) + 2 /\ Len(b) = 2 * m
        BY <1>4, <1>n, <1>10, <2>1
    <2>3. 2 * m - 1 \in 1 .. Len(b) /\ 2 * m \in 1 .. Len(b) /\ 2 * m <= Len(u) /\ 2 * m - 1 <= Len(u)
        BY <1>n, <1>7, <2>2
    <2>4. b[Len(s) + 1] = x /\ b[Len(s) + 2] = y BY <1>10, <2>1, <2>2
    <2>5. u[2 * m - 1] = x /\ u[2 * m] = y BY <1>7, <2>2, <2>3, <2>4
    <2>6. m \in 1 .. MaxLoop /\ \A j \in 1 .. m : j # m => j \in 1 .. n BY <1>1, <1>n, <1>13
    <2>m. \A j \in 1 .. MaxLoop : ~(m <= j) => j \in 1 .. n BY <1>1, <1>n, <1>13
    <2> HIDE DEF m
    <2>7. IsReg(u, 2 * m - 1) /\ IsBlock(u, 2 * m) /\ EndsStrings(u, m)
        BY <1>k, <2>3, <2>5 DEF IsReg, IsBlock, EndsStrings, Fits
    <2>8. m \in ends BY <2>6, <2>7 DEF IsBlock
    <2>9. \A j \in ends : m <= j BY <1>11, <2>m
    <2>10. StringCount(u) = m
        <3>1. StringCount(u) = IF ends = {} THEN MaxLoop ELSE Min(ends) BY DEF StringCount
        <3>2. Min(ends) = CHOOSE j \in ends : \A h \in ends : j <= h BY DEF Min
        <3>3. \A j \in ends : j \in Nat BY <1>1
        <3> HIDE DEF ends
        <3>4. \A j \in ends : (\A h \in ends : j <= h) => j = m
            <4> SUFFICES ASSUME NEW j \in ends, \A h \in ends : j <= h PROVE j = m OBVIOUS
            <4>1. j <= m /\ m <= j /\ j \in Nat /\ m \in Nat BY <2>8, <2>9, <3>3
            <4> QED BY <4>1
        <3>5. Min(ends) = m BY <2>8, <2>9, <3>2, <3>4
        <3> QED BY <2>8, <3>1, <3>5
    <2>11. Parse(t, u) = [ok |-> \A j \in 1 .. m : IsReg(u, 2 * j - 1) /\ IsBlock(u, 2 * j),
                          n  |-> 2 * m]
        BY <2>10 DEF Parse, IsString, IsBuffer
    <2>12. \A j \in 1 .. m : IsReg(u, 2 * j - 1) /\ IsBlock(u, 2 * j) BY <1>11, <2>6, <2>7
    <2> QED BY <2>2, <2>11, <2>12 DEF Parses
<1> QED BY <1>12, <1>13

LEMMA ParsesContent ==
    ASSUME NEW call, IsCall(call), ~OddIovCount(call), ~Unparsable(call),
           NEW k \in Reading(call), NEW u, Begins(u, Body(call, k))
    PROVE  Parses(call.point.args[k].type, u, Body(call, k))
<1> DEFINE arg == call.point.args[k]
           t == arg.type
           a == AddressOf(call, k)
           regs == call.regs
           body == Body(call, k)
<1>1. k \in DOMAIN call.point.args /\ ReadMore(arg) BY DEF Reading
<1>2. arg \in Arg BY <1>1, RegistersKnown
<1>3. t \in Type /\ t.size \in Nat /\ MaxBytes \in Nat
    BY <1>2, ArgAssumption DEF Arg, Type
<1>4. a \in Int BY <1>1, AddressType
<1>5. body = Content(t, a, regs) BY <1>1 DEF Body
<1>6. Promise(arg, regs, call.ret).body = body BY <1>1, <1>5 DEF Promise, AddressOf
<1>7. /\ t.name \in {"array", "pointer", "struct"} => ~(t.size > MaxBytes)
      /\ t.name = "dirent" => body = << Block(0, 0) >>
      /\ t.name \in {"iovec", "msghdr"} =>
            \A j \in 1 .. Len(body) :
                j % 2 = (IF t.name = "iovec" THEN 0 ELSE 1) => body[j] # Block(0, 0)
    BY <1>1, <1>6 DEF Unparsable
<1>8. t.name = "iovec" => regs[t.reg] \in IovCounts(call)
    BY <1>1 DEF IovCounts, Reading
<1>9. t.name = "msghdr" => WordAt(a + 24) \in IovCounts(call)
    BY <1>1 DEF IovCounts, Reading
<1>10. \A n \in IovCounts(call) : ~(n = 0) /\ ~(n > MaxIov) BY DEF OddIovCount
<1>11. MaxIov \in Nat
    <2>1. MaxLoop \in Nat /\ MaxIov \in 0 .. MaxLoop BY ArgAssumption
    <2> QED BY <2>1
<1>12. t.name = "iovec" => regs[t.reg] \in Nat BY <1>1, RegistersKnown
<1>13. Begins(u, body) OBVIOUS
<1> HIDE DEF arg, t, a, regs, body
<1>14. CASE t.name = "num"
    <2>1. body = << >> BY <1>5, <1>14 DEF Content
    <2>2. Parse(t, u) = [ok |-> TRUE, n |-> 0] BY <1>14 DEF Parse, IsString, IsBuffer
    <2>3. Len(body) = 0 BY <2>1
    <2> QED BY <2>2, <2>3 DEF Parses, t, arg, body
<1>15. CASE t.name \in {"pointer", "array", "struct"}
    <2> DEFINE n == Least(MaxBytes, t.size)
               x == BytesAt(a, n)
    <2>1. n = t.size BY <1>3, <1>7, <1>15 DEF Least
    <2>2. body = << x >> BY <1>5, <1>15 DEF Content
    <2> HIDE DEF n
    <2>3. x.kind = "blk" /\ x.len \in {0, t.size} BY <2>1, BytesAtIs
    <2> HIDE DEF x
    <2>4. Parses(t, u, body) BY <1>13, <1>15, <2>2, <2>3, ParsesBlock
    <2> QED BY <2>4 DEF t, arg, body
<1>16. CASE t.name = "dirent"
    <2> DEFINE x == Block(0, 0)
    <2>1. x.kind = "blk" /\ x.len = 0 BY DEF Block
    <2>2. body = << x >> BY <1>7, <1>16
    <2> HIDE DEF x
    <2>3. Parses(t, u, body) BY <1>13, <1>16, <2>1, <2>2, ParsesBlock
    <2> QED BY <2>3 DEF t, arg, body
<1>17. CASE IsString(t) \/ IsBuffer(t)
    <2>1. PICK x : body = << x >> /\ x.kind = "blk"
        <3>1. CASE t.name \in {"buffer", "buffer_reg"}
            <4>1. \E n : body = << BytesAt(a, n) >>
                <5>1. CASE t.name = "buffer" BY <1>5, <5>1 DEF Content
                <5>2. CASE t.name = "buffer_reg" BY <1>5, <5>2 DEF Content
                <5> QED BY <3>1, <5>1, <5>2
            <4> QED BY <4>1, BytesAtIs
        <3>2. CASE t.name \in {"string", "std"}
            <4>1. \E z : body = << StringAt(z) >> BY <1>5, <3>2 DEF Content
            <4>2. \A z : StringAt(z).kind = "blk" BY DEF StringAt, Block
            <4> QED BY <4>1, <4>2
        <3> QED BY <1>17, <3>1, <3>2 DEF IsString, IsBuffer
    <2>2. Parses(t, u, body) BY <1>13, <1>17, <2>1, ParsesBlock
    <2> QED BY <2>2 DEF t, arg, body
<1>18. CASE t.name = "string_array"
    <2>1. body = StringsAt(a) BY <1>5, <1>18 DEF Content
    <2>2. Parses(t, u, body) BY <1>4, <1>13, <1>18, <2>1, ParsesStrings
    <2> QED BY <2>2 DEF t, arg, body
<1>19. CASE t.name = "iovec"
    <2> DEFINE r == regs[t.reg]
    <2>1. r \in 1 .. MaxIov BY <1>8, <1>10, <1>11, <1>12, <1>19
    <2>2. body = << RegElem(r) >> \o IovecAt(a, r) BY <1>5, <1>19 DEF Content
    <2>3. \A j \in 1 .. Len(body) : j % 2 = 0 => body[j] # Block(0, 0) BY <1>7, <1>19
    <2> HIDE DEF r
    <2>4. Parses(t, u, body) BY <1>4, <1>13, <1>19, <2>1, <2>2, <2>3, ParsesIovec
    <2> QED BY <2>4 DEF t, arg, body
<1>20. CASE t.name = "msghdr"
    <2> DEFINE r == WordAt(a + 24)
               x == BytesAt(a, MsghdrSize)
               y == BytesAt(WordAt(a + 32), Least(MaxBytes, WordAt(a + 40)))
    <2>1. r \in 1 .. MaxIov
        <3>1. r \in Nat BY WordAtType
        <3>2. ~(r = 0) /\ ~(r > MaxIov) BY <1>9, <1>10, <1>20
        <3> HIDE DEF r
        <3> QED BY <1>11, <3>1, <3>2
    <2>2. body = << x, y >> \o IovecAt(WordAt(a + 16), r) BY <1>5, <1>20 DEF Content
    <2>3. \A j \in 1 .. Len(body) : j % 2 = 1 => body[j] # Block(0, 0) BY <1>7, <1>20
    <2>4. r = WordAt(a + 24) OBVIOUS
    <2>5. x = BytesAt(a, MsghdrSize)
          /\ y = BytesAt(WordAt(a + 32), Least(MaxBytes, WordAt(a + 40)))
        OBVIOUS
    <2> HIDE DEF r, x, y
    <2>6. Parses(t, u, body)
        BY <1>4, <1>13, <1>20, <2>1, <2>2, <2>3, <2>4, <2>5, ParsesMsghdr
    <2> QED BY <2>6 DEF t, arg, body
<1> QED BY <1>3, <1>14, <1>15, <1>16, <1>17, <1>18, <1>19, <1>20
        DEF Type, IsString, IsBuffer

\* The state of the loop over the arguments.
ParseState(rest, seen) == [ok |-> TRUE, rest |-> rest, shown |-> seen]

Item(call, k) == [value |-> AddressOf(call, k), body |-> Body(call, k)]

\* An argument whose body b is followed by r.
LEMMA ParsesOne ==
    ASSUME NEW kind, NEW arg, NEW v \in Int, NEW b \in Seq(Element), NEW r \in Seq(Element),
           NEW seen,
           IF ParseMore(arg, kind) THEN Parses(arg.type, b \o r, b) ELSE b = << >>
    PROVE  ParseArg(kind, ParseState((<< RegElem(v) >> \o b) \o r, seen), arg) =
               ParseState(r, Append(seen, [value |-> v, body |-> b]))
<1> DEFINE x == RegElem(v)
           all == (<< x >> \o b) \o r
           u == b \o r
           state == ParseState(all, seen)
           more == IF ParseMore(arg, kind) THEN Parse(arg.type, Tail(all))
                   ELSE [ok |-> TRUE, n |-> 0]
<1>1. x \in Element BY ElementType
<1>2. x.kind = "reg" /\ x.data = v BY DEF RegElem
<1> HIDE DEF x
<1>l. Leading(x, b, r, all, u) BY <1>1, TakesBody
<1>4. IF ParseMore(arg, kind) THEN Parses(arg.type, u, b) ELSE b = << >> OBVIOUS
<1> HIDE DEF all, u
<1>3. /\ Len(all) >= 1 /\ all[1] = x /\ Tail(all) = u
      /\ u \in Seq(Element) /\ Len(u) >= Len(b)
      /\ SubSeq(u, 1, Len(b)) = b /\ SubSeq(u, Len(b) + 1, Len(u)) = r
    BY <1>l DEF Leading
<1>5. more = [ok |-> TRUE, n |-> Len(b)]
    <2>1. CASE ParseMore(arg, kind) BY <1>3, <1>4, <2>1 DEF Parses
    <2>2. CASE ~ParseMore(arg, kind)
        <3>1. Len(b) = 0 BY <1>4, <2>2
        <3> QED BY <2>2, <3>1
    <2> QED BY <2>1, <2>2
<1>6. IsReg(all, 1) BY <1>2, <1>3 DEF IsReg, Fits
<1>7. Fits(u, Len(b)) BY <1>3 DEF Fits
<1>8. state.ok = TRUE /\ state.rest = all /\ state.shown = seen BY DEF ParseState
<1> HIDE DEF state
<1>9. ParseArg(kind, state, arg) =
          IF ~state.ok \/ ~IsReg(all, 1) \/ ~more.ok \/ ~Fits(u, more.n)
          THEN [state EXCEPT !.ok = FALSE]
          ELSE [ok    |-> TRUE,
                rest  |-> SubSeq(u, more.n + 1, Len(u)),
                shown |-> Append(seen, [value |-> all[1].data, body |-> SubSeq(u, 1, more.n)])]
    BY <1>3, <1>8 DEF ParseArg
<1> HIDE DEF more
<1>10. more.ok = TRUE /\ more.n = Len(b) BY <1>5
<1>11. ParseArg(kind, state, arg) =
           [ok |-> TRUE, rest |-> r, shown |-> Append(seen, [value |-> v, body |-> b])]
    BY <1>2, <1>3, <1>6, <1>7, <1>8, <1>9, <1>10
<1> QED BY <1>11 DEF ParseState, state, all, x

LEMMA ParsesElems ==
    ASSUME NEW call, IsCall(call), ~OddIovCount(call), ~Unparsable(call),
           NEW k \in DOMAIN call.point.args, NEW r \in Seq(Element), NEW seen
    PROVE  ParseArg(call.point.kind, ParseState(Elems(call, k) \o r, seen), call.point.args[k]) =
               ParseState(r, Append(seen, Item(call, k)))
<1> DEFINE arg == call.point.args[k]
           kind == call.point.kind
           b == Body(call, k)
           v == AddressOf(call, k)
<1>1. v \in Int /\ b \in Seq(Element) BY AddressType, BodyType
<1>2. ReadMore(arg) = ParseMore(arg, kind) BY DEF Unparsable
<1>3. ReadMore(arg) => k \in Reading(call) BY DEF Reading
<1>4. ~ReadMore(arg) => b = << >> BY DEF Body
<1>5. Begins(b \o r, b)
    <2> HIDE DEF b
    <2>1. /\ b \o r \in Seq(Element) /\ Len(b \o r) = Len(b) + Len(r)
          /\ \A j \in 1 .. Len(b) + Len(r) : (b \o r)[j] = IF j <= Len(b) THEN b[j] ELSE r[j - Len(b)]
        BY <1>1, ConcatProperties
    <2>2. Len(b) \in Nat /\ Len(r) \in Nat BY <1>1
    <2> DEFINE u == b \o r
    <2> HIDE DEF u
    <2>3. \A j \in 1 .. Len(b) : j \in 1 .. Len(b) + Len(r) /\ j <= Len(b) BY <2>2
    <2>4. Len(u) >= Len(b) BY <2>1, <2>2 DEF u
    <2>5. \A j \in 1 .. Len(b) : u[j] = b[j] BY <2>1, <2>3 DEF u
    <2> QED BY <1>1, <2>1, <2>4, <2>5 DEF Begins, u
<1>6. ReadMore(arg) => Parses(arg.type, b \o r, b) BY <1>3, <1>5, ParsesContent
<1>7. Elems(call, k) = << RegElem(v) >> \o b BY DEF Elems, Value
<1> HIDE DEF arg, kind, b, v
<1>8. IF ParseMore(arg, kind) THEN Parses(arg.type, b \o r, b) ELSE b = << >>
    BY <1>2, <1>4, <1>6
<1>9. ParseArg(kind, ParseState((<< RegElem(v) >> \o b) \o r, seen), arg) =
          ParseState(r, Append(seen, [value |-> v, body |-> b]))
    BY <1>1, <1>8, ParsesOne
<1> QED BY <1>7, <1>9 DEF Item, arg, kind, b, v

-----------------------------------------------------------------------------
(* What is read back from an event that holds what was promised.             *)

\* f[n]: the elements of the last n arguments, and what stands behind them.
IsBehind(call, f, last) ==
    LET count == Len(call.point.args)
    IN  /\ f \in [0 .. count -> Seq(Element)]
        /\ f[0] = last
        /\ \A n \in 1 .. count : f[n] = Elems(call, count + 1 - n) \o f[n - 1]

LEMMA BehindExists ==
    ASSUME NEW call, IsCall(call), NEW last \in Seq(Element)
    PROVE  \E f : IsBehind(call, f, last)
<1> DEFINE N == Len(call.point.args)
           D == Seq(Element)
           g == [n \in Nat |-> [x \in D |-> IF n \in 1 .. N THEN Elems(call, N + 1 - n) \o x ELSE x]]
<1>1. call.point.args \in Seq(Arg) BY DEF IsCall, Point
<1>2. N \in Nat /\ DOMAIN call.point.args = 1 .. N BY <1>1
<1>3. \A n \in 1 .. N : Elems(call, N + 1 - n) \in Seq(Element)
    <2> TAKE n \in 1 .. N
    <2>1. N + 1 - n \in DOMAIN call.point.args BY <1>2
    <2> HIDE DEF N
    <2> QED BY <2>1, BodyType
<1>4. g \in [Nat -> [D -> D]]
    <2>1. \A n \in Nat, x \in D : (IF n \in 1 .. N THEN Elems(call, N + 1 - n) \o x ELSE x) \in D
        <3> TAKE n \in Nat, x \in D
        <3>1. CASE n \in 1 .. N BY <1>3, <3>1, JoinedType
        <3>2. CASE n \notin 1 .. N BY <3>2
        <3> QED BY <3>1, <3>2
    <2> QED BY <2>1
<1>5. \A n \in 1 .. N, x \in D : g[n][x] = Elems(call, N + 1 - n) \o x BY <1>2
<1> HIDE DEF g
<1>6. PICK f : IsIteration(f, N, D, last, g)
    <2> HIDE DEF N, D
    <2>1. last \in D BY DEF D
    <2> QED BY <1>2, <1>4, <2>1, IterationExists
<1>7. f \in [0 .. N -> D] /\ f[0] = last /\ \A n \in 1 .. N : f[n] = g[n][f[n - 1]]
    BY <1>6 DEF IsIteration
<1>8. \A n \in 1 .. N : f[n] = Elems(call, N + 1 - n) \o f[n - 1]
    <2> TAKE n \in 1 .. N
    <2>1. n - 1 \in 0 .. N BY <1>2
    <2>2. f[n - 1] \in D BY <1>7, <2>1
    <2> QED BY <1>5, <1>7, <2>2
<1>9. IsBehind(call, f, last) BY <1>7, <1>8 DEF IsBehind
<1> QED BY <1>9

LEMMA ElementsJoin ==
    ASSUME NEW u \in Seq(Element), NEW v \in Seq(Element), NEW w \in Seq(Element)
    PROVE  (u \o v) \o w = u \o (v \o w)
BY ConcatAssociative

LEMMA BehindAll ==
    ASSUME NEW call, IsCall(call), NEW last \in Seq(Element), NEW f, IsBehind(call, f, last)
    PROVE  f[Len(call.point.args)] = Before(call, Len(call.point.args) + 1) \o last
<1> DEFINE N == Len(call.point.args)
           all == Before(call, N + 1) \o last
           Whole(n) == Before(call, N + 1 - n) \o f[n] = all
           T == {n \in Nat : n <= N => Whole(n)}
<1>1. call.point.args \in Seq(Arg) BY DEF IsCall, Point
<1>2. N \in Nat /\ DOMAIN call.point.args = 1 .. N BY <1>1
<1>3. /\ f \in [0 .. N -> Seq(Element)] /\ f[0] = last
      /\ \A n \in 1 .. N : f[n] = Elems(call, N + 1 - n) \o f[n - 1]
    BY DEF IsBehind
<1>4. /\ Before(call, 1) = << >>
      /\ \A k \in 1 .. N : /\ Before(call, k) \in Seq(Element) /\ Elems(call, k) \in Seq(Element)
                           /\ Before(call, k + 1) = Before(call, k) \o Elems(call, k)
    <2>1. \A k \in DOMAIN call.point.args : Elems(call, k) \in Seq(Element) BY BodyType
    <2> QED BY <1>2, <2>1, BeforeIs
<1> HIDE DEF N
<1>5. 0 \in T
    <2>1. N + 1 - 0 = N + 1 BY <1>2
    <2> QED BY <1>3, <2>1
<1> HIDE DEF Whole
<1>6. \A n \in Nat : n \in T => n + 1 \in T
    <2> SUFFICES ASSUME NEW n \in Nat, n \in T, n + 1 <= N PROVE Whole(n + 1) OBVIOUS
    <2> DEFINE k == N - n
               b == Before(call, k)
               s == Elems(call, k)
               r == f[n]
    <2>1. /\ k \in 1 .. N /\ N + 1 - (n + 1) = k /\ N + 1 - n = k + 1 /\ n <= N
          /\ n + 1 \in 1 .. N /\ (n + 1) - 1 = n /\ n \in 0 .. N
        BY <1>2
    <2>2. f[n + 1] = s \o r BY <1>3, <2>1
    <2>3. b \in Seq(Element) /\ s \in Seq(Element) /\ r \in Seq(Element)
          /\ Before(call, k + 1) = b \o s
        BY <1>3, <1>4, <2>1
    <2>w. Whole(n) BY <2>1
    <2>4. Before(call, k + 1) \o r = all BY <2>1, <2>w DEF Whole
    <2> HIDE DEF b, s, r, all, T
    <2>5. (b \o s) \o r = b \o (s \o r) BY <2>3, ElementsJoin, Zenon
    <2>6. b \o f[n + 1] = all BY <2>2, <2>3, <2>4, <2>5
    <2> QED BY <2>1, <2>6 DEF b, Whole
<1> HIDE DEF T
<1>7. Nat \subseteq T BY <1>5, <1>6, NumberInduction
<1>w. Whole(N) BY <1>2, <1>7 DEF T
<1>8. Before(call, N + 1 - N) \o f[N] = all BY <1>w DEF Whole
<1>9. N + 1 - N = 1 BY <1>2
<1>10. f[N] \in Seq(Element) BY <1>2, <1>3
<1>11. << >> \o f[N] = f[N] BY <1>10
<1> QED BY <1>4, <1>8, <1>9, <1>11 DEF N

\* The first n items that are shown.
Seen(call, n) == [j \in 1 .. n |-> Item(call, j)]

LEMMA SeenGrows ==
    ASSUME NEW call, NEW n \in Nat
    PROVE  /\ Seen(call, 0) = << >>
           /\ Append(Seen(call, n), Item(call, n + 1)) = Seen(call, n + 1)
<1> DEFINE S == {Item(call, j) : j \in Nat}
           m == n + 1
           s == Seen(call, n)
           x == Item(call, m)
           t == Seen(call, m)
<1>1. Seen(call, 0) = << >> BY DEF Seen
<1>2. s \in Seq(S) /\ Len(s) = n /\ \A j \in 1 .. n : s[j] = Item(call, j) BY DEF Seen
<1>3. t \in Seq(S) /\ Len(t) = m /\ \A j \in 1 .. m : t[j] = Item(call, j) BY DEF Seen
<1>4. x \in S OBVIOUS
<1>5. m \in Nat /\ m = n + 1 OBVIOUS
<1> DEFINE w == Append(s, x)
<1> HIDE DEF s, t, S, m
<1>6. w \in Seq(S) /\ Len(w) = Len(s) + 1 /\ w[Len(s) + 1] = x
      /\ \A j \in 1 .. Len(s) : w[j] = s[j]
    <2> HIDE DEF x
    <2>1. s \in Seq(S) BY <1>2
    <2> QED BY <1>4, <2>1, AppendProperties
<1> HIDE DEF w
<1>7. Len(w) = Len(t) BY <1>2, <1>3, <1>5, <1>6
<1>8. \A j \in 1 .. Len(w) : w[j] = t[j]
    <2> TAKE j \in 1 .. Len(w)
    <2>1. j \in 1 .. m BY <1>3, <1>7
    <2>2. CASE j = m BY <1>2, <1>3, <1>5, <1>6, <2>1, <2>2
    <2>3. CASE j # m
        <3>1. j \in 1 .. n BY <1>5, <2>1, <2>3
        <3> QED BY <1>2, <1>3, <1>6, <2>1, <3>1
    <2> QED BY <2>2, <2>3
<1>9. w = t BY <1>3, <1>6, <1>7, <1>8, SeqEqual
<1> QED BY <1>1, <1>5, <1>9 DEF w, s, t, x, m

LEMMA PromisesAreSeen ==
    ASSUME NEW call, IsCall(call)
    PROVE  Promises(call) = Seen(call, Len(call.point.args))
<1>1. call.point.args \in Seq(Arg) BY DEF IsCall, Point
<1>2. DOMAIN call.point.args = 1 .. Len(call.point.args) BY <1>1
<1>3. \A k \in DOMAIN call.point.args :
          Promise(call.point.args[k], call.regs, call.ret) = Item(call, k)
    BY DEF Promise, Item, AddressOf, Body
<1> QED BY <1>2, <1>3 DEF Promises, Seen

\* The equations of the loop in ParsePoint have one solution.
IsParsing(point, elements, h, N) ==
    /\ N \in Nat /\ N = Len(Shown(point))
    /\ h = [n \in 0 .. N |-> h[n]]
    /\ h[0] = ParseState(elements, << >>)
    /\ \A n \in 1 .. N : h[n] = ParseArg(point.kind, h[n - 1], Shown(point)[n])

LEMMA ParsePointIs ==
    ASSUME NEW point, NEW elements, NEW h, NEW N, IsParsing(point, elements, h, N)
    PROVE  ParsePoint(point, elements) = h[N]
<1> USE DEF IsParsing
<1> DEFINE args == Shown(point)
           first == [ok |-> TRUE, rest |-> elements, shown |-> << >>]
           Is(f) == f = [n \in 0 .. N |-> IF n = 0 THEN first
                                          ELSE ParseArg(point.kind, f[n - 1], args[n])]
           state == CHOOSE f : Is(f)
<1>1. ParsePoint(point, elements) = state[N] BY DEF ParsePoint
<1>2. first = ParseState(elements, << >>) BY DEF ParseState
<1> HIDE DEF first, args
<1>3. Is(h)
    <2>1. \A n \in 0 .. N : h[n] = IF n = 0 THEN first
                                   ELSE ParseArg(point.kind, h[n - 1], args[n])
        <3> TAKE n \in 0 .. N
        <3>1. CASE n = 0 BY <1>2, <3>1
        <3>2. CASE n # 0
            <4>1. n \in 1 .. N BY <3>2
            <4> QED BY <3>2, <4>1 DEF args
        <3> QED BY <3>1, <3>2
    <2> QED BY <2>1
<1>4. Is(state) BY <1>3
<1> HIDE DEF state
<1>5. \A n \in 0 .. N : state[n] = IF n = 0 THEN first
                                   ELSE ParseArg(point.kind, state[n - 1], args[n])
    BY <1>4
<1> DEFINE T == {n \in Nat : n <= N => state[n] = h[n]}
<1>6. 0 \in T
    <2>1. 0 \in 0 .. N OBVIOUS
    <2> QED BY <1>2, <1>5, <2>1
<1>7. \A n \in Nat : n \in T => n + 1 \in T
    <2> SUFFICES ASSUME NEW n \in Nat, n \in T, n + 1 <= N PROVE state[n + 1] = h[n + 1]
        OBVIOUS
    <2>1. n + 1 \in 1 .. N /\ n + 1 \in 0 .. N /\ (n + 1) - 1 = n /\ n <= N /\ n + 1 # 0 OBVIOUS
    <2>2. state[n] = h[n] BY <2>1
    <2>3. state[n + 1] = ParseArg(point.kind, state[n], args[n + 1]) BY <1>5, <2>1
    <2>4. h[n + 1] = ParseArg(point.kind, h[n], args[n + 1]) BY <2>1 DEF args
    <2> QED BY <2>2, <2>3, <2>4
<1> HIDE DEF T
<1>8. Nat \subseteq T BY <1>6, <1>7, NumberInduction
<1> QED BY <1>1, <1>8 DEF T

PromisedItems(call) ==
    LET ret == [value |-> call.ret, body |-> << >>]
    IN  IF call.point.kind = "exit" THEN Append(Promises(call), ret) ELSE Promises(call)

LEMMA ReadsBack ==
    ASSUME NEW call, IsCall(call), ~OddIovCount(call), ~Unparsable(call)
    PROVE  ParsePoint(call.point, PromisedElements(call)) = ParseState(<< >>, PromisedItems(call))
<1> DEFINE point == call.point
           args == call.point.args
           count == Len(args)
           kind == point.kind
           ret == [value |-> call.ret, body |-> << >>]
           exit == kind = "exit"
           last == IF exit THEN << RegElem(call.ret) >> ELSE << >>
           all == PromisedElements(call)
           items == IF exit THEN Append(Promises(call), ret) ELSE Promises(call)
           N == Len(Shown(point))
<1>1. args \in Seq(Arg) /\ call.ret \in Nat BY DEF IsCall, Point
<1>2. count \in Nat /\ DOMAIN args = 1 .. count BY <1>1
<1>3. last \in Seq(Element)
    <2>1. RegElem(call.ret) \in Element BY <1>1, ElementType
    <2> QED BY <2>1
<1>4. PICK f : IsBehind(call, f, last) BY <1>3, BehindExists
<1>5. /\ f \in [0 .. count -> Seq(Element)] /\ f[0] = last
      /\ \A n \in 1 .. count : f[n] = Elems(call, count + 1 - n) \o f[n - 1]
    BY <1>4 DEF IsBehind
<1>6. all = f[count]
    <2>1. f[count] = Before(call, count + 1) \o last BY <1>3, <1>4, BehindAll
    <2>2. all = Before(call, count + 1) \o last BY PromisedIs
    <2> QED BY <2>1, <2>2
<1>7. /\ exit => N = count + 1 /\ Shown(point)[count + 1] = RetArg
      /\ ~exit => N = count
      /\ \A n \in 1 .. count : Shown(point)[n] = args[n]
    <2>1. CASE exit
        <3>1. Shown(point) = Append(args, RetArg) BY <2>1 DEF Shown
        <3> DEFINE x == RetArg
        <3>2. Len(Append(args, x)) = count + 1 /\ Append(args, x)[count + 1] = x
              /\ \A n \in 1 .. count : Append(args, x)[n] = args[n]
            <4> HIDE DEF x
            <4> QED BY <1>1
        <3> HIDE DEF x, args, count
        <3> QED BY <2>1, <3>1, <3>2 DEF x
    <2>2. CASE ~exit BY <2>2 DEF Shown
    <2> QED BY <2>1, <2>2
<1>8. Promises(call) = Seen(call, count) BY PromisesAreSeen
<1> DEFINE part(n) == IF n <= count THEN ParseState(f[count - n], Seen(call, n))
                      ELSE ParseState(<< >>, items)
           h == [n \in 0 .. N |-> part(n)]
<1>9. N \in Nat BY <1>2, <1>7
<1>10. (\A n \in 0 .. N : h[n] = part(n)) /\ h = [n \in 0 .. N |-> h[n]]
    OBVIOUS
<1> HIDE DEF h, N, last, items, all, exit
<1>11. h[0] = ParseState(all, << >>)
    <2>1. 0 \in 0 .. N /\ 0 <= count /\ count - 0 = count BY <1>2, <1>9
    <2>2. Seen(call, 0) = << >> BY SeenGrows
    <2> QED BY <1>6, <1>10, <2>1, <2>2
<1>12. ASSUME NEW n \in 1 .. count
       PROVE  part(n) = ParseArg(kind, part(n - 1), args[n])
    <2> DEFINE m == n - 1
               r == f[count - n]
               seen == Seen(call, m)
    <2>1. /\ m \in Nat /\ m + 1 = n /\ m <= count /\ n <= count
          /\ count - m \in 1 .. count /\ count + 1 - (count - m) = n
          /\ (count - m) - 1 = count - n /\ count - n \in 0 .. count
          /\ n \in DOMAIN args
        BY <1>2
    <2>2. r \in Seq(Element) BY <1>5, <2>1
    <2>3. f[count - m] = Elems(call, n) \o r BY <1>5, <2>1
    <2>4. part(n - 1) = ParseState(Elems(call, n) \o r, seen) BY <2>1, <2>3
    <2>5. Append(seen, Item(call, n)) = Seen(call, n) BY <2>1, SeenGrows
    <2>6. part(n) = ParseState(r, Seen(call, n)) BY <2>1
    <2> HIDE DEF r, seen, m
    <2>7. ParseArg(kind, ParseState(Elems(call, n) \o r, seen), args[n]) =
              ParseState(r, Append(seen, Item(call, n)))
        BY <2>1, <2>2, ParsesElems
    <2> HIDE DEF part
    <2> QED BY <2>4, <2>5, <2>6, <2>7
<1>13. ASSUME exit
       PROVE  part(count + 1) = ParseArg(kind, part(count), RetArg)
    <2> DEFINE v == call.ret
               seen == Seen(call, count)
               b == << >>
    <2>1. v \in Int BY <1>1
    <2>2. part(count) = ParseState(<< RegElem(v) >>, seen)
        <3>1. count - count = 0 /\ count <= count BY <1>2
        <3>2. last = << RegElem(call.ret) >> BY <1>13 DEF last
        <3> QED BY <1>5, <3>1, <3>2
    <2>3. part(count + 1) = ParseState(<< >>, Append(seen, [value |-> v, body |-> b]))
        <3>1. ~(count + 1 <= count) BY <1>2
        <3>2. items = Append(Promises(call), ret) BY <1>13 DEF items
        <3> QED BY <1>8, <3>1, <3>2
    <2>4. RetArg.type.name = "num" BY DEF RetArg
    <2>5. Parses(RetArg.type, b \o b, b)
        <3>1. Parse(RetArg.type, b \o b) = [ok |-> TRUE, n |-> 0]
            BY <2>4 DEF Parse, IsString, IsBuffer
        <3>2. Len(b) = 0 OBVIOUS
        <3> QED BY <3>1, <3>2 DEF Parses
    <2>6. b \in Seq(Element) OBVIOUS
    <2>7. (<< RegElem(v) >> \o b) \o b = << RegElem(v) >>
        <3> DEFINE w == << RegElem(v) >>
        <3>1. RegElem(v) \in Element BY <2>1, ElementType
        <3>2. w \in Seq(Element) BY <3>1
        <3> HIDE DEF w
        <3>3. (w \o << >>) \o << >> = w BY <3>2, ConcatEmptySeq
        <3> QED BY <3>3 DEF w
    <2> HIDE DEF b, part, seen
    <2>8. IF ParseMore(RetArg, kind) THEN Parses(RetArg.type, b \o b, b) ELSE b = << >>
        BY <2>5 DEF b
    <2>9. ParseArg(kind, ParseState((<< RegElem(v) >> \o b) \o b, seen), RetArg) =
              ParseState(b, Append(seen, [value |-> v, body |-> b]))
        BY <2>1, <2>6, <2>8, ParsesOne
    <2>10. b = << >> BY DEF b
    <2> QED BY <2>2, <2>3, <2>7, <2>9, <2>10
<1>14. \A n \in 1 .. N : h[n] = ParseArg(kind, h[n - 1], Shown(point)[n])
    <2> TAKE n \in 1 .. N
    <2>1. n \in 0 .. N /\ n - 1 \in 0 .. N BY <1>9
    <2>2. h[n] = part(n) /\ h[n - 1] = part(n - 1) BY <1>10, <2>1
    <2> HIDE DEF part
    <2>3. CASE n \in 1 .. count BY <1>7, <1>12, <2>2, <2>3
    <2>4. CASE n \notin 1 .. count
        <3>1. exit /\ n = count + 1 /\ n - 1 = count BY <1>2, <1>7, <2>4
        <3> QED BY <1>7, <1>13, <2>2, <3>1
    <2> QED BY <2>3, <2>4
<1>15. ParsePoint(point, all) = h[N]
    <2>1. N = Len(Shown(point)) BY DEF N
    <2> HIDE DEF point, kind
    <2>2. kind = point.kind BY DEF kind, point
    <2> HIDE DEF part
    <2>3. IsParsing(point, all, h, N) BY <1>9, <1>10, <1>11, <1>14, <2>1, <2>2 DEF IsParsing
    <2> QED BY <2>3, ParsePointIs
<1>16. h[N] = ParseState(<< >>, items)
    <2>1. N \in 0 .. N BY <1>9
    <2>2. CASE exit
        <3>1. ~(N <= count) BY <1>2, <1>7, <2>2
        <3> QED BY <1>10, <2>1, <3>1
    <2>3. CASE ~exit
        <3>1. N = count /\ N <= count /\ count - N = 0 BY <1>2, <1>7, <2>3
        <3>2. items = Seen(call, N) BY <1>8, <2>3, <3>1 DEF items
        <3>3. f[0] = << >> BY <1>5, <2>3 DEF last
        <3> QED BY <1>10, <2>1, <3>1, <3>2, <3>3
    <2> QED BY <2>2, <2>3
<1> QED BY <1>15, <1>16 DEF items, all, exit, PromisedItems

\* With the same exceptions, and those of Unparsable, user space reads every argument of a submitted event back
\* with its own value and content and takes all its elements (config_point_arg.go:112-126,
\* event_uprobe.go:62-99, utils.h:29-314).
THEOREM ReadBackAsPromised == Spec => []ShownAsPromised
<1>1. ASSUME IInv, RunInv PROVE ShownAsPromised
    <2> SUFFICES ASSUME pc = "submitted", spoilt = {}, AsDocumented(event), ~Unparsable(event)
                 PROVE  LET parsed == ParsePoint(event.point, saved)
                        IN  parsed.ok /\ parsed.rest = << >> /\ parsed.shown = PromisedItems(event)
        BY DEF ShownAsPromised, PromisedItems
    <2>1. saved = PromisedElements(event) BY <1>1 DEF RunInv, AsDocumented
    <2>2. IsCall(event) BY <1>1, EventKnown DEF IInv
    <2>3. ParsePoint(event.point, PromisedElements(event)) = ParseState(<< >>, PromisedItems(event))
        BY <2>2, ReadsBack DEF AsDocumented
    <2> QED BY <2>1, <2>3 DEF ParseState
<1> QED BY <1>1, RunInvariance, PTL

-----------------------------------------------------------------------------
(* strcmp_by_map on several cpus.                                            *)

\* Who is between insertion and deletion is known to all the others who are.
RivalsInv == \A c, d \in Comparing(step) : c # d => rule[d] \in rivals[c]

\* A rule that was inserted is in the map until a rival with the same rule deletes it.
EntryInv == \A c \in Comparing(step) : rule[c] \in str_buf \/ rule[c] \in rivals[c]

\* The two properties of results, from the lookup on; before there is no match.
VerdictInv ==
    \A c \in Cpu :
        /\ matched[c] => step[c] \in {"delete", "done"}
        /\ matched[c] =>
              Satisfies(now[c], rule[c]) \/ Key(now[c], rule[c]) \in rivals[c]
        /\ step[c] \in {"delete", "done"} /\ ~matched[c] /\ Satisfies(shown[c], rule[c]) =>
              now[c] # shown[c] \/ rule[c] \in rivals[c]

CompareInv == CompareTypeOK /\ BufIsClean /\ RivalsInv /\ EntryInv /\ VerdictInv

\* The key that is looked up is the rule exactly if the string begins with it.
LEMMA KeyIsRule ==
    ASSUME NEW s \in String, NEW r \in Rule
    PROVE  Key(s, r) = r <=> Satisfies(s, r)
<1>1. s \in Seq(Char) /\ r \in Seq(Char) BY StrCompareAssumption
<1>2. Len(s) \in Nat /\ Len(r) \in Nat BY <1>1
<1>3. CASE Len(s) < Len(r)
    BY <1>2, <1>3 DEF Key, Satisfies
<1>4. CASE ~(Len(s) < Len(r))
    BY <1>2, <1>4 DEF Key, Satisfies
<1> QED BY <1>3, <1>4

\* A string that is too short does not begin with the rule.
LEMMA ShortIsMiss ==
    ASSUME NEW s \in String, NEW r \in Rule, TooShort(s, r)
    PROVE  ~Satisfies(s, r)
<1>1. s \in Seq(Char) /\ r \in Seq(Char) BY StrCompareAssumption
<1> QED BY <1>1 DEF TooShort, Satisfies

LEMMA CompareInitInv == ASSUME CompareInit PROVE CompareInv
<1>1. (CHOOSE r \in Rule : TRUE) \in Rule /\ (CHOOSE s \in String : TRUE) \in String
    BY StrCompareAssumption
<1> QED BY <1>1 DEF CompareInit, CompareInv, CompareTypeOK, Step, BufIsClean, RivalsInv, EntryInv,
                    VerdictInv, Comparing

\* The parts of the invariant that speak of one cpu c, when another one moves.
LEMMA CompareStays ==
    ASSUME CompareInv, NEW c \in Cpu, NEW s \in String, NEW r \in Rule, Compare(c, s, r)
    PROVE  CompareInv'
<1> USE DEF CompareInv, CompareTypeOK, Compare, Step
<1>1. CompareTypeOK' OBVIOUS
<1>2. c \notin Comparing(step) /\ Comparing(step') = Comparing(step) BY DEF Comparing
<1>3. \A d \in Comparing(step) : d \in Cpu /\ d # c /\ rule'[d] = rule[d] /\ rivals'[d] = rivals[d]
    BY <1>2 DEF Comparing
<1>4. BufIsClean' BY <1>2, <1>3 DEF BufIsClean
<1>5. RivalsInv' BY <1>2, <1>3 DEF RivalsInv
<1>6. EntryInv' BY <1>2, <1>3 DEF EntryInv
<1>7. VerdictInv' BY DEF VerdictInv
<1> QED BY <1>1, <1>4, <1>5, <1>6, <1>7

LEMMA ReadAgainStays ==
    ASSUME CompareInv, NEW c \in Cpu, NEW s \in String, ReadAgain(c, s)
    PROVE  CompareInv'
<1> USE DEF CompareInv, CompareTypeOK, ReadAgain, Step
<1>1. CompareTypeOK' OBVIOUS
<1>2. Comparing(step') = Comparing(step) BY DEF Comparing
<1>3. BufIsClean' BY <1>2 DEF BufIsClean
<1>4. RivalsInv' BY <1>2 DEF RivalsInv
<1>5. EntryInv' BY <1>2 DEF EntryInv
<1>6. TooShort(shown[c], rule[c]) => ~Satisfies(shown[c], rule[c]) BY ShortIsMiss
<1>7. VerdictInv'
    <2>1. ~matched[c] BY DEF VerdictInv
    <2>2. \A d \in Cpu \ {c} : step'[d] = step[d] /\ now'[d] = now[d] OBVIOUS
    <2>3. step'[c] \in {"delete", "done"} => ~Satisfies(shown[c], rule[c]) BY <1>6
    <2> QED BY <2>1, <2>2, <2>3 DEF VerdictInv
<1> QED BY <1>1, <1>3, <1>4, <1>5, <1>7

LEMMA InsertStays ==
    ASSUME CompareInv, NEW c \in Cpu, Insert(c)
    PROVE  CompareInv'
<1> USE DEF CompareInv, CompareTypeOK, Insert, Inserted, Step
<1>1. Comparing(step') = Comparing(step) \cup {c} /\ c \notin Comparing(step)
    BY DEF Comparing
<1>2. Others(c) \subseteq Rule /\ rule[c] \in Rule BY DEF Others, Comparing
<1>3. CompareTypeOK' BY <1>2
<1>4. BufIsClean'
    <2>1. \A k \in str_buf : \E d \in Comparing(step) : k = rule[d] BY DEF BufIsClean
    <2>2. \A k \in str_buf' : \E d \in Comparing(step') : k = rule[d] BY <1>1, <2>1
    <2> QED BY <2>2 DEF BufIsClean
<1>5. \A d \in Comparing(step) : d \in Cpu /\ d # c /\ rivals'[d] = rivals[d] \cup {rule[c]}
    BY <1>1 DEF Comparing
<1>6. \A d \in Comparing(step) : rule[d] \in rivals'[c] BY <1>1 DEF Others
<1>7. RivalsInv' BY <1>1, <1>5, <1>6 DEF RivalsInv
<1>8. EntryInv' BY <1>1, <1>5 DEF EntryInv
<1>9. \A d \in Cpu : step'[d] \in {"delete", "done"} =>
          /\ step[d] = step'[d]
          /\ rivals[d] \subseteq rivals'[d]
    OBVIOUS
<1>10. VerdictInv' BY <1>9 DEF VerdictInv
<1> QED BY <1>3, <1>4, <1>7, <1>8, <1>10

\* What the lookup finds is the rule itself or the entry of a rival; what it misses is gone
\* because a rival has deleted it.
LEMMA LookupStays ==
    ASSUME CompareInv, NEW c \in Cpu, Lookup(c)
    PROVE  CompareInv'
<1> USE DEF CompareInv, CompareTypeOK, Lookup, Step
<1>1. CompareTypeOK' OBVIOUS
<1>2. Comparing(step') = Comparing(step) /\ c \in Comparing(step) BY DEF Comparing
<1>3. BufIsClean' BY <1>2 DEF BufIsClean
<1>4. RivalsInv' BY <1>2 DEF RivalsInv
<1>5. EntryInv' BY <1>2 DEF EntryInv
<1> DEFINE key == Key(now[c], rule[c])
<1>6. ASSUME key \in str_buf
      PROVE  Satisfies(now[c], rule[c]) \/ key \in rivals[c]
    <2>1. PICK d \in Comparing(step) : key = rule[d] BY <1>6 DEF BufIsClean
    <2>2. CASE d = c BY <2>1, <2>2, KeyIsRule
    <2>3. CASE d # c BY <1>2, <2>1, <2>3 DEF RivalsInv
    <2> QED BY <2>2, <2>3
<1>7. ASSUME key \notin str_buf, Satisfies(shown[c], rule[c]), now[c] = shown[c]
      PROVE  rule[c] \in rivals[c]
    <2>1. key = rule[c] BY <1>7, KeyIsRule
    <2> QED BY <1>2, <1>7, <2>1 DEF EntryInv
<1>8. VerdictInv' BY <1>6, <1>7 DEF VerdictInv
<1> QED BY <1>1, <1>3, <1>4, <1>5, <1>8

LEMMA DeleteStays ==
    ASSUME CompareInv, NEW c \in Cpu, Delete(c)
    PROVE  CompareInv'
<1> USE DEF CompareInv, CompareTypeOK, Delete, Deleted, Step
<1>1. CompareTypeOK' OBVIOUS
<1>2. Comparing(step') = Comparing(step) \ {c} /\ c \in Comparing(step) BY DEF Comparing
<1>3. BufIsClean' BY <1>2 DEF BufIsClean
<1>4. \A d \in Comparing(step) : rule'[d] = rule[d] /\ rivals'[d] = rivals[d] OBVIOUS
<1>5. RivalsInv' BY <1>2, <1>4 DEF RivalsInv
<1>6. \A d \in Comparing(step) : d # c => rule[c] \in rivals[d]
    BY <1>2 DEF RivalsInv
<1>7. EntryInv' BY <1>2, <1>6 DEF EntryInv
<1>8. VerdictInv' BY DEF VerdictInv
<1> QED BY <1>1, <1>3, <1>5, <1>7, <1>8

LEMMA CompareNextStays == ASSUME CompareInv, [CompareNext]_compareVars PROVE CompareInv'
<1>1. CASE CompareNext
    BY <1>1, CompareStays, ReadAgainStays, InsertStays, LookupStays, DeleteStays DEF CompareNext
<1>2. CASE UNCHANGED compareVars
    BY <1>2 DEF compareVars, CompareInv, CompareTypeOK, BufIsClean, RivalsInv, EntryInv, VerdictInv,
                Others
<1> QED BY <1>1, <1>2

LEMMA CompareInvariance == CompareSpec => []CompareInv
BY CompareInitInv, CompareNextStays, PTL DEF CompareSpec

\* str_buf holds rules only, and every variable keeps its type, for any cpus, rules and strings
\* (buffer.h:222-249).
THEOREM CompareTypeCorrect == CompareSpec => []CompareTypeOK
<1>1. CompareInv => CompareTypeOK BY DEF CompareInv
<1> QED BY <1>1, CompareInvariance, PTL

\* A match is reported only for a string that begins with the rule, or for one that begins as
\* the rule of a rival does (buffer.h:241-245).
THEOREM MatchesHold == CompareSpec => []MatchesAreTrue
<1>1. CompareInv => MatchesAreTrue BY DEF CompareInv, VerdictInv, MatchesAreTrue
<1> QED BY <1>1, CompareInvariance, PTL

\* A mismatch is reported for a string that begins with the rule only if the string changed or
\* a rival had the same rule (buffer.h:226-229, 246-248).
THEOREM MissesHold == CompareSpec => []MissesAreTrue
<1>1. CompareInv => MissesAreTrue BY DEF CompareInv, VerdictInv, MissesAreTrue
<1> QED BY <1>1, CompareInvariance, PTL

\* Every comparison takes its rule out of str_buf again (buffer.h:237-248).
THEOREM NothingStaysInBuf == CompareSpec => []BufIsClean
<1>1. CompareInv => BufIsClean BY DEF CompareInv
<1> QED BY <1>1, CompareInvariance, PTL

=============================================================================
