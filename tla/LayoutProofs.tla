---------------------------- MODULE LayoutProofs ----------------------------
(***************************************************************************)
(* Proofs about Layout.                                                    *)
(***************************************************************************)
EXTENDS Layout, Extrema, FiniteSetTheorems, SequenceTheorems

-----------------------------------------------------------------------------
(* Induction and recursion over indices, and over records by their nesting. *)

LEMMA Induction ==
    ASSUME NEW N \in Nat, NEW G, 0 \in G, \A i \in 1 .. N : i - 1 \in G => i \in G
    PROVE  0 .. N \subseteq G
<1> DEFINE Bad == {i \in 0 .. N : i \notin G}
<1> SUFFICES ASSUME Bad # {} PROVE FALSE
  OBVIOUS
<1>1. Bad \in SUBSET Nat
  OBVIOUS
<1>2. Min(Bad) \in Bad /\ \A y \in Bad : Min(Bad) <= y
  <2> HIDE DEF Bad
  <2>1. QED
    BY <1>1, MinOfNaturals
<1>3. PICK m \in Bad : \A y \in Bad : m <= y
  BY <1>2
<1>4. m \in 1 .. N
  BY <1>3
<1>5. m - 1 \notin Bad
  <2>1. SUFFICES ASSUME m - 1 \in Bad PROVE FALSE
    OBVIOUS
  <2>2. m <= m - 1
    BY <2>1, <1>3
  <2>3. QED
    BY <2>2, <1>4
<1>6. m - 1 \in G
  BY <1>4, <1>5
<1>7. QED
  BY <1>3, <1>4, <1>6

\* A run: its start, and how step i follows from the state before.
Runs(f, N, start, T) ==
    f = [i \in 0 .. N |-> IF i = 0 THEN start ELSE T[<<i, f[i - 1]>>]]

LEMMA RunExists ==
    ASSUME NEW N \in Nat, NEW S, NEW start \in S, NEW T \in [(1 .. N) \X S -> S]
    PROVE  \E f \in [0 .. N -> S] : Runs(f, N, start, T)
<1> DEFINE Partial(f, k) == /\ f \in [0 .. k -> S] /\ f[0] = start
                            /\ \A i \in 1 .. k : f[i] = T[<<i, f[i - 1]>>]
           G == {k \in 0 .. N : \E f : Partial(f, k)}
<1>1. 0 \in G
  <2>1. Partial([i \in 0 .. 0 |-> start], 0)
    OBVIOUS
  <2> HIDE DEF Partial
  <2>2. QED
    BY <2>1
<1>2. \A k \in 1 .. N : k - 1 \in G => k \in G
  <2> SUFFICES ASSUME NEW k \in 1 .. N, NEW f, Partial(f, k - 1) PROVE \E g : Partial(g, k)
    OBVIOUS
  <2> DEFINE g == [i \in 0 .. k |-> IF i = k THEN T[<<k, f[k - 1]>>] ELSE f[i]]
  <2>1. f[k - 1] \in S
    OBVIOUS
  <2>2. T[<<k, f[k - 1]>>] \in S
    BY <2>1
  <2>3. g \in [0 .. k -> S]
    BY <2>2
  <2>4. g[0] = start
    OBVIOUS
  <2>5. ASSUME NEW i \in 1 .. k PROVE g[i] = T[<<i, g[i - 1]>>]
    <3>1. g[i - 1] = f[i - 1]
      OBVIOUS
    <3>2. CASE i = k
      <4>1. g[i] = T[<<i, f[i - 1]>>]
        BY <3>2
      <4> HIDE DEF g
      <4>2. QED
        BY <4>1, <3>1
    <3>3. CASE i < k
      <4>1. g[i] = f[i] /\ i \in 1 .. k - 1
        BY <3>3
      <4>2. QED
        BY <4>1, <3>1
    <3>4. QED
      BY <3>2, <3>3
  <2>6. Partial(g, k)
    BY <2>3, <2>4, <2>5
  <2>7. QED
    BY <2>6
<1>3. N \in G
  <2> HIDE DEF G
  <2>1. 0 .. N \subseteq G
    BY <1>1, <1>2, Induction
  <2>2. QED
    BY <2>1
<1>4. PICK f : Partial(f, N)
  BY <1>3
<1>5. f = [i \in 0 .. N |-> IF i = 0 THEN start ELSE T[<<i, f[i - 1]>>]]
  BY <1>4
<1>6. QED
  BY <1>4, <1>5 DEF Runs

\* The record functions: B[<<n, f>>] is what n's value is where f gives the
\* values of the records it embeds, which are of a lower depth.
Local(D, V, depth, B) ==
    \A n \in D : \A f, g \in [D -> V] :
        (\A m \in D : depth[m] < depth[n] => f[m] = g[m]) => B[<<n, f>>] = B[<<n, g>>]

Solved(D, V, B) == \E f \in [D -> V] : \A n \in D : f[n] = B[<<n, f>>]

LEMMA NestingExists ==
    ASSUME NEW D, NEW V, NEW v \in V, NEW K \in Nat, NEW depth \in [D -> 0 .. K],
           NEW B \in [D \X [D -> V] -> V], Local(D, V, depth, B)
    PROVE  Solved(D, V, B)
<1> DEFINE Partial(f, k) == /\ f \in [D -> V]
                            /\ \A n \in D : depth[n] < k => f[n] = B[<<n, f>>]
           G == {k \in 0 .. K + 1 : \E f : Partial(f, k)}
<1>1. 0 \in G
  <2>1. Partial([n \in D |-> v], 0)
    OBVIOUS
  <2> HIDE DEF Partial
  <2>2. QED
    BY <2>1
<1>2. \A k \in 1 .. K + 1 : k - 1 \in G => k \in G
  <2> SUFFICES ASSUME NEW k \in 1 .. K + 1, \E f : Partial(f, k - 1) PROVE \E g : Partial(g, k)
    <3> HIDE DEF Partial
    <3>1. QED
      OBVIOUS
  <2> PICK f : Partial(f, k - 1)
    OBVIOUS
  <2> DEFINE g == [n \in D |-> B[<<n, f>>]]
  <2>1. g \in [D -> V]
    OBVIOUS
  <2>2. \A n \in D : depth[n] < k - 1 => f[n] = g[n]
    OBVIOUS
  <2>3. ASSUME NEW n \in D, depth[n] < k PROVE g[n] = B[<<n, g>>]
    <3>1. \A m \in D : depth[m] < depth[n] => f[m] = g[m]
      BY <2>2, <2>3
    <3> HIDE DEF g
    <3>2. B[<<n, f>>] = B[<<n, g>>]
      BY <2>1, <3>1 DEF Local
    <3>3. g[n] = B[<<n, f>>]
      BY DEF g
    <3>4. QED
      BY <3>2, <3>3
  <2>4. Partial(g, k)
    BY <2>1, <2>3
  <2>5. QED
    BY <2>4
<1>3. K + 1 \in G
  <2> HIDE DEF G
  <2>1. 0 .. K + 1 \subseteq G
    BY <1>1, <1>2, Induction
  <2>2. QED
    BY <2>1
<1>4. PICK f : Partial(f, K + 1)
  BY <1>3
<1>5. \A n \in D : f[n] = B[<<n, f>>]
  BY <1>4
<1>6. QED
  BY <1>4, <1>5 DEF Solved

-----------------------------------------------------------------------------
(* Alignments and rounding.                                                 *)

LEMMA AlignmentsAreNaturals ==
    \A a \in Alignments : a \in Nat /\ a > 0 /\ a \in Nat \ {0} /\ a <= 8192
BY DEF Alignments

Multiple(x, a) == \E k \in Nat : x = k * a

\* Of two alignments the greater is a multiple of the smaller.
LEMMA AlignmentsDivide ==
    ASSUME NEW a \in Alignments, NEW b \in Alignments, a <= b
    PROVE  Multiple(b, a)
BY DEF Alignments, Multiple

LEMMA MultipleOfMultiple ==
    ASSUME NEW x \in Nat, NEW a \in Nat, NEW b \in Nat, Multiple(x, b), Multiple(b, a)
    PROVE  Multiple(x, a)
<1>1. PICK k \in Nat : x = k * b
  BY DEF Multiple
<1>2. PICK j \in Nat : b = j * a
  BY DEF Multiple
<1>3. x = (k * j) * a
  BY <1>1, <1>2
<1>4. k * j \in Nat
  OBVIOUS
<1>5. QED
  BY <1>3, <1>4 DEF Multiple

LEMMA RoundUp ==
    ASSUME NEW pos \in Nat, NEW a \in Nat \ {0}
    PROVE  /\ round_up(pos, a) \in Nat
           /\ round_up(pos, a) >= pos /\ round_up(pos, a) < pos + a
           /\ Multiple(round_up(pos, a), a)
<1> DEFINE q == (pos + a - 1) \div a
<1>1. q \in Nat
  OBVIOUS
<1>2. q * a <= pos + a - 1 /\ pos + a - 1 < q * a + a
  OBVIOUS
<1>3. round_up(pos, a) = q * a
  BY DEF round_up
<1> HIDE DEF q
<1>4. q * a \in Nat
  BY <1>1
<1>5. QED
  BY <1>1, <1>2, <1>3, <1>4 DEF Multiple

\* It is the least multiple.
LEMMA RoundUpIsLeast ==
    ASSUME NEW pos \in Nat, NEW a \in Nat \ {0}, NEW x \in Nat, Multiple(x, a), x >= pos
    PROVE  round_up(pos, a) <= x
<1>1. PICK k \in Nat : x = k * a
  BY DEF Multiple
<1>2. PICK j \in Nat : round_up(pos, a) = j * a
  BY RoundUp DEF Multiple
<1>3. j * a < pos + a
  BY <1>2, RoundUp
<1>4. SUFFICES ASSUME k < j PROVE FALSE
  <2>1. ASSUME j <= k PROVE j * a <= k * a
    BY <2>1
  <2>2. QED
    BY <2>1, <1>1, <1>2
<1>5. k + 1 <= j
  BY <1>4
<1>6. (k + 1) * a <= j * a
  BY <1>5
<1>7. (k + 1) * a = k * a + a
  OBVIOUS
<1>8. QED
  BY <1>1, <1>3, <1>6, <1>7

LEMMA RoundUpOfMultiple ==
    ASSUME NEW x \in Nat, NEW a \in Nat \ {0}, Multiple(x, a)
    PROVE  round_up(x, a) = x
<1>1. round_up(x, a) \in Nat /\ round_up(x, a) >= x /\ round_up(x, a) <= x
  BY RoundUp, RoundUpIsLeast
<1>2. QED
  BY <1>1

LEMMA RunIsUnique ==
    ASSUME NEW N \in Nat, NEW S, NEW start \in S, NEW T \in [(1 .. N) \X S -> S],
           NEW f, Runs(f, N, start, T), NEW g \in [0 .. N -> S], Runs(g, N, start, T)
    PROVE  f = g
<1> DEFINE G == {i \in 0 .. N : f[i] = g[i]}
<1>1. 0 \in G
  BY DEF Runs
<1>2. ASSUME NEW i \in 1 .. N, f[i - 1] = g[i - 1] PROVE f[i] = g[i]
  <2>1. f[i] = T[<<i, f[i - 1]>>] /\ g[i] = T[<<i, g[i - 1]>>]
    BY DEF Runs
  <2>2. QED
    BY <2>1, <1>2
<1>3. \A i \in 1 .. N : i - 1 \in G => i \in G
  BY <1>2
<1>4. 0 .. N \subseteq G
  <2> HIDE DEF G
  <2>1. QED
    BY <1>1, <1>3, Induction
<1>5. \A i \in 0 .. N : f[i] = g[i]
  BY <1>4
<1>6. f = [i \in 0 .. N |-> f[i]] /\ g = [i \in 0 .. N |-> g[i]]
  BY DEF Runs
<1>7. QED
  BY <1>5, <1>6

LEMMA MaxOfTwo ==
    ASSUME NEW a \in Nat, NEW b \in Nat
    PROVE  Max({a, b}) = IF a >= b THEN a ELSE b
<1>1. {a, b} \in SUBSET Nat /\ {a, b} # {} /\ a + b \in Nat /\ \A y \in {a, b} : y <= a + b
  OBVIOUS
<1>2. Max({a, b}) \in {a, b} /\ \A y \in {a, b} : y <= Max({a, b})
  BY <1>1, MaxOfNaturals
<1>3. QED
  BY <1>2

LEMMA MinOfTwo ==
    ASSUME NEW a \in Nat, NEW b \in Nat
    PROVE  Min({a, b}) = IF a <= b THEN a ELSE b
<1>1. {a, b} \in SUBSET Nat /\ {a, b} # {}
  OBVIOUS
<1>2. Min({a, b}) \in {a, b} /\ \A y \in {a, b} : Min({a, b}) <= y
  BY <1>1, MinOfNaturals
<1>3. QED
  BY <1>2

LEMMA MaxOfAlignments ==
    ASSUME NEW S \in SUBSET Alignments, S # {}
    PROVE  Max(S) \in S /\ \A y \in S : y <= Max(S)
<1>1. S \in SUBSET Nat
  BY AlignmentsAreNaturals
<1>2. PICK bound \in Nat : \A y \in S : y <= bound
  BY AlignmentsAreNaturals
<1>3. QED
  BY <1>1, <1>2, MaxOfNaturals

-----------------------------------------------------------------------------
(* clang's layout is defined for every unit, and has the types it should.   *)

ClangStates  == [size : Nat, align : Alignments, storage : Nat, left : Int, at : Int]
ClangLayouts == [size : Nat, align : Alignments, required : Alignments, offsets : Seq(Int)]

LEMMA PrimFacts ==
    ASSUME NEW t \in DOMAIN Prim
    PROVE  Prim[t] \in Alignments /\ Prim[t] \in Nat \ {0} /\ Prim[t] <= Unpacked
<1>1. Prim[t] \in Alignments /\ Prim[t] <= Unpacked
  BY LayoutAssumption
<1>2. QED
  BY <1>1, AlignmentsAreNaturals

LEMMA NamesOfPrims ==
    /\ Unpacked \in Alignments
    /\ \A t \in DOMAIN Prim : t # "" /\ \A u \in Units : t \notin DOMAIN u
<1>1. Unpacked \in Alignments
  BY LayoutAssumption
<1>2. "" \notin DOMAIN Prim /\ \A u \in Units : DOMAIN u \cap DOMAIN Prim = {}
  BY LayoutAssumption
<1>3. QED
  BY <1>1, <1>2

LEMMA RecordFacts ==
    ASSUME NEW u \in Units, NEW n \in DOMAIN u
    PROVE  /\ u[n].anon \in BOOLEAN /\ u[n].union \in BOOLEAN
           /\ u[n].pack \in Alignments /\ u[n].pack <= Unpacked /\ u[n].align \in Alignments
           /\ u[n].fields \in Seq(Fields(u))
           /\ Len(u[n].fields) \in Nat /\ DOMAIN u[n].fields = 1 .. Len(u[n].fields)
           /\ \A i \in 1 .. Len(u[n].fields) : u[n].fields[i] \in Fields(u)
<1>1. Record(u, u[n])
  BY LayoutAssumption
<1>2. u[n].fields \in Seq(Fields(u))
  BY <1>1 DEF Record
<1>3. /\ Len(u[n].fields) \in Nat /\ DOMAIN u[n].fields = 1 .. Len(u[n].fields)
      /\ \A i \in 1 .. Len(u[n].fields) : u[n].fields[i] \in Fields(u)
  BY <1>2
<1>4. QED
  BY <1>1, <1>2, <1>3 DEF Record

LEMMA FieldFacts ==
    ASSUME NEW u \in Units, NEW f \in Fields(u)
    PROVE  /\ f.type \in DOMAIN Prim \cup DOMAIN u
           /\ f.bits \in Nat \cup {NoBits} /\ f.align \in Alignments /\ f.named \in BOOLEAN
           /\ embeds(u, f) => f.type \in DOMAIN u /\ f.type \notin DOMAIN Prim
           /\ ~embeds(u, f) => f.type \in DOMAIN Prim /\ f.type \notin DOMAIN u
BY LayoutAssumption DEF Fields, embeds

LEMMA ClangFieldType ==
    ASSUME NEW u \in Units, NEW n \in DOMAIN u, NEW f \in Fields(u),
           NEW layout, embeds(u, f) => layout[f.type] \in ClangLayouts
    PROVE  /\ clang_size(u, layout, f) \in Nat
           /\ clang_natural(u, layout, f) \in Alignments
           /\ clang_required(u, layout, f) \in Alignments
           /\ clang_align(u, layout, u[n], f) \in Alignments
<1>1. clang_size(u, layout, f) \in Nat /\ clang_natural(u, layout, f) \in Alignments
  BY FieldFacts, PrimFacts DEF clang_size, clang_natural, ClangLayouts
<1>2. (IF embeds(u, f) THEN layout[f.type].required ELSE 1) \in Alignments
  BY FieldFacts DEF ClangLayouts, Alignments
<1>3. clang_required(u, layout, f) \in Alignments
  BY <1>2, FieldFacts, MaxOfTwo, AlignmentsAreNaturals DEF clang_required
<1>4. Min({clang_natural(u, layout, f), u[n].pack}) \in Alignments
  <2>1. \A a, b \in Alignments : Min({a, b}) \in Alignments
    BY MinOfTwo, AlignmentsAreNaturals
  <2>2. u[n].pack \in Alignments
    BY RecordFacts
  <2>3. QED
    BY <1>1, <2>1, <2>2
<1>5. \A a, b \in Alignments : Max({a, b}) \in Alignments
  BY MaxOfTwo, AlignmentsAreNaturals
<1>6. clang_align(u, layout, u[n], f) \in Alignments
  BY <1>3, <1>4, <1>5 DEF clang_align
<1>7. QED
  BY <1>1, <1>3, <1>6

LEMMA ClangPlaceType ==
    ASSUME NEW u \in Units, NEW n \in DOMAIN u, NEW f \in Fields(u),
           NEW st \in ClangStates, NEW size \in Nat, NEW align \in Alignments
    PROVE  clang_place(u[n], st, f, size, align) \in ClangStates
<1> DEFINE off == IF u[n].union THEN 0 ELSE round_up(st.size, align)
<1>0. st = [size |-> st.size, align |-> st.align, storage |-> st.storage, left |-> st.left, at |-> st.at]
      /\ st.size \in Nat /\ st.align \in Alignments /\ st.storage \in Nat /\ st.left \in Int /\ st.at \in Int
  BY DEF ClangStates
<1>1. off \in Nat
  <2>1. align \in Nat \ {0}
    BY AlignmentsAreNaturals
  <2>2. round_up(st.size, align) \in Nat
    BY <1>0, <2>1, RoundUp
  <2>3. QED
    BY <2>2
<1>2. /\ Max({st.size, off + size}) \in Nat /\ Max({st.size, size}) \in Nat
      /\ Max({st.align, align}) \in Alignments
  BY <1>1, MaxOfTwo, AlignmentsAreNaturals DEF ClangStates
<1>3. f.bits \in Int
  BY FieldFacts DEF NoBits
<1> HIDE DEF off
<1>4. CASE f.bits = 0 /\ st.storage = 0
  BY <1>0, <1>4 DEF clang_place, ClangStates
<1>5. CASE f.bits = 0 /\ st.storage # 0
  BY <1>0, <1>1, <1>2, <1>5 DEF clang_place, ClangStates, off
<1>6. CASE f.bits > 0 /\ ~u[n].union /\ f.bits <= st.left /\ size = st.storage
  <2>1. clang_place(u[n], st, f, size, align) = [st EXCEPT !.left = @ - f.bits, !.at = st.size - size]
    BY <1>3, <1>6 DEF clang_place
  <2>2. st.left - f.bits \in Int /\ st.size - size \in Int
    BY <1>0, <1>3
  <2>3. QED
    BY <2>1, <2>2 DEF ClangStates
<1>7. CASE f.bits # 0 /\ ~(f.bits > 0 /\ ~u[n].union /\ f.bits <= st.left /\ size = st.storage)
  BY <1>0, <1>1, <1>2, <1>3, <1>7 DEF clang_place, ClangStates, off
<1>8. QED
  BY <1>3, <1>4, <1>5, <1>6, <1>7

\* What n embeds has a layout.
Given(u, layout, n) ==
    \A i \in DOMAIN u[n].fields :
        embeds(u, u[n].fields[i]) => layout[u[n].fields[i].type] \in ClangLayouts

ClangStart == [size |-> 0, align |-> 1, storage |-> 0, left |-> 0, at |-> 0]

\* One step of clang's run over the fields of record n.
ClangStep(u, layout, n, i, st) ==
    LET f == u[n].fields[i]
    IN  clang_place(u[n], st, f, clang_size(u, layout, f), clang_align(u, layout, u[n], f))

ClangSteps(u, layout, n) ==
    [x \in (1 .. Len(u[n].fields)) \X ClangStates |-> ClangStep(u, layout, n, x[1], x[2])]

LEMMA ClangStepType ==
    ASSUME NEW u \in Units, NEW n \in DOMAIN u, NEW layout, Given(u, layout, n)
    PROVE  ClangSteps(u, layout, n) \in [(1 .. Len(u[n].fields)) \X ClangStates -> ClangStates]
<1>1. ASSUME NEW i \in 1 .. Len(u[n].fields), NEW st \in ClangStates
      PROVE  ClangStep(u, layout, n, i, st) \in ClangStates
  <2>1. u[n].fields[i] \in Fields(u) /\ i \in DOMAIN u[n].fields
    BY RecordFacts
  <2>2. embeds(u, u[n].fields[i]) => layout[u[n].fields[i].type] \in ClangLayouts
    BY <2>1 DEF Given
  <2>3. /\ clang_size(u, layout, u[n].fields[i]) \in Nat
        /\ clang_align(u, layout, u[n], u[n].fields[i]) \in Alignments
    BY <2>1, <2>2, ClangFieldType
  <2>4. QED
    BY <2>1, <2>3, ClangPlaceType DEF ClangStep
<1>2. QED
  BY <1>1 DEF ClangSteps

LEMMA ClangRunRuns ==
    ASSUME NEW u \in Units, NEW n \in DOMAIN u, NEW layout, Given(u, layout, n)
    PROVE  /\ clang_run(u, layout, u[n]) \in [0 .. Len(u[n].fields) -> ClangStates]
           /\ Runs(clang_run(u, layout, u[n]), Len(u[n].fields), ClangStart, ClangSteps(u, layout, n))
<1> DEFINE N == Len(u[n].fields)
           T == ClangSteps(u, layout, n)
           Rule(f) == f = [i \in 0 .. N |->
                             IF i = 0 THEN ClangStart ELSE ClangStep(u, layout, n, i, f[i - 1])]
<1>1. N \in Nat
  BY RecordFacts
<1>2. T \in [(1 .. N) \X ClangStates -> ClangStates]
  BY ClangStepType
<1>3. ClangStart \in ClangStates
  BY DEF ClangStart, ClangStates, Alignments
<1> HIDE DEF N, T
<1>4. PICK f \in [0 .. N -> ClangStates] : Runs(f, N, ClangStart, T)
  BY <1>1, <1>2, <1>3, RunExists
<1>5. Rule(f)
  <2>1. ASSUME NEW i \in 1 .. N PROVE T[<<i, f[i - 1]>>] = ClangStep(u, layout, n, i, f[i - 1])
    <3>1. f[i - 1] \in ClangStates
      BY <1>1
    <3>2. <<i, f[i - 1]>> \in (1 .. Len(u[n].fields)) \X ClangStates
      BY <3>1 DEF N
    <3>3. QED
      BY <3>2 DEF T, ClangSteps
  <2>2. \A i \in 0 .. N : (IF i = 0 THEN ClangStart ELSE T[<<i, f[i - 1]>>])
                       = (IF i = 0 THEN ClangStart ELSE ClangStep(u, layout, n, i, f[i - 1]))
    BY <1>1, <2>1
  <2>3. f = [i \in 0 .. N |-> IF i = 0 THEN ClangStart ELSE T[<<i, f[i - 1]>>]]
    BY <1>4 DEF Runs
  <2>4. QED
    BY <2>2, <2>3
<1>6. Rule(clang_run(u, layout, u[n]))
  <2>1. clang_run(u, layout, u[n]) = CHOOSE g : Rule(g)
    BY DEF clang_run, ClangStep, ClangStart, N
  <2> HIDE DEF Rule
  <2>2. QED
    BY <1>5, <2>1
<1> DEFINE g == clang_run(u, layout, u[n])
<1> HIDE DEF g
<1>7. g = [i \in 0 .. N |-> g[i]]
  BY <1>6 DEF g
<1>8. \A i \in 0 .. N : g[i] \in ClangStates
  <2> DEFINE G == {i \in 0 .. N : g[i] \in ClangStates}
  <2>1. 0 \in G
    BY <1>1, <1>3, <1>6 DEF g
  <2>2. ASSUME NEW i \in 1 .. N, i - 1 \in G PROVE i \in G
    <3>1. g[i] = ClangStep(u, layout, n, i, g[i - 1])
      BY <1>1, <1>6 DEF g
    <3>2. <<i, g[i - 1]>> \in (1 .. Len(u[n].fields)) \X ClangStates
      BY <2>2 DEF N
    <3>3. T[<<i, g[i - 1]>>] = ClangStep(u, layout, n, i, g[i - 1])
      BY <3>2 DEF T, ClangSteps
    <3>4. T[<<i, g[i - 1]>>] \in ClangStates
      BY <3>2, <1>2 DEF N
    <3>5. QED
      BY <3>1, <3>3, <3>4
  <2>3. 0 .. N \subseteq G
    <3> HIDE DEF G
    <3>1. QED
      BY <1>1, <2>1, <2>2, Induction
  <2>4. QED
    BY <2>3
<1>9. g \in [0 .. N -> ClangStates]
  BY <1>7, <1>8
<1>10. Runs(g, N, ClangStart, T)
  <2>1. ASSUME NEW i \in 1 .. N PROVE T[<<i, g[i - 1]>>] = ClangStep(u, layout, n, i, g[i - 1])
    <3>1. <<i, g[i - 1]>> \in (1 .. Len(u[n].fields)) \X ClangStates
      BY <1>1, <1>8 DEF N
    <3>2. QED
      BY <3>1 DEF T, ClangSteps
  <2>2. \A i \in 0 .. N : (IF i = 0 THEN ClangStart ELSE T[<<i, g[i - 1]>>])
                       = (IF i = 0 THEN ClangStart ELSE ClangStep(u, layout, n, i, g[i - 1]))
    BY <1>1, <2>1
  <2>3. g = [i \in 0 .. N |-> IF i = 0 THEN ClangStart ELSE ClangStep(u, layout, n, i, g[i - 1])]
    BY <1>6 DEF g
  <2>4. g = [i \in 0 .. N |-> IF i = 0 THEN ClangStart ELSE T[<<i, g[i - 1]>>]]
    BY <2>2, <2>3
  <2>5. QED
    BY <2>4 DEF Runs
<1>11. QED
  BY <1>9, <1>10 DEF g, N, T

Requireds(u, layout, n) ==
    {clang_required(u, layout, u[n].fields[i]) : i \in DOMAIN u[n].fields}

LEMMA ClangRecordType ==
    ASSUME NEW u \in Units, NEW n \in DOMAIN u, NEW layout, Given(u, layout, n)
    PROVE  clang_record(u, layout, u[n]) \in ClangLayouts
<1> DEFINE N   == Len(u[n].fields)
           run == clang_run(u, layout, u[n])
           req == Max({u[n].align} \cup Requireds(u, layout, n))
           al  == Max({run[N].align, req})
           unit_al == Max({Min({al, u[n].pack}), req})
<1>1. N \in Nat /\ DOMAIN u[n].fields = 1 .. N
  BY RecordFacts
<1>2. run \in [0 .. N -> ClangStates]
  BY ClangRunRuns
<1>3. req \in Alignments
  <2>1. {u[n].align} \cup Requireds(u, layout, n) \in SUBSET Alignments
    <3>1. ASSUME NEW i \in DOMAIN u[n].fields
          PROVE  clang_required(u, layout, u[n].fields[i]) \in Alignments
      <4>1. u[n].fields[i] \in Fields(u)
        BY RecordFacts
      <4>2. QED
        BY <4>1, ClangFieldType DEF Given
    <3>2. QED
      BY <3>1, RecordFacts DEF Requireds
  <2>2. QED
    BY <2>1, MaxOfAlignments
<1> HIDE DEF run, req, N
<1>4. run[N].align \in Alignments /\ run[N].size \in Nat
  BY <1>1, <1>2 DEF ClangStates
<1>5. \A a, b \in Alignments : Max({a, b}) \in Alignments /\ Min({a, b}) \in Alignments
  BY MaxOfTwo, MinOfTwo, AlignmentsAreNaturals
<1>6. al \in Alignments
  BY <1>3, <1>4, <1>5
<1> HIDE DEF al
<1>7. unit_al \in Alignments
  BY <1>3, <1>5, <1>6, RecordFacts
<1> HIDE DEF unit_al
<1>8. round_up(run[N].size, unit_al) \in Nat
  <2>1. unit_al \in Nat \ {0}
    BY <1>7, AlignmentsAreNaturals
  <2>2. QED
    BY <1>4, <2>1, RoundUp
<1>9. [i \in DOMAIN u[n].fields |-> run[i].at] \in Seq(Int)
  <2>1. \A i \in 1 .. N : run[i].at \in Int
    BY <1>1, <1>2 DEF ClangStates
  <2>2. QED
    BY <1>1, <2>1
<1>10. clang_record(u, layout, u[n]) =
         [size |-> round_up(run[N].size, unit_al), align |-> al, required |-> req,
          offsets |-> [i \in DOMAIN u[n].fields |-> run[i].at]]
  BY DEF clang_record, unit_al, al, run, req, N, Requireds
<1>11. QED
  BY <1>3, <1>6, <1>8, <1>9, <1>10 DEF ClangLayouts

LEMMA ClangRecordLocal ==
    ASSUME NEW u \in Units, NEW n \in DOMAIN u,
           NEW f, NEW g, Given(u, g, n),
           \A i \in DOMAIN u[n].fields :
               embeds(u, u[n].fields[i]) => f[u[n].fields[i].type] = g[u[n].fields[i].type]
    PROVE  clang_record(u, f, u[n]) = clang_record(u, g, u[n])
<1>0. Given(u, f, n)
  BY DEF Given
<1> DEFINE N == Len(u[n].fields)
<1>1. ASSUME NEW i \in DOMAIN u[n].fields
      PROVE  /\ clang_size(u, f, u[n].fields[i]) = clang_size(u, g, u[n].fields[i])
             /\ clang_required(u, f, u[n].fields[i]) = clang_required(u, g, u[n].fields[i])
             /\ clang_align(u, f, u[n], u[n].fields[i]) = clang_align(u, g, u[n], u[n].fields[i])
  BY DEF clang_size, clang_natural, clang_required, clang_align
<1>2. DOMAIN u[n].fields = 1 .. N /\ N \in Nat
  BY RecordFacts
<1>3. ClangSteps(u, f, n) = ClangSteps(u, g, n)
  <2>1. \A i \in 1 .. N, st \in ClangStates : ClangStep(u, f, n, i, st) = ClangStep(u, g, n, i, st)
    BY <1>1, <1>2 DEF ClangStep
  <2>2. QED
    BY <2>1 DEF ClangSteps
<1>4. clang_run(u, f, u[n]) = clang_run(u, g, u[n])
  <2> DEFINE rf == clang_run(u, f, u[n])
             rg == clang_run(u, g, u[n])
             T  == ClangSteps(u, f, n)
  <2>1. rf \in [0 .. N -> ClangStates] /\ Runs(rf, N, ClangStart, T)
    BY ClangRunRuns, <1>0
  <2>2. rg \in [0 .. N -> ClangStates] /\ Runs(rg, N, ClangStart, T)
    BY ClangRunRuns, <1>3
  <2>3. T \in [(1 .. N) \X ClangStates -> ClangStates]
    BY ClangStepType, <1>0
  <2>4. ClangStart \in ClangStates
    BY DEF ClangStart, ClangStates, Alignments
  <2> HIDE DEF rf, rg, T, N
  <2>5. rf = rg
    BY <1>2, <2>1, <2>2, <2>3, <2>4, RunIsUnique
  <2>6. QED
    BY <2>5 DEF rf, rg
<1>5. Requireds(u, f, n) = Requireds(u, g, n)
  BY <1>1 DEF Requireds
<1>6. QED
  BY <1>4, <1>5 DEF clang_record, Requireds

\* The layout of every record follows from those of the records it embeds.
LEMMA ClangIsDefined ==
    ASSUME NEW u \in Units
    PROVE  /\ clang(u) \in [DOMAIN u -> ClangLayouts]
           /\ \A n \in DOMAIN u : clang(u)[n] = clang_record(u, clang(u), u[n])
<1> DEFINE D == DOMAIN u
           K == Cardinality(D)
           B == [x \in D \X [D -> ClangLayouts] |-> clang_record(u, x[2], u[x[1]])]
           Rule(f) == f = [n \in D |-> clang_record(u, f, u[n])]
<1>1. K \in Nat
  BY LayoutAssumption, FS_CardinalityType
<1>2. PICK depth \in [D -> 0 .. K] :
        \A n \in D : \A i \in DOMAIN u[n].fields :
            u[n].fields[i].type \in D => depth[u[n].fields[i].type] < depth[n]
  BY LayoutAssumption DEF Acyclic
<1>3. \A n \in D, f \in [D -> ClangLayouts] : clang_record(u, f, u[n]) \in ClangLayouts
  BY ClangRecordType DEF Given, embeds
<1>4. B \in [D \X [D -> ClangLayouts] -> ClangLayouts]
  BY <1>3
<1>5. ASSUME NEW n \in D, NEW f \in [D -> ClangLayouts], NEW g \in [D -> ClangLayouts],
             \A m \in D : depth[m] < depth[n] => f[m] = g[m]
      PROVE  B[<<n, f>>] = B[<<n, g>>]
  <2>1. \A i \in DOMAIN u[n].fields :
            embeds(u, u[n].fields[i]) => f[u[n].fields[i].type] = g[u[n].fields[i].type]
    BY <1>2, <1>5 DEF embeds
  <2>2. Given(u, g, n)
    BY DEF Given, embeds
  <2>3. clang_record(u, f, u[n]) = clang_record(u, g, u[n])
    BY <2>1, <2>2, ClangRecordLocal
  <2>4. QED
    BY <2>3
<1>6. PICK v \in ClangLayouts : TRUE
  <2>1. [size |-> 0, align |-> 1, required |-> 1, offsets |-> <<>>] \in ClangLayouts
    BY DEF ClangLayouts, Alignments
  <2>2. QED
    BY <2>1
<1>7. \E f \in [D -> ClangLayouts] : \A n \in D : f[n] = B[<<n, f>>]
  <2> HIDE DEF B, D, K
  <2>1. Local(D, ClangLayouts, depth, B)
    BY <1>5 DEF Local
  <2>2. depth \in [D -> 0 .. K]
    BY <1>2
  <2>3. v \in ClangLayouts
    BY <1>6
  <2>4. Solved(D, ClangLayouts, B)
    BY <1>1, <1>4, <2>1, <2>2, <2>3, NestingExists
  <2>5. QED
    BY <2>4 DEF Solved
<1>8. \E f \in [D -> ClangLayouts] : Rule(f)
  <2>1. PICK f \in [D -> ClangLayouts] : \A n \in D : f[n] = B[<<n, f>>]
    BY <1>7
  <2>2. \A n \in D : B[<<n, f>>] = clang_record(u, f, u[n])
    OBVIOUS
  <2>3. Rule(f)
    <3> HIDE DEF B
    <3>1. QED
      BY <2>1, <2>2
  <2>4. QED
    BY <2>3
<1>9. Rule(clang(u))
  <2>1. clang(u) = CHOOSE f : Rule(f)
    BY DEF clang
  <2> HIDE DEF Rule
  <2>2. QED
    BY <1>8, <2>1
<1> DEFINE l == clang(u)
<1> HIDE DEF l
<1>10. l = [n \in D |-> l[n]] /\ \A n \in D : l[n] = clang_record(u, l, u[n])
  BY <1>9 DEF l
<1>11. \A n \in D : l[n] \in ClangLayouts
  <2> DEFINE G == {k \in 0 .. K + 1 : \A n \in D : depth[n] < k => l[n] \in ClangLayouts}
  <2>1. 0 \in G
    BY <1>1, <1>2
  <2>2. ASSUME NEW k \in 1 .. K + 1, k - 1 \in G PROVE k \in G
    <3> SUFFICES ASSUME NEW n \in D, depth[n] < k PROVE l[n] \in ClangLayouts
      BY <1>1
    <3>1. Given(u, l, n)
      <4> SUFFICES ASSUME NEW i \in DOMAIN u[n].fields, u[n].fields[i].type \in D
                   PROVE  l[u[n].fields[i].type] \in ClangLayouts
        BY DEF Given, embeds
      <4>1. depth[u[n].fields[i].type] < k - 1
        BY <1>1, <1>2
      <4>2. QED
        BY <2>2, <4>1
    <3>2. QED
      BY <1>10, <3>1, ClangRecordType
  <2>3. 0 .. K + 1 \subseteq G
    <3> HIDE DEF G, K
    <3>1. QED
      BY <1>1, <2>1, <2>2, Induction
  <2>4. K + 1 \in G
    BY <1>1, <2>3
  <2>5. QED
    BY <1>1, <1>2, <2>4
<1>12. QED
  BY <1>10, <1>11 DEF l

-----------------------------------------------------------------------------
(* What the emitter knows, and the natural alignments it computes.          *)

LEMMA CtxFacts ==
    ASSUME NEW u \in Units
    PROVE  /\ AlignCtx(u).records = u
           /\ \A n : fields(AlignCtx(u), n) = u[n].fields
           /\ \A n : dumped(AlignCtx(u), n) <=> n \in DOMAIN u /\ ~u[n].anon
           /\ \A n : dumped(AlignCtx(u), n) => AlignCtx(u).layouts[n] = clang(u)[n]
BY DEF AlignCtx, fields, dumped, parse_layouts

\* The natural alignments of the fields of record n.
FieldAligns(u, nat, n) ==
    {align_of(AlignCtx(u), nat, u[n].fields[i].type) : i \in DOMAIN u[n].fields}

NatRecord(u, nat, n) == Max({1} \cup FieldAligns(u, nat, n))

GivenNat(u, nat, n) ==
    \A i \in DOMAIN u[n].fields :
        embeds(u, u[n].fields[i]) => nat[u[n].fields[i].type] \in Alignments

LEMMA AlignOfType ==
    ASSUME NEW u \in Units, NEW t \in DOMAIN Prim \cup DOMAIN u,
           NEW nat, t \in DOMAIN u => nat[t] \in Alignments
    PROVE  align_of(AlignCtx(u), nat, t) \in Alignments
<1>1. CASE t \in DOMAIN Prim
  BY <1>1, PrimFacts DEF align_of
<1>2. CASE t \notin DOMAIN Prim /\ dumped(AlignCtx(u), t)
  <2>1. t \in DOMAIN u
    BY <1>2
  <2>2. clang(u)[t].align \in Alignments
    BY <2>1, ClangIsDefined DEF ClangLayouts
  <2>3. QED
    BY <1>2, <2>2, CtxFacts DEF align_of
<1>3. CASE t \notin DOMAIN Prim /\ ~dumped(AlignCtx(u), t)
  BY <1>3 DEF align_of
<1>4. QED
  BY <1>1, <1>2, <1>3

LEMMA NatRecordType ==
    ASSUME NEW u \in Units, NEW n \in DOMAIN u, NEW nat, GivenNat(u, nat, n)
    PROVE  /\ NatRecord(u, nat, n) \in Alignments
           /\ NatRecord(u, nat, n) \in {1} \cup FieldAligns(u, nat, n)
           /\ \A y \in FieldAligns(u, nat, n) : y <= NatRecord(u, nat, n)
<1>1. FieldAligns(u, nat, n) \in SUBSET Alignments
  <2>1. ASSUME NEW i \in DOMAIN u[n].fields
        PROVE  align_of(AlignCtx(u), nat, u[n].fields[i].type) \in Alignments
    <3>1. u[n].fields[i] \in Fields(u)
      BY RecordFacts
    <3>2. u[n].fields[i].type \in DOMAIN Prim \cup DOMAIN u
      BY <3>1, FieldFacts
    <3>3. u[n].fields[i].type \in DOMAIN u => nat[u[n].fields[i].type] \in Alignments
      BY DEF GivenNat, embeds
    <3>4. QED
      BY <3>2, <3>3, AlignOfType
  <2>2. QED
    BY <2>1 DEF FieldAligns
<1>2. {1} \cup FieldAligns(u, nat, n) \in SUBSET Alignments
  BY <1>1 DEF Alignments
<1>3. QED
  BY <1>2, MaxOfAlignments DEF NatRecord

\* The natural alignment of every record follows from those of the records it
\* embeds: the CHOOSE behind natural_align has the value its rule gives.
THEOREM NaturalIsDefined ==
    ASSUME NEW u \in Units
    PROVE  /\ natural_align(AlignCtx(u)) \in [DOMAIN u -> Alignments]
           /\ \A n \in DOMAIN u :
                 natural_align(AlignCtx(u))[n] = NatRecord(u, natural_align(AlignCtx(u)), n)
<1> DEFINE D == DOMAIN u
           K == Cardinality(D)
           B == [x \in D \X [D -> Alignments] |-> NatRecord(u, x[2], x[1])]
           Rule(f) == f = [n \in D |-> NatRecord(u, f, n)]
<1>1. K \in Nat
  BY LayoutAssumption, FS_CardinalityType
<1>2. PICK depth \in [D -> 0 .. K] :
        \A n \in D : \A i \in DOMAIN u[n].fields :
            u[n].fields[i].type \in D => depth[u[n].fields[i].type] < depth[n]
  BY LayoutAssumption DEF Acyclic
<1>3. \A n \in D, f \in [D -> Alignments] : NatRecord(u, f, n) \in Alignments
  BY NatRecordType DEF GivenNat, embeds
<1>4. B \in [D \X [D -> Alignments] -> Alignments]
  BY <1>3
<1>5. ASSUME NEW n \in D, NEW f \in [D -> Alignments], NEW g \in [D -> Alignments],
             \A m \in D : depth[m] < depth[n] => f[m] = g[m]
      PROVE  B[<<n, f>>] = B[<<n, g>>]
  <2>1. \A i \in DOMAIN u[n].fields :
            align_of(AlignCtx(u), f, u[n].fields[i].type) = align_of(AlignCtx(u), g, u[n].fields[i].type)
    <3> SUFFICES ASSUME NEW i \in DOMAIN u[n].fields
                 PROVE  align_of(AlignCtx(u), f, u[n].fields[i].type) = align_of(AlignCtx(u), g, u[n].fields[i].type)
      OBVIOUS
    <3>1. u[n].fields[i] \in Fields(u)
      BY RecordFacts
    <3>2. u[n].fields[i].type \in DOMAIN Prim \cup D
      BY <3>1, FieldFacts
    <3>3. u[n].fields[i].type \in D => f[u[n].fields[i].type] = g[u[n].fields[i].type]
      BY <1>2, <1>5
    <3>4. QED
      BY <3>2, <3>3 DEF align_of
  <2>2. FieldAligns(u, f, n) = FieldAligns(u, g, n)
    BY <2>1 DEF FieldAligns
  <2>3. QED
    BY <2>2 DEF NatRecord
<1>6. \E f \in [D -> Alignments] : \A n \in D : f[n] = B[<<n, f>>]
  <2> HIDE DEF B, D, K
  <2>1. Local(D, Alignments, depth, B)
    BY <1>5 DEF Local
  <2>2. depth \in [D -> 0 .. K]
    BY <1>2
  <2>3. 1 \in Alignments
    BY DEF Alignments
  <2>4. Solved(D, Alignments, B)
    BY <1>1, <1>4, <2>1, <2>2, <2>3, NestingExists
  <2>5. QED
    BY <2>4 DEF Solved
<1>7. \E f \in [D -> Alignments] : Rule(f)
  <2>1. PICK f \in [D -> Alignments] : \A n \in D : f[n] = B[<<n, f>>]
    BY <1>6
  <2>2. \A n \in D : B[<<n, f>>] = NatRecord(u, f, n)
    OBVIOUS
  <2>3. Rule(f)
    <3> HIDE DEF B
    <3>1. QED
      BY <2>1, <2>2
  <2>4. QED
    BY <2>3
<1>8. Rule(natural_align(AlignCtx(u)))
  <2> DEFINE c == AlignCtx(u)
             InCtx(f) == f = [n \in DOMAIN c.records |->
                 Max({1} \cup {align_of(c, f, fields(c, n)[i].type) : i \in DOMAIN fields(c, n)})]
  <2>1. natural_align(c) = CHOOSE f : InCtx(f)
    BY DEF natural_align
  <2>2. ASSUME NEW f PROVE InCtx(f) <=> Rule(f)
    <3>1. \A n \in D : Max({1} \cup {align_of(c, f, fields(c, n)[i].type) : i \in DOMAIN fields(c, n)})
                       = NatRecord(u, f, n)
      <4> SUFFICES ASSUME NEW n \in D
                   PROVE  {align_of(c, f, fields(c, n)[i].type) : i \in DOMAIN fields(c, n)}
                          = FieldAligns(u, f, n)
        BY DEF NatRecord
      <4>1. fields(c, n) = u[n].fields
        BY CtxFacts
      <4> HIDE DEF c
      <4>2. {align_of(c, f, fields(c, n)[i].type) : i \in DOMAIN fields(c, n)}
              = {align_of(c, f, u[n].fields[i].type) : i \in DOMAIN u[n].fields}
        BY <4>1
      <4>3. QED
        BY <4>2 DEF FieldAligns, c
    <3>2. DOMAIN c.records = D
      BY CtxFacts
    <3>3. QED
      BY <3>1, <3>2
  <2> HIDE DEF Rule, InCtx
  <2>3. QED
    BY <1>7, <2>1, <2>2
<1> DEFINE l == natural_align(AlignCtx(u))
<1> HIDE DEF l
<1>9. l = [n \in D |-> l[n]] /\ \A n \in D : l[n] = NatRecord(u, l, n)
  BY <1>8 DEF l
<1>10. \A n \in D : l[n] \in Alignments
  <2> DEFINE G == {k \in 0 .. K + 1 : \A n \in D : depth[n] < k => l[n] \in Alignments}
  <2>1. 0 \in G
    BY <1>1, <1>2
  <2>2. ASSUME NEW k \in 1 .. K + 1, k - 1 \in G PROVE k \in G
    <3> SUFFICES ASSUME NEW n \in D, depth[n] < k PROVE l[n] \in Alignments
      BY <1>1
    <3>1. GivenNat(u, l, n)
      <4> SUFFICES ASSUME NEW i \in DOMAIN u[n].fields, u[n].fields[i].type \in D
                   PROVE  l[u[n].fields[i].type] \in Alignments
        BY DEF GivenNat, embeds
      <4>1. depth[u[n].fields[i].type] < k - 1
        BY <1>1, <1>2
      <4>2. QED
        BY <2>2, <4>1
    <3>2. QED
      BY <1>9, <3>1, NatRecordType
  <2>3. 0 .. K + 1 \subseteq G
    <3> HIDE DEF G, K
    <3>1. QED
      BY <1>1, <2>1, <2>2, Induction
  <2>4. K + 1 \in G
    BY <1>1, <2>3
  <2>5. QED
    BY <1>1, <1>2, <2>4
<1>11. QED
  BY <1>9, <1>10 DEF l

-----------------------------------------------------------------------------
(* The emitted members.                                                     *)

Wholes(fs) == {i \in DOMAIN fs : ~bitfield(fs[i])}

FieldTypes(u, n) == {u[n].fields[i].type : i \in DOMAIN u[n].fields}

\* What is emitted of record n, its pads in P.
Members(u, n, P) ==
    [field : {0} \cup Wholes(u[n].fields), type : DOMAIN Prim \cup FieldTypes(u, n), pad : P]

EmitStates(u, n) == [out : Seq(Members(u, n, {0})), cur : DOMAIN Prim \cup {""}, used : Nat]

EmitStart == [out |-> <<>>, cur |-> "", used |-> 0]

LEMMA FieldTypesFacts ==
    ASSUME NEW u \in Units, NEW n \in DOMAIN u
    PROVE  FieldTypes(u, n) \subseteq DOMAIN Prim \cup DOMAIN u
BY RecordFacts, FieldFacts DEF FieldTypes

LEMMA MemberTypes ==
    ASSUME NEW u \in Units, NEW n \in DOMAIN u
    PROVE  /\ \A i \in Wholes(u[n].fields) : member(u[n].fields, i) \in Members(u, n, {0})
           /\ \A t \in DOMAIN Prim : storage(t) \in Members(u, n, {0})
           /\ \A k \in Nat : padding(k) \in Members(u, n, Nat)
<1>1. \A i \in Wholes(u[n].fields) : u[n].fields[i].type \in FieldTypes(u, n)
  BY DEF Wholes, FieldTypes
<1>2. "u8" \in DOMAIN Prim
  BY LayoutAssumption
<1>3. QED
  BY <1>1, <1>2 DEF Members, member, storage, padding

LEMMA BitFieldFacts ==
    ASSUME NEW u \in Units, NEW n \in DOMAIN u, NEW i \in DOMAIN u[n].fields, bitfield(u[n].fields[i])
    PROVE  /\ u[n].fields[i].type \in DOMAIN Prim
           /\ u[n].fields[i].bits \in Nat /\ u[n].fields[i].bits <= 8 * Prim[u[n].fields[i].type]
<1>1. Record(u, u[n])
  BY LayoutAssumption
<1>2. u[n].fields[i].type \in DOMAIN Prim /\ u[n].fields[i].bits <= 8 * Prim[u[n].fields[i].type]
  BY <1>1 DEF Record
<1>3. u[n].fields[i] \in Fields(u)
  BY RecordFacts
<1>4. QED
  BY <1>2, <1>3, FieldFacts DEF bitfield

LEMMA FlushType ==
    ASSUME NEW u \in Units, NEW n \in DOMAIN u, NEW st \in EmitStates(u, n)
    PROVE  flush(st) \in Seq(Members(u, n, {0}))
<1>1. st.out \in Seq(Members(u, n, {0})) /\ st.cur \in DOMAIN Prim \cup {""}
  BY DEF EmitStates
<1>2. CASE st.cur = ""
  BY <1>1, <1>2 DEF flush
<1>3. CASE st.cur # ""
  <2>1. storage(st.cur) \in Members(u, n, {0})
    BY <1>1, <1>3, MemberTypes
  <2>2. Append(st.out, storage(st.cur)) \in Seq(Members(u, n, {0}))
    BY <1>1, <2>1, AppendProperties
  <2>3. QED
    BY <1>3, <2>2 DEF flush
<1>4. QED
  BY <1>2, <1>3

LEMMA EmitFieldType ==
    ASSUME NEW u \in Units, NEW n \in DOMAIN u, NEW i \in DOMAIN u[n].fields,
           NEW st \in EmitStates(u, n)
    PROVE  emit_field(u[n].fields, st, i) \in EmitStates(u, n)
<1> DEFINE f == u[n].fields[i]
<1>1. flush(st) \in Seq(Members(u, n, {0}))
  BY FlushType
<1>2. st.out \in Seq(Members(u, n, {0})) /\ st.cur \in DOMAIN Prim \cup {""}
  BY DEF EmitStates
<1>3. st.used \in Nat
  BY DEF EmitStates
<1>4. bitfield(f) => f.type \in DOMAIN Prim /\ f.bits \in Nat
  BY BitFieldFacts
<1>5. ~bitfield(f) => Append(flush(st), member(u[n].fields, i)) \in Seq(Members(u, n, {0}))
  <2> SUFFICES ASSUME ~bitfield(f)
               PROVE  Append(flush(st), member(u[n].fields, i)) \in Seq(Members(u, n, {0}))
    OBVIOUS
  <2>1. member(u[n].fields, i) \in Members(u, n, {0})
    BY MemberTypes DEF Wholes
  <2>2. QED
    BY <1>1, <2>1, AppendProperties
<1>6. bitfield(f) => st.used + f.bits \in Nat
  <2> HIDE DEF f
  <2>1. QED
    BY <1>3, <1>4
<1>7. QED
  BY <1>1, <1>2, <1>3, <1>4, <1>5, <1>6 DEF emit_field, EmitStates

LEMMA EmitRunRuns ==
    ASSUME NEW u \in Units, NEW n \in DOMAIN u
    PROVE  /\ emit_run(u[n].fields)[0] = EmitStart
           /\ \A i \in 0 .. Len(u[n].fields) : emit_run(u[n].fields)[i] \in EmitStates(u, n)
           /\ \A i \in 1 .. Len(u[n].fields) :
                 emit_run(u[n].fields)[i] = emit_field(u[n].fields, emit_run(u[n].fields)[i - 1], i)
<1> DEFINE fs == u[n].fields
           N == Len(fs)
           S == EmitStates(u, n)
           T == [x \in (1 .. N) \X S |-> emit_field(fs, x[2], x[1])]
           Rule(f) == f = [i \in 0 .. N |-> IF i = 0 THEN EmitStart ELSE emit_field(fs, f[i - 1], i)]
<1>1. N \in Nat /\ DOMAIN fs = 1 .. N
  BY RecordFacts
<1>2. \A i \in 1 .. N, st \in S : emit_field(fs, st, i) \in S
  BY <1>1, EmitFieldType
<1>3. T \in [(1 .. N) \X S -> S]
  BY <1>2
<1>4. EmitStart \in S
  BY DEF EmitStart, EmitStates
<1> HIDE DEF N, S, T
<1>5. PICK f \in [0 .. N -> S] : Runs(f, N, EmitStart, T)
  BY <1>1, <1>3, <1>4, RunExists
<1>6. Rule(f)
  <2>1. ASSUME NEW i \in 1 .. N PROVE T[<<i, f[i - 1]>>] = emit_field(fs, f[i - 1], i)
    <3>1. f[i - 1] \in S
      BY <1>1
    <3>2. QED
      BY <3>1 DEF T
  <2>2. \A i \in 0 .. N : (IF i = 0 THEN EmitStart ELSE T[<<i, f[i - 1]>>])
                       = (IF i = 0 THEN EmitStart ELSE emit_field(fs, f[i - 1], i))
    BY <1>1, <2>1
  <2>3. f = [i \in 0 .. N |-> IF i = 0 THEN EmitStart ELSE T[<<i, f[i - 1]>>]]
    BY <1>5 DEF Runs
  <2>4. QED
    BY <2>2, <2>3
<1>7. Rule(emit_run(fs))
  <2>1. emit_run(fs) = CHOOSE g : Rule(g)
    BY DEF emit_run, EmitStart, N
  <2> HIDE DEF Rule
  <2>2. QED
    BY <1>6, <2>1
<1> DEFINE g == emit_run(fs)
<1> HIDE DEF g
<1>8. g[0] = EmitStart /\ \A i \in 1 .. N : g[i] = emit_field(fs, g[i - 1], i)
  BY <1>1, <1>7 DEF g
<1>9. \A i \in 0 .. N : g[i] \in S
  <2> DEFINE G == {i \in 0 .. N : g[i] \in S}
  <2>1. 0 \in G
    BY <1>1, <1>4, <1>8
  <2>2. \A i \in 1 .. N : i - 1 \in G => i \in G
    BY <1>1, <1>2, <1>8
  <2>3. 0 .. N \subseteq G
    <3> HIDE DEF G
    <3>1. QED
      BY <1>1, <2>1, <2>2, Induction
  <2>4. QED
    BY <2>3
<1>10. QED
  BY <1>8, <1>9 DEF g, N, S

LEMMA EmitFieldsType ==
    ASSUME NEW u \in Units, NEW n \in DOMAIN u
    PROVE  emit_fields(u[n].fields) \in Seq(Members(u, n, {0}))
<1>1. emit_run(u[n].fields)[Len(u[n].fields)] \in EmitStates(u, n)
  <2>1. Len(u[n].fields) \in 0 .. Len(u[n].fields)
    BY RecordFacts
  <2>2. QED
    BY <2>1, EmitRunRuns
<1>2. QED
  BY <1>1, FlushType DEF emit_fields

-----------------------------------------------------------------------------
(* The padded members.                                                      *)

\* One step of padded_run, over the members s before it.
PadStep(c, n, i, s) ==
    s \o (IF gap(c, n, i) THEN pad(pad_before(c, n, i)) ELSE <<>>) \o <<member(fields(c, n), i)>>

\* What the records that are padded have in common: no bit-field, no
\* anonymous record, no union.
LEMMA PaddedFacts ==
    ASSUME NEW u \in Units, NEW n \in DOMAIN u, ~declines(AlignCtx(u), n)
    PROVE  /\ ~u[n].union
           /\ \A i \in DOMAIN u[n].fields :
                 /\ ~bitfield(u[n].fields[i]) /\ u[n].fields[i].named
                 /\ sizeable(AlignCtx(u), u[n].fields[i].type)
BY CtxFacts DEF declines

\* A field of a padded record has the size clang gives its type.
LEMMA FieldSizes ==
    ASSUME NEW u \in Units, NEW n \in DOMAIN u, NEW i \in DOMAIN u[n].fields,
           sizeable(AlignCtx(u), u[n].fields[i].type)
    PROVE  /\ field_size(AlignCtx(u), u[n].fields[i].type) = clang_size(u, clang(u), u[n].fields[i])
           /\ field_align(AlignCtx(u), u[n].fields[i].type) = clang_natural(u, clang(u), u[n].fields[i])
<1>1. u[n].fields[i] \in Fields(u)
  BY RecordFacts
<1>2. QED
  BY <1>1, FieldFacts, CtxFacts
     DEF field_size, field_align, align_of, clang_size, clang_natural, sizeable, embeds

\* The run of clang over the fields of a record, and the offsets it leaves.
LEMMA ClangRunOf ==
    ASSUME NEW u \in Units, NEW n \in DOMAIN u
    PROVE  /\ clang_run(u, clang(u), u[n])[0] = ClangStart
           /\ \A i \in 0 .. Len(u[n].fields) : clang_run(u, clang(u), u[n])[i] \in ClangStates
           /\ \A i \in 1 .. Len(u[n].fields) :
                 /\ clang_run(u, clang(u), u[n])[i]
                      = ClangStep(u, clang(u), n, i, clang_run(u, clang(u), u[n])[i - 1])
                 /\ clang(u)[n].offsets[i] = clang_run(u, clang(u), u[n])[i].at
<1> DEFINE l == clang(u)
           N == Len(u[n].fields)
           run == clang_run(u, l, u[n])
<1>1. N \in Nat /\ DOMAIN u[n].fields = 1 .. N
  BY RecordFacts
<1>2. Given(u, l, n)
  BY ClangIsDefined DEF Given, embeds
<1>3. run \in [0 .. N -> ClangStates] /\ Runs(run, N, ClangStart, ClangSteps(u, l, n))
  BY <1>2, ClangRunRuns
<1>4. l[n] = clang_record(u, l, u[n])
  BY ClangIsDefined
<1>5. l[n].offsets = [i \in DOMAIN u[n].fields |-> run[i].at]
  BY <1>4 DEF clang_record
<1> HIDE DEF l, run, N
<1>6. ASSUME NEW i \in 1 .. N PROVE run[i] = ClangStep(u, l, n, i, run[i - 1])
  <2>1. run[i] = ClangSteps(u, l, n)[<<i, run[i - 1]>>]
    BY <1>1, <1>3 DEF Runs
  <2>2. <<i, run[i - 1]>> \in (1 .. Len(u[n].fields)) \X ClangStates
    BY <1>1, <1>3 DEF N
  <2>3. QED
    BY <2>1, <2>2 DEF ClangSteps
<1>7. run[0] = ClangStart /\ \A i \in 0 .. N : run[i] \in ClangStates
  BY <1>1, <1>3 DEF Runs
<1>8. \A i \in 1 .. N : l[n].offsets[i] = run[i].at
  BY <1>1, <1>5
<1>9. QED
  BY <1>6, <1>7, <1>8 DEF l, run, N

LEMMA FieldEnds ==
    ASSUME NEW u \in Units, NEW n \in DOMAIN u, ~u[n].anon, ~declines(AlignCtx(u), n)
    PROVE  /\ \A i \in 0 .. Len(u[n].fields) : field_end(AlignCtx(u), n, i) \in Int
           /\ \A i \in 1 .. Len(u[n].fields) : pad_before(AlignCtx(u), n, i) \in Int
<1> DEFINE c == AlignCtx(u)
           N == Len(u[n].fields)
<1>1. N \in Nat /\ DOMAIN u[n].fields = 1 .. N
  BY RecordFacts
<1>2. c.layouts[n] = clang(u)[n]
  BY CtxFacts
<1>3. \A i \in 1 .. N : clang(u)[n].offsets[i] \in Int
  BY <1>1, ClangRunOf DEF ClangStates
<1>4. \A i \in 1 .. N : field_size(c, u[n].fields[i].type) \in Nat
  <2> SUFFICES ASSUME NEW i \in 1 .. N PROVE field_size(c, u[n].fields[i].type) \in Nat
    OBVIOUS
  <2>1. sizeable(c, u[n].fields[i].type) /\ u[n].fields[i] \in Fields(u) /\ i \in DOMAIN u[n].fields
    BY <1>1, PaddedFacts, RecordFacts
  <2>2. embeds(u, u[n].fields[i]) => clang(u)[u[n].fields[i].type] \in ClangLayouts
    BY ClangIsDefined DEF embeds
  <2>3. clang_size(u, clang(u), u[n].fields[i]) \in Nat
    BY <2>1, <2>2, ClangFieldType
  <2>4. QED
    BY <2>1, <2>3, FieldSizes
<1>5. fields(c, n) = u[n].fields
  BY CtxFacts
<1> HIDE DEF c, N
<1>6. \A i \in 0 .. N : field_end(c, n, i) \in Int
  <2>1. field_end(c, n, 0) \in Int
    BY DEF field_end
  <2>2. ASSUME NEW i \in 1 .. N PROVE field_end(c, n, i) \in Int
    <3>1. field_end(c, n, i) = clang(u)[n].offsets[i] + field_size(c, u[n].fields[i].type)
      BY <1>1, <1>2, <1>5 DEF field_end
    <3>2. QED
      BY <1>3, <1>4, <3>1
  <2>3. QED
    BY <1>1, <2>1, <2>2
<1>7. ASSUME NEW i \in 1 .. N PROVE pad_before(c, n, i) \in Int
  <2>1. field_end(c, n, i - 1) \in Int
    BY <1>1, <1>6
  <2>2. pad_before(c, n, i) = clang(u)[n].offsets[i] - field_end(c, n, i - 1)
    BY <1>2 DEF pad_before
  <2>3. QED
    BY <1>3, <2>1, <2>2
<1>8. QED
  BY <1>6, <1>7 DEF c, N

LEMMA PadType ==
    ASSUME NEW u \in Units, NEW n \in DOMAIN u, NEW k \in Int
    PROVE  pad(k) \in Seq(Members(u, n, Nat))
<1>1. k > 0 => padding(k) \in Members(u, n, Nat)
  BY MemberTypes
<1>2. QED
  BY <1>1 DEF pad

LEMMA PadStepType ==
    ASSUME NEW u \in Units, NEW n \in DOMAIN u, ~u[n].anon, ~declines(AlignCtx(u), n),
           NEW i \in 1 .. Len(u[n].fields), NEW s \in Seq(Members(u, n, Nat))
    PROVE  PadStep(AlignCtx(u), n, i, s) \in Seq(Members(u, n, Nat))
<1> DEFINE c == AlignCtx(u)
           M == Members(u, n, Nat)
           p == IF gap(c, n, i) THEN pad(pad_before(c, n, i)) ELSE <<>>
<1>1. p \in Seq(M)
  <2>1. pad_before(c, n, i) \in Int
    BY FieldEnds
  <2>2. pad(pad_before(c, n, i)) \in Seq(M)
    BY <2>1, PadType
  <2>3. QED
    BY <2>2
<1>2. <<member(u[n].fields, i)>> \in Seq(M)
  <2>1. i \in DOMAIN u[n].fields
    BY RecordFacts
  <2>2. i \in Wholes(u[n].fields)
    BY <2>1, PaddedFacts DEF Wholes
  <2>3. member(u[n].fields, i) \in Members(u, n, {0})
    BY <2>2, MemberTypes
  <2>4. member(u[n].fields, i) \in M
    BY <2>3 DEF Members
  <2>5. QED
    BY <2>4
<1>3. PadStep(c, n, i, s) = (s \o p) \o <<member(u[n].fields, i)>>
  BY CtxFacts DEF PadStep
<1> HIDE DEF p, M, c
<1>4. s \in Seq(M)
  BY DEF M
<1>5. s \o p \in Seq(M)
  BY <1>1, <1>4, ConcatProperties
<1>6. (s \o p) \o <<member(u[n].fields, i)>> \in Seq(M)
  BY <1>2, <1>5, ConcatProperties
<1>7. QED
  BY <1>3, <1>6 DEF M, c

LEMMA PaddedRunRuns ==
    ASSUME NEW u \in Units, NEW n \in DOMAIN u, ~u[n].anon, ~declines(AlignCtx(u), n)
    PROVE  /\ padded_run(AlignCtx(u), n)[0] = <<>>
           /\ \A i \in 0 .. Len(u[n].fields) :
                 padded_run(AlignCtx(u), n)[i] \in Seq(Members(u, n, Nat))
           /\ \A i \in 1 .. Len(u[n].fields) :
                 padded_run(AlignCtx(u), n)[i]
                   = PadStep(AlignCtx(u), n, i, padded_run(AlignCtx(u), n)[i - 1])
<1> DEFINE c == AlignCtx(u)
           N == Len(u[n].fields)
           S == Seq(Members(u, n, Nat))
           T == [x \in (1 .. N) \X S |-> PadStep(c, n, x[1], x[2])]
           Rule(f) == f = [i \in 0 .. N |-> IF i = 0 THEN <<>> ELSE PadStep(c, n, i, f[i - 1])]
<1>1. N \in Nat
  BY RecordFacts
<1>2. \A i \in 1 .. N, s \in S : PadStep(c, n, i, s) \in S
  BY PadStepType
<1>3. T \in [(1 .. N) \X S -> S]
  BY <1>2
<1>4. <<>> \in S
  OBVIOUS
<1>0. Len(fields(c, n)) = N
  BY CtxFacts
<1> HIDE DEF N, S, T, c
<1>5. PICK f \in [0 .. N -> S] : Runs(f, N, <<>>, T)
  BY <1>1, <1>3, <1>4, RunExists
<1>6. Rule(f)
  <2>1. ASSUME NEW i \in 1 .. N PROVE T[<<i, f[i - 1]>>] = PadStep(c, n, i, f[i - 1])
    <3>1. f[i - 1] \in S
      BY <1>1
    <3>2. QED
      BY <3>1 DEF T
  <2>2. \A i \in 0 .. N : (IF i = 0 THEN <<>> ELSE T[<<i, f[i - 1]>>])
                       = (IF i = 0 THEN <<>> ELSE PadStep(c, n, i, f[i - 1]))
    BY <1>1, <2>1
  <2>3. f = [i \in 0 .. N |-> IF i = 0 THEN <<>> ELSE T[<<i, f[i - 1]>>]]
    BY <1>5 DEF Runs
  <2>4. QED
    BY <2>2, <2>3
<1>7. Rule(padded_run(c, n))
  <2> DEFINE Coded(g) == g = [i \in 0 .. Len(fields(c, n)) |->
                                IF i = 0 THEN <<>> ELSE PadStep(c, n, i, g[i - 1])]
  <2>1. padded_run(c, n) = CHOOSE g : Coded(g)
    BY DEF padded_run, PadStep
  <2>2. \A g : Coded(g) <=> Rule(g)
    BY <1>0
  <2> HIDE DEF Rule, Coded
  <2>3. QED
    BY <1>6, <2>1, <2>2
<1> DEFINE g == padded_run(c, n)
<1> HIDE DEF g
<1>8. g[0] = <<>> /\ \A i \in 1 .. N : g[i] = PadStep(c, n, i, g[i - 1])
  BY <1>1, <1>7 DEF g
<1>9. \A i \in 0 .. N : g[i] \in S
  <2> DEFINE G == {i \in 0 .. N : g[i] \in S}
  <2>1. 0 \in G
    BY <1>1, <1>4, <1>8
  <2>2. \A i \in 1 .. N : i - 1 \in G => i \in G
    BY <1>1, <1>2, <1>8
  <2>3. 0 .. N \subseteq G
    <3> HIDE DEF G
    <3>1. QED
      BY <1>1, <2>1, <2>2, Induction
  <2>4. QED
    BY <2>3
<1>10. QED
  BY <1>8, <1>9 DEF g, N, S, c

LEMMA EmitRecordType ==
    ASSUME NEW u \in Units, NEW n \in DOMAIN u
    PROVE  emit_record(AlignCtx(u), n) \in Seq(Members(u, n, Nat))
<1> DEFINE c == AlignCtx(u)
           N == Len(u[n].fields)
           M == Members(u, n, Nat)
<1>1. CASE ~needs_padding(c, n)
  <2>1. emit_record(c, n) \in Seq(Members(u, n, {0}))
    BY <1>1, EmitFieldsType, CtxFacts DEF emit_record
  <2>2. Members(u, n, {0}) \subseteq M
    BY DEF Members
  <2>3. QED
    BY <2>1, <2>2
<1>2. CASE needs_padding(c, n)
  <2>1. ~u[n].anon /\ ~declines(c, n)
    BY <1>2, CtxFacts DEF needs_padding
  <2>2. N \in 0 .. N /\ N \in Nat
    BY RecordFacts
  <2>3. padded_run(c, n)[N] \in Seq(M)
    BY <2>1, <2>2, PaddedRunRuns
  <2>4. c.layouts[n].size - field_end(c, n, N) \in Int
    <3>1. c.layouts[n].size \in Nat
      BY <2>1, CtxFacts, ClangIsDefined DEF ClangLayouts
    <3>2. field_end(c, n, N) \in Int
      BY <2>1, <2>2, FieldEnds
    <3>3. QED
      BY <3>1, <3>2
  <2>5. pad(c.layouts[n].size - field_end(c, n, N)) \in Seq(M)
    BY <2>4, PadType
  <2>6. emit_record(c, n) = padded_run(c, n)[N] \o pad(c.layouts[n].size - field_end(c, n, N))
    BY <1>2, CtxFacts DEF emit_record, synth_padded_fields
  <2> HIDE DEF c, N, M
  <2>7. QED
    BY <2>3, <2>5, <2>6, ConcatProperties DEF c, M
<1>3. QED
  BY <1>1, <1>2

-----------------------------------------------------------------------------
(* The invariant of the computation of the reprs and of the emission.       *)

Reprs == [kind : {"C", "Align", "Packed"}, n : Alignments]

Invariant ==
    /\ \E u \in Units : cx = AlignCtx(u)
    /\ reprs \in [DOMAIN cx.records -> Reprs]
    /\ bodies = [n \in DOMAIN cx.records |-> IF phase = "done" THEN emit_record(cx, n) ELSE <<>>]
    /\ phase \in {"measure", "propagate", "done"}

LEMMA RecordReprType ==
    ASSUME NEW u \in Units, NEW n \in DOMAIN u
    PROVE  record_repr(AlignCtx(u), n) \in Reprs
<1>1. CASE ~dumped(AlignCtx(u), n)
  BY <1>1 DEF record_repr, ReprC, Reprs, Alignments
<1>2. CASE dumped(AlignCtx(u), n)
  <2>1. AlignCtx(u).layouts[n].align \in Alignments
    BY <1>2, CtxFacts, ClangIsDefined DEF ClangLayouts
  <2>2. 1 \in Alignments
    BY DEF Alignments
  <2>3. QED
    BY <1>2, <2>1, <2>2 DEF record_repr, ReprC, Align, Packed, Reprs
<1>3. QED
  BY <1>1, <1>2

LEMMA UpdatesType ==
    ASSUME Invariant, NEW m
    PROVE  updates(m) \in SUBSET Alignments
BY DEF Invariant, Reprs, updates

LEMMA MinOfAlignments ==
    ASSUME NEW S \in SUBSET Alignments, S # {}
    PROVE  Min(S) \in S /\ \A y \in S : Min(S) <= y
<1>1. S \in SUBSET Nat
  BY AlignmentsAreNaturals
<1>2. QED
  BY <1>1, MinOfNaturals

\* What the computation knows and has chosen keeps its types, and what is
\* emitted is what emit_record says of the records as they were dumped.
THEOREM Invariance == Spec => []Invariant
<1>1. Init => Invariant
  <2> SUFFICES ASSUME Init PROVE Invariant
    OBVIOUS
  <2>1. ReprC \in Reprs
    BY DEF ReprC, Reprs, Alignments
  <2>2. QED
    BY <2>1 DEF Init, Invariant
<1>2. Invariant /\ [Next]_vars => Invariant'
  <2> SUFFICES ASSUME Invariant, [Next]_vars PROVE Invariant'
    OBVIOUS
  <2> PICK u \in Units : cx = AlignCtx(u)
    BY DEF Invariant
  <2>0. DOMAIN cx.records = DOMAIN u
    BY CtxFacts
  <2>1. CASE Measure
    <3>1. \A n \in DOMAIN cx.records : record_repr(cx, n) \in Reprs
      BY <2>0, RecordReprType
    <3>2. reprs' \in [DOMAIN cx.records -> Reprs]
      BY <2>1, <3>1 DEF Measure
    <3>3. QED
      BY <2>1, <3>2 DEF Measure, Invariant
  <2>2. CASE Propagate
    <3>1. ASSUME NEW m \in DOMAIN cx.records, tighter(m) PROVE Packed(Min(updates(m))) \in Reprs
      <4>1. updates(m) \in SUBSET Alignments
        BY UpdatesType
      <4>2. updates(m) # {}
        BY <3>1 DEF tighter
      <4>3. Min(updates(m)) \in Alignments
        BY <4>1, <4>2, MinOfAlignments
      <4>4. QED
        BY <4>3 DEF Packed, Reprs
    <3>2. \A m \in DOMAIN cx.records : reprs[m] \in Reprs
      BY DEF Invariant
    <3>3. reprs' \in [DOMAIN cx.records -> Reprs]
      BY <2>2, <3>1, <3>2 DEF Propagate
    <3>4. QED
      BY <2>2, <3>3 DEF Propagate, Invariant
  <2>3. CASE Emit
    BY <2>3 DEF Emit, Invariant
  <2>4. CASE UNCHANGED vars
    BY <2>4 DEF vars, Invariant
  <2>5. QED
    BY <2>1, <2>2, <2>3, <2>4 DEF Next
<1>3. QED
  BY <1>1, <1>2, PTL DEF Spec

\* Whatever the records are, the reprs have a number, and what is emitted is a
\* field of the record that is no bit-field, a storage unit or padding.
THEOREM TypeCorrect == Spec => []TypeOK
<1>1. Invariant => TypeOK
  <2> SUFFICES ASSUME Invariant PROVE TypeOK
    OBVIOUS
  <2> PICK u \in Units : cx = AlignCtx(u)
    BY DEF Invariant
  <2>0. cx.records = u
    BY CtxFacts
  <2>1. ASSUME NEW n \in DOMAIN cx.records
        PROVE  reprs[n].kind \in {"C", "Align", "Packed"} /\ reprs[n].n \in Nat \ {0}
    <3>1. reprs[n] \in Reprs
      BY DEF Invariant
    <3>2. QED
      BY <3>1, AlignmentsAreNaturals DEF Reprs
  <2>2. ASSUME NEW n \in DOMAIN cx.records, NEW i \in DOMAIN bodies[n]
        PROVE  /\ bodies[n][i].field \in {0} \cup measured(n)
               /\ bodies[n][i].type \in DOMAIN Prim \cup DOMAIN cx.records
               /\ bodies[n][i].pad \in Nat
    <3>1. bodies[n] \in Seq(Members(u, n, Nat))
      <4>1. emit_record(cx, n) \in Seq(Members(u, n, Nat))
        BY <2>0, EmitRecordType
      <4>2. QED
        BY <4>1 DEF Invariant
    <3>2. bodies[n][i] \in Members(u, n, Nat)
      BY <3>1
    <3>3. Wholes(u[n].fields) = measured(n)
      BY <2>0 DEF Wholes, measured, fields
    <3>4. FieldTypes(u, n) \subseteq DOMAIN Prim \cup DOMAIN u
      BY <2>0, FieldTypesFacts
    <3>5. QED
      BY <2>0, <3>2, <3>3, <3>4 DEF Members
  <2>3. phase \in {"measure", "propagate", "done"}
    BY DEF Invariant
  <2>4. QED
    BY <2>1, <2>2, <2>3 DEF TypeOK
<1>2. QED
  BY <1>1, Invariance, PTL

-----------------------------------------------------------------------------
(* Padding is written for an over-aligned field only.                       *)

\* A record's alignment is no less than what is required of it.
LEMMA RequiredAtMostAlign ==
    ASSUME NEW u \in Units, NEW n \in DOMAIN u
    PROVE  clang(u)[n].required <= clang(u)[n].align
<1> DEFINE l == clang(u)
           run == clang_run(u, l, u[n])
           req == Max({u[n].align} \cup
                      {clang_required(u, l, u[n].fields[i]) : i \in DOMAIN u[n].fields})
           end == run[Len(u[n].fields)]
<1>1. l[n] = clang_record(u, l, u[n])
  BY ClangIsDefined
<1>2. l[n].required = req /\ l[n].align = Max({end.align, req})
  BY <1>1 DEF clang_record
<1>3. end.align \in Nat
  <2>1. Len(u[n].fields) \in 0 .. Len(u[n].fields)
    BY RecordFacts
  <2>2. QED
    BY <2>1, ClangRunOf, AlignmentsAreNaturals DEF ClangStates
<1>4. l[n].required \in Nat
  BY ClangIsDefined, AlignmentsAreNaturals DEF ClangLayouts
<1> HIDE DEF req, end, l
<1>5. QED
  BY <1>2, <1>3, <1>4, MaxOfTwo DEF l

\* A field of no alignment of its own is aligned to no more than its type.
LEMMA FieldAtMostNatural ==
    ASSUME NEW u \in Units, NEW n \in DOMAIN u, NEW i \in DOMAIN u[n].fields, u[n].fields[i].align = 1
    PROVE  clang_align(u, clang(u), u[n], u[n].fields[i]) <= clang_natural(u, clang(u), u[n].fields[i])
<1> DEFINE l == clang(u)
           f == u[n].fields[i]
<1>1. f \in Fields(u) /\ u[n].pack \in Alignments
  BY RecordFacts
<1>2. embeds(u, f) => l[f.type] \in ClangLayouts /\ l[f.type].required <= l[f.type].align
  BY ClangIsDefined, RequiredAtMostAlign DEF embeds
<1>3. /\ clang_natural(u, l, f) \in Alignments /\ clang_required(u, l, f) \in Alignments
  BY <1>1, <1>2, ClangFieldType
<1>4. \A a, b \in Alignments : /\ Max({a, b}) = (IF a >= b THEN a ELSE b)
                               /\ Min({a, b}) = (IF a <= b THEN a ELSE b)
  BY MaxOfTwo, MinOfTwo, AlignmentsAreNaturals
<1>5. clang_required(u, l, f) <= clang_natural(u, l, f)
  <2>1. 1 \in Alignments
    BY DEF Alignments
  <2>2. CASE embeds(u, f)
    <3>1. clang_required(u, l, f) = Max({1, l[f.type].required})
      BY <2>2 DEF clang_required
    <3>2. l[f.type].required \in Alignments /\ l[f.type].align \in Alignments
      BY <1>2, <2>2 DEF ClangLayouts
    <3>3. clang_natural(u, l, f) = l[f.type].align
      BY <2>2 DEF clang_natural
    <3>4. clang_required(u, l, f) = IF 1 >= l[f.type].required THEN 1 ELSE l[f.type].required
      BY <1>4, <2>1, <3>1, <3>2
    <3> HIDE DEF l, f
    <3>5. QED
      BY <1>2, <2>2, <3>2, <3>3, <3>4, AlignmentsAreNaturals
  <2>3. CASE ~embeds(u, f)
    <3>1. clang_required(u, l, f) = Max({1, 1})
      BY <2>3 DEF clang_required
    <3>2. clang_required(u, l, f) = 1
      BY <1>4, <2>1, <3>1
    <3>3. QED
      BY <1>3, <3>2, AlignmentsAreNaturals
  <2>4. QED
    BY <2>2, <2>3
<1>6. Min({clang_natural(u, l, f), u[n].pack}) <= clang_natural(u, l, f)
  BY <1>1, <1>3, <1>4, AlignmentsAreNaturals
<1>7. Min({clang_natural(u, l, f), u[n].pack}) \in Alignments
  BY <1>1, <1>3, <1>4
<1>8. clang_align(u, l, u[n], f) \in {Min({clang_natural(u, l, f), u[n].pack}), clang_required(u, l, f)}
  BY <1>3, <1>4, <1>7 DEF clang_align
<1>9. QED
  BY <1>5, <1>6, <1>8

\* A finer alignment rounds up to no more than a coarser one.
LEMMA RoundUpMonotone ==
    ASSUME NEW pos \in Nat, NEW a \in Alignments, NEW b \in Alignments, a <= b
    PROVE  round_up(pos, a) <= round_up(pos, b)
<1>1. a \in Nat \ {0} /\ b \in Nat \ {0}
  BY AlignmentsAreNaturals
<1>2. round_up(pos, b) \in Nat /\ round_up(pos, b) >= pos /\ Multiple(round_up(pos, b), b)
  BY <1>1, RoundUp
<1>3. Multiple(b, a)
  BY AlignmentsDivide
<1>4. Multiple(round_up(pos, b), a)
  BY <1>1, <1>2, <1>3, MultipleOfMultiple
<1>5. QED
  BY <1>1, <1>2, <1>4, RoundUpIsLeast

\* clang's step for a whole field of a struct.
LEMMA WholeField ==
    ASSUME NEW u \in Units, NEW n \in DOMAIN u, ~u[n].union, NEW i \in 1 .. Len(u[n].fields),
           ~bitfield(u[n].fields[i]), NEW st \in ClangStates,
           NEW size \in Nat, NEW align \in Alignments
    PROVE  LET off == round_up(st.size, align)
               to  == clang_place(u[n], st, u[n].fields[i], size, align)
           IN  to.at = off /\ to.size = off + size
<1>1. st.size \in Nat /\ align \in Nat \ {0}
  BY AlignmentsAreNaturals DEF ClangStates
<1>2. round_up(st.size, align) \in Nat /\ round_up(st.size, align) >= st.size
  BY <1>1, RoundUp
<1>3. u[n].fields[i].bits = -1
  BY DEF bitfield, NoBits
<1>4. Max({st.size, round_up(st.size, align) + size}) = round_up(st.size, align) + size
  BY <1>1, <1>2, MaxOfTwo
<1>5. QED
  BY <1>3, <1>4 DEF clang_place

\* Where every field is whole, clang's run is at the end of the fields so far.
OnlyWhole(u, n) ==
    /\ ~u[n].anon /\ ~u[n].union
    /\ \A i \in DOMAIN u[n].fields :
          ~bitfield(u[n].fields[i]) /\ sizeable(AlignCtx(u), u[n].fields[i].type)

LEMMA RunEnds ==
    ASSUME NEW u \in Units, NEW n \in DOMAIN u, OnlyWhole(u, n)
    PROVE  \A i \in 0 .. Len(u[n].fields) :
               field_end(AlignCtx(u), n, i) = clang_run(u, clang(u), u[n])[i].size
<1> DEFINE c == AlignCtx(u)
           N == Len(u[n].fields)
           run == clang_run(u, clang(u), u[n])
<1>1. N \in Nat /\ DOMAIN u[n].fields = 1 .. N
  BY RecordFacts
<1>2. field_end(c, n, 0) = run[0].size
  BY ClangRunOf DEF field_end, ClangStart
<1>3. ASSUME NEW i \in 1 .. N PROVE field_end(c, n, i) = run[i].size
  <2> DEFINE f == u[n].fields[i]
             size == clang_size(u, clang(u), f)
             align == clang_align(u, clang(u), u[n], f)
  <2>1. f \in Fields(u) /\ i \in DOMAIN u[n].fields /\ i - 1 \in 0 .. N
    BY <1>1, RecordFacts
  <2>2. ~u[n].union /\ ~bitfield(f) /\ sizeable(c, f.type)
    BY <2>1 DEF OnlyWhole
  <2>3. embeds(u, f) => clang(u)[f.type] \in ClangLayouts
    BY ClangIsDefined DEF embeds
  <2>4. size \in Nat /\ align \in Alignments
    BY <2>1, <2>3, ClangFieldType
  <2>5. run[i - 1] \in ClangStates
    BY <2>1, ClangRunOf
  <2>6. run[i] = clang_place(u[n], run[i - 1], f, size, align)
    BY ClangRunOf DEF ClangStep
  <2>7. run[i].size = run[i].at + size
    BY <2>2, <2>4, <2>5, <2>6, WholeField
  <2>8. field_end(c, n, i) = clang(u)[n].offsets[i] + field_size(c, f.type)
    BY CtxFacts DEF field_end, OnlyWhole
  <2>9. clang(u)[n].offsets[i] = run[i].at
    BY ClangRunOf
  <2>10. field_size(c, f.type) = size
    BY <2>1, <2>2, FieldSizes
  <2>11. QED
    BY <2>7, <2>8, <2>9, <2>10
<1>4. QED
  BY <1>2, <1>3

\* Where no field is over-aligned, every field is where rustc would put it.
LEMMA GapsAreOverAlignment ==
    ASSUME NEW u \in Units, NEW n \in DOMAIN u, ~u[n].anon, ~declines(AlignCtx(u), n),
           NEW i \in DOMAIN u[n].fields, u[n].fields[i].align = 1
    PROVE  ~gap(AlignCtx(u), n, i)
<1> DEFINE c == AlignCtx(u)
           N == Len(u[n].fields)
           run == clang_run(u, clang(u), u[n])
           f == u[n].fields[i]
           size == clang_size(u, clang(u), f)
           align == clang_align(u, clang(u), u[n], f)
           natural == clang_natural(u, clang(u), f)
<1>1. N \in Nat /\ i \in 1 .. N /\ i - 1 \in 0 .. N
  BY RecordFacts
<1>2. f \in Fields(u)
  BY <1>1, RecordFacts
<1>3. embeds(u, f) => clang(u)[f.type] \in ClangLayouts
  BY ClangIsDefined DEF embeds
<1>4. size \in Nat /\ align \in Alignments /\ natural \in Alignments
  BY <1>2, <1>3, ClangFieldType
<1>5. ~u[n].union /\ ~bitfield(f) /\ sizeable(c, f.type)
  BY PaddedFacts
<1>6. run[i - 1] \in ClangStates /\ run[i] = clang_place(u[n], run[i - 1], f, size, align)
  BY <1>1, ClangRunOf DEF ClangStep
<1>7. run[i].at = round_up(run[i - 1].size, align)
  BY <1>1, <1>4, <1>5, <1>6, WholeField
<1>8. align <= natural
  BY FieldAtMostNatural
<1>9. round_up(run[i - 1].size, align) <= round_up(run[i - 1].size, natural)
  <2>1. run[i - 1].size \in Nat
    BY <1>6 DEF ClangStates
  <2> HIDE DEF align, natural
  <2>2. QED
    BY <1>4, <1>8, <2>1, RoundUpMonotone
<1>10. rustc_offset(c, n, i) = round_up(run[i - 1].size, natural)
  <2>1. field_end(c, n, i - 1) = run[i - 1].size
    BY <1>1, PaddedFacts, RunEnds DEF OnlyWhole
  <2>2. field_align(c, f.type) = natural
    BY <1>5, FieldSizes
  <2>3. fields(c, n)[i] = f
    BY CtxFacts
  <2>4. QED
    BY <2>1, <2>2, <2>3 DEF rustc_offset
<1>11. c.layouts[n].offsets[i] = run[i].at
  BY <1>1, CtxFacts, ClangRunOf
<1>12. run[i].at \in Int /\ round_up(run[i - 1].size, natural) \in Int
  <2>1. run[i - 1].size \in Nat
    BY <1>6 DEF ClangStates
  <2>2. natural \in Nat \ {0}
    BY <1>4, AlignmentsAreNaturals
  <2>3. round_up(run[i - 1].size, natural) \in Nat
    BY <2>1, <2>2, RoundUp
  <2>4. run[i].at \in Int
    BY <1>1, ClangRunOf DEF ClangStates
  <2>5. QED
    BY <2>3, <2>4
<1>13. QED
  BY <1>7, <1>9, <1>10, <1>11, <1>12 DEF gap

\* Whatever the records are, padding is emitted for no record without an
\* over-aligned field: the gaps of the C layout alone never ask for it.
THEOREM PaddingIsForOverAlignment == Spec => []VerbatimUnlessOverAligned
<1>1. Invariant => VerbatimUnlessOverAligned
  <2> SUFFICES ASSUME Invariant, NEW n \in DOMAIN cx.records, NEW i \in DOMAIN bodies[n],
                      bodies[n][i].pad > 0,
                      ~ \E j \in DOMAIN fields(cx, n) : over_aligned(fields(cx, n)[j])
               PROVE  FALSE
    BY DEF VerbatimUnlessOverAligned
  <2> PICK u \in Units : cx = AlignCtx(u)
    BY DEF Invariant
  <2>0. cx.records = u /\ fields(cx, n) = u[n].fields
    BY CtxFacts
  <2>1. bodies[n] = emit_record(cx, n)
    BY DEF Invariant
  <2>2. CASE ~needs_padding(cx, n)
    <3>1. bodies[n] \in Seq(Members(u, n, {0}))
      BY <2>0, <2>1, <2>2, EmitFieldsType DEF emit_record
    <3>2. bodies[n][i] \in Members(u, n, {0})
      BY <3>1
    <3>3. bodies[n][i].pad = 0
      BY <3>2 DEF Members
    <3>4. QED
      BY <3>3
  <2>3. CASE needs_padding(cx, n)
    <3>1. ~u[n].anon /\ ~declines(cx, n)
      BY <2>3, CtxFacts DEF needs_padding
    <3>2. PICK j \in DOMAIN u[n].fields : gap(cx, n, j)
      BY <2>0, <2>3 DEF needs_padding
    <3>3. u[n].fields[j].align = 1
      <4>1. u[n].fields[j] \in Fields(u)
        <5>1. n \in DOMAIN u
          BY <2>0
        <5>2. QED
          BY <5>1, RecordFacts
      <4>2. ~(u[n].fields[j].align > 1)
        BY <2>0 DEF over_aligned
      <4>3. u[n].fields[j].align \in Nat \ {0}
        BY <4>1, FieldFacts, AlignmentsAreNaturals
      <4>4. QED
        BY <4>2, <4>3
    <3>4. QED
      BY <2>0, <3>1, <3>2, <3>3, GapsAreOverAlignment
  <2>4. QED
    BY <2>2, <2>3
<1>2. QED
  BY <1>1, Invariance, PTL

-----------------------------------------------------------------------------
(* What clang aligns to: bounds on the alignment of a record.               *)

SizeOf(u, n, i)     == clang_size(u, clang(u), u[n].fields[i])
NaturalOf(u, n, i)  == clang_natural(u, clang(u), u[n].fields[i])
RequiredOf(u, n, i) == clang_required(u, clang(u), u[n].fields[i])
AlignOf(u, n, i)    == clang_align(u, clang(u), u[n], u[n].fields[i])
RunOf(u, n)         == clang_run(u, clang(u), u[n])
EndOf(u, n)         == RunOf(u, n)[Len(u[n].fields)]

LEMMA MaxMinOfAlignments ==
    \A a, b \in Alignments : /\ Max({a, b}) = (IF a >= b THEN a ELSE b)
                             /\ Min({a, b}) = (IF a <= b THEN a ELSE b)
                             /\ Max({a, b}) \in Alignments /\ Min({a, b}) \in Alignments
BY MaxOfTwo, MinOfTwo, AlignmentsAreNaturals

LEMMA MaxMinBounds ==
    ASSUME NEW a \in Alignments, NEW b \in Alignments
    PROVE  /\ a <= Max({a, b}) /\ b <= Max({a, b})
           /\ Min({a, b}) <= a /\ Min({a, b}) <= b
<1>1. a \in Nat /\ b \in Nat
  BY AlignmentsAreNaturals
<1>2. /\ Max({a, b}) = IF a >= b THEN a ELSE b
      /\ Min({a, b}) = IF a <= b THEN a ELSE b
  BY MaxMinOfAlignments
<1> DEFINE max == Max({a, b})
           min == Min({a, b})
<1> HIDE DEF max, min
<1>3. /\ max = IF a >= b THEN a ELSE b
      /\ min = IF a <= b THEN a ELSE b
  BY <1>2 DEF max, min
<1>4. a <= max /\ b <= max /\ min <= a /\ min <= b
  BY <1>1, <1>3
<1>5. QED
  BY <1>4 DEF max, min

LEMMA FieldOf ==
    ASSUME NEW u \in Units, NEW n \in DOMAIN u, NEW i \in DOMAIN u[n].fields
    PROVE  /\ i \in 1 .. Len(u[n].fields) /\ u[n].fields[i] \in Fields(u)
           /\ SizeOf(u, n, i) \in Nat /\ NaturalOf(u, n, i) \in Alignments
           /\ RequiredOf(u, n, i) \in Alignments /\ AlignOf(u, n, i) \in Alignments
           /\ AlignOf(u, n, i) = Max({Min({NaturalOf(u, n, i), u[n].pack}), RequiredOf(u, n, i)})
<1>1. i \in 1 .. Len(u[n].fields) /\ u[n].fields[i] \in Fields(u)
  BY RecordFacts
<1>2. embeds(u, u[n].fields[i]) => clang(u)[u[n].fields[i].type] \in ClangLayouts
  BY ClangIsDefined DEF embeds
<1>3. QED
  BY <1>1, <1>2, ClangFieldType DEF SizeOf, NaturalOf, RequiredOf, AlignOf, clang_align

LEMMA IndexFacts ==
    ASSUME NEW u \in Units, NEW n \in DOMAIN u, NEW i \in DOMAIN u[n].fields
    PROVE  /\ i \in 1 .. Len(u[n].fields) /\ Len(u[n].fields) \in Nat
           /\ i \in Nat /\ i > 0 /\ i - 1 \in Nat /\ i - 1 >= 0
           /\ 1 .. i = (1 .. i - 1) \cup {i}
<1>1. i \in 1 .. Len(u[n].fields) /\ Len(u[n].fields) \in Nat
  BY RecordFacts
<1>2. QED
  BY <1>1

\* The required alignment of a record is its own or that of one of its fields.
LEMMA RecordOf ==
    ASSUME NEW u \in Units, NEW n \in DOMAIN u
    PROVE  /\ clang(u)[n].align = Max({EndOf(u, n).align, clang(u)[n].required})
           /\ clang(u)[n].size = round_up(EndOf(u, n).size,
                 Max({Min({clang(u)[n].align, u[n].pack}), clang(u)[n].required}))
           /\ clang(u)[n].align \in Alignments /\ clang(u)[n].required \in Alignments
           /\ EndOf(u, n) \in ClangStates
           /\ EndOf(u, n).align <= clang(u)[n].align
           /\ clang(u)[n].required <= clang(u)[n].align
           /\ \A i \in DOMAIN u[n].fields : RequiredOf(u, n, i) <= clang(u)[n].required
           /\ \/ clang(u)[n].required = u[n].align
              \/ \E i \in DOMAIN u[n].fields : clang(u)[n].required = RequiredOf(u, n, i)
<1> DEFINE l == clang(u)
           S == {u[n].align} \cup {clang_required(u, l, u[n].fields[i]) : i \in DOMAIN u[n].fields}
<1>1. l[n] = clang_record(u, l, u[n])
  BY ClangIsDefined
<1>2. l[n].required = Max(S) /\ l[n].align = Max({EndOf(u, n).align, Max(S)})
  BY <1>1 DEF clang_record, EndOf, RunOf
<1>3. l[n].size = round_up(EndOf(u, n).size, Max({Min({l[n].align, u[n].pack}), l[n].required}))
  BY <1>1 DEF clang_record, EndOf, RunOf
<1>4. S \in SUBSET Alignments
  <2>1. \A i \in DOMAIN u[n].fields : clang_required(u, l, u[n].fields[i]) \in Alignments
    BY FieldOf DEF RequiredOf
  <2>2. u[n].align \in Alignments
    BY RecordFacts
  <2>3. QED
    BY <2>1, <2>2
<1>5. Max(S) \in S /\ \A y \in S : y <= Max(S)
  <2> HIDE DEF S
  <2>1. S # {}
    BY DEF S
  <2>2. QED
    BY <1>4, <2>1, MaxOfAlignments
<1>6. EndOf(u, n) \in ClangStates
  <2>1. Len(u[n].fields) \in 0 .. Len(u[n].fields)
    BY RecordFacts
  <2>2. QED
    BY <2>1, ClangRunOf DEF EndOf, RunOf
<1>7. EndOf(u, n).align \in Alignments
  BY <1>6 DEF ClangStates
<1>8. l[n].align \in Alignments /\ l[n].required \in Alignments
  BY ClangIsDefined DEF ClangLayouts
<1>9. EndOf(u, n).align <= l[n].align /\ l[n].required <= l[n].align
  <2> HIDE DEF l, S
  <2>1. QED
    BY <1>2, <1>7, <1>8, MaxMinOfAlignments, AlignmentsAreNaturals
<1>10. \A i \in DOMAIN u[n].fields : RequiredOf(u, n, i) <= l[n].required
  BY <1>2, <1>5 DEF RequiredOf
<1>11. \/ l[n].required = u[n].align
       \/ \E i \in DOMAIN u[n].fields : l[n].required = RequiredOf(u, n, i)
  BY <1>2, <1>5 DEF RequiredOf
<1>12. QED
  BY <1>2, <1>3, <1>6, <1>8, <1>9, <1>10, <1>11

\* What a step of clang's run does to the alignment.
LEMMA StepAlign ==
    ASSUME NEW u \in Units, NEW n \in DOMAIN u, NEW i \in DOMAIN u[n].fields
    PROVE  LET was == RunOf(u, n)[i - 1].align
               is  == RunOf(u, n)[i].align
               f   == u[n].fields[i]
           IN  /\ is \in {was, AlignOf(u, n, i)} /\ was <= is
               /\ ~bitfield(f) => AlignOf(u, n, i) <= is
<1> DEFINE st == RunOf(u, n)[i - 1]
           f  == u[n].fields[i]
           size == SizeOf(u, n, i)
           align == AlignOf(u, n, i)
<1>1. i \in 1 .. Len(u[n].fields) /\ f \in Fields(u) /\ align \in Alignments
  BY FieldOf
<1>2. i - 1 \in 0 .. Len(u[n].fields)
  BY <1>1
<1>3. st \in ClangStates
  BY <1>2, ClangRunOf DEF RunOf
<1>4. RunOf(u, n)[i] = clang_place(u[n], st, f, size, align)
  BY <1>1, ClangRunOf DEF RunOf, ClangStep, SizeOf, AlignOf
<1>5. st.align \in Alignments
  BY <1>3 DEF ClangStates
<1>6. Max({st.align, align}) \in {st.align, align} /\ st.align <= Max({st.align, align})
      /\ align <= Max({st.align, align})
  <2> HIDE DEF st, align
  <2>1. QED
    BY <1>1, <1>5, MaxMinOfAlignments, AlignmentsAreNaturals
<1>7. f.bits \in Nat \cup {-1}
  BY <1>1, FieldFacts DEF NoBits
<1>8. st.align <= st.align
  BY <1>5, AlignmentsAreNaturals
<1> HIDE DEF st, f, size, align
<1>9. CASE f.bits = 0 /\ st.storage = 0
  <2>1. clang_place(u[n], st, f, size, align) = [st EXCEPT !.at = st.size]
    BY <1>9 DEF clang_place
  <2>2. clang_place(u[n], st, f, size, align).align = st.align
    BY <1>3, <2>1 DEF ClangStates
  <2>3. bitfield(f)
    BY <1>9 DEF bitfield, NoBits
  <2>4. QED
    BY <1>4, <1>8, <2>2, <2>3 DEF st, f, align
<1>10. CASE f.bits = 0 /\ st.storage # 0
  <2>1. clang_place(u[n], st, f, size, align).align
          = IF u[n].union THEN st.align ELSE Max({st.align, align})
    BY <1>10 DEF clang_place
  <2>2. bitfield(f)
    BY <1>10 DEF bitfield, NoBits
  <2>3. QED
    BY <1>4, <1>6, <1>8, <2>1, <2>2 DEF st, f, align
<1>11. CASE f.bits > 0 /\ ~u[n].union /\ f.bits <= st.left /\ size = st.storage
  <2>1. clang_place(u[n], st, f, size, align) = [st EXCEPT !.left = @ - f.bits, !.at = st.size - size]
    BY <1>7, <1>11 DEF clang_place
  <2>2. clang_place(u[n], st, f, size, align).align = st.align
    BY <1>3, <2>1 DEF ClangStates
  <2>3. bitfield(f)
    BY <1>7, <1>11 DEF bitfield, NoBits
  <2>4. QED
    BY <1>4, <1>8, <2>2, <2>3 DEF st, f, align
<1>12. CASE f.bits # 0 /\ ~(f.bits > 0 /\ ~u[n].union /\ f.bits <= st.left /\ size = st.storage)
  <2>1. clang_place(u[n], st, f, size, align).align
          = IF u[n].union /\ bitfield(f) THEN st.align ELSE Max({st.align, align})
    BY <1>7, <1>12 DEF clang_place
  <2>2. QED
    BY <1>4, <1>6, <1>8, <2>1 DEF st, f, align
<1>13. QED
  BY <1>7, <1>9, <1>10, <1>11, <1>12

\* A record is aligned to a field or to nothing, and to every whole field.
LEMMA EndAlign ==
    ASSUME NEW u \in Units, NEW n \in DOMAIN u
    PROVE  /\ \/ EndOf(u, n).align = 1
              \/ \E j \in DOMAIN u[n].fields : EndOf(u, n).align = AlignOf(u, n, j)
           /\ \A j \in DOMAIN u[n].fields :
                 ~bitfield(u[n].fields[j]) => AlignOf(u, n, j) <= EndOf(u, n).align
<1> DEFINE N == Len(u[n].fields)
           run == RunOf(u, n)
           a(j) == AlignOf(u, n, j)
           Upper(i) == run[i].align \in {1} \cup {a(j) : j \in DOMAIN u[n].fields}
           Lower(i) == \A j \in 1 .. i : ~bitfield(u[n].fields[j]) => a(j) <= run[i].align
           G == {i \in 0 .. N : Upper(i) /\ Lower(i)}
<1>1. N \in Nat /\ DOMAIN u[n].fields = 1 .. N
  BY RecordFacts
<1>2. 0 \in G
  <2>1. run[0].align = 1
    BY ClangRunOf DEF RunOf, ClangStart
  <2>2. QED
    BY <1>1, <2>1
<1>3. ASSUME NEW i \in 1 .. N, i - 1 \in G PROVE i \in G
  <2>1. /\ run[i].align \in {run[i - 1].align, a(i)} /\ run[i - 1].align <= run[i].align
        /\ ~bitfield(u[n].fields[i]) => a(i) <= run[i].align
    BY <1>1, StepAlign
  <2>2. Upper(i)
    BY <1>1, <1>3, <2>1
  <2>3. ASSUME NEW j \in 1 .. i, ~bitfield(u[n].fields[j]) PROVE a(j) <= run[i].align
    <3>1. CASE j = i
      BY <2>1, <2>3, <3>1
    <3>2. CASE j # i
      <4>1. a(j) <= run[i - 1].align
        BY <1>3, <2>3, <3>2
      <4>2. a(j) \in Nat
        <5>1. j \in DOMAIN u[n].fields
          BY <1>1
        <5>2. a(j) \in Alignments
          BY <5>1, FieldOf
        <5>3. QED
          BY <5>2, AlignmentsAreNaturals
      <4>3. i - 1 \in 0 .. N /\ i \in 0 .. N
        BY <1>1
      <4>4. run[i - 1].align \in Nat /\ run[i].align \in Nat
        BY <4>3, ClangRunOf, AlignmentsAreNaturals DEF RunOf, ClangStates
      <4>5. run[i - 1].align <= run[i].align
        BY <2>1
      <4> HIDE DEF run, a
      <4>6. QED
        BY <4>1, <4>2, <4>4, <4>5
    <3>3. QED
      BY <3>1, <3>2
  <2>4. QED
    BY <2>2, <2>3
<1>4. 0 .. N \subseteq G
  <2> HIDE DEF G, N
  <2>1. QED
    BY <1>1, <1>2, <1>3, Induction
<1>5. N \in G
  BY <1>1, <1>4
<1>6. QED
  BY <1>1, <1>5 DEF EndOf

\* Only what is required exceeds the pack.
LEMMA AlignAtMostPack ==
    ASSUME NEW u \in Units, NEW n \in DOMAIN u
    PROVE  clang(u)[n].align <= u[n].pack \/ clang(u)[n].align <= clang(u)[n].required
<1> DEFINE al == clang(u)[n].align
           req == clang(u)[n].required
           end == EndOf(u, n).align
           pack == u[n].pack
<1>1. al = Max({end, req}) /\ al \in Alignments /\ req \in Alignments /\ end \in Alignments
  BY RecordOf DEF ClangStates
<1>2. pack \in Alignments
  BY RecordFacts
<1>3. end = 1 \/ \E j \in DOMAIN u[n].fields : end = AlignOf(u, n, j)
  BY EndAlign
<1>4. end <= pack \/ end <= req
  <2>1. CASE end = 1
    <3> HIDE DEF pack, end
    <3>1. QED
      BY <2>1, <1>2, AlignmentsAreNaturals
  <2>2. ASSUME NEW j \in DOMAIN u[n].fields, end = AlignOf(u, n, j)
        PROVE  end <= pack \/ end <= req
    <3> DEFINE nat == NaturalOf(u, n, j)
               r == RequiredOf(u, n, j)
    <3>1. end = Max({Min({nat, pack}), r}) /\ nat \in Alignments /\ r \in Alignments
      BY <2>2, FieldOf
    <3>2. r <= req
      BY RecordOf
    <3> HIDE DEF end, pack, nat, r, req
    <3>3. Min({nat, pack}) \in Alignments /\ Min({nat, pack}) <= pack
      BY <1>2, <3>1, MaxMinOfAlignments, AlignmentsAreNaturals
    <3>4. end = Min({nat, pack}) \/ end = r
      BY <3>1, <3>3, MaxMinOfAlignments
    <3>5. QED
      BY <3>2, <3>3, <3>4
  <2>3. QED
    BY <1>3, <2>1, <2>2
<1>5. al = end \/ al = req
  <2> HIDE DEF al, end, req
  <2>1. QED
    BY <1>1, MaxMinOfAlignments
<1>6. al <= al
  BY <1>1, AlignmentsAreNaturals
<1> HIDE DEF al, end, req, pack
<1>7. al <= pack \/ al <= req
  BY <1>4, <1>5, <1>6
<1>8. QED
  BY <1>7 DEF al, req, pack

LEMMA RequiredOfField ==
    ASSUME NEW u \in Units, NEW n \in DOMAIN u, NEW i \in DOMAIN u[n].fields
    PROVE  /\ u[n].fields[i].align <= RequiredOf(u, n, i)
           /\ embeds(u, u[n].fields[i]) =>
                 /\ clang(u)[u[n].fields[i].type].required <= RequiredOf(u, n, i)
                 /\ u[n].fields[i].align = 1 =>
                       RequiredOf(u, n, i) = clang(u)[u[n].fields[i].type].required
           /\ ~embeds(u, u[n].fields[i]) => RequiredOf(u, n, i) = u[n].fields[i].align
<1> DEFINE f == u[n].fields[i]
           q == IF embeds(u, f) THEN clang(u)[f.type].required ELSE 1
<1>1. f \in Fields(u)
  BY FieldOf
<1>2. f.align \in Alignments
  BY <1>1, FieldFacts
<1>3. embeds(u, f) => clang(u)[f.type].required \in Alignments
  BY RecordOf DEF embeds
<1>4. 1 \in Alignments
  BY DEF Alignments
<1>5. q \in Alignments
  BY <1>3, <1>4
<1>6. RequiredOf(u, n, i) = Max({f.align, q})
  BY DEF RequiredOf, clang_required
<1>7. RequiredOf(u, n, i) = IF f.align >= q THEN f.align ELSE q
  <2> HIDE DEF f, q
  <2>1. QED
    BY <1>2, <1>5, <1>6, MaxMinOfAlignments
<1>8. f.align \in Nat /\ f.align > 0 /\ q \in Nat /\ q > 0
  <2> HIDE DEF f, q
  <2>1. QED
    BY <1>2, <1>5, AlignmentsAreNaturals
<1>9. /\ f.align <= RequiredOf(u, n, i) /\ q <= RequiredOf(u, n, i)
      /\ f.align = 1 => RequiredOf(u, n, i) = q
      /\ q = 1 => RequiredOf(u, n, i) = f.align
  <2> HIDE DEF f, q
  <2>1. QED
    BY <1>7, <1>8
<1>10. QED
  BY <1>9

\* Outside every pack a field has the alignment of its type, if not more.
LEMMA UnpackedField ==
    ASSUME NEW u \in Units, NEW n \in DOMAIN u, NEW i \in DOMAIN u[n].fields, u[n].pack = Unpacked
    PROVE  /\ NaturalOf(u, n, i) <= AlignOf(u, n, i)
           /\ u[n].fields[i].align = 1 => NaturalOf(u, n, i) = AlignOf(u, n, i)
<1> DEFINE f == u[n].fields[i]
           nat == NaturalOf(u, n, i)
           r == RequiredOf(u, n, i)
           a == AlignOf(u, n, i)
<1>1. nat \in Alignments /\ r \in Alignments /\ a \in Alignments /\ f \in Fields(u)
      /\ a = Max({Min({nat, Unpacked}), r})
  BY FieldOf
<1>2. Unpacked \in Alignments
  BY NamesOfPrims
<1>3. nat <= Unpacked \/ nat <= r
  <2>1. CASE ~embeds(u, f)
    <3>1. f.type \in DOMAIN Prim
      BY <1>1, <2>1, FieldFacts
    <3>2. nat = Prim[f.type]
      BY <2>1 DEF NaturalOf, clang_natural
    <3>3. QED
      BY <3>1, <3>2, PrimFacts
  <2>2. CASE embeds(u, f)
    <3>1. f.type \in DOMAIN u /\ nat = clang(u)[f.type].align
      BY <2>2 DEF NaturalOf, clang_natural, embeds
    <3>2. nat <= u[f.type].pack \/ nat <= clang(u)[f.type].required
      BY <3>1, AlignAtMostPack
    <3>3. u[f.type].pack <= Unpacked /\ u[f.type].pack \in Alignments
      BY <3>1, RecordFacts
    <3>4. clang(u)[f.type].required <= r /\ clang(u)[f.type].required \in Alignments
      BY <2>2, <3>1, RequiredOfField, RecordOf
    <3> DEFINE p == u[f.type].pack
               q == clang(u)[f.type].required
    <3> HIDE DEF p, q, nat, r
    <3>5. nat <= p \/ nat <= q
      BY <3>2 DEF p, q
    <3>6. p <= Unpacked /\ p \in Alignments /\ q <= r /\ q \in Alignments
      BY <3>3, <3>4 DEF p, q
    <3>7. QED
      BY <1>1, <1>2, <3>5, <3>6, AlignmentsAreNaturals
  <2>3. QED
    BY <2>1, <2>2
<1>4. nat <= a
  <2> HIDE DEF nat, r, a
  <2>1. CASE nat <= Unpacked
    <3>1. Min({nat, Unpacked}) = nat
      BY <1>1, <1>2, <2>1, MaxMinOfAlignments
    <3>2. a = Max({nat, r})
      BY <1>1, <3>1
    <3>3. QED
      BY <1>1, <3>2, MaxMinBounds
  <2>2. CASE nat <= r
    <3>1. Min({nat, Unpacked}) \in Alignments
      BY <1>1, <1>2, MaxMinOfAlignments
    <3>2. r <= Max({Min({nat, Unpacked}), r})
      BY <1>1, <3>1, MaxMinBounds
    <3>3. r <= a
      BY <1>1, <3>2
    <3>4. nat \in Nat /\ r \in Nat /\ a \in Nat
      BY <1>1, AlignmentsAreNaturals
    <3>5. QED
      BY <2>2, <3>3, <3>4
  <2>3. QED
    BY <1>3, <2>1, <2>2
<1>5. f.align = 1 => a <= nat
  BY FieldAtMostNatural DEF NaturalOf, AlignOf
<1>6. QED
  <2> HIDE DEF nat, a
  <2>1. nat \in Nat /\ a \in Nat
    BY <1>1, AlignmentsAreNaturals
  <2>2. f.align = 1 => nat = a
    BY <1>4, <1>5, <2>1
  <2>3. QED
    BY <1>4, <2>2 DEF nat, a

-----------------------------------------------------------------------------
(* Records that the emitter's rules cover.                                  *)

Reproducible(u) == \A n \in DOMAIN u : reproducible(u, n)

LEMMA ReproducibleFacts ==
    ASSUME NEW u \in Units, Reproducible(u), NEW n \in DOMAIN u
    PROVE  /\ uniform_runs(u[n].fields)
           /\ u[n].pack # Unpacked =>
                 /\ u[n].align = 1
                 /\ \A i \in DOMAIN u[n].fields : u[n].fields[i].align = 1 /\ RequiredOf(u, n, i) = 1
           /\ (\E i \in DOMAIN u[n].fields : u[n].fields[i].align # 1) =>
                 \A i \in DOMAIN u[n].fields :
                    /\ u[n].fields[i].named /\ ~bitfield(u[n].fields[i])
                    /\ ~hoisted(u, u[n].fields[i].type)
           /\ u[n].anon =>
                 /\ u[n].align = 1 /\ \A i \in DOMAIN u[n].fields : u[n].fields[i].align = 1
                 /\ u[n].union => \A i \in DOMAIN u[n].fields : ~bitfield(u[n].fields[i])
                 /\ u[n].pack # Unpacked =>
                       \E p \in DOMAIN u : \E i \in DOMAIN u[p].fields : u[p].fields[i].type = n
           /\ \A i \in DOMAIN u[n].fields :
                 hoisted(u, u[n].fields[i].type) => u[u[n].fields[i].type].pack = u[n].pack
<1>1. reproducible(u, n)
  BY DEF Reproducible
<1>2. \A p \in DOMAIN u : \A i \in DOMAIN u[p].fields : u[p].fields[i] \in Range(u[p].fields)
  BY DEF Range
<1>3. ASSUME NEW i \in DOMAIN u[n].fields
      PROVE  ~over_aligned(u[n].fields[i]) <=> u[n].fields[i].align = 1
  <2>1. u[n].fields[i].align \in Alignments
    BY FieldOf, FieldFacts
  <2>2. u[n].fields[i].align \in Nat /\ u[n].fields[i].align > 0
    BY <2>1, AlignmentsAreNaturals
  <2>3. QED
    BY <2>2 DEF over_aligned
<1>4. ASSUME u[n].pack # Unpacked, NEW i \in DOMAIN u[n].fields
      PROVE  u[n].fields[i].align = 1 /\ RequiredOf(u, n, i) = 1
  <2> DEFINE f == u[n].fields[i]
  <2>1. ~over_aligned(f) /\ ~over_aligned_type(u, f.type)
    BY <1>1, <1>2, <1>4 DEF reproducible
  <2>2. f.align = 1
    BY <1>3, <2>1
  <2>3. CASE embeds(u, f)
    <3>1. f.type \in DOMAIN u
      BY <2>3 DEF embeds
    <3>2. clang(u)[f.type].required \in Alignments /\ ~(clang(u)[f.type].required > 1)
      BY <2>1, <3>1, RecordOf DEF over_aligned_type
    <3>3. clang(u)[f.type].required \in Nat /\ clang(u)[f.type].required > 0
      BY <3>2, AlignmentsAreNaturals
    <3>4. clang(u)[f.type].required = 1
      <4> DEFINE q == clang(u)[f.type].required
      <4> HIDE DEF q
      <4>1. q \in Nat /\ q > 0 /\ ~(q > 1)
        BY <3>2, <3>3 DEF q
      <4>2. q = 1
        BY <4>1
      <4>3. QED
        BY <4>2 DEF q
    <3>5. QED
      BY <2>2, <2>3, <3>4, RequiredOfField
  <2>4. CASE ~embeds(u, f)
    BY <2>2, <2>4, RequiredOfField
  <2>5. QED
    BY <2>2, <2>3, <2>4
<1>5. u[n].pack # Unpacked => u[n].align = 1
  BY <1>1 DEF reproducible
<1>6. ASSUME NEW i \in DOMAIN u[n].fields, u[n].fields[i].align # 1, NEW j \in DOMAIN u[n].fields
      PROVE  u[n].fields[j].named /\ ~bitfield(u[n].fields[j]) /\ ~hoisted(u, u[n].fields[j].type)
  <2>1. over_aligned(u[n].fields[i])
    BY <1>3, <1>6
  <2>2. QED
    BY <1>1, <1>2, <2>1 DEF reproducible
<1>7. ASSUME u[n].anon
      PROVE  /\ u[n].align = 1 /\ \A i \in DOMAIN u[n].fields : u[n].fields[i].align = 1
             /\ u[n].union => \A i \in DOMAIN u[n].fields : ~bitfield(u[n].fields[i])
             /\ u[n].pack # Unpacked =>
                   \E p \in DOMAIN u : \E i \in DOMAIN u[p].fields : u[p].fields[i].type = n
  <2>1. u[n].align = 1
    BY <1>1, <1>7 DEF reproducible
  <2>2. \A i \in DOMAIN u[n].fields : u[n].fields[i].align = 1
    BY <1>1, <1>2, <1>3, <1>7 DEF reproducible
  <2>3. u[n].union => \A i \in DOMAIN u[n].fields : ~bitfield(u[n].fields[i])
    BY <1>1, <1>2, <1>7 DEF reproducible
  <2>4. u[n].pack # Unpacked => \E p \in DOMAIN u : \E f \in Range(u[p].fields) : f.type = n
    BY <1>1, <1>7 DEF reproducible
  <2>5. u[n].pack # Unpacked =>
            \E p \in DOMAIN u : \E i \in DOMAIN u[p].fields : u[p].fields[i].type = n
    BY <2>4 DEF Range
  <2>6. QED
    BY <2>1, <2>2, <2>3, <2>5
<1>8. \A i \in DOMAIN u[n].fields :
          hoisted(u, u[n].fields[i].type) => u[u[n].fields[i].type].pack = u[n].pack
  BY <1>1, <1>2 DEF reproducible
<1>9. uniform_runs(u[n].fields)
  BY <1>1 DEF reproducible
<1>10. QED
  BY <1>4, <1>5, <1>6, <1>7, <1>8, <1>9

\* Under a pack that covers nothing over-aligned, the pack caps everything.
LEMMA PackedField ==
    ASSUME NEW u \in Units, Reproducible(u), NEW n \in DOMAIN u, u[n].pack # Unpacked
    PROVE  /\ clang(u)[n].required = 1 /\ clang(u)[n].align <= u[n].pack
           /\ \A i \in DOMAIN u[n].fields : AlignOf(u, n, i) = Min({NaturalOf(u, n, i), u[n].pack})
<1>1. clang(u)[n].required = 1
  <2>1. u[n].align = 1 /\ \A i \in DOMAIN u[n].fields : RequiredOf(u, n, i) = 1
    BY ReproducibleFacts
  <2>2. \/ clang(u)[n].required = u[n].align
        \/ \E i \in DOMAIN u[n].fields : clang(u)[n].required = RequiredOf(u, n, i)
    BY RecordOf
  <2>3. QED
    BY <2>1, <2>2
<1>2. clang(u)[n].align <= u[n].pack
  <2>1. clang(u)[n].align <= u[n].pack \/ clang(u)[n].align <= 1
    BY <1>1, AlignAtMostPack
  <2>2. clang(u)[n].align \in Alignments /\ u[n].pack \in Alignments
    BY RecordFacts, RecordOf
  <2> DEFINE al == clang(u)[n].align
             pack == u[n].pack
  <2> HIDE DEF al, pack
  <2>3. al \in Nat /\ pack \in Nat /\ pack > 0 /\ (al <= pack \/ al <= 1)
    BY <2>1, <2>2, AlignmentsAreNaturals DEF al, pack
  <2>4. al <= pack
    BY <2>3
  <2>5. QED
    BY <2>4 DEF al, pack
<1>3. ASSUME NEW i \in DOMAIN u[n].fields
      PROVE  AlignOf(u, n, i) = Min({NaturalOf(u, n, i), u[n].pack})
  <2> DEFINE m == Min({NaturalOf(u, n, i), u[n].pack})
  <2>1. AlignOf(u, n, i) = Max({m, 1})
    BY FieldOf, ReproducibleFacts
  <2>2. m \in Alignments
    BY FieldOf, RecordFacts, MaxMinOfAlignments
  <2> HIDE DEF m
  <2>3. 1 \in Alignments
    BY DEF Alignments
  <2>4. AlignOf(u, n, i) = m
    BY <2>1, <2>2, <2>3, MaxMinOfAlignments, AlignmentsAreNaturals
  <2>5. QED
    BY <2>4 DEF m
<1>4. QED
  BY <1>1, <1>2, <1>3

-----------------------------------------------------------------------------
(* The steps of clang's run, case by case.                                  *)

LEMMA StepFacts ==
    ASSUME NEW u \in Units, NEW n \in DOMAIN u, NEW i \in DOMAIN u[n].fields
    PROVE  /\ RunOf(u, n)[i - 1] \in ClangStates /\ RunOf(u, n)[i] \in ClangStates
           /\ RunOf(u, n)[i] = clang_place(u[n], RunOf(u, n)[i - 1], u[n].fields[i],
                                           SizeOf(u, n, i), AlignOf(u, n, i))
           /\ u[n].fields[i].bits \in Nat \cup {-1}
           /\ round_up(RunOf(u, n)[i - 1].size, AlignOf(u, n, i)) \in Nat
           /\ round_up(RunOf(u, n)[i - 1].size, AlignOf(u, n, i)) >= RunOf(u, n)[i - 1].size
<1>1. i \in 1 .. Len(u[n].fields) /\ u[n].fields[i] \in Fields(u) /\ AlignOf(u, n, i) \in Alignments
  BY FieldOf
<1>2. i - 1 \in 0 .. Len(u[n].fields) /\ i \in 0 .. Len(u[n].fields)
  BY <1>1
<1>3. RunOf(u, n)[i - 1] \in ClangStates /\ RunOf(u, n)[i] \in ClangStates
  BY <1>2, ClangRunOf DEF RunOf
<1>4. RunOf(u, n)[i] = clang_place(u[n], RunOf(u, n)[i - 1], u[n].fields[i],
                                   SizeOf(u, n, i), AlignOf(u, n, i))
  BY <1>1, ClangRunOf DEF RunOf, ClangStep, SizeOf, AlignOf
<1>5. u[n].fields[i].bits \in Nat \cup {-1}
  BY <1>1, FieldFacts DEF NoBits
<1>6. RunOf(u, n)[i - 1].size \in Nat /\ AlignOf(u, n, i) \in Nat \ {0}
  BY <1>1, <1>3, AlignmentsAreNaturals DEF ClangStates
<1>7. QED
  BY <1>3, <1>4, <1>5, <1>6, RoundUp

\* Whether a bit-field goes into the storage of the one before.
Shares(u, n, i) ==
    /\ ~u[n].union /\ u[n].fields[i].bits > 0
    /\ u[n].fields[i].bits <= RunOf(u, n)[i - 1].left
    /\ SizeOf(u, n, i) = RunOf(u, n)[i - 1].storage

LEMMA RoomAfter ==
    ASSUME NEW u \in Units, NEW n \in DOMAIN u, NEW i \in DOMAIN u[n].fields
    PROVE  LET st == RunOf(u, n)[i - 1]
               up == round_up(st.size, AlignOf(u, n, i))
           IN  Max({st.size, up + SizeOf(u, n, i)}) = up + SizeOf(u, n, i)
<1> DEFINE st == RunOf(u, n)[i - 1]
           had == st.size
           up == round_up(st.size, AlignOf(u, n, i))
           size == SizeOf(u, n, i)
<1>1. st \in ClangStates /\ up \in Nat /\ up >= had
  BY StepFacts
<1>2. had \in Nat
  BY <1>1 DEF ClangStates
<1>3. size \in Nat
  BY FieldOf
<1> HIDE DEF st, had, up, size
<1>4. Max({had, up + size}) = IF had >= up + size THEN had ELSE up + size
  BY <1>1, <1>2, <1>3, MaxOfTwo
<1>5. Max({had, up + size}) = up + size
  BY <1>1, <1>2, <1>3, <1>4
<1>6. QED
  BY <1>5 DEF st, had, up, size

LEMMA WholeStep ==
    ASSUME NEW u \in Units, NEW n \in DOMAIN u, NEW i \in DOMAIN u[n].fields, ~bitfield(u[n].fields[i])
    PROVE  LET st  == RunOf(u, n)[i - 1]
               to  == RunOf(u, n)[i]
               off == IF u[n].union THEN 0 ELSE round_up(st.size, AlignOf(u, n, i))
           IN  /\ to.at = off /\ to.storage = 0
               /\ to.size = Max({st.size, off + SizeOf(u, n, i)})
               /\ ~u[n].union => to.size = off + SizeOf(u, n, i)
<1> DEFINE st == RunOf(u, n)[i - 1]
           off == IF u[n].union THEN 0 ELSE round_up(st.size, AlignOf(u, n, i))
           f == u[n].fields[i]
           size == SizeOf(u, n, i)
           align == AlignOf(u, n, i)
           up == round_up(st.size, align)
<1>1. f.bits = -1
  BY DEF bitfield, NoBits
<1>2. /\ clang_place(u[n], st, f, size, align).at = off
      /\ clang_place(u[n], st, f, size, align).storage = 0
      /\ clang_place(u[n], st, f, size, align).size = Max({st.size, off + size})
  BY <1>1 DEF clang_place, bitfield, NoBits
<1>3. ASSUME ~u[n].union PROVE Max({st.size, off + size}) = off + size
  <2>1. off = up
    BY <1>3
  <2>2. Max({st.size, up + size}) = up + size
    BY RoomAfter
  <2>3. QED
    BY <2>1, <2>2
<1>4. QED
  BY <1>2, <1>3, StepFacts

LEMMA ZeroStep ==
    ASSUME NEW u \in Units, NEW n \in DOMAIN u, NEW i \in DOMAIN u[n].fields, u[n].fields[i].bits = 0
    PROVE  LET st  == RunOf(u, n)[i - 1]
               to  == RunOf(u, n)[i]
           IN  /\ to.storage = 0
               /\ to.size = IF st.storage = 0 THEN st.size
                            ELSE IF u[n].union THEN Max({st.size, SizeOf(u, n, i)})
                            ELSE round_up(st.size, AlignOf(u, n, i))
<1> DEFINE st == RunOf(u, n)[i - 1]
           f == u[n].fields[i]
           size == SizeOf(u, n, i)
           align == AlignOf(u, n, i)
<1>1. st \in ClangStates
  BY StepFacts
<1>2. CASE st.storage = 0
  <2>1. clang_place(u[n], st, f, size, align) = [st EXCEPT !.at = st.size]
    BY <1>2 DEF clang_place
  <2>2. /\ clang_place(u[n], st, f, size, align).size = st.size
        /\ clang_place(u[n], st, f, size, align).storage = st.storage
    BY <1>1, <2>1 DEF ClangStates
  <2>3. QED
    BY <1>2, <2>2, StepFacts
<1>3. CASE st.storage # 0
  <2>1. /\ clang_place(u[n], st, f, size, align).size
             = IF u[n].union THEN Max({st.size, size}) ELSE round_up(st.size, align)
        /\ clang_place(u[n], st, f, size, align).storage = 0
    BY <1>3 DEF clang_place
  <2>2. QED
    BY <1>3, <2>1, StepFacts
<1>4. QED
  BY <1>2, <1>3

LEMMA SharedStep ==
    ASSUME NEW u \in Units, NEW n \in DOMAIN u, NEW i \in DOMAIN u[n].fields, Shares(u, n, i)
    PROVE  LET st  == RunOf(u, n)[i - 1]
               to  == RunOf(u, n)[i]
           IN  /\ to.storage = st.storage /\ to.size = st.size /\ to.align = st.align
               /\ to.left = st.left - u[n].fields[i].bits
<1> DEFINE st == RunOf(u, n)[i - 1]
           f == u[n].fields[i]
           size == SizeOf(u, n, i)
           align == AlignOf(u, n, i)
<1>1. st \in ClangStates /\ f.bits \in Nat \cup {-1}
  BY StepFacts
<1>2. ~(f.bits = 0) /\ f.bits > 0 /\ ~u[n].union /\ f.bits <= st.left /\ size = st.storage
  BY <1>1 DEF Shares
<1>3. clang_place(u[n], st, f, size, align) = [st EXCEPT !.left = @ - f.bits, !.at = st.size - size]
  BY <1>2 DEF clang_place
<1>4. /\ clang_place(u[n], st, f, size, align).size = st.size
      /\ clang_place(u[n], st, f, size, align).storage = st.storage
      /\ clang_place(u[n], st, f, size, align).align = st.align
      /\ clang_place(u[n], st, f, size, align).left = st.left - f.bits
  BY <1>1, <1>3 DEF ClangStates
<1>5. QED
  BY <1>4, StepFacts

LEMMA UnitStep ==
    ASSUME NEW u \in Units, NEW n \in DOMAIN u, NEW i \in DOMAIN u[n].fields,
           u[n].fields[i].bits > 0, ~Shares(u, n, i)
    PROVE  LET st  == RunOf(u, n)[i - 1]
               to  == RunOf(u, n)[i]
               off == IF u[n].union THEN 0 ELSE round_up(st.size, AlignOf(u, n, i))
           IN  /\ to.storage = SizeOf(u, n, i)
               /\ to.left = 8 * SizeOf(u, n, i) - u[n].fields[i].bits
               /\ to.size = Max({st.size, off + SizeOf(u, n, i)})
               /\ ~u[n].union => to.size = off + SizeOf(u, n, i)
               /\ ~u[n].union => to.align = Max({st.align, AlignOf(u, n, i)})
<1> DEFINE st == RunOf(u, n)[i - 1]
           off == IF u[n].union THEN 0 ELSE round_up(st.size, AlignOf(u, n, i))
           f == u[n].fields[i]
           size == SizeOf(u, n, i)
           align == AlignOf(u, n, i)
<1>1. f.bits \in Nat \cup {-1}
  BY StepFacts
<1>2. ~(f.bits = 0) /\ ~(~u[n].union /\ f.bits <= st.left /\ size = st.storage)
  BY <1>1 DEF Shares
<1>3. bitfield(f)
  BY <1>1 DEF bitfield, NoBits
<1>4. /\ clang_place(u[n], st, f, size, align).storage = size
      /\ clang_place(u[n], st, f, size, align).left = 8 * size - f.bits
      /\ clang_place(u[n], st, f, size, align).size = Max({st.size, off + size})
      /\ ~u[n].union => clang_place(u[n], st, f, size, align).align = Max({st.align, align})
  BY <1>2, <1>3 DEF clang_place
<1>5. ASSUME ~u[n].union PROVE Max({st.size, off + size}) = off + size
  <2>1. off = round_up(st.size, align)
    BY <1>5
  <2>2. QED
    BY <2>1, RoomAfter
<1>6. QED
  BY <1>4, <1>5, StepFacts

\* A bit-field of a record that the rules cover has the alignment of its type, capped.
LEMMA BitFieldOf ==
    ASSUME NEW u \in Units, Reproducible(u), NEW n \in DOMAIN u, NEW i \in DOMAIN u[n].fields,
           bitfield(u[n].fields[i])
    PROVE  /\ u[n].fields[i].type \in DOMAIN Prim /\ u[n].fields[i].type \notin DOMAIN u
           /\ u[n].fields[i].bits \in Nat
           /\ SizeOf(u, n, i) = Prim[u[n].fields[i].type]
           /\ NaturalOf(u, n, i) = Prim[u[n].fields[i].type]
           /\ u[n].fields[i].align = 1
           /\ AlignOf(u, n, i) = Min({Prim[u[n].fields[i].type], u[n].pack})
<1> DEFINE f == u[n].fields[i]
<1>1. f.type \in DOMAIN Prim /\ f.bits \in Nat
  BY BitFieldFacts
<1>2. ~embeds(u, f)
  BY <1>1, NamesOfPrims DEF embeds
<1>3. SizeOf(u, n, i) = Prim[f.type] /\ NaturalOf(u, n, i) = Prim[f.type]
  BY <1>2 DEF SizeOf, NaturalOf, clang_size, clang_natural
<1>4. f.align = 1
  BY ReproducibleFacts
<1>5. RequiredOf(u, n, i) = 1
  BY <1>2, <1>4, RequiredOfField
<1>6. AlignOf(u, n, i) = Min({Prim[f.type], u[n].pack})
  <2> DEFINE m == Min({Prim[f.type], u[n].pack})
  <2>1. AlignOf(u, n, i) = Max({m, 1})
    BY <1>3, <1>5, FieldOf
  <2>2. m \in Alignments
    BY <1>1, PrimFacts, RecordFacts, MaxMinOfAlignments
  <2>3. 1 \in Alignments
    BY DEF Alignments
  <2> HIDE DEF m
  <2>4. AlignOf(u, n, i) = m
    BY <2>1, <2>2, <2>3, MaxMinOfAlignments, AlignmentsAreNaturals
  <2>5. QED
    BY <2>4 DEF m
<1>7. f.type \notin DOMAIN u
  BY <1>2 DEF embeds
<1>8. QED
  BY <1>1, <1>3, <1>4, <1>6, <1>7

\* Two bit-fields of one type are laid out alike.
LEMMA BitFieldsAlike ==
    ASSUME NEW u \in Units, Reproducible(u), NEW n \in DOMAIN u,
           NEW i \in DOMAIN u[n].fields, bitfield(u[n].fields[i]),
           NEW j \in DOMAIN u[n].fields, bitfield(u[n].fields[j]),
           u[n].fields[j].type = u[n].fields[i].type
    PROVE  /\ SizeOf(u, n, j) = SizeOf(u, n, i) /\ NaturalOf(u, n, j) = NaturalOf(u, n, i)
           /\ AlignOf(u, n, j) = AlignOf(u, n, i)
<1> DEFINE t == u[n].fields[i].type
<1>1. SizeOf(u, n, i) = Prim[t] /\ NaturalOf(u, n, i) = Prim[t] /\ AlignOf(u, n, i) = Min({Prim[t], u[n].pack})
  BY BitFieldOf
<1>2. /\ SizeOf(u, n, j) = Prim[u[n].fields[j].type] /\ NaturalOf(u, n, j) = Prim[u[n].fields[j].type]
      /\ AlignOf(u, n, j) = Min({Prim[u[n].fields[j].type], u[n].pack})
  BY BitFieldOf
<1>3. QED
  BY <1>1, <1>2

\* A zero-width bit-field has the type, and the alignment, of the bit-field before it.
LEMMA ZeroFollows ==
    ASSUME NEW u \in Units, Reproducible(u), NEW n \in DOMAIN u, NEW i \in DOMAIN u[n].fields,
           u[n].fields[i].bits = 0
    PROVE  /\ i - 1 \in DOMAIN u[n].fields
           /\ bitfield(u[n].fields[i - 1]) /\ u[n].fields[i - 1].bits > 0
           /\ u[n].fields[i - 1].type = u[n].fields[i].type
           /\ AlignOf(u, n, i - 1) = AlignOf(u, n, i)
<1>1. uniform_runs(u[n].fields)
  BY ReproducibleFacts
<1>2. /\ i > 1 /\ bitfield(u[n].fields[i - 1]) /\ u[n].fields[i - 1].bits > 0
      /\ u[n].fields[i - 1].type = u[n].fields[i].type
  BY <1>1 DEF uniform_runs
<1>3. i - 1 \in DOMAIN u[n].fields
  <2>1. DOMAIN u[n].fields = 1 .. Len(u[n].fields) /\ Len(u[n].fields) \in Nat
    BY RecordFacts
  <2>2. QED
    BY <1>2, <2>1
<1>4. bitfield(u[n].fields[i])
  BY DEF bitfield, NoBits
<1>5. AlignOf(u, n, i - 1) = AlignOf(u, n, i)
  <2>1. AlignOf(u, n, i) = Min({Prim[u[n].fields[i].type], u[n].pack})
    BY <1>4, BitFieldOf
  <2>2. AlignOf(u, n, i - 1) = Min({Prim[u[n].fields[i - 1].type], u[n].pack})
    BY <1>2, <1>3, BitFieldOf
  <2>3. QED
    BY <1>2, <2>1, <2>2
<1>6. QED
  BY <1>2, <1>3, <1>5

\* A struct is aligned to its bit-fields too.
LEMMA BitFieldAlign ==
    ASSUME NEW u \in Units, Reproducible(u), NEW n \in DOMAIN u, ~u[n].union
    PROVE  \A j \in DOMAIN u[n].fields :
               u[n].fields[j].bits > 0 => AlignOf(u, n, j) <= EndOf(u, n).align
<1> DEFINE N == Len(u[n].fields)
           run == RunOf(u, n)
           a(j) == AlignOf(u, n, j)
           pack == u[n].pack
           Stored(i) == run[i].storage # 0 =>
               run[i].storage \in Alignments /\ Min({run[i].storage, pack}) <= run[i].align
           Lower(i) == \A j \in 1 .. i : u[n].fields[j].bits > 0 => a(j) <= run[i].align
           G == {i \in 0 .. N : Stored(i) /\ Lower(i)}
<1>1. N \in Nat /\ DOMAIN u[n].fields = 1 .. N
  BY RecordFacts
<1>2. 0 \in G
  <2>1. run[0].storage = 0
    BY ClangRunOf DEF RunOf, ClangStart
  <2>2. QED
    BY <1>1, <2>1
<1>3. ASSUME NEW i \in 1 .. N, i - 1 \in G PROVE i \in G
  <2> DEFINE f == u[n].fields[i]
             st == run[i - 1]
             to == run[i]
  <2>0. i \in DOMAIN u[n].fields
    BY <1>1
  <2>1. st.align <= to.align
    BY <2>0, StepAlign
  <2>2. st \in ClangStates /\ to \in ClangStates /\ f.bits \in Nat \cup {-1}
    BY <2>0, StepFacts
  <2>3. st.align \in Nat /\ to.align \in Nat /\ a(i) \in Alignments /\ a(i) \in Nat
    <3>1. st.align \in Alignments /\ to.align \in Alignments
      BY <2>2 DEF ClangStates
    <3>2. a(i) \in Alignments
      BY <2>0, FieldOf
    <3> HIDE DEF st, to, a
    <3>3. QED
      BY <3>1, <3>2, AlignmentsAreNaturals
  <2>4. Stored(i) /\ (f.bits > 0 => a(i) <= to.align)
    <3>1. CASE ~bitfield(f)
      <4>1. to.storage = 0
        BY <2>0, <3>1, WholeStep
      <4>2. ~(f.bits > 0)
        BY <3>1 DEF bitfield, NoBits
      <4>3. QED
        BY <4>1, <4>2
    <3>2. CASE f.bits = 0
      <4>1. to.storage = 0
        BY <2>0, <3>2, ZeroStep
      <4>2. ~(f.bits > 0)
        BY <3>2
      <4>3. QED
        BY <4>1, <4>2
    <3>3. CASE f.bits > 0
      <4>1. bitfield(f)
        BY <2>2, <3>3 DEF bitfield, NoBits
      <4>2. /\ SizeOf(u, n, i) = Prim[f.type] /\ f.type \in DOMAIN Prim
            /\ a(i) = Min({SizeOf(u, n, i), pack})
        <5>1. /\ SizeOf(u, n, i) = Prim[f.type] /\ f.type \in DOMAIN Prim
              /\ AlignOf(u, n, i) = Min({Prim[u[n].fields[i].type], u[n].pack})
          BY <2>0, <4>1, BitFieldOf
        <5>2. QED
          BY <5>1
      <4>3. SizeOf(u, n, i) \in Alignments /\ SizeOf(u, n, i) # 0
        BY <4>2, PrimFacts
      <4>4. CASE Shares(u, n, i)
        <5>1. to.storage = SizeOf(u, n, i) /\ to.align = st.align /\ st.storage = SizeOf(u, n, i)
          BY <2>0, <4>4, SharedStep DEF Shares
        <5>2. Min({SizeOf(u, n, i), pack}) <= st.align
          BY <1>3, <4>3, <5>1
        <5>3. QED
          BY <4>2, <4>3, <5>1, <5>2
      <4>5. CASE ~Shares(u, n, i)
        <5>1. to.storage = SizeOf(u, n, i) /\ to.align = Max({st.align, a(i)})
          BY <2>0, <3>3, <4>5, UnitStep
        <5>2. a(i) <= to.align
          <6> HIDE DEF st, to, a
          <6>1. QED
            BY <2>3, <5>1, MaxOfTwo
        <5>3. QED
          BY <4>2, <4>3, <5>1, <5>2
      <4>6. QED
        BY <4>4, <4>5
    <3>4. QED
      BY <2>2, <3>1, <3>2, <3>3 DEF bitfield, NoBits
  <2>5. ASSUME NEW j \in 1 .. i, u[n].fields[j].bits > 0 PROVE a(j) <= to.align
    <3>1. CASE j = i
      BY <2>4, <2>5, <3>1
    <3>2. CASE j # i
      <4>1. a(j) <= st.align
        BY <1>3, <2>5, <3>2
      <4>2. a(j) \in Nat
        <5>1. j \in DOMAIN u[n].fields
          BY <1>1
        <5>2. a(j) \in Alignments
          BY <5>1, FieldOf
        <5>3. QED
          BY <5>2, AlignmentsAreNaturals
      <4> HIDE DEF st, to, a
      <4>3. QED
        BY <2>1, <2>3, <4>1, <4>2
    <3>3. QED
      BY <3>1, <3>2
  <2>6. QED
    BY <2>4, <2>5
<1>4. 0 .. N \subseteq G
  <2> HIDE DEF G, N
  <2>1. QED
    BY <1>1, <1>2, <1>3, Induction
<1>5. N \in G
  <2> HIDE DEF N, G
  <2>1. N \in 0 .. N
    BY <1>1
  <2>2. QED
    BY <1>4, <2>1
<1>6. QED
  BY <1>1, <1>5 DEF EndOf

\* So does every field of a struct, and of a union without bit-fields.
LEMMA AlignAtLeastFields ==
    ASSUME NEW u \in Units, Reproducible(u), NEW n \in DOMAIN u, NEW i \in DOMAIN u[n].fields,
           ~u[n].union \/ ~bitfield(u[n].fields[i])
    PROVE  AlignOf(u, n, i) <= clang(u)[n].align
<1>1. AlignOf(u, n, i) <= EndOf(u, n).align
  <2>1. CASE ~bitfield(u[n].fields[i])
    BY <2>1, EndAlign
  <2>2. CASE u[n].fields[i].bits > 0 /\ ~u[n].union
    BY <2>2, BitFieldAlign
  <2>3. CASE u[n].fields[i].bits = 0 /\ ~u[n].union
    BY <2>3, ZeroFollows, BitFieldAlign
  <2>4. u[n].fields[i].bits \in Nat \cup {-1}
    BY StepFacts
  <2>5. QED
    BY <2>1, <2>2, <2>3, <2>4 DEF bitfield, NoBits
<1>2. EndOf(u, n).align <= clang(u)[n].align
  BY RecordOf
<1>3. /\ AlignOf(u, n, i) \in Alignments /\ EndOf(u, n).align \in Alignments
      /\ clang(u)[n].align \in Alignments
  BY FieldOf, RecordOf DEF ClangStates
<1> DEFINE x == AlignOf(u, n, i)
           y == EndOf(u, n).align
           z == clang(u)[n].align
<1> HIDE DEF x, y, z
<1>4. x \in Nat /\ y \in Nat /\ z \in Nat /\ x <= y /\ y <= z
  BY <1>1, <1>2, <1>3, AlignmentsAreNaturals DEF x, y, z
<1>5. x <= z
  BY <1>4
<1>6. QED
  BY <1>5 DEF x, z

\* An anonymous record is aligned to its fields and nothing else.
LEMMA AnonAlign ==
    ASSUME NEW u \in Units, Reproducible(u), NEW n \in DOMAIN u, u[n].anon
    PROVE  /\ \A i \in DOMAIN u[n].fields : AlignOf(u, n, i) <= clang(u)[n].align
           /\ \/ clang(u)[n].align = 1
              \/ \E j \in DOMAIN u[n].fields : clang(u)[n].align = AlignOf(u, n, j)
<1> DEFINE al == clang(u)[n].align
           req == clang(u)[n].required
<1>1. \A i \in DOMAIN u[n].fields : AlignOf(u, n, i) <= al
  BY ReproducibleFacts, AlignAtLeastFields
<1>2. al = Max({EndOf(u, n).align, req}) /\ req \in Alignments /\ EndOf(u, n).align \in Alignments
  BY RecordOf DEF ClangStates
<1>3. al = EndOf(u, n).align \/ al = req
  BY <1>2, MaxMinOfAlignments
<1>4. ASSUME al = EndOf(u, n).align
      PROVE  al = 1 \/ \E j \in DOMAIN u[n].fields : al = AlignOf(u, n, j)
  <2>1. \/ EndOf(u, n).align = 1
        \/ \E j \in DOMAIN u[n].fields : EndOf(u, n).align = AlignOf(u, n, j)
    BY EndAlign
  <2>2. QED
    BY <1>4, <2>1
<1>5. ASSUME al = req
      PROVE  al = 1 \/ \E j \in DOMAIN u[n].fields : al = AlignOf(u, n, j)
  <2>1. u[n].align = 1
    BY ReproducibleFacts
  <2>2. req = 1 \/ \E i \in DOMAIN u[n].fields : req = RequiredOf(u, n, i)
    BY <2>1, RecordOf
  <2>3. ASSUME NEW i \in DOMAIN u[n].fields, req = RequiredOf(u, n, i)
        PROVE  al = AlignOf(u, n, i)
    <3> DEFINE m == Min({NaturalOf(u, n, i), u[n].pack})
               a == AlignOf(u, n, i)
    <3>1. a = Max({m, req}) /\ m \in Alignments /\ a \in Alignments
      <4>1. a = Max({m, RequiredOf(u, n, i)}) /\ NaturalOf(u, n, i) \in Alignments /\ a \in Alignments
        BY FieldOf
      <4>2. u[n].pack \in Alignments
        BY RecordFacts
      <4>3. m \in Alignments
        BY <4>1, <4>2, MaxMinOfAlignments
      <4>4. QED
        BY <2>3, <4>1, <4>3
    <3>2. a <= al
      BY <1>1
    <3> HIDE DEF m, a, al, req
    <3>3. req <= a
      BY <1>2, <3>1, MaxMinBounds
    <3>4. al \in Nat /\ a \in Nat /\ al = req
      BY <1>2, <1>5, <3>1, AlignmentsAreNaturals
    <3>6. al = a
      BY <3>2, <3>3, <3>4
    <3>5. QED
      BY <3>6 DEF a
  <2>4. QED
    BY <1>5, <2>2, <2>3
<1>6. QED
  BY <1>1, <1>3, <1>4, <1>5

-----------------------------------------------------------------------------
(* What the emitter takes for the alignment of a type, and what it is.      *)

FaOf(u, n, i)  == field_align(AlignCtx(u), u[n].fields[i].type)
NatAlign(u, n) == natural_align(AlignCtx(u))[n]

\* #pragma pack of record n caps x.
Capped(u, n, x) == IF u[n].pack = Unpacked THEN x ELSE Min({x, u[n].pack})

LEMMA CappedFacts ==
    ASSUME NEW u \in Units, NEW n \in DOMAIN u
    PROVE  /\ Capped(u, n, 1) = 1
           /\ \A x \in Alignments :
                 /\ Capped(u, n, x) \in Alignments /\ Capped(u, n, x) <= x
                 /\ Capped(u, n, Capped(u, n, x)) = Capped(u, n, x)
                 /\ (u[n].pack = Unpacked \/ x <= u[n].pack) => Capped(u, n, x) = x
                 /\ u[n].pack # Unpacked => Capped(u, n, x) <= u[n].pack
           /\ \A x, y \in Alignments : x <= y => Capped(u, n, x) <= Capped(u, n, y)
<1> DEFINE p == u[n].pack
<1>1. p \in Alignments
  BY RecordFacts
<1> HIDE DEF p
<1>2. p \in Nat /\ p > 0
  BY <1>1, AlignmentsAreNaturals
<1>3. \A x \in Alignments : Min({x, p}) = (IF x <= p THEN x ELSE p) /\ Min({x, p}) \in Alignments
  BY <1>1, MaxMinOfAlignments
<1>4. \A x \in Alignments : Capped(u, n, x) = IF p = Unpacked \/ x <= p THEN x ELSE p
  BY <1>3 DEF Capped, p
<1>5. ASSUME NEW x \in Alignments
      PROVE  Capped(u, n, x) \in Alignments /\ Capped(u, n, x) <= x
  BY <1>1, <1>2, <1>4, AlignmentsAreNaturals
<1>6. ASSUME NEW x \in Alignments
      PROVE  Capped(u, n, Capped(u, n, x)) = Capped(u, n, x)
  <2>1. CASE p = Unpacked \/ x <= p
    BY <1>4, <2>1
  <2>2. CASE ~(p = Unpacked \/ x <= p)
    <3>1. Capped(u, n, x) = p
      BY <1>4, <2>2
    <3>2. Capped(u, n, p) = p
      BY <1>1, <1>2, <1>4
    <3>3. QED
      BY <3>1, <3>2
  <2>3. QED
    BY <2>1, <2>2
<1>7. ASSUME NEW x \in Alignments
      PROVE  /\ (p = Unpacked \/ x <= p) => Capped(u, n, x) = x
             /\ p # Unpacked => Capped(u, n, x) <= p
  BY <1>1, <1>2, <1>4
<1>8. ASSUME NEW x \in Alignments, NEW y \in Alignments, x <= y
      PROVE  Capped(u, n, x) <= Capped(u, n, y)
  <2>1. x \in Nat /\ y \in Nat
    BY AlignmentsAreNaturals
  <2>2. /\ Capped(u, n, x) = IF p = Unpacked \/ x <= p THEN x ELSE p
        /\ Capped(u, n, y) = IF p = Unpacked \/ y <= p THEN y ELSE p
    BY <1>4
  <2>3. QED
    BY <1>2, <1>8, <2>1, <2>2
<1>9. Capped(u, n, 1) = 1
  <2>1. 1 \in Alignments
    BY DEF Alignments
  <2>2. QED
    BY <1>2, <1>4, <2>1
<1>10. QED
  BY <1>5, <1>6, <1>7, <1>8, <1>9 DEF p

LEMMA NatAlignFacts ==
    ASSUME NEW u \in Units, NEW n \in DOMAIN u
    PROVE  /\ NatAlign(u, n) \in Alignments
           /\ \A i \in DOMAIN u[n].fields : FaOf(u, n, i) \in Alignments
           /\ \A i \in DOMAIN u[n].fields : FaOf(u, n, i) <= NatAlign(u, n)
           /\ \/ NatAlign(u, n) = 1
              \/ \E i \in DOMAIN u[n].fields : NatAlign(u, n) = FaOf(u, n, i)
<1> DEFINE nat == natural_align(AlignCtx(u))
<1>1. nat[n] = NatRecord(u, nat, n) /\ nat \in [DOMAIN u -> Alignments]
  BY NaturalIsDefined
<1>2. GivenNat(u, nat, n)
  BY <1>1 DEF GivenNat, embeds
<1> HIDE DEF nat
<1>3. /\ NatRecord(u, nat, n) \in Alignments
      /\ NatRecord(u, nat, n) \in {1} \cup FieldAligns(u, nat, n)
      /\ \A y \in FieldAligns(u, nat, n) : y <= NatRecord(u, nat, n)
  BY <1>2, NatRecordType
<1>4. FieldAligns(u, nat, n) = {FaOf(u, n, i) : i \in DOMAIN u[n].fields}
  BY DEF FieldAligns, FaOf, field_align, nat
<1>5. ASSUME NEW i \in DOMAIN u[n].fields PROVE FaOf(u, n, i) \in Alignments
  <2>1. u[n].fields[i].type \in DOMAIN Prim \cup DOMAIN u
    BY FieldOf, FieldFacts
  <2>2. u[n].fields[i].type \in DOMAIN u => nat[u[n].fields[i].type] \in Alignments
    BY <1>1
  <2>3. QED
    BY <2>1, <2>2, AlignOfType DEF FaOf, field_align, nat
<1>6. NatAlign(u, n) = NatRecord(u, nat, n)
  BY <1>1 DEF NatAlign, nat
<1>7. QED
  BY <1>3, <1>4, <1>5, <1>6

\* It is the alignment the dump has, or the natural one of a hoisted record.
LEMMA FaFacts ==
    ASSUME NEW u \in Units, NEW n \in DOMAIN u, NEW i \in DOMAIN u[n].fields
    PROVE  /\ ~hoisted(u, u[n].fields[i].type) => FaOf(u, n, i) = NaturalOf(u, n, i)
           /\ hoisted(u, u[n].fields[i].type) =>
                 /\ u[n].fields[i].type \in DOMAIN u /\ u[u[n].fields[i].type].anon
                 /\ FaOf(u, n, i) = NatAlign(u, u[n].fields[i].type)
                 /\ NaturalOf(u, n, i) = clang(u)[u[n].fields[i].type].align
<1> DEFINE f == u[n].fields[i]
           t == f.type
           c == AlignCtx(u)
<1>1. f \in Fields(u)
  BY FieldOf
<1>2. t \in DOMAIN u => t \notin DOMAIN Prim
  BY NamesOfPrims
<1>3. CASE t \in DOMAIN u
  <2>1. embeds(u, f)
    BY <1>3 DEF embeds
  <2>2. NaturalOf(u, n, i) = clang(u)[t].align
    BY <2>1 DEF NaturalOf, clang_natural
  <2>3. dumped(c, t) <=> ~u[t].anon
    BY <1>3, CtxFacts
  <2>4. dumped(c, t) => c.layouts[t] = clang(u)[t]
    BY CtxFacts
  <2>5. FaOf(u, n, i) = IF u[t].anon THEN NatAlign(u, t) ELSE clang(u)[t].align
    BY <1>2, <1>3, <2>3, <2>4 DEF FaOf, field_align, align_of, NatAlign
  <2>6. QED
    BY <1>3, <2>2, <2>5 DEF hoisted
<1>4. CASE t \notin DOMAIN u
  <2>1. ~embeds(u, f) /\ t \in DOMAIN Prim
    BY <1>1, <1>4, FieldFacts DEF embeds
  <2>2. NaturalOf(u, n, i) = Prim[t]
    BY <2>1 DEF NaturalOf, clang_natural
  <2>3. FaOf(u, n, i) = Prim[t]
    BY <2>1 DEF FaOf, field_align, align_of
  <2>4. QED
    BY <1>4, <2>2, <2>3 DEF hoisted
<1>5. QED
  BY <1>3, <1>4

\* Up to the pack, a field's alignment is its type's.
LEMMA AlignIsCapped ==
    ASSUME NEW u \in Units, Reproducible(u), NEW n \in DOMAIN u, NEW i \in DOMAIN u[n].fields,
           u[n].fields[i].align = 1
    PROVE  AlignOf(u, n, i) = Capped(u, n, NaturalOf(u, n, i))
<1>1. CASE u[n].pack = Unpacked
  BY <1>1, UnpackedField DEF Capped
<1>2. CASE u[n].pack # Unpacked
  BY <1>2, PackedField DEF Capped
<1>3. QED
  BY <1>1, <1>2

\* The hoisted records that n embeds have the alignment the emitter takes them
\* to have, capped by the pack.
Believed(u, m) == clang(u)[m].align = Capped(u, m, NatAlign(u, m))

BelievedFields(u, n) ==
    \A i \in DOMAIN u[n].fields :
        hoisted(u, u[n].fields[i].type) => Believed(u, u[n].fields[i].type)

LEMMA NaturalIsBelieved ==
    ASSUME NEW u \in Units, Reproducible(u), NEW n \in DOMAIN u, BelievedFields(u, n),
           NEW i \in DOMAIN u[n].fields
    PROVE  /\ NaturalOf(u, n, i) \in {FaOf(u, n, i), Capped(u, n, FaOf(u, n, i))}
           /\ Capped(u, n, NaturalOf(u, n, i)) = Capped(u, n, FaOf(u, n, i))
<1> DEFINE t == u[n].fields[i].type
<1>1. CASE ~hoisted(u, t)
  BY <1>1, FaFacts
<1>2. CASE hoisted(u, t)
  <2>1. t \in DOMAIN u /\ FaOf(u, n, i) = NatAlign(u, t) /\ NaturalOf(u, n, i) = clang(u)[t].align
    BY <1>2, FaFacts
  <2>2. clang(u)[t].align = Capped(u, t, NatAlign(u, t))
    BY <1>2 DEF BelievedFields, Believed
  <2>3. u[t].pack = u[n].pack
    BY <1>2, ReproducibleFacts
  <2>4. NaturalOf(u, n, i) = Capped(u, n, FaOf(u, n, i))
    BY <2>1, <2>2, <2>3 DEF Capped
  <2>5. FaOf(u, n, i) \in Alignments
    BY NatAlignFacts
  <2>6. QED
    BY <2>4, <2>5, CappedFacts
<1>3. QED
  BY <1>1, <1>2

LEMMA AnonIsBelieved ==
    ASSUME NEW u \in Units, Reproducible(u), NEW n \in DOMAIN u, u[n].anon, BelievedFields(u, n)
    PROVE  Believed(u, n)
<1> DEFINE al == clang(u)[n].align
           nat == NatAlign(u, n)
           F == DOMAIN u[n].fields
           a(i) == AlignOf(u, n, i)
           fa(i) == FaOf(u, n, i)
           cap(x) == Capped(u, n, x)
<1>1. \A i \in F : a(i) = cap(fa(i))
  BY ReproducibleFacts, AlignIsCapped, NaturalIsBelieved
<1>2. /\ \A i \in F : a(i) <= al
      /\ al = 1 \/ \E j \in F : al = a(j)
  BY AnonAlign
<1>3. /\ \A i \in F : fa(i) <= nat /\ fa(i) \in Alignments
      /\ nat = 1 \/ \E j \in F : nat = fa(j)
  BY NatAlignFacts
<1>4. al \in Alignments /\ nat \in Alignments
  BY RecordOf, NatAlignFacts
<1>5. /\ cap(1) = 1 /\ \A x \in Alignments : cap(x) \in Alignments
      /\ \A x, y \in Alignments : x <= y => cap(x) <= cap(y)
  BY CappedFacts
<1> HIDE DEF al, nat, F, a, fa, cap
<1>6. al <= cap(nat)
  <2>1. CASE al = 1
    BY <1>4, <1>5, <2>1, AlignmentsAreNaturals
  <2>2. ASSUME NEW j \in F, al = a(j) PROVE al <= cap(nat)
    BY <1>1, <1>3, <1>4, <1>5, <2>2
  <2>3. QED
    BY <1>2, <2>1, <2>2
<1>7. cap(nat) <= al
  <2>1. CASE nat = 1
    BY <1>4, <1>5, <2>1, AlignmentsAreNaturals
  <2>2. ASSUME NEW j \in F, nat = fa(j) PROVE cap(nat) <= al
    BY <1>1, <1>2, <2>2
  <2>3. QED
    BY <1>3, <2>1, <2>2
<1>8. al = cap(nat)
  <2>1. cap(nat) \in Nat /\ al \in Nat
    BY <1>4, <1>5, AlignmentsAreNaturals
  <2>2. QED
    BY <1>6, <1>7, <2>1
<1>9. QED
  BY <1>8 DEF Believed, al, nat, cap

\* At every depth.
LEMMA HoistedAreBelieved ==
    ASSUME NEW u \in Units, Reproducible(u)
    PROVE  \A n \in DOMAIN u : BelievedFields(u, n) /\ (u[n].anon => Believed(u, n))
<1> DEFINE D == DOMAIN u
           K == Cardinality(D)
<1>1. K \in Nat
  BY LayoutAssumption, FS_CardinalityType
<1>2. PICK depth \in [D -> 0 .. K] :
        \A n \in D : \A i \in DOMAIN u[n].fields :
            u[n].fields[i].type \in D => depth[u[n].fields[i].type] < depth[n]
  BY LayoutAssumption DEF Acyclic
<1> DEFINE G == {k \in 0 .. K + 1 : \A n \in D : depth[n] < k => (u[n].anon => Believed(u, n))}
<1>3. 0 \in G
  BY <1>1, <1>2
<1>4. ASSUME NEW k \in 1 .. K + 1, k - 1 \in G PROVE k \in G
  <2> SUFFICES ASSUME NEW n \in D, depth[n] < k, u[n].anon PROVE Believed(u, n)
    BY <1>1
  <2>1. BelievedFields(u, n)
    <3> SUFFICES ASSUME NEW i \in DOMAIN u[n].fields, hoisted(u, u[n].fields[i].type)
                 PROVE  Believed(u, u[n].fields[i].type)
      BY DEF BelievedFields
    <3>1. u[n].fields[i].type \in D /\ u[u[n].fields[i].type].anon
      BY DEF hoisted
    <3>2. depth[u[n].fields[i].type] < k - 1
      BY <1>1, <1>2, <3>1
    <3>3. QED
      BY <1>4, <3>1, <3>2
  <2>2. QED
    BY <2>1, AnonIsBelieved
<1>5. 0 .. K + 1 \subseteq G
  <2> HIDE DEF G, K
  <2>1. QED
    BY <1>1, <1>3, <1>4, Induction
<1>6. K + 1 \in G
  BY <1>1, <1>5
<1>7. \A n \in D : u[n].anon => Believed(u, n)
  BY <1>1, <1>2, <1>6
<1>8. QED
  BY <1>7 DEF BelievedFields, hoisted

-----------------------------------------------------------------------------
(* The packing handed down to the anonymous members: packed(k) has k between *)
(* the alignment clang gives the record and the #pragma pack it was under.   *)

\* The alignment rustc gives the type of field i in record n.
EmittedAlign(u, n, i) ==
    IF reprs[n].kind = "Packed" THEN Min({NaturalOf(u, n, i), reprs[n].n}) ELSE NaturalOf(u, n, i)

Packing(u) ==
    \A n \in DOMAIN u :
        /\ ~u[n].anon => reprs[n] = record_repr(cx, n)
        /\ u[n].anon => reprs[n].kind # "Align"
        /\ reprs[n].kind = "Packed" =>
              /\ clang(u)[n].align <= reprs[n].n
              /\ u[n].pack # Unpacked => reprs[n].n <= u[n].pack

Handed ==
    /\ Invariant
    /\ phase # "measure" /\ Reproducible(cx.records) => Packing(cx.records)
    /\ phase = "done" => ~ \E m \in DOMAIN cx.records : tighter(m)

LEMMA RecordReprFacts ==
    ASSUME NEW u \in Units, NEW n \in DOMAIN u
    PROVE  LET r == record_repr(AlignCtx(u), n)
           IN  /\ u[n].anon => r.kind = "C"
               /\ ~u[n].anon /\ r.kind = "C" => clang(u)[n].align = NatAlign(u, n)
               /\ ~u[n].anon /\ r.kind = "Align" =>
                     r.n = clang(u)[n].align /\ NatAlign(u, n) < clang(u)[n].align
               /\ ~u[n].anon /\ r.kind = "Packed" =>
                     r.n = clang(u)[n].align /\ clang(u)[n].align < NatAlign(u, n)
               /\ r.kind \in {"C", "Align", "Packed"}
<1> DEFINE c == AlignCtx(u)
           r == record_repr(c, n)
           ca == clang(u)[n].align
           nat == NatAlign(u, n)
<1>1. CASE u[n].anon
  <2>1. ~dumped(c, n)
    BY <1>1, CtxFacts
  <2>2. r = ReprC
    BY <2>1 DEF record_repr
  <2>3. QED
    BY <1>1, <2>2 DEF ReprC
<1>2. CASE ~u[n].anon
  <2>1. dumped(c, n) /\ c.layouts[n].align = ca
    BY <1>2, CtxFacts
  <2>2. r = IF ca > nat THEN Align(ca) ELSE IF ca < nat THEN Packed(ca) ELSE ReprC
    BY <2>1 DEF record_repr, NatAlign
  <2>3. ca \in Nat /\ nat \in Nat
    <3>1. ca \in Alignments /\ nat \in Alignments
      BY RecordOf, NatAlignFacts
    <3> HIDE DEF ca, nat
    <3>2. QED
      BY <3>1, AlignmentsAreNaturals
  <2> HIDE DEF ca, nat, r
  <2>4. CASE ca > nat
    BY <1>2, <2>2, <2>3, <2>4 DEF Align, ca, nat, r
  <2>5. CASE ca < nat
    <3>1. r = Packed(ca)
      BY <2>2, <2>3, <2>5
    <3>2. QED
      BY <1>2, <2>5, <3>1 DEF Packed, ca, nat, r
  <2>6. CASE ca = nat
    <3>1. r = ReprC
      BY <2>2, <2>3, <2>6
    <3>2. QED
      BY <1>2, <2>6, <3>1 DEF ReprC, ca, nat, r
  <2>7. QED
    BY <2>3, <2>4, <2>5, <2>6
<1>3. QED
  BY <1>1, <1>2

\* A record that a packed one hands its packing to is embedded in it whole.
LEMMA UpdateFacts ==
    ASSUME NEW u \in Units, cx = AlignCtx(u), NEW m \in DOMAIN u, NEW k \in updates(m)
    PROVE  /\ u[m].anon
           /\ \E p \in DOMAIN u : \E i \in DOMAIN u[p].fields :
                 /\ reprs[p].kind = "Packed" /\ k = reprs[p].n
                 /\ u[p].fields[i].type = m /\ hoisted(u, m)
<1>1. PICK p \in DOMAIN u : reprs[p].kind = "Packed" /\ m \in anon_member_names(cx, p) /\ k = reprs[p].n
  BY CtxFacts DEF updates
<1>2. u[m].anon /\ \E f \in Range(u[p].fields) : f.type = m
  BY <1>1, CtxFacts DEF anon_member_names
<1>3. \E i \in DOMAIN u[p].fields : u[p].fields[i].type = m
  BY <1>2 DEF Range
<1>4. QED
  BY <1>1, <1>2, <1>3 DEF hoisted

\* The packing that the fixpoint of the second pass does not hand down is none.
LEMMA NothingToHand ==
    ASSUME NEW u \in Units, cx = AlignCtx(u), ~ \E m \in DOMAIN u : tighter(m),
           NEW p \in DOMAIN u, NEW i \in DOMAIN u[p].fields, hoisted(u, u[p].fields[i].type),
           reprs[p].kind = "Packed"
    PROVE  reprs[u[p].fields[i].type].kind = "Packed"
<1> DEFINE m == u[p].fields[i].type
<1>1. m \in DOMAIN u /\ u[m].anon
  BY DEF hoisted
<1>2. m \in anon_member_names(cx, p)
  BY <1>1, CtxFacts DEF anon_member_names, Range
<1>3. reprs[p].n \in updates(m)
  BY <1>2, CtxFacts DEF updates
<1>4. QED
  BY <1>1, <1>3 DEF tighter

\* One turn of the loop hands down a packing within the same bounds.
LEMMA HandedOn ==
    ASSUME NEW u \in Units, cx = AlignCtx(u), Reproducible(u), Packing(u),
           NEW m \in DOMAIN u, NEW k \in updates(m), k \in Alignments
    PROVE  /\ u[m].anon /\ clang(u)[m].align <= k
           /\ u[m].pack # Unpacked => k <= u[m].pack
<1>1. PICK p \in DOMAIN u : \E i \in DOMAIN u[p].fields :
        /\ reprs[p].kind = "Packed" /\ k = reprs[p].n
        /\ u[p].fields[i].type = m /\ hoisted(u, m)
  BY UpdateFacts
<1>2. PICK i \in DOMAIN u[p].fields :
        /\ reprs[p].kind = "Packed" /\ k = reprs[p].n
        /\ u[p].fields[i].type = m /\ hoisted(u, m)
  BY <1>1
<1>3. u[m].anon /\ u[m].pack = u[p].pack
  BY <1>2, UpdateFacts, ReproducibleFacts
<1>4. ~bitfield(u[p].fields[i])
  <2>1. m \notin DOMAIN Prim
    BY NamesOfPrims
  <2>2. QED
    BY <1>2, <2>1, BitFieldOf
<1> DEFINE al == clang(u)[m].align
           ap == clang(u)[p].align
           a  == AlignOf(u, p, i)
           pack == u[p].pack
<1>5. a <= ap
  BY <1>4, AlignAtLeastFields
<1>6. NaturalOf(u, p, i) = al
  BY <1>2, FaFacts
<1>7. al \in Alignments /\ ap \in Alignments /\ a \in Alignments /\ pack \in Alignments
  BY RecordOf, FieldOf, RecordFacts
<1>8. al <= a
  <2>1. CASE pack = Unpacked
    BY <1>6, <2>1, UnpackedField
  <2>2. CASE pack # Unpacked
    <3>1. a = Min({al, pack})
      BY <1>6, <2>2, PackedField
    <3>2. al <= pack
      BY <1>3, <2>2, PackedField
    <3> HIDE DEF a, al, pack
    <3>3. QED
      BY <1>7, <3>1, <3>2, MaxMinOfAlignments, AlignmentsAreNaturals
  <2>3. QED
    BY <2>1, <2>2
<1>9. ap <= k /\ (pack # Unpacked => k <= pack)
  BY <1>2 DEF Packing
<1> HIDE DEF al, ap, a, pack
<1>10. al <= k
  BY <1>5, <1>7, <1>8, <1>9, AlignmentsAreNaturals
<1>11. QED
  BY <1>3, <1>9, <1>10 DEF al, pack

\* The packing handed down stays within its bounds, turn by turn.
THEOREM PackingIsHanded == Spec => []Handed
<1>1. Init /\ Invariant => Handed
  <2> SUFFICES ASSUME Init, Invariant PROVE Handed
    OBVIOUS
  <2>1. phase = "measure"
    BY DEF Init
  <2>2. QED
    BY <2>1 DEF Handed
<1>2. Handed /\ [Next]_vars /\ Invariant' => Handed'
  <2> SUFFICES ASSUME Handed, [Next]_vars, Invariant' PROVE Handed'
    OBVIOUS
  <2> PICK u \in Units : cx = AlignCtx(u)
    BY DEF Handed, Invariant
  <2>0. cx.records = u
    BY CtxFacts
  <2>1. CASE Measure
    <3>1. cx' = cx /\ phase' = "propagate" /\ reprs' = [n \in DOMAIN u |-> record_repr(cx, n)]
      BY <2>0, <2>1 DEF Measure
    <3>2. ASSUME Reproducible(u) PROVE Packing(u)'
      <4> SUFFICES ASSUME NEW n \in DOMAIN u
                   PROVE  /\ ~u[n].anon => reprs'[n] = record_repr(cx, n)
                          /\ u[n].anon => reprs'[n].kind # "Align"
                          /\ reprs'[n].kind = "Packed" =>
                                /\ clang(u)[n].align <= reprs'[n].n
                                /\ u[n].pack # Unpacked => reprs'[n].n <= u[n].pack
        BY <3>1 DEF Packing
      <4>1. reprs'[n] = record_repr(cx, n)
        BY <3>1
      <4>2. u[n].anon => reprs'[n].kind = "C"
        BY <4>1, RecordReprFacts
      <4>3. ASSUME reprs'[n].kind = "Packed"
            PROVE  reprs'[n].n = clang(u)[n].align
        BY <4>1, <4>2, <4>3, RecordReprFacts
      <4>4. clang(u)[n].align \in Nat
        <5>1. clang(u)[n].align \in Alignments
          BY RecordOf
        <5>2. QED
          BY <5>1, AlignmentsAreNaturals
      <4>5. u[n].pack # Unpacked => clang(u)[n].align <= u[n].pack
        BY <3>2, PackedField
      <4>6. clang(u)[n].align <= clang(u)[n].align
        BY <4>4
      <4>7. QED
        BY <4>1, <4>2, <4>3, <4>5, <4>6
    <3>3. QED
      BY <2>0, <3>1, <3>2 DEF Handed
  <2>2. CASE Propagate
    <3>1. /\ cx' = cx /\ phase' = phase /\ phase = "propagate"
          /\ reprs' = [m \in DOMAIN u |->
                          IF tighter(m) THEN Packed(Min(updates(m))) ELSE reprs[m]]
      BY <2>0, <2>2 DEF Propagate
    <3>2. ASSUME Reproducible(u) PROVE Packing(u)'
      <4>1. Packing(u)
        BY <2>0, <3>1, <3>2 DEF Handed
      <4> SUFFICES ASSUME NEW n \in DOMAIN u
                   PROVE  /\ ~u[n].anon => reprs'[n] = record_repr(cx, n)
                          /\ u[n].anon => reprs'[n].kind # "Align"
                          /\ reprs'[n].kind = "Packed" =>
                                /\ clang(u)[n].align <= reprs'[n].n
                                /\ u[n].pack # Unpacked => reprs'[n].n <= u[n].pack
        BY <3>1 DEF Packing
      <4>2. CASE ~tighter(n)
        <5>1. reprs'[n] = reprs[n]
          BY <3>1, <4>2
        <5>2. QED
          BY <4>1, <5>1 DEF Packing
      <4>3. CASE tighter(n)
        <5> DEFINE k == Min(updates(n))
        <5>1. reprs'[n] = Packed(k)
          BY <3>1, <4>3
        <5>2. updates(n) \in SUBSET Alignments
          BY UpdatesType DEF Handed
        <5>3. updates(n) # {}
          BY <4>3 DEF tighter
        <5>4. k \in updates(n) /\ k \in Alignments
          BY <5>2, <5>3, MinOfAlignments
        <5>5. /\ u[n].anon /\ clang(u)[n].align <= k
              /\ u[n].pack # Unpacked => k <= u[n].pack
          BY <3>2, <4>1, <5>4, HandedOn
        <5> HIDE DEF k
        <5>6. QED
          BY <5>1, <5>5 DEF Packed
      <4>4. QED
        BY <4>2, <4>3
    <3>3. QED
      BY <2>0, <3>1, <3>2 DEF Handed
  <2>3. CASE Emit
    <3>1. cx' = cx /\ reprs' = reprs /\ phase = "propagate" /\ ~ \E m \in DOMAIN u : tighter(m)
      BY <2>0, <2>3 DEF Emit
    <3>2. ~ \E m \in DOMAIN cx'.records : tighter(m)'
      BY <2>0, <3>1 DEF tighter, updates
    <3>3. Reproducible(cx.records) => Packing(cx.records)
      BY <3>1 DEF Handed
    <3>4. Packing(cx.records) => Packing(cx.records)'
      BY <3>1 DEF Packing
    <3>5. QED
      BY <3>1, <3>2, <3>3, <3>4 DEF Handed
  <2>4. CASE UNCHANGED vars
    <3>1. cx' = cx /\ reprs' = reprs /\ phase' = phase /\ bodies' = bodies
      BY <2>4 DEF vars
    <3>2. \A m : tighter(m)' <=> tighter(m)
      BY <3>1 DEF tighter, updates
    <3>3. QED
      BY <3>1, <3>2 DEF Handed, Packing
  <2>5. QED
    BY <2>1, <2>2, <2>3, <2>4 DEF Next
<1>3. QED
  BY <1>1, <1>2, Invariance, PTL DEF Spec

-----------------------------------------------------------------------------
(* What the chosen reprs make of the alignments.                            *)

\* What is emitted of a unit whose records the rules cover.
Settled(u) ==
    /\ u \in Units /\ cx = AlignCtx(u) /\ Reproducible(u) /\ Packing(u)
    /\ reprs \in [DOMAIN u -> Reprs]
    /\ ~ \E m \in DOMAIN u : tighter(m)

\* A record under a #pragma pack is left unpacked only when nothing in it
\* exceeds the pack.
LEMMA UnpackedIsSmall ==
    ASSUME NEW u, Settled(u)
    PROVE  \A n \in DOMAIN u : u[n].pack # Unpacked /\ reprs[n].kind # "Packed"
                               => NatAlign(u, n) <= u[n].pack
<1> DEFINE D == DOMAIN u
           K == Cardinality(D)
           Small(n) == u[n].pack # Unpacked /\ reprs[n].kind # "Packed" => NatAlign(u, n) <= u[n].pack
<1>0. u \in Units /\ cx = AlignCtx(u) /\ Reproducible(u) /\ Packing(u) /\ ~ \E m \in DOMAIN u : tighter(m)
  BY DEF Settled
<1>1. K \in Nat
  BY <1>0, LayoutAssumption, FS_CardinalityType
<1>2. PICK depth \in [D -> 0 .. K] :
        \A n \in D : \A i \in DOMAIN u[n].fields :
            u[n].fields[i].type \in D => depth[u[n].fields[i].type] < depth[n]
  BY <1>0, LayoutAssumption DEF Acyclic
<1> DEFINE G == {k \in 0 .. K + 1 : \A n \in D : K - depth[n] < k => Small(n)}
<1>3. 0 \in G
  BY <1>1, <1>2
<1>4. ASSUME NEW k \in 1 .. K + 1, k - 1 \in G PROVE k \in G
  <2> SUFFICES ASSUME NEW n \in D, K - depth[n] < k, u[n].pack # Unpacked, reprs[n].kind # "Packed"
               PROVE  NatAlign(u, n) <= u[n].pack
    BY <1>1
  <2> DEFINE nat == NatAlign(u, n)
             al == clang(u)[n].align
             pack == u[n].pack
  <2>1. nat \in Alignments /\ al \in Alignments /\ pack \in Alignments
    BY <1>0, NatAlignFacts, RecordOf, RecordFacts
  <2>2. CASE ~u[n].anon
    <3>1. reprs[n] = record_repr(cx, n)
      BY <1>0, <2>2 DEF Packing
    <3>2. al = nat \/ nat < al
      BY <1>0, <2>2, <3>1, RecordReprFacts
    <3>3. al <= pack
      BY <1>0, PackedField
    <3> HIDE DEF nat, al, pack
    <3>4. nat <= pack
      BY <2>1, <3>2, <3>3, AlignmentsAreNaturals
    <3>5. QED
      BY <3>4 DEF nat, pack
  <2>3. CASE u[n].anon
    <3>1. \E p \in D : \E i \in DOMAIN u[p].fields : u[p].fields[i].type = n
      BY <1>0, <2>3, ReproducibleFacts
    <3>2. PICK p \in D : \E i \in DOMAIN u[p].fields : u[p].fields[i].type = n
      BY <3>1
    <3>3. PICK i \in DOMAIN u[p].fields : u[p].fields[i].type = n
      BY <3>2
    <3>4. hoisted(u, u[p].fields[i].type)
      BY <2>3, <3>3 DEF hoisted
    <3>5. u[p].pack = pack
      BY <1>0, <3>3, <3>4, ReproducibleFacts
    <3>6. reprs[p].kind # "Packed"
      BY <1>0, <3>3, <3>4, NothingToHand
    <3>7. K - depth[p] < k - 1
      BY <1>1, <1>2, <3>3
    <3>8. NatAlign(u, p) <= pack
      BY <1>4, <3>5, <3>6, <3>7
    <3>9. FaOf(u, p, i) = nat /\ FaOf(u, p, i) <= NatAlign(u, p)
      BY <1>0, <3>3, <3>4, FaFacts, NatAlignFacts
    <3> DEFINE natp == NatAlign(u, p)
    <3>10. natp \in Alignments
      BY <1>0, NatAlignFacts
    <3> HIDE DEF nat, natp, pack
    <3>11. nat <= natp /\ natp <= pack
      BY <3>8, <3>9 DEF natp
    <3>12. nat <= pack
      BY <2>1, <3>10, <3>11, AlignmentsAreNaturals
    <3>13. QED
      BY <3>12 DEF nat, pack
  <2>4. QED
    BY <2>2, <2>3
<1>5. 0 .. K + 1 \subseteq G
  <2> HIDE DEF G, K
  <2>1. QED
    BY <1>1, <1>3, <1>4, Induction
<1>6. K + 1 \in G
  BY <1>1, <1>5
<1>7. QED
  BY <1>1, <1>2, <1>6

\* There the emitter's alignment of every field's type is clang's.
LEMMA UnpackedIsExact ==
    ASSUME NEW u, Settled(u), NEW n \in DOMAIN u, NEW i \in DOMAIN u[n].fields,
           reprs[n].kind # "Packed"
    PROVE  /\ NaturalOf(u, n, i) = FaOf(u, n, i)
           /\ Capped(u, n, NaturalOf(u, n, i)) = NaturalOf(u, n, i)
<1>0. u \in Units /\ Reproducible(u)
  BY DEF Settled
<1> DEFINE nat == NaturalOf(u, n, i)
           fa == FaOf(u, n, i)
           all == NatAlign(u, n)
           pack == u[n].pack
<1>1. nat \in {fa, Capped(u, n, fa)}
  BY <1>0, HoistedAreBelieved, NaturalIsBelieved
<1>2. fa <= all /\ fa \in Alignments /\ all \in Alignments /\ pack \in Alignments
  BY <1>0, NatAlignFacts, RecordFacts
<1>3. pack = Unpacked \/ all <= pack
  BY UnpackedIsSmall
<1>4. pack = Unpacked \/ fa <= pack
  <2> HIDE DEF fa, all, pack
  <2>1. QED
    BY <1>2, <1>3, AlignmentsAreNaturals
<1>5. Capped(u, n, fa) = fa
  BY <1>0, <1>2, <1>4, CappedFacts
<1>6. QED
  BY <1>1, <1>5

\* packed(k), or no packing at all, aligns a field that asks for no alignment of
\* its own as the original #pragma pack did.
LEMMA FieldIsAligned ==
    ASSUME NEW u, Settled(u), NEW n \in DOMAIN u, NEW i \in DOMAIN u[n].fields,
           u[n].fields[i].align = 1, ~u[n].union \/ ~bitfield(u[n].fields[i])
    PROVE  EmittedAlign(u, n, i) = AlignOf(u, n, i)
<1>0. u \in Units /\ Reproducible(u) /\ Packing(u)
  BY DEF Settled
<1> DEFINE nat == NaturalOf(u, n, i)
           a == AlignOf(u, n, i)
           al == clang(u)[n].align
           pack == u[n].pack
           k == reprs[n].n
<1>1. a = Capped(u, n, nat)
  BY <1>0, AlignIsCapped
<1>2. CASE reprs[n].kind # "Packed"
  BY <1>1, <1>2, UnpackedIsExact DEF EmittedAlign
<1>3. CASE reprs[n].kind = "Packed"
  <2>1. a <= al
    BY <1>0, AlignAtLeastFields
  <2>2. al <= k /\ (pack # Unpacked => k <= pack)
    BY <1>0, <1>3 DEF Packing
  <2>3. /\ a \in Alignments /\ al \in Alignments /\ nat \in Alignments /\ pack \in Alignments
        /\ k \in Alignments
    BY <1>0, RecordOf, FieldOf, RecordFacts DEF Settled, Reprs
  <2>4. EmittedAlign(u, n, i) = Min({nat, k})
    BY <1>3 DEF EmittedAlign
  <2>5. a = IF pack = Unpacked \/ nat <= pack THEN nat ELSE pack
    <3>1. a = IF pack = Unpacked THEN nat ELSE Min({nat, pack})
      BY <1>1 DEF Capped
    <3> HIDE DEF a, nat, pack
    <3>2. QED
      BY <2>3, <3>1, MaxMinOfAlignments
  <2> HIDE DEF a, al, nat, pack, k
  <2>6. Min({nat, k}) = IF nat <= k THEN nat ELSE k
    BY <2>3, MaxMinOfAlignments
  <2>7. a \in Nat /\ al \in Nat /\ nat \in Nat /\ pack \in Nat /\ k \in Nat
    BY <2>3, AlignmentsAreNaturals
  <2>8. Min({nat, k}) = a
    BY <2>1, <2>2, <2>5, <2>6, <2>7
  <2>9. QED
    BY <2>4, <2>8 DEF a
<1>4. QED
  BY <1>2, <1>3

LEMMA EmittedAlignType ==
    ASSUME NEW u, Settled(u), NEW n \in DOMAIN u, NEW i \in DOMAIN u[n].fields
    PROVE  /\ EmittedAlign(u, n, i) \in Alignments
           /\ EmittedAlign(u, n, i) <= NaturalOf(u, n, i)
           /\ reprs[n].kind = "Packed" => EmittedAlign(u, n, i) <= reprs[n].n
<1> DEFINE nat == NaturalOf(u, n, i)
           k == reprs[n].n
<1>1. nat \in Alignments /\ k \in Alignments
  BY FieldOf DEF Settled, Reprs
<1>2. EmittedAlign(u, n, i) = IF reprs[n].kind = "Packed" THEN Min({nat, k}) ELSE nat
  BY DEF EmittedAlign
<1> HIDE DEF nat, k
<1>3. Min({nat, k}) = IF nat <= k THEN nat ELSE k
  BY <1>1, MaxMinOfAlignments
<1>4. nat \in Nat /\ k \in Nat
  BY <1>1, AlignmentsAreNaturals
<1>5. QED
  BY <1>1, <1>2, <1>3, <1>4 DEF nat, k

\* The alignment rustc gives a record is the largest of 1, of what its
\* repr(align) asks and of its fields'.
EmittedAligns(u, n) ==
    {1, IF reprs[n].kind = "Align" THEN reprs[n].n ELSE 1}
    \cup {EmittedAlign(u, n, i) : i \in DOMAIN u[n].fields}

\* It is the alignment the dump has.
LEMMA RecordIsAligned ==
    ASSUME NEW u, Settled(u), NEW n \in DOMAIN u
    PROVE  Max(EmittedAligns(u, n)) = clang(u)[n].align
<1>0. u \in Units /\ Reproducible(u) /\ Packing(u) /\ cx = AlignCtx(u)
  BY DEF Settled
<1> DEFINE al == clang(u)[n].align
           nat == NatAlign(u, n)
           F == DOMAIN u[n].fields
           e(i) == EmittedAlign(u, n, i)
           fa(i) == FaOf(u, n, i)
           k == reprs[n].n
           kind == reprs[n].kind
           S == {1, IF kind = "Align" THEN k ELSE 1} \cup {e(i) : i \in F}
<1>1. /\ al \in Alignments /\ nat \in Alignments /\ k \in Alignments /\ 1 \in Alignments
      /\ \A i \in F : e(i) \in Alignments /\ fa(i) \in Alignments
      /\ kind \in {"C", "Align", "Packed"}
  <2>1. al \in Alignments
    BY <1>0, RecordOf
  <2>2. nat \in Alignments /\ \A i \in F : fa(i) \in Alignments
    BY <1>0, NatAlignFacts
  <2>3. k \in Alignments /\ kind \in {"C", "Align", "Packed"}
    BY DEF Settled, Reprs
  <2>4. \A i \in F : e(i) \in Alignments
    BY EmittedAlignType
  <2>5. 1 \in Alignments
    BY DEF Alignments
  <2>6. QED
    BY <2>1, <2>2, <2>3, <2>4, <2>5
<1>2. /\ \A i \in F : fa(i) <= nat
      /\ nat = 1 \/ \E j \in F : nat = fa(j)
  BY <1>0, NatAlignFacts
<1>3. kind # "Packed" => \A i \in F : e(i) = fa(i)
  BY UnpackedIsExact DEF EmittedAlign
<1>4. al \in S /\ \A x \in S : x <= al
  <2>1. CASE ~u[n].anon
    <3>1. reprs[n] = record_repr(cx, n)
      BY <1>0, <2>1 DEF Packing
    <3>2. /\ kind = "C" => al = nat
          /\ kind = "Align" => k = al /\ nat < al
          /\ kind = "Packed" => k = al /\ al < nat
      BY <1>0, <2>1, <3>1, RecordReprFacts
    <3>3. CASE kind = "Packed"
      <4>1. \A i \in F : e(i) <= k
        BY <3>3, EmittedAlignType
      <4>2. PICK j \in F : nat = fa(j)
        <5> HIDE DEF al, nat, F, fa, k, kind
        <5>1. nat # 1
          BY <1>1, <3>2, <3>3, AlignmentsAreNaturals
        <5>2. QED
          BY <1>2, <5>1
      <4>3. e(j) = k
        <5> DEFINE m == NaturalOf(u, n, j)
                   pack == u[n].pack
        <5>1. m \in {nat, Capped(u, n, nat)}
          BY <1>0, <4>2, HoistedAreBelieved, NaturalIsBelieved
        <5>2. m \in Alignments /\ pack \in Alignments
          BY <1>0, FieldOf, RecordFacts
        <5>3. Capped(u, n, nat) = IF pack = Unpacked THEN nat ELSE Min({nat, pack})
          BY DEF Capped
        <5>4. pack # Unpacked => al <= pack
          BY <1>0, PackedField
        <5>5. e(j) = Min({m, k})
          BY <3>3 DEF EmittedAlign
        <5> HIDE DEF m, pack, nat, al, e, F, fa, k, kind
        <5>6. /\ Min({nat, pack}) = IF nat <= pack THEN nat ELSE pack
              /\ Min({m, k}) = IF m <= k THEN m ELSE k
          BY <1>1, <5>2, MaxMinOfAlignments
        <5>7. nat \in Nat /\ al \in Nat /\ pack \in Nat /\ m \in Nat
          BY <1>1, <5>2, AlignmentsAreNaturals
        <5>8. k = al /\ al < nat
          BY <3>2, <3>3
        <5>9. m >= al
          BY <5>1, <5>3, <5>4, <5>6, <5>7, <5>8
        <5>10. QED
          BY <5>5, <5>6, <5>7, <5>8, <5>9
      <4> HIDE DEF al, nat, F, e, fa, k, kind
      <4>4. k = al /\ al >= 1
        BY <1>1, <3>2, <3>3, AlignmentsAreNaturals
      <4>5. QED
        BY <3>3, <4>1, <4>2, <4>3, <4>4
    <3>4. CASE kind = "C"
      <4> HIDE DEF al, nat, F, e, fa, k, kind
      <4>1. al = nat /\ al >= 1
        BY <1>1, <3>2, <3>4, AlignmentsAreNaturals
      <4>2. \A i \in F : e(i) <= al
        BY <1>2, <1>3, <3>4, <4>1
      <4>3. al = 1 \/ \E j \in F : al = e(j)
        BY <1>2, <1>3, <3>4, <4>1
      <4>4. QED
        BY <3>4, <4>1, <4>2, <4>3
    <3>5. CASE kind = "Align"
      <4> HIDE DEF al, nat, F, e, fa, k, kind
      <4>1. k = al /\ nat < al /\ al >= 1
        BY <1>1, <3>2, <3>5, AlignmentsAreNaturals
      <4>2. ASSUME NEW i \in F PROVE e(i) <= al
        <5>1. e(i) = fa(i) /\ fa(i) <= nat
          BY <1>2, <1>3, <3>5
        <5>2. QED
          BY <1>1, <4>1, <5>1, AlignmentsAreNaturals
      <4>3. QED
        BY <3>5, <4>1, <4>2
    <3>6. QED
      BY <1>1, <3>3, <3>4, <3>5
  <2>2. CASE u[n].anon
    <3>1. \A i \in F : e(i) = AlignOf(u, n, i)
      BY <1>0, <2>2, ReproducibleFacts, FieldIsAligned
    <3>2. /\ \A i \in F : AlignOf(u, n, i) <= al
          /\ al = 1 \/ \E j \in F : al = AlignOf(u, n, j)
      BY <1>0, <2>2, AnonAlign
    <3>3. kind # "Align"
      BY <1>0, <2>2 DEF Packing
    <3> HIDE DEF al, F, e, kind, nat, fa, k
    <3>4. al >= 1
      BY <1>1, AlignmentsAreNaturals
    <3>5. QED
      BY <3>1, <3>2, <3>3, <3>4
  <2>3. QED
    BY <2>1, <2>2
<1>5. S \in SUBSET Alignments /\ S # {}
  <2> HIDE DEF e, F, k, kind
  <2>1. QED
    BY <1>1
<1>6. Max(S) \in S /\ \A x \in S : x <= Max(S)
  BY <1>5, MaxOfAlignments
<1>7. S = EmittedAligns(u, n)
  BY DEF EmittedAligns
<1> HIDE DEF S, al
<1>8. Max(S) <= al /\ al <= Max(S)
  BY <1>4, <1>6
<1>9. Max(S) \in Nat /\ al \in Nat
  BY <1>4, <1>5, <1>6, AlignmentsAreNaturals
<1>10. QED
  BY <1>7, <1>8, <1>9 DEF al

-----------------------------------------------------------------------------
(* rustc's run over a sequence of emitted members.                          *)

RustStates == [size : Nat, at : Nat]
RustStart  == [size |-> 0, at |-> 0]

\* rustc_run of record n, were b its members.
BodyRun(layout, n, b) ==
    LET run[i \in 0 .. Len(b)] ==
            IF i = 0 THEN RustStart
            ELSE rustc_place(cx.records[n], run[i - 1],
                             rustc_size(layout, b[i]), rustc_align(layout, n, b[i]))
    IN  run

\* A member's size and alignment, and its place, where every record it embeds
\* has clang's.
MemberSize(u, m)     == rustc_size(clang(u), m)
MemberAlign(u, n, m) == rustc_align(clang(u), n, m)

PlaceOf(u, n, st, m) == rustc_place(u[n], st, MemberSize(u, m), MemberAlign(u, n, m))

LEMMA MemberFacts ==
    ASSUME NEW u, Settled(u), NEW n \in DOMAIN u, NEW m \in Members(u, n, Nat)
    PROVE  MemberSize(u, m) \in Nat /\ MemberAlign(u, n, m) \in Alignments
<1>0. u \in Units /\ cx.records = u /\ reprs[n].n \in Alignments
  BY CtxFacts DEF Settled, Reprs
<1>1. m.pad \in Nat /\ m.type \in DOMAIN Prim \cup DOMAIN u
  BY <1>0, FieldTypesFacts DEF Members
<1>2. m.type \in DOMAIN u => clang(u)[m.type].size \in Nat /\ clang(u)[m.type].align \in Alignments
  BY <1>0, ClangIsDefined DEF ClangLayouts
<1>3. m.type \in DOMAIN Prim => Prim[m.type] \in Nat /\ Prim[m.type] \in Alignments
  BY PrimFacts
<1>4. MemberSize(u, m) \in Nat
  BY <1>0, <1>1, <1>2, <1>3 DEF MemberSize, rustc_size, rustc_record
<1> DEFINE natural == rustc_natural(clang(u), m)
<1>5. natural \in Alignments
  <2>1. 1 \in Alignments
    BY DEF Alignments
  <2>2. QED
    BY <1>0, <1>1, <1>2, <1>3, <2>1 DEF rustc_natural, rustc_record
<1>6. MemberAlign(u, n, m) = IF reprs[n].kind = "Packed" THEN Min({natural, reprs[n].n}) ELSE natural
  BY DEF MemberAlign, rustc_align
<1> HIDE DEF natural
<1>7. MemberAlign(u, n, m) \in Alignments
  BY <1>0, <1>5, <1>6, MaxMinOfAlignments
<1>8. QED
  BY <1>4, <1>7

LEMMA PlaceFacts ==
    ASSUME NEW u, Settled(u), NEW n \in DOMAIN u, NEW m \in Members(u, n, Nat), NEW st \in RustStates
    PROVE  LET off == IF u[n].union THEN 0 ELSE round_up(st.size, MemberAlign(u, n, m))
           IN  /\ PlaceOf(u, n, st, m) \in RustStates
               /\ PlaceOf(u, n, st, m).at = off
               /\ PlaceOf(u, n, st, m).size = Max({st.size, off + MemberSize(u, m)})
               /\ ~u[n].union => PlaceOf(u, n, st, m).size = off + MemberSize(u, m)
<1> DEFINE size == MemberSize(u, m)
           al == MemberAlign(u, n, m)
           off == IF u[n].union THEN 0 ELSE round_up(st.size, al)
<1>1. size \in Nat /\ al \in Nat \ {0}
  BY MemberFacts, AlignmentsAreNaturals
<1>2. st.size \in Nat
  BY DEF RustStates
<1>3. round_up(st.size, al) \in Nat /\ round_up(st.size, al) >= st.size
  BY <1>1, <1>2, RoundUp
<1>4. PlaceOf(u, n, st, m) = [size |-> Max({st.size, off + size}), at |-> off]
  BY DEF PlaceOf, rustc_place
<1>5. off \in Nat /\ (~u[n].union => off >= st.size)
  BY <1>3
<1>6. Max({st.size, off + size}) = IF st.size >= off + size THEN st.size ELSE off + size
  <2> HIDE DEF off, size
  <2>1. QED
    BY <1>1, <1>2, <1>5, MaxOfTwo
<1> HIDE DEF off, size
<1>7. Max({st.size, off + size}) \in Nat /\ (~u[n].union => Max({st.size, off + size}) = off + size)
  BY <1>1, <1>2, <1>5, <1>6
<1>8. QED
  BY <1>4, <1>5, <1>7 DEF off, size, RustStates

\* The run is the one where every embedded record has clang's size and
\* alignment, when the layouts at hand agree with clang on the members.
LEMMA BodyRuns ==
    ASSUME NEW u, Settled(u), NEW n \in DOMAIN u, NEW b \in Seq(Members(u, n, Nat)), NEW layout,
           \A i \in DOMAIN b : /\ rustc_size(layout, b[i]) = MemberSize(u, b[i])
                               /\ rustc_align(layout, n, b[i]) = MemberAlign(u, n, b[i])
    PROVE  /\ BodyRun(layout, n, b)[0] = RustStart
           /\ \A i \in 0 .. Len(b) : BodyRun(layout, n, b)[i] \in RustStates
           /\ \A i \in 1 .. Len(b) : BodyRun(layout, n, b)[i]
                                       = PlaceOf(u, n, BodyRun(layout, n, b)[i - 1], b[i])
           /\ BodyRun(layout, n, b) = [i \in 0 .. Len(b) |-> BodyRun(layout, n, b)[i]]
<1> DEFINE N == Len(b)
           S == RustStates
           T == [x \in (1 .. N) \X S |-> PlaceOf(u, n, x[2], b[x[1]])]
           Rule(f) == f = [i \in 0 .. N |-> IF i = 0 THEN RustStart ELSE PlaceOf(u, n, f[i - 1], b[i])]
<1>0. cx.records = u
  BY CtxFacts DEF Settled
<1>1. N \in Nat /\ DOMAIN b = 1 .. N /\ \A i \in 1 .. N : b[i] \in Members(u, n, Nat)
  OBVIOUS
<1>2. \A i \in 1 .. N, st \in S : PlaceOf(u, n, st, b[i]) \in S
  BY <1>1, PlaceFacts
<1>3. T \in [(1 .. N) \X S -> S]
  BY <1>2
<1>4. RustStart \in S
  BY DEF RustStart, RustStates
<1> HIDE DEF N, S, T
<1>5. PICK f \in [0 .. N -> S] : Runs(f, N, RustStart, T)
  BY <1>1, <1>3, <1>4, RunExists
<1>6. Rule(f)
  <2>1. ASSUME NEW i \in 1 .. N PROVE T[<<i, f[i - 1]>>] = PlaceOf(u, n, f[i - 1], b[i])
    <3>1. f[i - 1] \in S
      BY <1>1
    <3>2. QED
      BY <3>1 DEF T
  <2>2. \A i \in 0 .. N : (IF i = 0 THEN RustStart ELSE T[<<i, f[i - 1]>>])
                       = (IF i = 0 THEN RustStart ELSE PlaceOf(u, n, f[i - 1], b[i]))
    BY <1>1, <2>1
  <2>3. f = [i \in 0 .. N |-> IF i = 0 THEN RustStart ELSE T[<<i, f[i - 1]>>]]
    BY <1>5 DEF Runs
  <2>4. QED
    BY <2>2, <2>3
<1> DEFINE g == BodyRun(layout, n, b)
<1>7. Rule(g)
  <2> DEFINE Coded(h) == h = [i \in 0 .. Len(b) |->
                                IF i = 0 THEN RustStart
                                ELSE rustc_place(cx.records[n], h[i - 1],
                                                 rustc_size(layout, b[i]), rustc_align(layout, n, b[i]))]
  <2>1. g = CHOOSE h : Coded(h)
    BY DEF BodyRun
  <2>2. ASSUME NEW h PROVE Coded(h) <=> Rule(h)
    <3>1. \A i \in 0 .. N :
             (IF i = 0 THEN RustStart
              ELSE rustc_place(cx.records[n], h[i - 1],
                               rustc_size(layout, b[i]), rustc_align(layout, n, b[i])))
           = (IF i = 0 THEN RustStart ELSE PlaceOf(u, n, h[i - 1], b[i]))
      BY <1>0, <1>1 DEF PlaceOf
    <3>2. QED
      BY <3>1 DEF N
  <2> HIDE DEF Rule, Coded, g
  <2>3. QED
    BY <1>6, <2>1, <2>2
<1> HIDE DEF g
<1>8. g[0] = RustStart /\ \A i \in 1 .. N : g[i] = PlaceOf(u, n, g[i - 1], b[i])
  BY <1>1, <1>7
<1>9. \A i \in 0 .. N : g[i] \in S
  <2> DEFINE G == {i \in 0 .. N : g[i] \in S}
  <2>1. 0 \in G
    BY <1>1, <1>4, <1>8
  <2>2. \A i \in 1 .. N : i - 1 \in G => i \in G
    BY <1>1, <1>2, <1>8
  <2>3. 0 .. N \subseteq G
    <3> HIDE DEF G
    <3>1. QED
      BY <1>1, <2>1, <2>2, Induction
  <2>4. QED
    BY <2>3
<1>10. g = [i \in 0 .. N |-> g[i]]
  BY <1>7
<1>11. QED
  BY <1>8, <1>9, <1>10 DEF g, N, S

LEMMA ClangBodyRuns ==
    ASSUME NEW u, Settled(u), NEW n \in DOMAIN u, NEW b \in Seq(Members(u, n, Nat))
    PROVE  /\ BodyRun(clang(u), n, b)[0] = RustStart
           /\ \A i \in 0 .. Len(b) : BodyRun(clang(u), n, b)[i] \in RustStates
           /\ \A i \in 1 .. Len(b) : BodyRun(clang(u), n, b)[i]
                                       = PlaceOf(u, n, BodyRun(clang(u), n, b)[i - 1], b[i])
<1> DEFINE l == clang(u)
<1>1. \A i \in DOMAIN b : /\ rustc_size(l, b[i]) = MemberSize(u, b[i])
                          /\ rustc_align(l, n, b[i]) = MemberAlign(u, n, b[i])
  BY DEF MemberSize, MemberAlign
<1> HIDE DEF l
<1>2. /\ BodyRun(l, n, b)[0] = RustStart
      /\ \A i \in 0 .. Len(b) : BodyRun(l, n, b)[i] \in RustStates
      /\ \A i \in 1 .. Len(b) : BodyRun(l, n, b)[i] = PlaceOf(u, n, BodyRun(l, n, b)[i - 1], b[i])
  BY <1>1, BodyRuns
<1>3. QED
  BY <1>2 DEF l

\* What a sequence of members comes to: its size, where it places which field,
\* and what its members are aligned to.
SizeAfter(u, n, b) == BodyRun(clang(u), n, b)[Len(b)].size
Placed(u, n, b)    == {<<b[i].field, BodyRun(clang(u), n, b)[i].at>> : i \in DOMAIN b}
AlignsIn(u, n, b)  == {MemberAlign(u, n, b[i]) : i \in DOMAIN b}

LEMMA NothingPlaced ==
    ASSUME NEW u, Settled(u), NEW n \in DOMAIN u
    PROVE  SizeAfter(u, n, <<>>) = 0 /\ AlignsIn(u, n, <<>>) = {}
<1>1. <<>> \in Seq(Members(u, n, Nat)) /\ Len(<<>>) = 0 /\ DOMAIN <<>> = {}
  OBVIOUS
<1>2. BodyRun(clang(u), n, <<>>)[0] = RustStart
  BY <1>1, ClangBodyRuns
<1>3. SizeAfter(u, n, <<>>) = 0
  BY <1>1, <1>2 DEF SizeAfter, RustStart
<1>4. AlignsIn(u, n, <<>>) = {}
  BY <1>1 DEF AlignsIn
<1>5. QED
  BY <1>3, <1>4

LEMMA SizeAfterType ==
    ASSUME NEW u, Settled(u), NEW n \in DOMAIN u, NEW b \in Seq(Members(u, n, Nat))
    PROVE  SizeAfter(u, n, b) \in Nat
<1>1. Len(b) \in 0 .. Len(b)
  OBVIOUS
<1>2. BodyRun(clang(u), n, b)[Len(b)] \in RustStates
  BY <1>1, ClangBodyRuns
<1>3. QED
  BY <1>2 DEF SizeAfter, RustStates

\* Where a member is placed that follows the members b.
NextAt(u, n, b, m) == IF u[n].union THEN 0 ELSE round_up(SizeAfter(u, n, b), MemberAlign(u, n, m))

Follows(u, n, b, m) ==
    /\ SizeAfter(u, n, Append(b, m)) = Max({SizeAfter(u, n, b), NextAt(u, n, b, m) + MemberSize(u, m)})
    /\ ~u[n].union => SizeAfter(u, n, Append(b, m)) = NextAt(u, n, b, m) + MemberSize(u, m)
    /\ Placed(u, n, Append(b, m)) = Placed(u, n, b) \cup {<<m.field, NextAt(u, n, b, m)>>}
    /\ AlignsIn(u, n, Append(b, m)) = AlignsIn(u, n, b) \cup {MemberAlign(u, n, m)}

LEMMA OneMorePlaced ==
    ASSUME NEW u, Settled(u), NEW n \in DOMAIN u, NEW b \in Seq(Members(u, n, Nat)),
           NEW m \in Members(u, n, Nat)
    PROVE  Follows(u, n, b, m)
<1> DEFINE is == Append(b, m)
           N == Len(b)
           M == Members(u, n, Nat)
           f == BodyRun(clang(u), n, b)
           g == BodyRun(clang(u), n, is)
           off == NextAt(u, n, b, m)
<1>1. /\ is \in Seq(M) /\ Len(is) = N + 1 /\ is[N + 1] = m /\ DOMAIN is = 1 .. N + 1
      /\ \A i \in 1 .. N : is[i] = b[i]
      /\ N \in Nat /\ DOMAIN b = 1 .. N
  BY AppendProperties
<1>2. /\ f[0] = RustStart /\ \A i \in 0 .. N : f[i] \in RustStates
      /\ \A i \in 1 .. N : f[i] = PlaceOf(u, n, f[i - 1], b[i])
  BY ClangBodyRuns
<1>3. /\ g[0] = RustStart /\ \A i \in 0 .. Len(is) : g[i] \in RustStates
      /\ \A i \in 1 .. Len(is) : g[i] = PlaceOf(u, n, g[i - 1], is[i])
  BY <1>1, ClangBodyRuns
<1> HIDE DEF f, g, is, N
<1>4. \A i \in 0 .. N : g[i] = f[i]
  <2> DEFINE G == {i \in 0 .. N : g[i] = f[i]}
  <2>1. 0 \in G
    BY <1>1, <1>2, <1>3
  <2>2. ASSUME NEW i \in 1 .. N, i - 1 \in G PROVE i \in G
    <3>1. i \in 1 .. Len(is)
      BY <1>1
    <3>2. g[i] = PlaceOf(u, n, g[i - 1], is[i]) /\ is[i] = b[i] /\ g[i - 1] = f[i - 1]
      BY <1>1, <1>3, <2>2, <3>1
    <3>3. QED
      BY <1>2, <3>2
  <2>3. 0 .. N \subseteq G
    <3> HIDE DEF G
    <3>1. QED
      BY <1>1, <2>1, <2>2, Induction
  <2>4. QED
    BY <2>3
<1>5. f[N] \in RustStates /\ f[N].size = SizeAfter(u, n, b)
  BY <1>1, <1>2 DEF SizeAfter, f, N
<1>6. g[N + 1] = PlaceOf(u, n, f[N], m)
  <2>1. N + 1 \in 1 .. Len(is) /\ (N + 1) - 1 = N /\ g[N] = f[N]
    BY <1>1, <1>4
  <2>2. QED
    BY <1>1, <1>3, <2>1
<1>7. /\ g[N + 1].at = off
      /\ g[N + 1].size = Max({SizeAfter(u, n, b), off + MemberSize(u, m)})
      /\ ~u[n].union => g[N + 1].size = off + MemberSize(u, m)
  <2> DEFINE st == f[N]
  <2>1. st \in RustStates /\ st.size = SizeAfter(u, n, b)
    BY <1>5
  <2> HIDE DEF st
  <2> DEFINE o == IF u[n].union THEN 0 ELSE round_up(st.size, MemberAlign(u, n, m))
             size == MemberSize(u, m)
             to == PlaceOf(u, n, st, m)
  <2>2. /\ to.at = o
        /\ to.size = Max({st.size, o + size})
        /\ ~u[n].union => to.size = o + size
    BY <2>1, PlaceFacts
  <2>3. g[N + 1] = to
    BY <1>6 DEF st
  <2>4. off = o
    BY <2>1 DEF NextAt
  <2> HIDE DEF off, o, size, to
  <2>5. /\ g[N + 1].at = off
        /\ g[N + 1].size = Max({SizeAfter(u, n, b), off + size})
        /\ ~u[n].union => g[N + 1].size = off + size
    BY <2>1, <2>2, <2>3, <2>4
  <2>6. QED
    BY <2>5 DEF size
<1>8. SizeAfter(u, n, is) = g[N + 1].size
  BY <1>1 DEF SizeAfter, g
<1>9. Placed(u, n, is) = Placed(u, n, b) \cup {<<m.field, off>>}
  <2>1. Placed(u, n, is) = {<<is[i].field, g[i].at>> : i \in 1 .. N + 1}
    BY <1>1 DEF Placed, g
  <2>2. Placed(u, n, b) = {<<b[i].field, f[i].at>> : i \in 1 .. N}
    BY <1>1 DEF Placed, f
  <2>3. \A i \in 1 .. N : <<is[i].field, g[i].at>> = <<b[i].field, f[i].at>>
    BY <1>1, <1>4
  <2>4. <<is[N + 1].field, g[N + 1].at>> = <<m.field, off>>
    BY <1>1, <1>7
  <2>5. 1 .. N + 1 = (1 .. N) \cup {N + 1}
    BY <1>1
  <2> DEFINE x(i) == <<is[i].field, g[i].at>>
             y(i) == <<b[i].field, f[i].at>>
             z == <<m.field, off>>
  <2>6. (\A i \in 1 .. N : x(i) = y(i)) /\ x(N + 1) = z
    BY <2>3, <2>4
  <2>7. Placed(u, n, is) = {x(i) : i \in 1 .. N + 1} /\ Placed(u, n, b) = {y(i) : i \in 1 .. N}
    BY <2>1, <2>2
  <2> HIDE DEF x, y, z
  <2>8. Placed(u, n, is) = Placed(u, n, b) \cup {z}
    BY <2>5, <2>6, <2>7
  <2>9. QED
    BY <2>8 DEF z
<1>10. AlignsIn(u, n, is) = AlignsIn(u, n, b) \cup {MemberAlign(u, n, m)}
  <2> DEFINE x(i) == MemberAlign(u, n, is[i])
             y(i) == MemberAlign(u, n, b[i])
             z == MemberAlign(u, n, m)
  <2>1. 1 .. N + 1 = (1 .. N) \cup {N + 1}
    BY <1>1
  <2>2. (\A i \in 1 .. N : x(i) = y(i)) /\ x(N + 1) = z
    BY <1>1
  <2>3. AlignsIn(u, n, is) = {x(i) : i \in 1 .. N + 1} /\ AlignsIn(u, n, b) = {y(i) : i \in 1 .. N}
    BY <1>1 DEF AlignsIn
  <2> HIDE DEF x, y, z
  <2>4. AlignsIn(u, n, is) = AlignsIn(u, n, b) \cup {z}
    BY <2>1, <2>2, <2>3
  <2>5. QED
    BY <2>4 DEF z
<1>11. QED
  BY <1>7, <1>8, <1>9, <1>10 DEF is, Follows

\* A member that stands for field i, or for the unit it is in, has its size and
\* its alignment; padding has its length and none.
LEMMA MemberOfField ==
    ASSUME NEW u, Settled(u), NEW n \in DOMAIN u, NEW i \in DOMAIN u[n].fields,
           NEW m, m.pad = 0, m.type = u[n].fields[i].type
    PROVE  MemberSize(u, m) = SizeOf(u, n, i) /\ MemberAlign(u, n, m) = EmittedAlign(u, n, i)
<1>1. cx.records = u
  BY CtxFacts DEF Settled
<1>2. MemberSize(u, m) = SizeOf(u, n, i)
  BY <1>1 DEF MemberSize, rustc_size, rustc_record, SizeOf, clang_size, embeds
<1>3. rustc_natural(clang(u), m) = NaturalOf(u, n, i)
  BY <1>1 DEF rustc_natural, rustc_record, NaturalOf, clang_natural, embeds
<1>4. QED
  BY <1>2, <1>3 DEF MemberAlign, rustc_align, EmittedAlign

LEMMA PaddingPlaced ==
    ASSUME NEW u, Settled(u), NEW n \in DOMAIN u, NEW k \in Nat, k > 0
    PROVE  MemberSize(u, padding(k)) = k /\ MemberAlign(u, n, padding(k)) = 1
<1>1. padding(k).pad = k
  BY DEF padding
<1>2. reprs[n].n \in Alignments /\ 1 \in Alignments
  BY DEF Settled, Reprs, Alignments
<1>3. Min({1, reprs[n].n}) = 1
  <2> DEFINE pack == reprs[n].n
  <2>1. pack \in Nat /\ pack > 0
    BY <1>2, AlignmentsAreNaturals
  <2> HIDE DEF pack
  <2>2. Min({1, pack}) = 1
    BY <2>1, MinOfTwo
  <2>3. QED
    BY <2>2 DEF pack
<1>4. QED
  BY <1>1, <1>3 DEF MemberSize, rustc_size, MemberAlign, rustc_align, rustc_natural

\* The members b place the whole fields up to i where clang does, and are
\* aligned to what those fields are.
EmittedUpTo(u, n, i) == {EmittedAlign(u, n, j) : j \in 1 .. i}

Covers(u, n, i, b) ==
    /\ \A j \in 1 .. i : ~bitfield(u[n].fields[j]) => <<j, RunOf(u, n)[j].at>> \in Placed(u, n, b)
    /\ {1} \cup AlignsIn(u, n, b) = {1} \cup EmittedUpTo(u, n, i)

LEMMA EmittedStep ==
    ASSUME NEW u, NEW n, NEW i \in Nat, i > 0
    PROVE  EmittedUpTo(u, n, i) = EmittedUpTo(u, n, i - 1) \cup {EmittedAlign(u, n, i)}
<1>1. 1 .. i = (1 .. i - 1) \cup {i}
  OBVIOUS
<1> DEFINE x(j) == EmittedAlign(u, n, j)
<1>2. /\ EmittedUpTo(u, n, i) = {x(j) : j \in 1 .. i}
      /\ EmittedUpTo(u, n, i - 1) = {x(j) : j \in 1 .. i - 1}
  BY DEF EmittedUpTo
<1> HIDE DEF x
<1>3. EmittedUpTo(u, n, i) = EmittedUpTo(u, n, i - 1) \cup {x(i)}
  BY <1>1, <1>2
<1>4. QED
  BY <1>3 DEF x

LEMMA CoversMore ==
    ASSUME NEW u, Settled(u), NEW n \in DOMAIN u, NEW i \in DOMAIN u[n].fields,
           NEW b \in Seq(Members(u, n, Nat)), Covers(u, n, i - 1, b),
           NEW m \in Members(u, n, Nat), m.pad = 0, m.type = u[n].fields[i].type,
           ~bitfield(u[n].fields[i]) =>
               /\ m.field = i
               /\ RunOf(u, n)[i].at = IF u[n].union THEN 0
                                      ELSE round_up(SizeAfter(u, n, b), EmittedAlign(u, n, i))
    PROVE  Covers(u, n, i, Append(b, m))
<1>0. i \in Nat /\ i > 0 /\ 1 .. i = (1 .. i - 1) \cup {i}
  BY IndexFacts DEF Settled
<1> DEFINE e == EmittedAlign(u, n, i)
           off == IF u[n].union THEN 0 ELSE round_up(SizeAfter(u, n, b), e)
           B == Append(b, m)
<1>1. MemberAlign(u, n, m) = e
  BY MemberOfField
<1>2. /\ Placed(u, n, B) = Placed(u, n, b) \cup {<<m.field, off>>}
      /\ AlignsIn(u, n, B) = AlignsIn(u, n, b) \cup {e}
  <2> DEFINE al == MemberAlign(u, n, m)
             at == NextAt(u, n, b, m)
  <2>1. /\ Placed(u, n, Append(b, m)) = Placed(u, n, b) \cup {<<m.field, at>>}
        /\ AlignsIn(u, n, Append(b, m)) = AlignsIn(u, n, b) \cup {al}
    <3>1. Follows(u, n, b, m)
      BY OneMorePlaced
    <3>2. QED
      BY <3>1 DEF Follows
  <2>2. al = e /\ at = off
    BY <1>1 DEF NextAt
  <2> HIDE DEF al, e, at, off
  <2>3. QED
    BY <2>1, <2>2
<1>3. ~bitfield(u[n].fields[i]) => <<i, RunOf(u, n)[i].at>> = <<m.field, off>>
  OBVIOUS
<1> HIDE DEF e, off, B
<1>4. ASSUME NEW j \in 1 .. i, ~bitfield(u[n].fields[j])
      PROVE  <<j, RunOf(u, n)[j].at>> \in Placed(u, n, B)
  <2>1. CASE j = i
    BY <1>2, <1>3, <1>4, <2>1
  <2>2. CASE j \in 1 .. i - 1
    BY <1>2, <1>4, <2>2 DEF Covers
  <2>3. QED
    BY <1>0, <2>1, <2>2
<1>5. {1} \cup AlignsIn(u, n, B) = {1} \cup EmittedUpTo(u, n, i)
  <2>1. EmittedUpTo(u, n, i) = EmittedUpTo(u, n, i - 1) \cup {e}
    BY <1>0, EmittedStep DEF e
  <2>2. {1} \cup AlignsIn(u, n, b) = {1} \cup EmittedUpTo(u, n, i - 1)
    BY DEF Covers
  <2>3. QED
    BY <1>2, <2>1, <2>2
<1>6. QED
  BY <1>4, <1>5 DEF Covers, B

LEMMA CoversSame ==
    ASSUME NEW u, Settled(u), NEW n \in DOMAIN u, NEW i \in DOMAIN u[n].fields,
           i - 1 \in DOMAIN u[n].fields, NEW b, Covers(u, n, i - 1, b),
           bitfield(u[n].fields[i]), bitfield(u[n].fields[i - 1]),
           u[n].fields[i - 1].type = u[n].fields[i].type
    PROVE  Covers(u, n, i, b)
<1>0. u \in Units /\ Reproducible(u)
  BY DEF Settled
<1>1. i \in Nat /\ i > 0 /\ i - 1 \in 1 .. i - 1 /\ 1 .. i = (1 .. i - 1) \cup {i}
  <2>1. i \in Nat /\ i > 0 /\ 1 .. i = (1 .. i - 1) \cup {i} /\ i - 1 > 0
    BY <1>0, IndexFacts
  <2>2. QED
    BY <2>1
<1>2. NaturalOf(u, n, i - 1) = NaturalOf(u, n, i)
  BY <1>0, BitFieldsAlike
<1>3. EmittedAlign(u, n, i) = EmittedAlign(u, n, i - 1)
  BY <1>2 DEF EmittedAlign
<1>4. EmittedAlign(u, n, i - 1) \in EmittedUpTo(u, n, i - 1)
  BY <1>1 DEF EmittedUpTo
<1>5. EmittedUpTo(u, n, i) = EmittedUpTo(u, n, i - 1)
  <2>1. EmittedUpTo(u, n, i) = EmittedUpTo(u, n, i - 1) \cup {EmittedAlign(u, n, i)}
    BY <1>1, EmittedStep
  <2>2. EmittedAlign(u, n, i) \in EmittedUpTo(u, n, i - 1)
    BY <1>3, <1>4
  <2>3. QED
    BY <2>1, <2>2
<1>6. QED
  BY <1>1, <1>5 DEF Covers

LEMMA CoversPadding ==
    ASSUME NEW u, Settled(u), NEW n \in DOMAIN u, NEW i \in Nat,
           NEW b \in Seq(Members(u, n, Nat)), Covers(u, n, i, b), NEW k \in Nat, k > 0
    PROVE  /\ Covers(u, n, i, Append(b, padding(k)))
           /\ ~u[n].union => SizeAfter(u, n, Append(b, padding(k))) = SizeAfter(u, n, b) + k
<1> DEFINE m == padding(k)
           B == Append(b, m)
           was == SizeAfter(u, n, b)
<1>0. u \in Units
  BY DEF Settled
<1>1. m \in Members(u, n, Nat)
  BY <1>0, MemberTypes
<1>2. MemberSize(u, m) = k /\ MemberAlign(u, n, m) = 1
  BY PaddingPlaced
<1>3. /\ Placed(u, n, b) \subseteq Placed(u, n, B)
      /\ AlignsIn(u, n, B) = AlignsIn(u, n, b) \cup {1}
      /\ ~u[n].union => SizeAfter(u, n, B) = round_up(was, 1) + k
  <2> DEFINE al == MemberAlign(u, n, m)
             size == MemberSize(u, m)
             off == NextAt(u, n, b, m)
  <2> HIDE DEF m
  <2>1. /\ Placed(u, n, Append(b, m)) = Placed(u, n, b) \cup {<<m.field, off>>}
        /\ AlignsIn(u, n, Append(b, m)) = AlignsIn(u, n, b) \cup {al}
        /\ ~u[n].union => SizeAfter(u, n, Append(b, m)) = off + size
    <3>1. Follows(u, n, b, m)
      BY <1>1, OneMorePlaced
    <3>2. QED
      BY <3>1 DEF Follows
  <2>2. al = 1 /\ size = k /\ (~u[n].union => off = round_up(was, 1))
    BY <1>2 DEF NextAt
  <2>3. B = Append(b, m)
    OBVIOUS
  <2> HIDE DEF B, al, size, was, off
  <2>4. QED
    BY <2>1, <2>2, <2>3
<1>4. round_up(was, 1) = was
  <2>1. was \in Nat
    BY SizeAfterType
  <2> HIDE DEF was
  <2>2. QED
    BY <2>1 DEF round_up
<1> HIDE DEF B, was, m
<1>5. \A j \in 1 .. i : ~bitfield(u[n].fields[j]) => <<j, RunOf(u, n)[j].at>> \in Placed(u, n, B)
  BY <1>3 DEF Covers
<1>6. {1} \cup AlignsIn(u, n, B) = {1} \cup EmittedUpTo(u, n, i)
  BY <1>3 DEF Covers
<1>7. QED
  BY <1>3, <1>4, <1>5, <1>6 DEF Covers, B, was, m

-----------------------------------------------------------------------------
(* The members of a record that is emitted verbatim, field by field.        *)

FlushedAt(u, n, i) == flush(emit_run(u[n].fields)[i])
OpenAt(u, n, i)    == emit_run(u[n].fields)[i].cur
UsedAt(u, n, i)    == emit_run(u[n].fields)[i].used

Joins(u, n, i) ==
    /\ OpenAt(u, n, i - 1) = u[n].fields[i].type
    /\ UsedAt(u, n, i - 1) + u[n].fields[i].bits <= 8 * Prim[u[n].fields[i].type]

LEMMA FlushedFacts ==
    ASSUME NEW u \in Units, NEW n \in DOMAIN u, NEW i \in DOMAIN u[n].fields
    PROVE  LET f == u[n].fields[i]
               was == FlushedAt(u, n, i - 1)
               is  == FlushedAt(u, n, i)
           IN  /\ was \in Seq(Members(u, n, Nat)) /\ is \in Seq(Members(u, n, Nat))
               /\ UsedAt(u, n, i - 1) \in Nat
               /\ ~bitfield(f) => is = Append(was, member(u[n].fields, i)) /\ OpenAt(u, n, i) = ""
               /\ f.bits = 0 => is = was /\ OpenAt(u, n, i) = ""
               /\ f.bits > 0 => OpenAt(u, n, i) = f.type
               /\ f.bits > 0 /\ Joins(u, n, i) =>
                     is = was /\ UsedAt(u, n, i) = UsedAt(u, n, i - 1) + f.bits
               /\ f.bits > 0 /\ ~Joins(u, n, i) =>
                     is = Append(was, storage(f.type)) /\ UsedAt(u, n, i) = f.bits
<1> DEFINE fs == u[n].fields
           f == fs[i]
           was == emit_run(fs)[i - 1]
           is == emit_run(fs)[i]
<1>1. i \in 1 .. Len(fs) /\ i - 1 \in 0 .. Len(fs) /\ i \in 0 .. Len(fs)
  BY RecordFacts
<1>2. was \in EmitStates(u, n) /\ is \in EmitStates(u, n) /\ is = emit_field(fs, was, i)
  BY <1>1, EmitRunRuns
<1>3. f.bits \in Nat \cup {-1}
  BY StepFacts
<1>4. ASSUME f.bits # -1 PROVE bitfield(f) /\ f.type # ""
  <2>1. bitfield(f)
    BY <1>4 DEF bitfield, NoBits
  <2>2. f.type \in DOMAIN Prim
    BY <2>1, BitFieldFacts
  <2>3. QED
    BY <2>1, <2>2, NamesOfPrims
<1>5. flush(was) \in Seq(Members(u, n, Nat)) /\ flush(is) \in Seq(Members(u, n, Nat))
  <2>1. Members(u, n, {0}) \subseteq Members(u, n, Nat)
    BY DEF Members
  <2>2. flush(was) \in Seq(Members(u, n, {0})) /\ flush(is) \in Seq(Members(u, n, {0}))
    BY <1>2, FlushType
  <2> HIDE DEF was, is
  <2>3. QED
    BY <2>1, <2>2
<1>6. was.used \in Nat
  BY <1>2 DEF EmitStates
<1>7. joins(was, f) <=> Joins(u, n, i)
  BY DEF joins, Joins, OpenAt, UsedAt
<1>8. /\ f.bits = 0 => f.bits # -1
      /\ f.bits > 0 => f.bits # -1 /\ f.bits # 0
  <2> HIDE DEF f
  <2>1. QED
    BY <1>3
<1> HIDE DEF was, is, f
<1>9. ASSUME ~bitfield(f) PROVE flush(is) = Append(flush(was), member(fs, i)) /\ is.cur = ""
  <2>1. is = [out |-> Append(flush(was), member(fs, i)), cur |-> "", used |-> 0]
    BY <1>2, <1>9 DEF emit_field, f
  <2>2. QED
    BY <2>1 DEF flush
<1>10. ASSUME f.bits = 0 PROVE flush(is) = flush(was) /\ is.cur = ""
  <2>1. bitfield(f)
    BY <1>4, <1>8, <1>10
  <2>2. is = [out |-> flush(was), cur |-> "", used |-> 0]
    BY <1>2, <1>10, <2>1 DEF emit_field, f
  <2>3. QED
    BY <2>2 DEF flush
<1>11. ASSUME f.bits > 0, Joins(u, n, i)
       PROVE  flush(is) = flush(was) /\ is.cur = f.type /\ is.used = was.used + f.bits
  <2>1. bitfield(f) /\ f.bits # 0 /\ f.type # "" /\ joins(was, f)
    BY <1>4, <1>7, <1>8, <1>11
  <2>2. is = [out |-> was.out, cur |-> was.cur, used |-> was.used + f.bits]
    BY <1>2, <2>1 DEF emit_field, f
  <2>3. was.cur = f.type /\ was.cur # ""
    BY <2>1 DEF joins
  <2>4. QED
    BY <2>2, <2>3 DEF flush
<1>12. ASSUME f.bits > 0, ~Joins(u, n, i)
       PROVE  flush(is) = Append(flush(was), storage(f.type)) /\ is.cur = f.type /\ is.used = f.bits
  <2>1. bitfield(f) /\ f.bits # 0 /\ f.type # "" /\ ~joins(was, f)
    BY <1>4, <1>7, <1>8, <1>12
  <2>2. is = [out |-> flush(was), cur |-> f.type, used |-> f.bits]
    BY <1>2, <2>1 DEF emit_field, f
  <2>3. QED
    BY <2>1, <2>2 DEF flush
<1>13. /\ FlushedAt(u, n, i - 1) = flush(was) /\ FlushedAt(u, n, i) = flush(is)
       /\ OpenAt(u, n, i) = is.cur /\ UsedAt(u, n, i) = is.used /\ UsedAt(u, n, i - 1) = was.used
  BY DEF FlushedAt, OpenAt, UsedAt, was, is
<1>14. u[n].fields = fs /\ u[n].fields[i] = f
  BY DEF f
<1> HIDE DEF fs
<1>15. QED
  BY <1>5, <1>6, <1>9, <1>10, <1>11, <1>12, <1>13, <1>14

\* rustc would put every field where clang does, were rustc where clang is.
Plain(u, n) ==
    ~u[n].union =>
        \A i \in DOMAIN u[n].fields :
            round_up(RunOf(u, n)[i - 1].size, EmittedAlign(u, n, i))
              = round_up(RunOf(u, n)[i - 1].size, AlignOf(u, n, i))

\* The unit that bit-field i is in, for clang and for the emitter.
InUnit(u, n, i) ==
    LET st   == RunOf(u, n)[i]
        size == Prim[u[n].fields[i].type]
    IN  IF u[n].union THEN size <= st.size
        ELSE /\ st.storage = size /\ st.left = 8 * size - UsedAt(u, n, i)
             /\ Multiple(st.size, AlignOf(u, n, i))

InStep(u, n, i) ==
    /\ SizeAfter(u, n, FlushedAt(u, n, i)) = RunOf(u, n)[i].size
    /\ i > 0 /\ u[n].fields[i].bits > 0 =>
          OpenAt(u, n, i) = u[n].fields[i].type /\ InUnit(u, n, i)
    /\ ~(i > 0 /\ u[n].fields[i].bits > 0) =>
          OpenAt(u, n, i) = "" /\ (~u[n].union => RunOf(u, n)[i].storage = 0)
    /\ Covers(u, n, i, FlushedAt(u, n, i))

LEMMA InStepStart ==
    ASSUME NEW u, Settled(u), NEW n \in DOMAIN u
    PROVE  InStep(u, n, 0)
<1>0. u \in Units
  BY DEF Settled
<1>1. RunOf(u, n)[0] = ClangStart
  BY <1>0, ClangRunOf DEF RunOf
<1>2. emit_run(u[n].fields)[0] = EmitStart
  BY <1>0, EmitRunRuns
<1>3. FlushedAt(u, n, 0) = <<>> /\ OpenAt(u, n, 0) = ""
  <2> DEFINE e == emit_run(u[n].fields)[0]
  <2>1. e.out = <<>> /\ e.cur = ""
    <3>1. EmitStart.out = <<>> /\ EmitStart.cur = ""
      BY DEF EmitStart
    <3>2. QED
      BY <1>2, <3>1
  <2>2. FlushedAt(u, n, 0) = flush(e) /\ OpenAt(u, n, 0) = e.cur
    BY DEF FlushedAt, OpenAt
  <2> HIDE DEF e
  <2>3. flush(e) = <<>>
    BY <2>1 DEF flush
  <2>4. QED
    BY <2>1, <2>2, <2>3
<1>4. SizeAfter(u, n, <<>>) = 0 /\ AlignsIn(u, n, <<>>) = {}
  BY NothingPlaced
<1>5. EmittedUpTo(u, n, 0) = {}
  <2>1. 1 .. 0 = {}
    OBVIOUS
  <2>2. QED
    BY <2>1 DEF EmittedUpTo
<1>6. Covers(u, n, 0, <<>>)
  <2>1. 1 .. 0 = {}
    OBVIOUS
  <2>2. QED
    BY <1>4, <1>5, <2>1 DEF Covers
<1>7. ~(0 > 0)
  OBVIOUS
<1>8. RunOf(u, n)[0].size = 0 /\ RunOf(u, n)[0].storage = 0
  BY <1>1 DEF ClangStart
<1>9. QED
  BY <1>3, <1>4, <1>6, <1>7, <1>8 DEF InStep

LEMMA InStepWhole ==
    ASSUME NEW u, Settled(u), NEW n \in DOMAIN u, Plain(u, n), NEW i \in DOMAIN u[n].fields,
           ~bitfield(u[n].fields[i]), InStep(u, n, i - 1)
    PROVE  InStep(u, n, i)
<1> DEFINE m == member(u[n].fields, i)
           was == FlushedAt(u, n, i - 1)
           st == RunOf(u, n)[i - 1]
           to == RunOf(u, n)[i]
           size == SizeOf(u, n, i)
           off == IF u[n].union THEN 0 ELSE round_up(st.size, AlignOf(u, n, i))
<1>0. u \in Units
  BY DEF Settled
<1>1. /\ was \in Seq(Members(u, n, Nat)) /\ FlushedAt(u, n, i) = Append(was, m)
      /\ OpenAt(u, n, i) = ""
  BY <1>0, FlushedFacts
<1>2. m \in Members(u, n, Nat)
  <2>1. m \in Members(u, n, {0})
    BY <1>0, MemberTypes DEF Wholes
  <2>2. QED
    BY <2>1 DEF Members
<1>3. m.pad = 0 /\ m.type = u[n].fields[i].type /\ m.field = i
  BY DEF member
<1>4. MemberSize(u, m) = size /\ MemberAlign(u, n, m) = EmittedAlign(u, n, i)
  BY <1>3, MemberOfField
<1>5. SizeAfter(u, n, was) = st.size /\ Covers(u, n, i - 1, was)
  BY DEF InStep
<1>6. off = IF u[n].union THEN 0 ELSE round_up(SizeAfter(u, n, was), EmittedAlign(u, n, i))
  BY <1>5 DEF Plain
<1>7. to.at = off /\ to.storage = 0 /\ to.size = Max({st.size, off + size})
  BY <1>0, WholeStep
<1>8. Covers(u, n, i, Append(was, m))
  BY <1>1, <1>2, <1>3, <1>5, <1>6, <1>7, CoversMore
<1>9. SizeAfter(u, n, Append(was, m)) = Max({st.size, off + size})
  <2>1. SizeAfter(u, n, Append(was, m))
           = Max({SizeAfter(u, n, was), NextAt(u, n, was, m) + MemberSize(u, m)})
    BY <1>1, <1>2, OneMorePlaced DEF Follows
  <2>2. NextAt(u, n, was, m) = off
    BY <1>4, <1>6 DEF NextAt
  <2>3. QED
    BY <1>4, <1>5, <2>1, <2>2
<1>10. ~(u[n].fields[i].bits > 0)
  BY DEF bitfield, NoBits
<1>11. QED
  BY <1>1, <1>7, <1>8, <1>9, <1>10 DEF InStep

\* A zero-width bit-field closes the unit, which is a multiple of its own
\* alignment already.
LEMMA InStepZero ==
    ASSUME NEW u, Settled(u), NEW n \in DOMAIN u, NEW i \in DOMAIN u[n].fields,
           u[n].fields[i].bits = 0, InStep(u, n, i - 1)
    PROVE  InStep(u, n, i)
<1> DEFINE was == FlushedAt(u, n, i - 1)
           st == RunOf(u, n)[i - 1]
           to == RunOf(u, n)[i]
           size == SizeOf(u, n, i)
           a == AlignOf(u, n, i)
<1>0. u \in Units /\ Reproducible(u) /\ bitfield(u[n].fields[i])
  BY DEF Settled, bitfield, NoBits
<1>1. FlushedAt(u, n, i) = was /\ OpenAt(u, n, i) = ""
  BY <1>0, FlushedFacts
<1>2. /\ i - 1 \in DOMAIN u[n].fields /\ bitfield(u[n].fields[i - 1]) /\ u[n].fields[i - 1].bits > 0
      /\ u[n].fields[i - 1].type = u[n].fields[i].type /\ AlignOf(u, n, i - 1) = a
  BY <1>0, ZeroFollows
<1>3. i - 1 > 0
  BY <1>0, <1>2, IndexFacts
<1>4. SizeAfter(u, n, was) = st.size /\ Covers(u, n, i - 1, was) /\ InUnit(u, n, i - 1)
  BY <1>2, <1>3 DEF InStep
<1>5. Covers(u, n, i, was)
  BY <1>0, <1>2, <1>4, CoversSame
<1>6. st.size \in Nat /\ size \in Nat /\ a \in Nat \ {0} /\ st.storage \in Nat
  <2>1. a \in Alignments /\ size \in Nat
    BY <1>0, FieldOf
  <2>3. st \in ClangStates
    BY <1>0, StepFacts
  <2> HIDE DEF a, st, size
  <2>2. QED
    BY <2>1, <2>3, AlignmentsAreNaturals DEF ClangStates
<1>7. /\ to.storage = 0
      /\ to.size = IF st.storage = 0 THEN st.size
                   ELSE IF u[n].union THEN Max({st.size, size}) ELSE round_up(st.size, a)
  BY <1>0, ZeroStep
<1>8. to.size = st.size
  <2>1. CASE u[n].union
    <3>1. size = Prim[u[n].fields[i - 1].type]
      <4>1. size = Prim[u[n].fields[i].type]
        BY <1>0, BitFieldOf
      <4>2. QED
        BY <1>2, <4>1
    <3>2. size <= st.size
      BY <1>4, <2>1, <3>1 DEF InUnit
    <3>3. Max({st.size, size}) = st.size
      <4> HIDE DEF st, size
      <4>1. QED
        BY <1>6, <3>2, MaxOfTwo
    <3>4. QED
      BY <1>7, <2>1, <3>3
  <2>2. CASE ~u[n].union
    <3>1. Multiple(st.size, a)
      BY <1>2, <1>4, <2>2 DEF InUnit
    <3>2. round_up(st.size, a) = st.size
      <4> HIDE DEF st, a
      <4>1. QED
        BY <1>6, <3>1, RoundUpOfMultiple
    <3>3. QED
      BY <1>7, <2>2, <3>2
  <2>3. QED
    BY <2>1, <2>2
<1>9. ~(u[n].fields[i].bits > 0)
  OBVIOUS
<1>10. QED
  BY <1>1, <1>4, <1>5, <1>7, <1>8, <1>9 DEF InStep

\* A bit-field that joins the unit before it follows a bit-field of its type.
LEMMA JoinsFacts ==
    ASSUME NEW u, Settled(u), NEW n \in DOMAIN u, NEW i \in DOMAIN u[n].fields,
           u[n].fields[i].bits > 0, InStep(u, n, i - 1), Joins(u, n, i)
    PROVE  /\ i - 1 > 0 /\ i - 1 \in DOMAIN u[n].fields
           /\ u[n].fields[i - 1].bits > 0 /\ bitfield(u[n].fields[i - 1])
           /\ u[n].fields[i - 1].type = u[n].fields[i].type
           /\ AlignOf(u, n, i - 1) = AlignOf(u, n, i)
<1>0. u \in Units /\ Reproducible(u) /\ bitfield(u[n].fields[i])
  BY DEF Settled, bitfield, NoBits
<1>1. u[n].fields[i].type \in DOMAIN Prim /\ u[n].fields[i].type # ""
  <2>1. u[n].fields[i].type \in DOMAIN Prim
    BY <1>0, BitFieldOf
  <2>2. QED
    BY <2>1, NamesOfPrims
<1>2. i - 1 > 0 /\ u[n].fields[i - 1].bits > 0 /\ u[n].fields[i - 1].type = u[n].fields[i].type
  <2>1. OpenAt(u, n, i - 1) # "" /\ OpenAt(u, n, i - 1) = u[n].fields[i].type
    BY <1>1 DEF Joins
  <2>2. i - 1 > 0 /\ u[n].fields[i - 1].bits > 0
    BY <2>1 DEF InStep
  <2>3. OpenAt(u, n, i - 1) = u[n].fields[i - 1].type
    BY <2>2 DEF InStep
  <2>4. QED
    BY <2>1, <2>2, <2>3
<1>3. i \in 1 .. Len(u[n].fields) /\ DOMAIN u[n].fields = 1 .. Len(u[n].fields)
      /\ Len(u[n].fields) \in Nat
  BY <1>0, RecordFacts
<1>4. i - 1 \in DOMAIN u[n].fields
  BY <1>2, <1>3
<1>5. bitfield(u[n].fields[i - 1])
  <2> DEFINE bits == u[n].fields[i - 1].bits
  <2>1. bits > 0
    BY <1>2
  <2> HIDE DEF bits
  <2>2. bits # -1
    BY <2>1
  <2>3. QED
    BY <2>2 DEF bitfield, NoBits, bits
<1>6. AlignOf(u, n, i - 1) = AlignOf(u, n, i)
  BY <1>0, <1>2, <1>4, <1>5, BitFieldsAlike
<1>7. QED
  BY <1>2, <1>4, <1>5, <1>6

\* The emitter coalesces a bit-field of a struct when clang shares its storage.
LEMMA JoinsIsShares ==
    ASSUME NEW u, Settled(u), NEW n \in DOMAIN u, NEW i \in DOMAIN u[n].fields,
           u[n].fields[i].bits > 0, InStep(u, n, i - 1), ~u[n].union
    PROVE  Joins(u, n, i) <=> Shares(u, n, i)
<1> DEFINE t == u[n].fields[i].type
           s == u[n].fields[i - 1].type
           bits == u[n].fields[i].bits
           st == RunOf(u, n)[i - 1]
           used == UsedAt(u, n, i - 1)
<1>0. u \in Units /\ Reproducible(u) /\ bitfield(u[n].fields[i])
  BY DEF Settled, bitfield, NoBits
<1>1. t \in DOMAIN Prim /\ t # "" /\ Prim[t] \in Nat \ {0} /\ SizeOf(u, n, i) = Prim[t] /\ bits \in Nat
  <2>1. t \in DOMAIN Prim /\ SizeOf(u, n, i) = Prim[t] /\ bits \in Nat
    BY <1>0, BitFieldOf
  <2>2. QED
    BY <2>1, NamesOfPrims, PrimFacts
<1>2. used \in Nat
  BY <1>0, FlushedFacts
<1>3. /\ Joins(u, n, i) <=> OpenAt(u, n, i - 1) = t /\ used + bits <= 8 * Prim[t]
      /\ Shares(u, n, i) <=> bits <= st.left /\ Prim[t] = st.storage
  BY <1>1 DEF Joins, Shares
<1>4. CASE i - 1 > 0 /\ u[n].fields[i - 1].bits > 0
  <2>1. OpenAt(u, n, i - 1) = s /\ st.storage = Prim[s] /\ st.left = 8 * Prim[s] - used
    BY <1>4 DEF InStep, InUnit
  <2>2. bitfield(u[n].fields[i - 1]) /\ i > 1
    <3>1. i > 1
      BY <1>0, <1>4, IndexFacts
    <3>2. u[n].fields[i - 1].bits # -1
      BY <1>4
    <3>3. QED
      BY <3>1, <3>2 DEF bitfield, NoBits
  <2>3. s = t \/ Prim[s] # Prim[t]
    <3>1. uniform_runs(u[n].fields)
      BY <1>0, ReproducibleFacts
    <3>2. QED
      BY <1>0, <2>2, <3>1 DEF uniform_runs
  <2> DEFINE ps == Prim[s]
             pt == Prim[t]
             open == OpenAt(u, n, i - 1)
  <2>4. /\ open = s /\ st.storage = ps /\ st.left = 8 * ps - used
        /\ s = t \/ ps # pt
        /\ s = t => ps = pt
        /\ pt \in Nat /\ used \in Nat /\ bits \in Nat
        /\ Joins(u, n, i) <=> open = t /\ used + bits <= 8 * pt
        /\ Shares(u, n, i) <=> bits <= st.left /\ pt = st.storage
    BY <1>1, <1>2, <1>3, <2>1, <2>3
  <2> HIDE DEF ps, pt, open, s, t, used, bits, st
  <2>5. CASE s = t
    <3>1. bits <= 8 * pt - used <=> used + bits <= 8 * pt
      BY <2>4
    <3>2. QED
      BY <2>4, <2>5, <3>1
  <2>6. CASE s # t
    BY <2>4, <2>6
  <2>7. QED
    BY <2>5, <2>6
<1>5. CASE ~(i - 1 > 0 /\ u[n].fields[i - 1].bits > 0)
  <2>1. OpenAt(u, n, i - 1) = "" /\ st.storage = 0
    BY <1>5 DEF InStep
  <2>2. QED
    BY <1>1, <1>3, <2>1
<1>6. QED
  BY <1>4, <1>5

LEMMA InStepJoined ==
    ASSUME NEW u, Settled(u), NEW n \in DOMAIN u, NEW i \in DOMAIN u[n].fields,
           u[n].fields[i].bits > 0, InStep(u, n, i - 1), Joins(u, n, i)
    PROVE  InStep(u, n, i)
<1> DEFINE was == FlushedAt(u, n, i - 1)
           f == u[n].fields[i]
           last == u[n].fields[i - 1]
           st == RunOf(u, n)[i - 1]
           to == RunOf(u, n)[i]
<1>0. u \in Units /\ Reproducible(u) /\ bitfield(f)
  BY DEF Settled, bitfield, NoBits
<1>1. /\ FlushedAt(u, n, i) = was /\ OpenAt(u, n, i) = f.type
      /\ UsedAt(u, n, i) = UsedAt(u, n, i - 1) + f.bits /\ UsedAt(u, n, i - 1) \in Nat
  BY <1>0, FlushedFacts
<1>2. /\ i - 1 > 0 /\ i - 1 \in DOMAIN u[n].fields
      /\ last.bits > 0 /\ bitfield(last) /\ last.type = f.type
      /\ AlignOf(u, n, i - 1) = AlignOf(u, n, i)
  BY JoinsFacts
<1>3. SizeAfter(u, n, was) = st.size /\ Covers(u, n, i - 1, was) /\ InUnit(u, n, i - 1)
  BY <1>2 DEF InStep
<1>4. Covers(u, n, i, was)
  BY <1>0, <1>2, <1>3, CoversSame
<1>5. to.size = st.size /\ InUnit(u, n, i)
  <2>1. CASE u[n].union
    <3> DEFINE size == SizeOf(u, n, i)
    <3>1. size = Prim[f.type] /\ size \in Nat /\ st.size \in Nat
      <4>1. size = Prim[f.type]
        BY <1>0, BitFieldOf
      <4>2. size \in Nat
        BY <1>0, FieldOf
      <4>3. st \in ClangStates
        BY <1>0, StepFacts
      <4>4. QED
        BY <4>1, <4>2, <4>3 DEF ClangStates
    <3>2. size <= st.size
      BY <1>2, <1>3, <2>1, <3>1 DEF InUnit
    <3>3. ~Shares(u, n, i)
      BY <2>1 DEF Shares
    <3>4. to.size = Max({st.size, 0 + size})
      BY <1>0, <2>1, <3>3, UnitStep
    <3> HIDE DEF size, st, to
    <3>5. to.size = st.size
      <4>1. 0 + size = size
        BY <3>1
      <4>2. QED
        BY <3>1, <3>2, <3>4, <4>1, MaxOfTwo
    <3>6. size <= to.size
      BY <3>2, <3>5
    <3>7. QED
      BY <2>1, <3>1, <3>5, <3>6 DEF InUnit, to
  <2>2. CASE ~u[n].union
    <3>1. Shares(u, n, i)
      BY <2>2, JoinsIsShares
    <3>2. to.storage = st.storage /\ to.size = st.size /\ to.left = st.left - f.bits
      BY <1>0, <3>1, SharedStep
    <3> DEFINE p == Prim[f.type]
               used == UsedAt(u, n, i - 1)
    <3>3. st.storage = p /\ st.left = 8 * p - used /\ Multiple(st.size, AlignOf(u, n, i))
      BY <1>2, <1>3, <2>2 DEF InUnit
    <3>4. p \in Nat /\ f.bits \in Nat
      <4>1. f.type \in DOMAIN Prim /\ f.bits \in Nat
        BY <1>0, BitFieldOf
      <4>2. QED
        BY <4>1, PrimFacts
    <3>5. to.left = 8 * p - UsedAt(u, n, i)
      <4> DEFINE bits == f.bits
                 now == UsedAt(u, n, i)
                 left == to.left
      <4>1. left = (8 * p - used) - bits /\ now = used + bits
            /\ p \in Nat /\ used \in Nat /\ bits \in Nat
        BY <1>1, <3>2, <3>3, <3>4
      <4> HIDE DEF p, used, bits, now, left
      <4>2. left = 8 * p - now
        BY <4>1
      <4>3. QED
        BY <4>2 DEF left, now
    <3>6. QED
      BY <2>2, <3>2, <3>3, <3>5 DEF InUnit
  <2>3. QED
    BY <2>1, <2>2
<1>6. i > 0
  BY <1>0, IndexFacts
<1>7. QED
  BY <1>1, <1>3, <1>4, <1>5, <1>6 DEF InStep

LEMMA MultipleOfSum ==
    ASSUME NEW x \in Nat, NEW y \in Nat, NEW a \in Nat, Multiple(x, a), Multiple(y, a)
    PROVE  Multiple(x + y, a)
<1>1. PICK k \in Nat : x = k * a
  BY DEF Multiple
<1>2. PICK l \in Nat : y = l * a
  BY DEF Multiple
<1>3. k * a + l * a = (k + l) * a /\ k + l \in Nat
  OBVIOUS
<1>4. QED
  BY <1>1, <1>2, <1>3 DEF Multiple

LEMMA InStepOpened ==
    ASSUME NEW u, Settled(u), NEW n \in DOMAIN u, Plain(u, n), NEW i \in DOMAIN u[n].fields,
           u[n].fields[i].bits > 0, InStep(u, n, i - 1), ~Joins(u, n, i)
    PROVE  InStep(u, n, i)
<1> DEFINE f == u[n].fields[i]
           m == storage(f.type)
           was == FlushedAt(u, n, i - 1)
           st == RunOf(u, n)[i - 1]
           to == RunOf(u, n)[i]
           size == SizeOf(u, n, i)
           a == AlignOf(u, n, i)
           off == IF u[n].union THEN 0 ELSE round_up(st.size, a)
<1>0. u \in Units /\ Reproducible(u) /\ bitfield(f)
  BY DEF Settled, bitfield, NoBits
<1>1. /\ was \in Seq(Members(u, n, Nat)) /\ FlushedAt(u, n, i) = Append(was, m)
      /\ OpenAt(u, n, i) = f.type /\ UsedAt(u, n, i) = f.bits
  BY <1>0, FlushedFacts
<1>2. m \in Members(u, n, Nat)
  <2>1. f.type \in DOMAIN Prim
    BY <1>0, BitFieldOf
  <2>2. m \in Members(u, n, {0})
    BY <1>0, <2>1, MemberTypes
  <2>3. QED
    BY <2>2 DEF Members
<1>3. m.pad = 0 /\ m.type = f.type
  BY DEF storage
<1>4. MemberSize(u, m) = size /\ MemberAlign(u, n, m) = EmittedAlign(u, n, i)
  BY <1>3, MemberOfField
<1>5. SizeAfter(u, n, was) = st.size /\ Covers(u, n, i - 1, was)
  BY DEF InStep
<1>6. off = IF u[n].union THEN 0 ELSE round_up(SizeAfter(u, n, was), EmittedAlign(u, n, i))
  BY <1>5 DEF Plain
<1>7. ~Shares(u, n, i)
  BY JoinsIsShares DEF Shares
<1>8. /\ to.storage = size /\ to.left = 8 * size - f.bits
      /\ to.size = Max({st.size, off + size})
      /\ ~u[n].union => to.size = off + size
  BY <1>0, <1>7, UnitStep
<1>9. Covers(u, n, i, Append(was, m))
  BY <1>0, <1>1, <1>2, <1>3, <1>5, CoversMore
<1>10. SizeAfter(u, n, Append(was, m)) = Max({st.size, off + size})
  <2>1. SizeAfter(u, n, Append(was, m))
           = Max({SizeAfter(u, n, was), NextAt(u, n, was, m) + MemberSize(u, m)})
    BY <1>1, <1>2, OneMorePlaced DEF Follows
  <2>2. NextAt(u, n, was, m) = off
    BY <1>4, <1>6 DEF NextAt
  <2>3. QED
    BY <1>4, <1>5, <2>1, <2>2
<1>11. size = Prim[f.type] /\ size \in Nat /\ size \in Alignments
  <2>1. size = Prim[f.type] /\ f.type \in DOMAIN Prim
    BY <1>0, BitFieldOf
  <2>2. QED
    BY <2>1, PrimFacts
<1>12. InUnit(u, n, i)
  <2>1. CASE u[n].union
    <3>1. st.size \in Nat
      BY <1>0, StepFacts DEF ClangStates
    <3>2. to.size = Max({st.size, 0 + size})
      BY <1>8, <2>1
    <3> DEFINE had == st.size
               has == to.size
    <3>3. has = Max({had, size})
      <4>1. 0 + size = size
        BY <1>11
      <4>2. QED
        BY <3>2, <4>1
    <3> HIDE DEF had, has, size
    <3>4. Max({had, size}) = IF had >= size THEN had ELSE size
      BY <1>11, <3>1, MaxOfTwo DEF had
    <3>5. had \in Nat /\ size \in Nat
      BY <1>11, <3>1 DEF had
    <3>6. size <= has
      BY <3>3, <3>4, <3>5
    <3>7. QED
      BY <1>11, <2>1, <3>6 DEF InUnit, has
  <2>2. CASE ~u[n].union
    <3>1. st.size \in Nat /\ a \in Alignments /\ u[n].pack \in Alignments
      BY <1>0, StepFacts, FieldOf, RecordFacts DEF ClangStates
    <3>2. a <= size
      <4>1. a = Min({size, u[n].pack})
        BY <1>0, <1>11, BitFieldOf
      <4> DEFINE pack == u[n].pack
      <4> HIDE DEF a, size, pack
      <4>2. a = Min({size, pack}) /\ pack \in Alignments
        BY <3>1, <4>1 DEF pack
      <4>3. QED
        BY <1>11, <4>2, MaxMinBounds
    <3>3. a \in Nat \ {0}
      <4> HIDE DEF a
      <4>1. QED
        BY <3>1, AlignmentsAreNaturals
    <3>4. round_up(st.size, a) \in Nat /\ Multiple(round_up(st.size, a), a)
      <4> HIDE DEF a, st
      <4>1. QED
        BY <3>1, <3>3, RoundUp
    <3>5. Multiple(size, a)
      <4> HIDE DEF a, size
      <4>1. QED
        BY <1>11, <3>1, <3>2, AlignmentsDivide
    <3>6. to.size = round_up(st.size, a) + size
      BY <1>8, <2>2
    <3>7. Multiple(to.size, a)
      <4> DEFINE x == round_up(st.size, a)
      <4> HIDE DEF x, a, size
      <4>1. Multiple(x + size, a)
        BY <1>11, <3>3, <3>4, <3>5, MultipleOfSum DEF x
      <4>2. QED
        BY <3>6, <4>1 DEF x
    <3>8. QED
      BY <1>1, <1>8, <1>11, <2>2, <3>7 DEF InUnit
  <2>3. QED
    BY <2>1, <2>2
<1>13. i > 0
  BY <1>0, IndexFacts
<1>14. QED
  BY <1>1, <1>8, <1>9, <1>10, <1>12, <1>13 DEF InStep

\* What a record comes to, and the fields it places.
Reproduced(u, n, b) ==
    /\ SizeAfter(u, n, b) = EndOf(u, n).size
    /\ Covers(u, n, Len(u[n].fields), b)

LEMMA VerbatimIsReproduced ==
    ASSUME NEW u, Settled(u), NEW n \in DOMAIN u, Plain(u, n)
    PROVE  Reproduced(u, n, emit_fields(u[n].fields))
<1> DEFINE N == Len(u[n].fields)
           G == {i \in 0 .. N : InStep(u, n, i)}
<1>0. u \in Units
  BY DEF Settled
<1>1. N \in Nat /\ DOMAIN u[n].fields = 1 .. N
  BY <1>0, RecordFacts
<1>2. 0 \in G
  BY <1>1, InStepStart
<1>3. ASSUME NEW i \in 1 .. N, i - 1 \in G PROVE i \in G
  <2>1. i \in DOMAIN u[n].fields /\ InStep(u, n, i - 1)
    BY <1>1, <1>3
  <2>2. u[n].fields[i].bits \in Nat \cup {-1}
    BY <1>0, <2>1, StepFacts
  <2>3. CASE ~bitfield(u[n].fields[i])
    BY <2>1, <2>3, InStepWhole
  <2>4. CASE u[n].fields[i].bits = 0
    BY <2>1, <2>4, InStepZero
  <2>5. CASE u[n].fields[i].bits > 0
    BY <2>1, <2>5, InStepJoined, InStepOpened
  <2>6. InStep(u, n, i)
    BY <2>2, <2>3, <2>4, <2>5 DEF bitfield, NoBits
  <2>7. QED
    BY <2>6
<1>4. 0 .. N \subseteq G
  <2> HIDE DEF G, N
  <2>1. QED
    BY <1>1, <1>2, <1>3, Induction
<1>5. InStep(u, n, N)
  BY <1>1, <1>4
<1>6. emit_fields(u[n].fields) = FlushedAt(u, n, N)
  BY DEF emit_fields, FlushedAt
<1>7. QED
  BY <1>5, <1>6 DEF InStep, Reproduced, EndOf

-----------------------------------------------------------------------------
(* The members of a record with over-aligned fields.                        *)

\* Outside every #pragma pack a field is emitted with its type's alignment.
LEMMA UnpackedEmitted ==
    ASSUME NEW u, Settled(u), NEW n \in DOMAIN u, NEW i \in DOMAIN u[n].fields,
           u[n].pack = Unpacked, ~u[n].union \/ ~bitfield(u[n].fields[i])
    PROVE  EmittedAlign(u, n, i) = NaturalOf(u, n, i)
<1>0. u \in Units /\ Reproducible(u) /\ Packing(u)
  BY DEF Settled
<1> DEFINE nat == NaturalOf(u, n, i)
           a == AlignOf(u, n, i)
           al == clang(u)[n].align
           k == reprs[n].n
<1>1. nat <= a /\ a <= al
  BY <1>0, UnpackedField, AlignAtLeastFields
<1>2. nat \in Alignments /\ a \in Alignments /\ al \in Alignments /\ k \in Alignments
  BY <1>0, FieldOf, RecordOf DEF Settled, Reprs
<1>3. EmittedAlign(u, n, i) = IF reprs[n].kind = "Packed" THEN Min({nat, k}) ELSE nat
  BY DEF EmittedAlign
<1>4. reprs[n].kind = "Packed" => al <= k
  BY <1>0 DEF Packing
<1> HIDE DEF nat, a, al, k
<1>5. reprs[n].kind = "Packed" => nat <= k
  BY <1>1, <1>2, <1>4, AlignmentsAreNaturals
<1>6. reprs[n].kind = "Packed" => Min({nat, k}) = nat
  BY <1>2, <1>5, MaxMinOfAlignments
<1>7. QED
  BY <1>3, <1>6 DEF nat

\* Where clang and rustc put a field of a record of whole fields.
LEMMA OffsetFacts ==
    ASSUME NEW u \in Units, NEW n \in DOMAIN u, OnlyWhole(u, n), NEW i \in DOMAIN u[n].fields
    PROVE  LET c == AlignCtx(u)
               was == RunOf(u, n)[i - 1].size
               off == c.layouts[n].offsets[i]
           IN  /\ was \in Nat /\ off \in Nat /\ was <= off
               /\ off = round_up(was, AlignOf(u, n, i)) /\ off = RunOf(u, n)[i].at
               /\ rustc_offset(c, n, i) = round_up(was, NaturalOf(u, n, i))
               /\ rustc_offset(c, n, i) \in Nat /\ was <= rustc_offset(c, n, i)
               /\ pad_before(c, n, i) = off - was
               /\ RunOf(u, n)[i].size = off + SizeOf(u, n, i)
<1> DEFINE c == AlignCtx(u)
           was == RunOf(u, n)[i - 1].size
           off == c.layouts[n].offsets[i]
           nat == NaturalOf(u, n, i)
           a == AlignOf(u, n, i)
<1>1. i \in 1 .. Len(u[n].fields) /\ i - 1 \in 0 .. Len(u[n].fields)
  BY RecordFacts
<1>2. ~u[n].anon /\ ~u[n].union /\ ~bitfield(u[n].fields[i]) /\ sizeable(c, u[n].fields[i].type)
  BY DEF OnlyWhole
<1>3. was \in Nat
  BY StepFacts DEF ClangStates
<1>4. off = RunOf(u, n)[i].at
  BY <1>1, <1>2, CtxFacts, ClangRunOf DEF RunOf
<1>5. RunOf(u, n)[i].at = round_up(was, a) /\ RunOf(u, n)[i].size = round_up(was, a) + SizeOf(u, n, i)
  BY <1>2, WholeStep
<1>6. nat \in Nat \ {0} /\ a \in Nat \ {0}
  <2>1. nat \in Alignments /\ a \in Alignments
    BY FieldOf
  <2> HIDE DEF nat, a
  <2>2. QED
    BY <2>1, AlignmentsAreNaturals
<1>7. field_end(c, n, i - 1) = was
  BY <1>1, RunEnds DEF RunOf
<1>8. field_align(c, u[n].fields[i].type) = nat
  BY <1>2, FieldSizes DEF NaturalOf
<1>9. rustc_offset(c, n, i) = round_up(was, nat)
  BY <1>7, <1>8, CtxFacts DEF rustc_offset
<1>10. pad_before(c, n, i) = off - was
  BY <1>7 DEF pad_before
<1>11. /\ round_up(was, nat) \in Nat /\ was <= round_up(was, nat)
       /\ round_up(was, a) \in Nat /\ was <= round_up(was, a)
  <2> HIDE DEF was, nat, a
  <2>1. QED
    BY <1>3, <1>6, RoundUp
<1>12. QED
  BY <1>3, <1>4, <1>5, <1>9, <1>10, <1>11

\* clang never puts a field of an unpacked record before where rustc would.
LEMMA NeverBefore ==
    ASSUME NEW u \in Units, NEW n \in DOMAIN u, OnlyWhole(u, n), u[n].pack = Unpacked,
           NEW i \in DOMAIN u[n].fields
    PROVE  /\ rustc_offset(AlignCtx(u), n, i) <= AlignCtx(u).layouts[n].offsets[i]
           /\ Multiple(AlignCtx(u).layouts[n].offsets[i], NaturalOf(u, n, i))
<1> DEFINE was == RunOf(u, n)[i - 1].size
           off == AlignCtx(u).layouts[n].offsets[i]
           nat == NaturalOf(u, n, i)
           a == AlignOf(u, n, i)
<1>1. was \in Nat /\ off \in Nat /\ was <= off /\ off = round_up(was, a)
  BY OffsetFacts
<1>2. nat \in Alignments /\ a \in Alignments /\ nat <= a
  BY FieldOf, UnpackedField
<1>3. rustc_offset(AlignCtx(u), n, i) = round_up(was, nat)
  BY OffsetFacts
<1> HIDE DEF was, off, nat, a
<1>4. nat \in Nat \ {0} /\ a \in Nat \ {0}
  BY <1>2, AlignmentsAreNaturals
<1>5. Multiple(off, a)
  BY <1>1, <1>4, RoundUp
<1>6. Multiple(a, nat)
  BY <1>2, AlignmentsDivide
<1>7. Multiple(off, nat)
  BY <1>1, <1>4, <1>5, <1>6, MultipleOfMultiple
<1>8. round_up(was, nat) <= off
  BY <1>1, <1>4, <1>7, RoundUpIsLeast
<1>9. QED
  BY <1>3, <1>7, <1>8 DEF off, nat

\* A struct with an over-aligned field is one the emitter can pad.
LEMMA OverAlignedIsPaddable ==
    ASSUME NEW u, Settled(u), NEW n \in DOMAIN u, ~u[n].union,
           NEW i \in DOMAIN u[n].fields, u[n].fields[i].align # 1
    PROVE  OnlyWhole(u, n) /\ u[n].pack = Unpacked /\ ~declines(cx, n)
<1>0. u \in Units /\ cx = AlignCtx(u) /\ Reproducible(u)
  BY DEF Settled
<1>1. ~u[n].anon /\ u[n].pack = Unpacked
  BY <1>0, ReproducibleFacts
<1>2. \A j \in DOMAIN u[n].fields :
         /\ u[n].fields[j].named /\ ~bitfield(u[n].fields[j])
         /\ ~hoisted(u, u[n].fields[j].type)
  BY <1>0, ReproducibleFacts
<1>3. ASSUME NEW j \in DOMAIN u[n].fields PROVE sizeable(cx, u[n].fields[j].type)
  <2>1. u[n].fields[j].type \in DOMAIN Prim \cup DOMAIN u
    BY <1>0, FieldOf, FieldFacts
  <2>2. QED
    BY <1>0, <1>2, <2>1, CtxFacts DEF hoisted, sizeable
<1>4. OnlyWhole(u, n)
  BY <1>0, <1>1, <1>2, <1>3 DEF OnlyWhole
<1>5. ASSUME NEW j \in DOMAIN u[n].fields
      PROVE  ~(cx.layouts[n].offsets[j] < rustc_offset(cx, n, j))
  <2> DEFINE x == cx.layouts[n].offsets[j]
             y == rustc_offset(cx, n, j)
  <2>1. x \in Nat /\ y \in Nat /\ y <= x
    BY <1>0, <1>1, <1>4, OffsetFacts, NeverBefore
  <2> HIDE DEF x, y
  <2>2. ~(x < y)
    BY <2>1
  <2>3. QED
    BY <2>2 DEF x, y
<1>6. ~declines(cx, n)
  BY <1>0, <1>2, <1>3, <1>5, CtxFacts DEF declines
<1>7. QED
  BY <1>1, <1>4, <1>6

LEMMA UnpaddedIsPlain ==
    ASSUME NEW u, Settled(u), NEW n \in DOMAIN u, ~needs_padding(cx, n)
    PROVE  Plain(u, n)
<1>0. u \in Units /\ cx = AlignCtx(u) /\ Reproducible(u)
  BY DEF Settled
<1> SUFFICES ASSUME ~u[n].union, NEW i \in DOMAIN u[n].fields
             PROVE  round_up(RunOf(u, n)[i - 1].size, EmittedAlign(u, n, i))
                      = round_up(RunOf(u, n)[i - 1].size, AlignOf(u, n, i))
  BY DEF Plain
<1>1. CASE u[n].fields[i].align = 1
  BY <1>1, FieldIsAligned
<1>2. CASE u[n].fields[i].align # 1
  <2>1. OnlyWhole(u, n) /\ u[n].pack = Unpacked /\ ~declines(cx, n)
    BY <1>2, OverAlignedIsPaddable
  <2>2. ~gap(cx, n, i)
    <3>1. dumped(cx, n) /\ fields(cx, n) = u[n].fields
      BY <1>0, <2>1, CtxFacts DEF OnlyWhole
    <3>2. QED
      BY <2>1, <3>1 DEF needs_padding
  <2> DEFINE x == cx.layouts[n].offsets[i]
             y == rustc_offset(cx, n, i)
  <2>3. x \in Nat /\ y \in Nat /\ y <= x
    BY <1>0, <2>1, OffsetFacts, NeverBefore
  <2>4. ~(x > y)
    BY <2>2 DEF gap
  <2>5. x = y
    <3> HIDE DEF x, y
    <3>1. QED
      BY <2>3, <2>4
  <2>6. /\ x = round_up(RunOf(u, n)[i - 1].size, AlignOf(u, n, i))
        /\ y = round_up(RunOf(u, n)[i - 1].size, NaturalOf(u, n, i))
    BY <1>0, <2>1, OffsetFacts
  <2>7. EmittedAlign(u, n, i) = NaturalOf(u, n, i)
    BY <2>1, UnpackedEmitted
  <2>8. QED
    BY <2>5, <2>6, <2>7
<1>3. QED
  BY <1>1, <1>2

\* clang's size of a record is a multiple of its alignment, and the least one
\* the fields fit in.
LEMMA TailOf ==
    ASSUME NEW u \in Units, NEW n \in DOMAIN u
    PROVE  LET al == clang(u)[n].align
               size == clang(u)[n].size
           IN  /\ size = round_up(EndOf(u, n).size, al)
               /\ round_up(size, al) = size
               /\ size \in Nat /\ EndOf(u, n).size \in Nat /\ EndOf(u, n).size <= size
<1> DEFINE al == clang(u)[n].align
           req == clang(u)[n].required
           pack == u[n].pack
           end == EndOf(u, n).size
           size == clang(u)[n].size
<1>1. /\ size = round_up(end, Max({Min({al, pack}), req}))
      /\ al \in Alignments /\ req \in Alignments /\ req <= al
  BY RecordOf
<1>2. pack \in Alignments
  BY RecordFacts
<1>3. al <= pack \/ al <= req
  BY AlignAtMostPack
<1>4. end \in Nat
  BY RecordOf DEF ClangStates
<1> HIDE DEF al, req, pack, end, size
<1>5. Max({Min({al, pack}), req}) = al
  <2> DEFINE m == Min({al, pack})
  <2>1. m = (IF al <= pack THEN al ELSE pack) /\ m \in Alignments
    BY <1>1, <1>2, MaxMinOfAlignments
  <2> HIDE DEF m
  <2>2. Max({m, req}) = IF m >= req THEN m ELSE req
    BY <1>1, <2>1, MaxMinOfAlignments
  <2>3. al \in Nat /\ pack \in Nat /\ req \in Nat
    BY <1>1, <1>2, AlignmentsAreNaturals
  <2>4. Max({m, req}) = al
    BY <1>1, <1>3, <2>1, <2>2, <2>3
  <2>5. QED
    BY <2>4 DEF m
<1>6. size = round_up(end, al) /\ al \in Nat \ {0}
  BY <1>1, <1>5, AlignmentsAreNaturals
<1>7. size \in Nat /\ size >= end /\ Multiple(size, al)
  BY <1>4, <1>6, RoundUp
<1>8. round_up(size, al) = size
  BY <1>6, <1>7, RoundUpOfMultiple
<1>9. QED
  BY <1>4, <1>6, <1>7, <1>8 DEF al, size, end

LEMMA NeedsPaddingFacts ==
    ASSUME NEW u, Settled(u), NEW n \in DOMAIN u, needs_padding(cx, n)
    PROVE  OnlyWhole(u, n) /\ u[n].pack = Unpacked /\ ~declines(cx, n) /\ ~u[n].anon
<1>0. u \in Units /\ cx = AlignCtx(u) /\ Reproducible(u)
  BY DEF Settled
<1>1. dumped(cx, n) /\ ~declines(cx, n) /\ \E j \in DOMAIN u[n].fields : gap(cx, n, j)
  BY <1>0, CtxFacts DEF needs_padding
<1>2. ~u[n].anon
  BY <1>0, <1>1, CtxFacts
<1>3. OnlyWhole(u, n)
  BY <1>0, <1>1, <1>2, PaddedFacts DEF OnlyWhole
<1>4. PICK j \in DOMAIN u[n].fields : gap(cx, n, j)
  BY <1>1
<1>5. u[n].fields[j].align # 1
  BY <1>0, <1>1, <1>2, <1>4, GapsAreOverAlignment
<1>6. u[n].pack = Unpacked
  BY <1>0, <1>5, ReproducibleFacts
<1>7. QED
  BY <1>1, <1>2, <1>3, <1>6

LEMMA OneMore ==
    ASSUME NEW M, NEW s \in Seq(M), NEW x \in M
    PROVE  s \o <<x>> = Append(s, x) /\ s \o <<>> = s
OBVIOUS

\* The pad before a field, if one is written, reaches the field's offset; if
\* none is, rustc's own alignment does.
LEMMA PadReaches ==
    ASSUME NEW u, Settled(u), NEW n \in DOMAIN u, needs_padding(cx, n), NEW i \in DOMAIN u[n].fields,
           NEW b \in Seq(Members(u, n, Nat)), SizeAfter(u, n, b) = RunOf(u, n)[i - 1].size,
           Covers(u, n, i - 1, b)
    PROVE  LET p == IF gap(cx, n, i) THEN pad(pad_before(cx, n, i)) ELSE <<>>
           IN  /\ b \o p \in Seq(Members(u, n, Nat)) /\ Covers(u, n, i - 1, b \o p)
               /\ round_up(SizeAfter(u, n, b \o p), EmittedAlign(u, n, i)) = RunOf(u, n)[i].at
<1> DEFINE was == RunOf(u, n)[i - 1].size
           off == cx.layouts[n].offsets[i]
           nat == NaturalOf(u, n, i)
           k == pad_before(cx, n, i)
           M == Members(u, n, Nat)
           y == rustc_offset(cx, n, i)
<1>0. u \in Units /\ cx = AlignCtx(u) /\ Reproducible(u)
  BY DEF Settled
<1>1. OnlyWhole(u, n) /\ u[n].pack = Unpacked
  BY NeedsPaddingFacts
<1>2. /\ was \in Nat /\ off \in Nat /\ was <= off /\ off = RunOf(u, n)[i].at
      /\ y = round_up(was, nat) /\ y \in Nat /\ was <= y /\ k = off - was
  BY <1>0, <1>1, OffsetFacts
<1>3. y <= off /\ Multiple(off, nat)
  BY <1>0, <1>1, NeverBefore
<1>4. EmittedAlign(u, n, i) = nat
  BY <1>1, UnpackedEmitted DEF OnlyWhole
<1>5. nat \in Nat \ {0}
  <2>1. nat \in Alignments
    BY <1>0, FieldOf
  <2> HIDE DEF nat
  <2>2. QED
    BY <2>1, AlignmentsAreNaturals
<1>6. gap(cx, n, i) <=> off > y
  BY DEF gap
<1>7. i - 1 \in Nat
  <2>1. i \in 1 .. Len(u[n].fields)
    BY <1>0, FieldOf
  <2>2. QED
    BY <2>1
<1>8. CASE gap(cx, n, i)
  <2> HIDE DEF was, off, nat, k, y, M
  <2>1. k \in Nat /\ k > 0 /\ was + k = off
    BY <1>2, <1>6, <1>8
  <2>2. pad(k) = <<padding(k)>>
    BY <2>1 DEF pad
  <2>3. padding(k) \in M
    BY <1>0, <2>1, MemberTypes DEF M
  <2>4. b \o pad(k) = Append(b, padding(k))
    BY <2>2, <2>3, OneMore DEF M
  <2>5. b \o pad(k) \in Seq(M)
    BY <2>3, <2>4, AppendProperties DEF M
  <2>6. /\ Covers(u, n, i - 1, b \o pad(k))
        /\ SizeAfter(u, n, b \o pad(k)) = SizeAfter(u, n, b) + k
    BY <1>1, <1>7, <2>1, <2>4, CoversPadding DEF OnlyWhole
  <2>7. SizeAfter(u, n, b \o pad(k)) = off
    BY <2>1, <2>6 DEF was
  <2>8. round_up(off, nat) = off
    BY <1>2, <1>3, <1>5, RoundUpOfMultiple
  <2>9. QED
    BY <1>2, <1>4, <1>8, <2>5, <2>6, <2>7, <2>8 DEF M, k
<1>9. CASE ~gap(cx, n, i)
  <2>1. b \o <<>> = b
    OBVIOUS
  <2> HIDE DEF was, off, nat, k, y, M
  <2>2. y = off
    BY <1>2, <1>3, <1>6, <1>9
  <2>3. round_up(SizeAfter(u, n, b), nat) = off
    BY <1>2, <2>2 DEF was
  <2>4. QED
    BY <1>2, <1>4, <1>9, <2>1, <2>3 DEF M
<1>10. QED
  BY <1>8, <1>9

PaddedAt(u, n, i) ==
    /\ SizeAfter(u, n, padded_run(cx, n)[i]) = RunOf(u, n)[i].size
    /\ Covers(u, n, i, padded_run(cx, n)[i])

LEMMA PaddedStep ==
    ASSUME NEW u, Settled(u), NEW n \in DOMAIN u, needs_padding(cx, n), NEW i \in DOMAIN u[n].fields,
           PaddedAt(u, n, i - 1)
    PROVE  PaddedAt(u, n, i)
<1> DEFINE b == padded_run(cx, n)[i - 1]
           p == IF gap(cx, n, i) THEN pad(pad_before(cx, n, i)) ELSE <<>>
           m == member(u[n].fields, i)
           M == Members(u, n, Nat)
           e == EmittedAlign(u, n, i)
<1>0. u \in Units /\ cx = AlignCtx(u)
  BY DEF Settled
<1>1. OnlyWhole(u, n) /\ ~declines(cx, n) /\ ~u[n].anon
  BY NeedsPaddingFacts
<1>2. i \in 1 .. Len(u[n].fields) /\ i - 1 \in 0 .. Len(u[n].fields)
  BY <1>0, RecordFacts
<1>3. b \in Seq(M) /\ padded_run(cx, n)[i] = b \o p \o <<m>>
  <2>1. fields(cx, n) = u[n].fields
    BY <1>0, CtxFacts
  <2>2. b \in Seq(M) /\ padded_run(cx, n)[i] = PadStep(cx, n, i, b)
    BY <1>0, <1>1, <1>2, PaddedRunRuns
  <2>3. QED
    BY <2>1, <2>2 DEF PadStep
<1>4. ~bitfield(u[n].fields[i]) /\ ~u[n].union
  BY <1>1 DEF OnlyWhole
<1>5. m \in M
  <2>1. m \in Members(u, n, {0})
    BY <1>0, <1>4, MemberTypes DEF Wholes
  <2>2. QED
    BY <2>1 DEF Members
<1>6. m.pad = 0 /\ m.type = u[n].fields[i].type /\ m.field = i
  BY DEF member
<1> DEFINE c == b \o p
<1>7. c \in Seq(M) /\ Covers(u, n, i - 1, c) /\ round_up(SizeAfter(u, n, c), e) = RunOf(u, n)[i].at
  BY <1>3, PadReaches DEF PaddedAt
<1> HIDE DEF b, p, m, c
<1>8. padded_run(cx, n)[i] = Append(c, m)
  BY <1>3, <1>5, <1>7, OneMore DEF c
<1>9. Covers(u, n, i, Append(c, m))
  BY <1>4, <1>5, <1>6, <1>7, CoversMore
<1>10. SizeAfter(u, n, Append(c, m)) = RunOf(u, n)[i].size
  <2>1. MemberSize(u, m) = SizeOf(u, n, i) /\ MemberAlign(u, n, m) = e
    BY <1>6, MemberOfField
  <2>2. SizeAfter(u, n, Append(c, m)) = round_up(SizeAfter(u, n, c), e) + SizeOf(u, n, i)
    <3> HIDE DEF e
    <3>1. QED
      BY <1>4, <1>5, <1>7, <2>1, OneMorePlaced DEF Follows, NextAt
  <2>3. RunOf(u, n)[i].size = RunOf(u, n)[i].at + SizeOf(u, n, i)
    BY <1>0, <1>1, OffsetFacts
  <2>4. QED
    BY <1>7, <2>2, <2>3
<1>11. QED
  BY <1>8, <1>9, <1>10 DEF PaddedAt

\* Padded, a record comes to the size that clang measured.
LEMMA PaddedIsReproduced ==
    ASSUME NEW u, Settled(u), NEW n \in DOMAIN u, needs_padding(cx, n)
    PROVE  /\ SizeAfter(u, n, synth_padded_fields(cx, n)) = clang(u)[n].size
           /\ Covers(u, n, Len(u[n].fields), synth_padded_fields(cx, n))
<1> DEFINE N == Len(u[n].fields)
           G == {i \in 0 .. N : PaddedAt(u, n, i)}
           b == padded_run(cx, n)[N]
           M == Members(u, n, Nat)
           size == clang(u)[n].size
           end == EndOf(u, n).size
           k == size - end
<1>0. u \in Units /\ cx = AlignCtx(u)
  BY DEF Settled
<1>1. N \in Nat /\ DOMAIN u[n].fields = 1 .. N
  BY <1>0, RecordFacts
<1>2. OnlyWhole(u, n) /\ ~declines(cx, n) /\ ~u[n].anon
  BY NeedsPaddingFacts
<1>3. 0 \in G
  <2>1. padded_run(cx, n)[0] = <<>>
    BY <1>0, <1>2, PaddedRunRuns
  <2>2. RunOf(u, n)[0] = ClangStart
    BY <1>0, ClangRunOf DEF RunOf
  <2>3. SizeAfter(u, n, <<>>) = 0 /\ AlignsIn(u, n, <<>>) = {}
    BY NothingPlaced
  <2>4. EmittedUpTo(u, n, 0) = {}
    BY DEF EmittedUpTo
  <2>5. Covers(u, n, 0, <<>>)
    BY <2>3, <2>4 DEF Covers
  <2>6. QED
    BY <1>1, <2>1, <2>2, <2>3, <2>5 DEF PaddedAt, ClangStart
<1>4. ASSUME NEW i \in 1 .. N, i - 1 \in G PROVE i \in G
  <2>1. i \in DOMAIN u[n].fields /\ PaddedAt(u, n, i - 1)
    BY <1>1, <1>4
  <2>2. PaddedAt(u, n, i)
    BY <2>1, PaddedStep
  <2>3. QED
    BY <1>1, <2>2
<1>5. 0 .. N \subseteq G
  <2> HIDE DEF G, N
  <2>1. QED
    BY <1>1, <1>3, <1>4, Induction
<1>6. PaddedAt(u, n, N)
  BY <1>1, <1>5
<1>7. b \in Seq(M) /\ SizeAfter(u, n, b) = end /\ Covers(u, n, N, b)
  <2>1. N \in 0 .. N
    BY <1>1
  <2>2. b \in Seq(M)
    BY <1>0, <1>2, <2>1, PaddedRunRuns
  <2>3. QED
    BY <1>6, <2>2 DEF PaddedAt, EndOf
<1>8. size \in Nat /\ end \in Nat /\ end <= size
  BY <1>0, TailOf
<1>9. synth_padded_fields(cx, n) = b \o pad(k)
  <2>1. cx.layouts[n].size = size
    BY <1>0, <1>2, CtxFacts
  <2>2. field_end(cx, n, N) = end
    <3>1. N \in 0 .. N
      BY <1>1
    <3>2. QED
      BY <1>0, <1>2, <3>1, RunEnds DEF EndOf, RunOf
  <2>3. Len(fields(cx, n)) = N
    BY <1>0, CtxFacts
  <2>4. QED
    BY <2>1, <2>2, <2>3 DEF synth_padded_fields
<1> HIDE DEF b, size, end, k, G, M
<1>10. CASE k > 0
  <2>1. k \in Nat /\ end + k = size
    BY <1>8, <1>10 DEF k
  <2>2. pad(k) = <<padding(k)>>
    BY <1>10 DEF pad
  <2>3. padding(k) \in M
    BY <1>0, <2>1, MemberTypes DEF M
  <2>4. b \o pad(k) = Append(b, padding(k))
    BY <1>7, <2>2, <2>3, OneMore DEF M
  <2>5. Covers(u, n, N, b \o pad(k)) /\ SizeAfter(u, n, b \o pad(k)) = SizeAfter(u, n, b) + k
    BY <1>1, <1>2, <1>7, <1>10, <2>1, <2>4, CoversPadding DEF OnlyWhole, M
  <2>6. QED
    BY <1>7, <1>9, <2>1, <2>5 DEF size
<1>11. CASE ~(k > 0)
  <2>1. pad(k) = <<>>
    BY <1>11 DEF pad
  <2>2. b \o <<>> = b
    BY <1>7
  <2>3. end = size
    BY <1>8, <1>11 DEF k
  <2>4. QED
    BY <1>7, <1>9, <2>1, <2>2, <2>3 DEF size
<1>12. QED
  BY <1>10, <1>11

-----------------------------------------------------------------------------
(* rustc lays every record out as clang does.                               *)

\* The members of a record, padded or not.
LEMMA EmittedFacts ==
    ASSUME NEW u, Settled(u), NEW n \in DOMAIN u
    PROVE  /\ emit_record(cx, n) \in Seq(Members(u, n, Nat))
           /\ Covers(u, n, Len(u[n].fields), emit_record(cx, n))
           /\ round_up(SizeAfter(u, n, emit_record(cx, n)), clang(u)[n].align) = clang(u)[n].size
<1>0. u \in Units /\ cx = AlignCtx(u)
  BY DEF Settled
<1>1. emit_record(cx, n) \in Seq(Members(u, n, Nat))
  BY <1>0, EmitRecordType
<1>2. CASE needs_padding(cx, n)
  <2>1. emit_record(cx, n) = synth_padded_fields(cx, n)
    BY <1>2 DEF emit_record
  <2>2. round_up(clang(u)[n].size, clang(u)[n].align) = clang(u)[n].size
    BY <1>0, TailOf
  <2>3. QED
    BY <1>1, <1>2, <2>1, <2>2, PaddedIsReproduced
<1>3. CASE ~needs_padding(cx, n)
  <2>1. emit_record(cx, n) = emit_fields(u[n].fields)
    BY <1>0, <1>3, CtxFacts DEF emit_record
  <2>2. Plain(u, n)
    BY <1>3, UnpaddedIsPlain
  <2>3. Reproduced(u, n, emit_record(cx, n))
    BY <2>1, <2>2, VerbatimIsReproduced
  <2>4. clang(u)[n].size = round_up(EndOf(u, n).size, clang(u)[n].align)
    BY <1>0, TailOf
  <2>5. QED
    BY <1>1, <2>3, <2>4 DEF Reproduced
<1>4. QED
  BY <1>2, <1>3

Emitted(u) == \A n \in DOMAIN u : bodies[n] = emit_record(cx, n)

\* `layout` is clang's on what record n embeds.
Agrees(u, layout, n) ==
    \A i \in DOMAIN u[n].fields :
        u[n].fields[i].type \in DOMAIN u =>
            /\ layout[u[n].fields[i].type].size = clang(u)[u[n].fields[i].type].size
            /\ layout[u[n].fields[i].type].align = clang(u)[u[n].fields[i].type].align

LEMMA MembersAgree ==
    ASSUME NEW u, Settled(u), NEW n \in DOMAIN u, NEW layout, Agrees(u, layout, n),
           NEW m \in Members(u, n, Nat)
    PROVE  /\ rustc_size(layout, m) = MemberSize(u, m)
           /\ rustc_align(layout, n, m) = MemberAlign(u, n, m)
<1>0. u \in Units /\ cx.records = u
  BY CtxFacts DEF Settled
<1>1. m.type \in DOMAIN Prim \cup FieldTypes(u, n)
  BY DEF Members
<1>2. ASSUME m.type \in DOMAIN u
      PROVE  /\ layout[m.type].size = clang(u)[m.type].size
             /\ layout[m.type].align = clang(u)[m.type].align
  <2>1. m.type \notin DOMAIN Prim
    BY <1>0, <1>2, NamesOfPrims
  <2>2. PICK i \in DOMAIN u[n].fields : m.type = u[n].fields[i].type
    BY <1>1, <2>1 DEF FieldTypes
  <2>3. QED
    BY <1>2, <2>2 DEF Agrees
<1>3. rustc_size(layout, m) = rustc_size(clang(u), m)
  BY <1>0, <1>2 DEF rustc_size, rustc_record
<1>4. rustc_natural(layout, m) = rustc_natural(clang(u), m)
  BY <1>0, <1>2 DEF rustc_natural, rustc_record
<1>5. QED
  BY <1>3, <1>4 DEF MemberSize, MemberAlign, rustc_align

LEMMA RunsAgree ==
    ASSUME NEW u, Settled(u), NEW n \in DOMAIN u, NEW layout, Agrees(u, layout, n),
           NEW b \in Seq(Members(u, n, Nat))
    PROVE  BodyRun(layout, n, b) = BodyRun(clang(u), n, b)
<1> DEFINE N == Len(b)
           f == BodyRun(layout, n, b)
           l == clang(u)
           g == BodyRun(l, n, b)
           G == {i \in 0 .. N : f[i] = g[i]}
<1>1. N \in Nat /\ DOMAIN b = 1 .. N /\ \A i \in DOMAIN b : b[i] \in Members(u, n, Nat)
  OBVIOUS
<1>2. /\ f[0] = RustStart /\ \A i \in 1 .. N : f[i] = PlaceOf(u, n, f[i - 1], b[i])
      /\ f = [i \in 0 .. N |-> f[i]]
  <2>1. \A i \in DOMAIN b : /\ rustc_size(layout, b[i]) = MemberSize(u, b[i])
                            /\ rustc_align(layout, n, b[i]) = MemberAlign(u, n, b[i])
    BY <1>1, MembersAgree
  <2>2. QED
    BY <2>1, BodyRuns
<1>3. /\ g[0] = RustStart /\ \A i \in 1 .. N : g[i] = PlaceOf(u, n, g[i - 1], b[i])
      /\ g = [i \in 0 .. N |-> g[i]]
  <2>1. \A i \in DOMAIN b : /\ rustc_size(l, b[i]) = MemberSize(u, b[i])
                            /\ rustc_align(l, n, b[i]) = MemberAlign(u, n, b[i])
    BY DEF MemberSize, MemberAlign
  <2> HIDE DEF l
  <2>2. QED
    BY <2>1, BodyRuns
<1> HIDE DEF f, g, N
<1>4. 0 \in G
  BY <1>1, <1>2, <1>3
<1>5. \A i \in 1 .. N : i - 1 \in G => i \in G
  BY <1>1, <1>2, <1>3
<1>6. 0 .. N \subseteq G
  <2> HIDE DEF G
  <2>1. QED
    BY <1>1, <1>4, <1>5, Induction
<1>7. \A i \in 0 .. N : f[i] = g[i]
  BY <1>6
<1>8. f = g
  BY <1>2, <1>3, <1>7
<1>9. QED
  BY <1>8 DEF f, g, l

\* What rustc makes of the record.
RustLayout(u, n) == [size |-> clang(u)[n].size, align |-> clang(u)[n].align,
                     offsets |-> Placed(u, n, emit_record(cx, n))]

LEMMA EmittedAlignIsTaken ==
    ASSUME NEW u, Settled(u), NEW n \in DOMAIN u
    PROVE  Max({1, IF reprs[n].kind = "Align" THEN reprs[n].n ELSE 1}
               \cup AlignsIn(u, n, emit_record(cx, n))) = clang(u)[n].align
<1> DEFINE ask == IF reprs[n].kind = "Align" THEN reprs[n].n ELSE 1
           b == emit_record(cx, n)
           N == Len(u[n].fields)
           E == {EmittedAlign(u, n, i) : i \in DOMAIN u[n].fields}
           A == AlignsIn(u, n, b)
<1>1. DOMAIN u[n].fields = 1 .. N
  BY RecordFacts DEF Settled
<1>2. EmittedUpTo(u, n, N) = E
  BY <1>1 DEF EmittedUpTo
<1>3. {1} \cup A = {1} \cup EmittedUpTo(u, n, N)
  BY EmittedFacts DEF Covers
<1>4. EmittedAligns(u, n) = {1, ask} \cup E
  BY DEF EmittedAligns
<1>5. Max(EmittedAligns(u, n)) = clang(u)[n].align
  BY RecordIsAligned
<1> HIDE DEF ask, E, A
<1>6. {1, ask} \cup A = {1, ask} \cup E
  BY <1>2, <1>3
<1>7. Max({1, ask} \cup A) = clang(u)[n].align
  BY <1>4, <1>5, <1>6
<1>8. QED
  BY <1>7 DEF ask, A

LEMMA LaidOut ==
    ASSUME NEW u, Settled(u), Emitted(u), NEW n \in DOMAIN u, NEW layout, Agrees(u, layout, n)
    PROVE  rustc_layout(layout, n) = RustLayout(u, n)
<1> DEFINE b == emit_record(cx, n)
           run == BodyRun(clang(u), n, b)
           ask == IF reprs[n].kind = "Align" THEN reprs[n].n ELSE 1
           al == clang(u)[n].align
<1>1. bodies[n] = b
  BY DEF Emitted
<1>2. b \in Seq(Members(u, n, Nat)) /\ round_up(SizeAfter(u, n, b), al) = clang(u)[n].size
  BY EmittedFacts
<1>3. rustc_run(layout, n) = run
  <2>1. rustc_run(layout, n) = BodyRun(layout, n, bodies[n])
    BY DEF rustc_run, BodyRun, RustStart
  <2>2. BodyRun(layout, n, b) = run
    BY <1>2, RunsAgree
  <2>3. QED
    BY <1>1, <2>1, <2>2
<1>4. {rustc_align(layout, n, b[i]) : i \in DOMAIN b} = AlignsIn(u, n, b)
  <2>1. \A i \in DOMAIN b : rustc_align(layout, n, b[i]) = MemberAlign(u, n, b[i])
    <3>1. \A i \in DOMAIN b : b[i] \in Members(u, n, Nat)
      BY <1>2
    <3>2. QED
      BY <3>1, MembersAgree
  <2> DEFINE x(i) == rustc_align(layout, n, b[i])
             y(i) == MemberAlign(u, n, b[i])
  <2>2. \A i \in DOMAIN b : x(i) = y(i)
    BY <2>1
  <2>3. AlignsIn(u, n, b) = {y(i) : i \in DOMAIN b}
    BY DEF AlignsIn
  <2> HIDE DEF x, y
  <2>4. {x(i) : i \in DOMAIN b} = {y(i) : i \in DOMAIN b}
    BY <2>2
  <2>5. QED
    BY <2>3, <2>4 DEF x
<1>5. Max({1, ask} \cup AlignsIn(u, n, b)) = al
  BY EmittedAlignIsTaken
<1>6. Max({1, ask} \cup {rustc_align(layout, n, bodies[n][i]) : i \in DOMAIN bodies[n]}) = al
  BY <1>1, <1>4, <1>5
<1>7. rustc_layout(layout, n)
         = [size |-> round_up(run[Len(b)].size, al), align |-> al,
            offsets |-> {<<b[i].field, run[i].at>> : i \in DOMAIN b}]
  BY <1>1, <1>3, <1>6 DEF rustc_layout
<1>8. run[Len(b)].size = SizeAfter(u, n, b) /\ {<<b[i].field, run[i].at>> : i \in DOMAIN b} = Placed(u, n, b)
  BY DEF SizeAfter, Placed
<1> HIDE DEF run
<1>9. QED
  BY <1>2, <1>7, <1>8 DEF RustLayout

LEMMA RustcIsClang ==
    ASSUME NEW u, Settled(u), Emitted(u)
    PROVE  \A n \in DOMAIN u : rustc[n] = RustLayout(u, n)
<1> DEFINE D == DOMAIN u
           K == Cardinality(D)
           Rule(f) == f = [n \in D |-> rustc_layout(f, n)]
           all == [n \in D |-> RustLayout(u, n)]
<1>0. u \in Units /\ cx.records = u
  BY CtxFacts DEF Settled
<1>1. Rule(all)
  <2>1. ASSUME NEW n \in D PROVE rustc_layout(all, n) = RustLayout(u, n)
    <3>1. \A m \in D : all[m].size = clang(u)[m].size /\ all[m].align = clang(u)[m].align
      BY DEF RustLayout
    <3>2. Agrees(u, all, n)
      BY <3>1 DEF Agrees
    <3>3. QED
      BY <3>2, LaidOut
  <2>2. QED
    BY <2>1
<1>2. rustc = CHOOSE f : Rule(f)
  BY <1>0 DEF rustc
<1>3. Rule(rustc)
  <2> HIDE DEF Rule
  <2>1. QED
    BY <1>1, <1>2
<1>4. \A n \in D : rustc[n] = rustc_layout(rustc, n)
  <2> DEFINE r == rustc
  <2> HIDE DEF r
  <2>1. Rule(r)
    BY <1>3 DEF r
  <2>2. \A n \in D : r[n] = rustc_layout(r, n)
    BY <2>1
  <2>3. QED
    BY <2>2 DEF r
<1>5. K \in Nat
  BY <1>0, LayoutAssumption, FS_CardinalityType
<1>6. PICK depth \in [D -> 0 .. K] :
        \A n \in D : \A i \in DOMAIN u[n].fields :
            u[n].fields[i].type \in D => depth[u[n].fields[i].type] < depth[n]
  BY <1>0, LayoutAssumption DEF Acyclic
<1> DEFINE G == {k \in 0 .. K + 1 : \A n \in D : depth[n] < k => rustc[n] = RustLayout(u, n)}
<1>7. 0 \in G
  BY <1>5, <1>6
<1>8. ASSUME NEW k \in 1 .. K + 1, k - 1 \in G PROVE k \in G
  <2> SUFFICES ASSUME NEW n \in D, depth[n] < k PROVE rustc[n] = RustLayout(u, n)
    BY <1>5
  <2>1. ASSUME NEW i \in DOMAIN u[n].fields, u[n].fields[i].type \in D
        PROVE  rustc[u[n].fields[i].type] = RustLayout(u, u[n].fields[i].type)
    <3>1. depth[u[n].fields[i].type] < k - 1
      BY <1>5, <1>6, <2>1
    <3>2. QED
      BY <1>8, <2>1, <3>1
  <2>2. Agrees(u, rustc, n)
    <3>1. \A m : RustLayout(u, m).size = clang(u)[m].size /\ RustLayout(u, m).align = clang(u)[m].align
      BY DEF RustLayout
    <3>2. QED
      BY <2>1, <3>1 DEF Agrees
  <2>3. QED
    BY <1>4, <2>2, LaidOut
<1>9. 0 .. K + 1 \subseteq G
  <2> HIDE DEF G, K
  <2>1. QED
    BY <1>5, <1>7, <1>8, Induction
<1>10. \A n \in D : depth[n] < K + 1
  BY <1>5, <1>6
<1>11. K + 1 \in G
  BY <1>5, <1>9
<1>12. QED
  BY <1>10, <1>11

\* When every record of a unit is one that the emitter's rules cover, each
\* record as emitted, anonymous ones included, has under rustc's rules the size,
\* the alignment and the offsets that clang gave it (emit.rs 994-1068).
THEOREM LayoutIsReproduced == Spec => []Faithful
<1>1. Handed => Faithful
  <2> SUFFICES ASSUME Handed, phase = "done", \A n \in DOMAIN cx.records : reproducible(cx.records, n)
               PROVE  all_agree
    BY DEF Faithful
  <2>1. PICK u \in Units : cx = AlignCtx(u)
    BY DEF Handed, Invariant
  <2>2. cx.records = u
    BY <2>1, CtxFacts
  <2>3. Reproducible(u)
    BY <2>2 DEF Reproducible
  <2>4. Settled(u)
    BY <2>1, <2>2, <2>3 DEF Settled, Handed, Invariant
  <2>5. Emitted(u)
    BY <2>2 DEF Emitted, Handed, Invariant
  <2>6. ASSUME NEW n \in DOMAIN u PROVE agree(n, clang(u)[n], measured(n))
    <3>1. rustc[n] = RustLayout(u, n)
      BY <2>4, <2>5, RustcIsClang
    <3>2. /\ rustc[n].size = clang(u)[n].size /\ rustc[n].align = clang(u)[n].align
          /\ rustc[n].offsets = Placed(u, n, emit_record(cx, n))
      BY <3>1 DEF RustLayout
    <3>3. ASSUME NEW i \in measured(n)
          PROVE  <<i, clang(u)[n].offsets[i]>> \in Placed(u, n, emit_record(cx, n))
      <4>1. i \in DOMAIN u[n].fields /\ ~bitfield(u[n].fields[i])
        BY <2>1, CtxFacts DEF measured
      <4>2. i \in 1 .. Len(u[n].fields)
        BY <4>1, IndexFacts
      <4>3. clang(u)[n].offsets[i] = RunOf(u, n)[i].at
        BY <4>2, ClangRunOf DEF RunOf
      <4>4. Covers(u, n, Len(u[n].fields), emit_record(cx, n))
        BY <2>4, EmittedFacts
      <4>5. QED
        BY <4>1, <4>2, <4>3, <4>4 DEF Covers
    <3>4. QED
      BY <3>2, <3>3 DEF agree
  <2>7. QED
    BY <2>2, <2>6 DEF all_agree
<1>2. QED
  BY <1>1, PackingIsHanded, PTL

=============================================================================
