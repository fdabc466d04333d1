------------------------------ MODULE MCLayout ------------------------------
(***************************************************************************)
(* Small header records, S in every one of them: alone, embedding a tagged  *)
(* record T by value, and with an anonymous A that holds an anonymous B.    *)
(***************************************************************************)
EXTENDS Layout, TLC

\* u32 and i32 are two types of one size, as ULONG and LONG are.
MCPrim == [u8 |-> 1, u32 |-> 4, i32 |-> 4, u64 |-> 8]
None == 16

Plain(t)   == [type |-> t, bits |-> NoBits, align |-> 1, named |-> TRUE]
Over(t, a) == [type |-> t, bits |-> NoBits, align |-> a, named |-> TRUE]
Bits(t, w) == [type |-> t, bits |-> w, align |-> 1, named |-> w > 0]
Nameless(t) == [type |-> t, bits |-> NoBits, align |-> 1, named |-> FALSE]

Tagged(un, p, a, fs) == [anon |-> FALSE, union |-> un, pack |-> p, align |-> a, fields |-> fs]
Anon(un, p, fs) == [anon |-> TRUE, union |-> un, pack |-> p, align |-> 1, fields |-> fs]

UpTo(S, k)    == UNION {[1 .. j -> S] : j \in 1 .. k}
Holding(S, k, t) == {fs \in UpTo(S, k) : Cardinality({i \in DOMAIN fs : fs[i].type = t}) = 1}

Ints == {Plain("u8"), Plain("u32"), Plain("u64")}
BitFields == {Bits("u32", 20), Bits("i32", 4), Bits("u8", 3), Bits("u32", 0)}

\* #pragma pack and bit-fields; __declspec(align) of the record and of a field.
Alone ==
    {"S" :> Tagged(un, p, 1, fs) :
        un \in BOOLEAN, p \in {1, 2, 4, None}, fs \in UpTo(Ints \cup BitFields, 3)}
    \cup
    {"S" :> Tagged(un, None, a, fs) :
        un \in BOOLEAN, a \in {1, 16}, fs \in UpTo(Ints \cup {Over("u8", 8), Over("u32", 16), Bits("u32", 20)}, 3)}

\* A T that is itself packed or over-aligned, inside an S that may be.
Embedding ==
    {("S" :> Tagged(FALSE, p, a, fs)) @@ ("T" :> Tagged(FALSE, q, b, gs)) :
        p \in {2, None}, a \in {1, 16}, q \in {2, None}, b \in {1, 8},
        fs \in Holding({Plain("u8"), Plain("u64"), Plain("T")}, 3, "T"),
        gs \in UpTo({Plain("u8"), Plain("u64")}, 2)}

\* #pragma pack reaches the anonymous members it encloses. B sits in A as an
\* anonymous member or as the type of a declared field.
Nested ==
    {("S" :> Tagged(FALSE, p, 1, fs)) @@ ("A" :> Anon(un, p, gs)) @@ ("B" :> Anon(~un, p, hs)) :
        p \in {2, 4, None}, un \in BOOLEAN,
        fs \in Holding({Plain("u8"), Plain("u32"), Nameless("A")}, 3, "A"),
        gs \in Holding({Plain("u8"), Plain("u64"), Nameless("B"), Plain("B")}, 2, "B"),
        hs \in {<<Plain("u64")>>, <<Plain("u8"), Plain("u32")>>, <<Bits("u32", 20), Bits("u32", 20)>>}}

MCUnits == Alone \cup Embedding \cup Nested

\* union { struct { ULONG a : 4; LONG b : 4; }; u64 all; }, or with more in it.
Covered ==
    {("S" :> Tagged(TRUE, p, 1, <<Nameless("A"), Plain("u64")>>)) @@ ("A" :> Anon(FALSE, p, fs)) :
        p \in {4, None}, fs \in UpTo(Ints \cup {Bits("u32", 4), Bits("i32", 4)}, 2)}
=============================================================================
