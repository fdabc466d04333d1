------------------------------ MODULE MCClosure ------------------------------
(***************************************************************************)
(* Small translation units for Closure: three names, each declared in      *)
(* every way the index distinguishes, in a phnt header or outside, with    *)
(* references to any of the three. The record R hoists an anonymous member *)
(* R__anon1, which holds its references.                                   *)
(***************************************************************************)
EXTENDS Closure, Naturals

Declared == {"R", "T", "U"}
MCNames  == Declared \cup {"R__anon1"}

Few(k) == {s \in SUBSET Declared : Cardinality(s) <= k}
Decl(kinds, refs) == [kind : kinds, refs : refs, phnt : BOOLEAN]
Absent == [kind |-> "none", refs |-> {}, phnt |-> FALSE]

\* "tag": `typedef struct X X` of a struct that is never completed. No typedef
\* leads back to itself except as a pointer to its tag.
MemberDecls(targets) ==
    {Absent}
    \cup Decl({"tag", "anon_enum"}, {{}})
    \cup Decl({"record", "anon_record", "enum"}, Few(1))
    \cup Decl({"typedef"}, targets)
RecordDecls == {Absent} \cup Decl({"record", "anon_record"}, Few(2))

SelfAlias(n) == [name |-> n, refs |-> {n}, direct |-> TRUE]
Alias(n, rs) == [name |-> n, refs |-> rs, direct |-> rs # {n}]

Parts(n, rs) ==
    IF n = "R" THEN {[name |-> n, refs |-> {"R__anon1"}], [name |-> "R__anon1", refs |-> rs]}
               ELSE {[name |-> n, refs |-> rs]}

UnitOf(d, sig) ==
    LET of(kind)  == {n \in Declared : d[n].kind = kind}
        phnt(ns)  == {n \in ns : d[n].phnt}
        typedef(n) == IF d[n].kind = "typedef" THEN Alias(n, d[n].refs) ELSE SelfAlias(n)
        named     == {n \in Declared : d[n].kind # "none"}
    IN  [rec_by_name       |-> [n \in of("record") |-> Parts(n, d[n].refs)],
         anon_typedef_rec  |-> [n \in of("anon_record") |-> Parts(n, d[n].refs)],
         enum_by_name      |-> of("enum"),
         anon_typedef_enum |-> of("anon_enum"),
         typedef_by_name   |-> {typedef(n) : n \in named},
         records           |-> UNION {Parts(n, d[n].refs) : n \in phnt(of("record"))},
         enums             |-> phnt(of("enum")),
         typedefs          |-> {typedef(n) : n \in phnt(named)},
         enum_refs         |-> UNION {d[n].refs : n \in phnt(of("enum"))},
         signature_refs    |-> sig]

MCUnits ==
    {UnitOf([R |-> r, T |-> t, U |-> u], sig) :
        r \in RecordDecls, t \in MemberDecls({{"R"}, {"T"}, {"U"}}),
        u \in MemberDecls({{"R"}, {"U"}}), sig \in {{}, {"R"}}}
=============================================================================
