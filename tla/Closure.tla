------------------------------- MODULE Closure -------------------------------
(***************************************************************************)
(* The self-containment closure of one cell (emit.rs, compute_closure):    *)
(* seeded with the definitions of the phnt headers, a worklist pulls in    *)
(* every name they reference from the index of the whole translation unit  *)
(* (universe.rs), lowering it on demand, or stubs it as opaque.            *)
(*                                                                         *)
(* A record lowers to a set of parts: itself and the anonymous members     *)
(* hoisted out of it, each with the names its fields reference. The queue  *)
(* is FIFO and may hold a name twice; neither decides anything, so it is a *)
(* set and any of its names may be popped next.                            *)
(***************************************************************************)
EXTENDS FiniteSets

CONSTANTS Names, Units

Part    == [name : Names, refs : SUBSET Names]
\* A typedef; `direct` when its type is a bare name (refs is that name).
Typedef == [name : Names, refs : SUBSET Names, direct : BOOLEAN]

self_alias(t) == t.direct /\ t.refs = {t.name}

names(defs)   == {d.name : d \in defs}
refs_of(defs) == UNION {d.refs : d \in defs}

\* A translation unit: the index of every complete definition, first one wins,
\* and the module of the phnt-origin ones, whose tables are keyed by name.
Unit(u) ==
    /\ DOMAIN u.rec_by_name \subseteq Names
    /\ DOMAIN u.anon_typedef_rec \subseteq Names
    /\ \A n \in DOMAIN u.rec_by_name : u.rec_by_name[n] \in SUBSET Part
    /\ \A n \in DOMAIN u.anon_typedef_rec : u.anon_typedef_rec[n] \in SUBSET Part
    /\ u.enum_by_name \subseteq Names
    /\ u.anon_typedef_enum \subseteq Names
    /\ u.typedef_by_name \subseteq Typedef
    /\ \A s, t \in u.typedef_by_name : s.name = t.name => s = t
    /\ u.records \subseteq Part
    /\ u.enums \subseteq Names
    /\ u.typedefs \subseteq Typedef
    /\ \A s, t \in u.typedefs : s.name = t.name => s = t
    /\ u.enum_refs \subseteq Names
    /\ u.signature_refs \subseteq Names

lowered_parts(u) ==
    {u.rec_by_name[n] : n \in DOMAIN u.rec_by_name}
    \cup {u.anon_typedef_rec[n] : n \in DOMAIN u.anon_typedef_rec}

hoisted(u) ==
    UNION ({names(u.rec_by_name[n]) \ {n} : n \in DOMAIN u.rec_by_name}
           \cup {names(u.anon_typedef_rec[n]) \ {n} : n \in DOMAIN u.anon_typedef_rec})

\* A record lowers to the name it is indexed under; the synthetic name of a
\* hoisted member is referenced only beside the member, and is no declared name.
\* A record lowered twice under one name lowers to the same fields.
Lowers(u) ==
    /\ \A n \in DOMAIN u.rec_by_name : n \in names(u.rec_by_name[n])
    /\ \A n \in DOMAIN u.anon_typedef_rec : n \in names(u.anon_typedef_rec[n])
    /\ \A parts \in lowered_parts(u) \cup {u.records} :
          refs_of(parts) \cap hoisted(u) \subseteq names(parts)
    /\ hoisted(u) \cap (refs_of(u.typedefs) \cup refs_of(u.typedef_by_name)
                        \cup u.enum_refs \cup u.signature_refs) = {}
    /\ hoisted(u) \cap (DOMAIN u.rec_by_name \cup DOMAIN u.anon_typedef_rec
                        \cup u.enum_by_name \cup u.anon_typedef_enum
                        \cup names(u.typedef_by_name) \cup names(u.typedefs)) = {}
    /\ \A p, q \in u.records \cup UNION lowered_parts(u) : p.name = q.name => p = q

tags(u) == [record |-> names(u.records) \cup UNION {names(parts) : parts \in lowered_parts(u)},
            enum   |-> u.enum_by_name \cup u.anon_typedef_enum \cup u.enums]

\* C's tags are one name space, and the headers reuse no tag for a typedef of
\* another type.
TagsApart(u) ==
    /\ tags(u).record \cap tags(u).enum = {}
    /\ \A t \in u.typedefs \cup u.typedef_by_name :
          self_alias(t) \/ t.name \notin tags(u).record \cup tags(u).enum

ASSUME UnitAssumption == \A u \in Units : Unit(u) /\ Lowers(u) /\ TagsApart(u)

VARIABLES unit, records, enums, typedefs, opaque, queue

vars == <<unit, records, enums, typedefs, opaque, queue>>

\* A slip the runs must catch: the walk forgets which records it has lowered.
known_but_records == enums \cup names(typedefs) \cup opaque

known == names(records) \cup enums \cup names(typedefs) \cup opaque

typedefs_of(n) == {t \in unit.typedef_by_name : t.name = n}

-----------------------------------------------------------------------------
\* A slip: the walk is seeded from the index, not from the phnt module.
InitFromIndex ==
    /\ unit \in Units
    /\ records = unit.records
    /\ enums = unit.enums
    /\ typedefs = unit.typedefs
    /\ opaque = {}
    /\ queue = refs_of(unit.typedef_by_name) \cup unit.signature_refs

Init ==
    /\ unit \in Units
    /\ records = unit.records
    /\ enums = unit.enums
    /\ typedefs = unit.typedefs
    /\ opaque = {}
    /\ queue = refs_of(unit.records) \cup refs_of(unit.typedefs)
               \cup unit.enum_refs \cup unit.signature_refs

Skip(n) ==
    /\ n \in known
    /\ queue' = queue \ {n}
    /\ UNCHANGED <<unit, records, enums, typedefs, opaque>>

\* A slip: the references of hoisted members are not followed.
LowerOwnRefs(n, parts) ==
    /\ records' = records \cup {p \in parts : p.name \notin names(records)}
    /\ queue' = (queue \ {n}) \cup refs_of({p \in parts : p.name = n})
    /\ UNCHANGED <<unit, enums, typedefs, opaque>>

\* entry().or_insert: a part whose name is taken is dropped, its references
\* are queued all the same.
Lower(n, parts) ==
    /\ records' = records \cup {p \in parts : p.name \notin names(records)}
    /\ queue' = (queue \ {n}) \cup refs_of(parts)
    /\ UNCHANGED <<unit, enums, typedefs, opaque>>

PullRecord(n) ==
    /\ n \notin known
    /\ n \in DOMAIN unit.rec_by_name
    /\ Lower(n, unit.rec_by_name[n])

\* The anonymous struct of `typedef struct {..} T`, lowered as T.
PullAnonRecord(n) ==
    /\ n \notin known \cup DOMAIN unit.rec_by_name
    /\ n \in DOMAIN unit.anon_typedef_rec
    /\ Lower(n, unit.anon_typedef_rec[n])

\* A slip: anonymous definitions are not looked up.
tagged_record_names == DOMAIN unit.rec_by_name

record_names == DOMAIN unit.rec_by_name \cup DOMAIN unit.anon_typedef_rec
enum_names   == unit.enum_by_name \cup unit.anon_typedef_enum

\* A named enum, or the anonymous one of `typedef enum {..} T` as T. Its
\* underlying type is not queued.
PullEnum(n) ==
    /\ n \notin known \cup record_names
    /\ n \in enum_names
    /\ enums' = enums \cup {n}
    /\ queue' = queue \ {n}
    /\ UNCHANGED <<unit, records, typedefs, opaque>>

PullTypedef(n) ==
    /\ n \notin known \cup record_names \cup enum_names
    /\ \E t \in typedefs_of(n) :
          /\ ~self_alias(t)
          /\ typedefs' = typedefs \cup {t}
          /\ queue' = (queue \ {n}) \cup t.refs
    /\ UNCHANGED <<unit, records, enums, opaque>>

Stub(n) ==
    /\ opaque' = opaque \cup {n}
    /\ queue' = queue \ {n}
    /\ UNCHANGED <<unit, records, enums, typedefs>>

\* A slip: the self-alias is stubbed and kept.
StubAndKeepSelfAlias(n) ==
    /\ n \notin known \cup record_names \cup enum_names
    /\ \E t \in typedefs_of(n) : self_alias(t) /\ typedefs' = typedefs \cup {t}
    /\ opaque' = opaque \cup {n}
    /\ queue' = queue \ {n}
    /\ UNCHANGED <<unit, records, enums>>

\* A slip: the self-alias is kept as a typedef.
KeepSelfAlias(n) ==
    /\ n \notin known \cup record_names \cup enum_names
    /\ \E t \in typedefs_of(n) : self_alias(t) /\ typedefs' = typedefs \cup {t}
    /\ queue' = queue \ {n}
    /\ UNCHANGED <<unit, records, enums, opaque>>

\* `typedef struct X X` of a tag that is never completed.
StubSelfAlias(n) ==
    /\ n \notin known \cup record_names \cup enum_names
    /\ \E t \in typedefs_of(n) : self_alias(t)
    /\ Stub(n)

StubUndefined(n) ==
    /\ n \notin known \cup record_names \cup enum_names
    /\ typedefs_of(n) = {}
    /\ Stub(n)

Next ==
    \E n \in queue :
        \/ Skip(n)
        \/ PullRecord(n)
        \/ PullAnonRecord(n)
        \/ PullEnum(n)
        \/ PullTypedef(n)
        \/ StubSelfAlias(n)
        \/ StubUndefined(n)

\* The loop runs until the queue is empty.
Spec == Init /\ [][Next]_vars /\ WF_vars(Next)

-----------------------------------------------------------------------------
(* The closure of a unit as a function of it: what the walk ends with, if   *)
(* OrderDecidesNothing. The fold of a cell starts from it (FoldedCell).     *)

\* What a name leads to, as the index has it.
parts_of(u, n) ==
    IF n \in DOMAIN u.rec_by_name THEN u.rec_by_name[n]
    ELSE IF n \in DOMAIN u.anon_typedef_rec THEN u.anon_typedef_rec[n] ELSE {}
aliases_of(u, n)  == {t \in u.typedef_by_name : t.name = n /\ ~self_alias(t)}
indexed_enums(u)  == u.enum_by_name \cup u.anon_typedef_enum

\* A slip: what a typedef leads to is not followed.
record_references(u, n) == names(parts_of(u, n)) \cup refs_of(parts_of(u, n))

references(u, n) ==
    names(parts_of(u, n)) \cup refs_of(parts_of(u, n)) \cup refs_of(aliases_of(u, n))

seeds(u) == names(u.records) \cup u.enums \cup names(u.typedefs)
roots(u) == seeds(u) \cup refs_of(u.records) \cup refs_of(u.typedefs)
            \cup u.enum_refs \cup u.signature_refs

\* The least set of names that holds the roots and what its names lead to. What
\* a phnt definition leads to is among the roots.
closed(u, S) == roots(u) \subseteq S /\ \A n \in S \ seeds(u) : references(u, n) \subseteq S
reached(u)   == {n \in Names : \A S \in SUBSET Names : closed(u, S) => n \in S}

closure_of(u) ==
    LET pulled == reached(u) \ seeds(u)
        parts  == u.records \cup UNION {parts_of(u, n) : n \in pulled}
    IN  [records  |-> parts,
         enums    |-> u.enums \cup (pulled \cap indexed_enums(u)),
         typedefs |-> u.typedefs \cup UNION {aliases_of(u, n) : n \in pulled},
         opaque   |-> {n \in pulled \ (names(parts) \cup indexed_enums(u)) : aliases_of(u, n) = {}}]

-----------------------------------------------------------------------------
(* Properties.                                                             *)

Done == queue = {}

\* The names whose definition or stub is written out: emit_typedef drops a
\* typedef that names itself.
emitted == names(records) \cup enums \cup opaque
           \cup names({t \in typedefs : ~self_alias(t)})

\* What the emitted definitions and the function declarations mention.
mentioned == refs_of(records) \cup refs_of({t \in typedefs : ~self_alias(t)})
             \cup unit.signature_refs

\* The tables are well typed, and no name is written out from two of them.
TypeOK ==
    /\ records \subseteq Part
    /\ typedefs \subseteq Typedef
    /\ enums \cup opaque \cup queue \subseteq Names
    /\ names(records) \cap enums = {}
    /\ names({t \in typedefs : ~self_alias(t)}) \cap (names(records) \cup enums) = {}
    /\ opaque \cap (names(records) \cup enums \cup names(typedefs)) = {}

\* The closure is closed: when the worklist is empty every name an emitted
\* item mentions is in a table, and one that is not written out is a phnt
\* typedef of its own name, the one entry the seed admits and the loop would
\* have resolved.
ClosedWhenDone ==
    Done => /\ mentioned \subseteq known
            /\ mentioned \ emitted \subseteq names({t \in unit.typedefs : self_alias(t)})

defined == DOMAIN unit.rec_by_name \cup DOMAIN unit.anon_typedef_rec
           \cup unit.enum_by_name \cup unit.anon_typedef_enum

\* Only a name without a definition is stubbed, whatever the order in which
\* names are popped: a stub in place of a definition has size 0.
OpaqueOnlyUndefined ==
    \A n \in opaque :
        /\ n \notin defined
        /\ \A t \in typedefs_of(n) : self_alias(t)

\* The closure pulls in nothing beyond need.
Minimal == known \subseteq reached(unit)

\* The order of the worklist decides nothing: every walk of a unit ends with the
\* same tables, although a name goes to the first branch that has it and a part
\* whose name is taken is dropped.
OrderDecidesNothing ==
    Done => [records |-> records, enums |-> enums, typedefs |-> typedefs, opaque |-> opaque]
            = closure_of(unit)

\* Every turn of the loop settles a name for good, or drops one from the queue
\* and adds none; recursive types lead back to a name only until it is settled.
Progresses ==
    [][\/ known \subseteq known' /\ known' # known
       \/ known' = known /\ queue' \subseteq queue /\ queue' # queue]_vars

\* The walk reaches the fixpoint: the worklist empties and stays empty.
Terminates == <>[]Done

\* No emitted item mentions a name that is not written out: "fails generation
\* with the offending edge rather than emitting a dangling reference".
NoDanglingReference == Done => mentioned \subseteq emitted

\* The names phnt aliases to themselves without a named definition of its own: of
\* `typedef struct X X` the tag is completed by another header or by none, of
\* `typedef struct {..} X` the definition is complete and has no name to lower it
\* under.
unresolved(u) ==
    names({t \in u.typedefs : self_alias(t)}) \ (names(u.records) \cup u.enums)

\* Those are the names that dangle, all that are mentioned and no other: the walk
\* takes them for known, and finds a definition or a stub of every other name by
\* whatever way it comes to it.
UnresolvedSeedsDangle == Done => mentioned \ emitted = mentioned \cap unresolved(unit)
=============================================================================
