------------------------------- MODULE Lowering -------------------------------
(***************************************************************************)
(* From clang's dump of one translation unit to what the closure reads:     *)
(* the module of the phnt declarations (ir.rs, lower), whose anonymous      *)
(* members are hoisted into records of their own, the index of every        *)
(* definition of the unit (universe.rs, build_index), and the records       *)
(* lowered from the index as the closure asks for them (emit.rs 612).       *)
(*                                                                         *)
(* A unit is the sequence of the dump's nodes in document order: the first  *)
(* is the translation unit, and `inner` holds the numbers of a node's       *)
(* children. Struct and union lower alike, and neither bit-field widths nor *)
(* the text of documentation decide anything here. The Vecs are sets: the   *)
(* order in which records are pushed decides nothing if OneRecordPerName.   *)
(***************************************************************************)
EXTENDS Integers, Sequences, FiniteSetsExt

CONSTANTS
    Units,
    \* Types, which LoweredTypes defines. Of a C type: what `parse` makes of its
    \* text, the anonymous definitions it mentions, and the one it is itself if
    \* only a typedef names it.
    Parsed(_), AnonLocs(_), Linked(_),
    \* Of a parsed type: the names it mentions, whether an anonymous leaf is
    \* left in it, its name if it is but a name, its return type if a function.
    Refs(_), HasAnon(_), Bare(_), Result(_)

VARIABLES
    unit,
    at,        \* the top-level node `lower` is at
    module,    \* the Module but for its records
    records,   \* the records lowered, each in a batch: see Batch
    calls,     \* the calls of lower_record still to be made
    walked,    \* the nodes the index walk has visited
    index      \* the Index

vars == <<unit, at, module, records, calls, walked, index>>

-----------------------------------------------------------------------------
(* The dump's nodes.                                                       *)

NoName == <<>>

RecordDecl(name, loc, phnt, complete, inner) ==
    [kind |-> "record", name |-> name, loc |-> loc, phnt |-> phnt, implicit |-> FALSE,
     complete |-> complete, inner |-> inner]
FieldDecl(type) == [kind |-> "field", type |-> type, inner |-> <<>>]
\* `constants` are the enumerators: none for a forward declaration.
EnumDecl(name, loc, phnt, constants, underlying) ==
    [kind |-> "enum", name |-> name, loc |-> loc, phnt |-> phnt,
     constants |-> constants, underlying |-> underlying, inner |-> <<>>]
TypedefDecl(name, phnt, type) ==
    [kind |-> "typedef", name |-> name, phnt |-> phnt, implicit |-> FALSE,
     type |-> type, inner |-> <<>>]
\* `params` are the types of its ParmVarDecls.
FunctionDecl(name, phnt, type, params, body) ==
    [kind |-> "function", name |-> name, phnt |-> phnt, implicit |-> FALSE,
     type |-> type, params |-> params, body |-> body, inner |-> <<>>]
\* A node the lowering and the index pass over: a documentation comment, or what
\* the tool has no variant for.
Other(inner) == [kind |-> "other", inner |-> inner]

\* A definition, for the index: a record's is complete.
defined(node, kind)   == node.kind = kind /\ (kind = "record" => node.complete)
anonymous(node, kind) == defined(node, kind) /\ node.name = NoName
tagged(node, kind)    == defined(node, kind) /\ node.name # NoName

child(u, i, p) == u[u[i].inner[p]]
children(u, i) == {u[i].inner[p] : p \in DOMAIN u[i].inner}

self_alias(node) == Bare(Parsed(node.type)) = {node.name}

-----------------------------------------------------------------------------
(* What a dump is.                                                         *)

\* Every node but the first is the child of an earlier one.
Tree(u) ==
    /\ Len(u) \in Nat \ {0} /\ DOMAIN u = 1 .. Len(u)
    /\ u[1].kind = "other"
    /\ \A i \in DOMAIN u : u[i].inner \in Seq(i + 1 .. Len(u))
    /\ \A j \in DOMAIN u \ {1} : \E i \in DOMAIN u : j \in children(u, i)

\* A declared name is one word, a definition's may be missing. C admits one
\* definition of a tag in a unit and one type per typedef, which phnt spells in
\* one way. Tags are one name space, and the headers reuse no tag for a typedef
\* of another type.
Declared(u) ==
    /\ \A i \in DOMAIN u :
          /\ u[i].kind \in {"record", "enum"} => u[i].name \in Seq(STRING) /\ Len(u[i].name) <= 1
          /\ u[i].kind = "record" => u[i].complete \in BOOLEAN
          /\ u[i].kind = "typedef" => u[i].name \in Seq(STRING) /\ Len(u[i].name) = 1
    /\ \A i, j \in DOMAIN u :
          /\ tagged(u[i], "record") /\ tagged(u[j], "record") /\ u[i].name = u[j].name => i = j
          /\ tagged(u[i], "record") /\ tagged(u[j], "enum") => u[i].name # u[j].name
          /\ u[i].kind = "typedef" /\ u[j].kind = "typedef" /\ u[i].name = u[j].name =>
                /\ Linked(u[i].type) = Linked(u[j].type)
                /\ self_alias(u[i]) <=> self_alias(u[j])
                /\ u[i].phnt /\ u[j].phnt => Parsed(u[i].type) = Parsed(u[j].type)
          /\ \A kind \in {"record", "enum"} :
                u[i].kind = "typedef" /\ tagged(u[j], kind) /\ u[i].name = u[j].name =>
                    self_alias(u[i]) /\ Linked(u[i].type) = {}

\* The node that is the p-th child of i defines what clang names after t, if t
\* comes next after it but for comments.
links(u, i, q, p) ==
    /\ q < p
    /\ anonymous(child(u, i, q), "record") \/ anonymous(child(u, i, q), "enum")
    /\ \A k \in q + 1 .. p - 1 : child(u, i, k).kind = "other"

\* `typedef struct {..} T`: the typedef follows its definition, and clang spells
\* the definition's type as T. No other self-alias follows an anonymous
\* definition, and a location is that of one definition.
Linkages(u) ==
    /\ \A i \in DOMAIN u : \A p \in DOMAIN u[i].inner :
          LET t == child(u, i, p)
          IN  t.kind = "typedef" =>
                /\ Linked(t.type) # {} =>
                      self_alias(t) /\ \E q \in DOMAIN u[i].inner : links(u, i, q, p)
                /\ self_alias(t) => \A q \in DOMAIN u[i].inner :
                      links(u, i, q, p) => Linked(t.type) = {child(u, i, q).loc}
    /\ \A i, j \in DOMAIN u :
          anonymous(u[i], "record") /\ anonymous(u[j], "enum") => u[i].loc # u[j].loc

\* The types a node is lowered with.
lowered_types(node) ==
    CASE node.kind \in {"field", "typedef"} -> {Parsed(node.type)}
      [] node.kind = "enum" -> {Parsed(t) : t \in node.underlying}
      [] node.kind = "function" ->
            {Result(Parsed(node.type))} \cup {Parsed(node.params[k]) : k \in DOMAIN node.params}
      [] OTHER -> {}

\* A parsed type mentions declared names, a bare name is all it mentions, and
\* it has an anonymous leaf if the field's type is anonymous.
Spelled(u) ==
    \A i \in DOMAIN u :
        /\ \A t \in lowered_types(u[i]) : /\ \A n \in Refs(t) : n \in Seq(STRING) /\ Len(n) <= 1
                                          /\ Bare(t) \in {{}, Refs(t)}
        /\ u[i].kind = "field" => (HasAnon(Parsed(u[i].type)) <=> AnonLocs(u[i].type) # {})

ASSUME UnitsAssumption ==
    \A u \in Units : Tree(u) /\ Declared(u) /\ Linkages(u) /\ Spelled(u)

-----------------------------------------------------------------------------
(* lower_record                                                            *)

fields(u, i)      == {p \in DOMAIN u[i].inner : child(u, i, p).kind = "field"}
anon_fields(u, i) == {p \in fields(u, i) : HasAnon(Parsed(child(u, i, p).type))}
anon_defs(u, i)   == {p \in DOMAIN u[i].inner : anonymous(child(u, i, p), "record")}

rank(S, p) == Cardinality({q \in S : q <= p})

\* Slips the runs must catch: hoisted members are numbered within the
\* outermost record only, or all fields are counted and not the anonymous ones.
synth_by_number(name, k) == <<Head(name), k>>
fields_before(u, i, p)   == rank(fields(u, i), p)

synth(name, k) == Append(name, k)

\* The number of the anonymous field p, which is that of the definition it takes.
anon_idx(u, i, p) == rank(anon_fields(u, i), p)

\* Definitions and anonymous fields are paired by position; a field without a
\* definition keeps its anonymous type.
takes(u, i, p, q) ==
    p \in anon_fields(u, i) /\ q \in anon_defs(u, i) /\ rank(anon_defs(u, i), q) = anon_idx(u, i, p)

\* A field's type, and the name its anonymous leaves have become.
lowered_field(u, c, p) ==
    [type |-> Parsed(child(u, c.from, p).type),
     anon |-> IF \E q \in anon_defs(u, c.from) : takes(u, c.from, p, q)
              THEN synth(c.name, anon_idx(u, c.from, p)) ELSE NoName]

\* A record is lowered for the module, or as the entry of the index that the
\* closure asked for: its batch is then that name, and NoName in the module.
call(batch, name, from, anon) == [batch |-> batch, name |-> name, from |-> from, anon |-> anon]

lowered_record(u, c) ==
    [batch |-> c.batch, name |-> c.name, from |-> c.from, anon |-> c.anon,
     fields |-> [p \in fields(u, c.from) |-> lowered_field(u, c, p)]]

\* The definitions that its fields took, under the names the fields now have.
hoisted(u, c) ==
    {call(c.batch, synth(c.name, anon_idx(u, c.from, pq[1])), u[c.from].inner[pq[2]], TRUE) :
        pq \in {pq \in anon_fields(u, c.from) \X anon_defs(u, c.from) :
                   takes(u, c.from, pq[1], pq[2])}}

\* A slip: the hoisted definitions are not lowered.
lower_alone(c) ==
    /\ records' = records \cup {lowered_record(unit, c)}
    /\ calls' = calls \ {c}
    /\ UNCHANGED <<unit, at, module, walked, index>>

\* The record is pushed, and the hoisted definitions are lowered next.
lower_record(c) ==
    /\ records' = records \cup {lowered_record(unit, c)}
    /\ calls' = (calls \ {c}) \cup hoisted(unit, c)
    /\ UNCHANGED <<unit, at, module, walked, index>>

-----------------------------------------------------------------------------
(* lower                                                                   *)

top == unit[1].inner

lower_enum(node) ==
    [name |-> node.name, constants |-> node.constants, types |-> lowered_types(node)]

lower_typedef(node) == [name |-> node.name, type |-> Parsed(node.type)]

\* The return type is read off the function's own type, the parameters are
\* nodes of their own.
lower_function(node) == [name |-> node.name, types |-> lowered_types(node)]

EmptyModule == [enums |-> {}, typedefs |-> {}, functions |-> {}, inline_functions |-> {}]
EmptyIndex ==
    [rec_by_name |-> <<>>, enum_by_name |-> <<>>, typedef_by_name |-> <<>>,
     anon_typedef_rec |-> <<>>, anon_typedef_enum |-> <<>>]

Init ==
    /\ unit \in Units
    /\ at = 1
    /\ module = EmptyModule
    /\ records = {}
    /\ calls = {}
    /\ walked = {}
    /\ index = EmptyIndex

\* Every call of the record before has returned.
Lower(kind) ==
    /\ calls = {}
    /\ at \in DOMAIN top
    /\ child(unit, 1, at).kind = kind
    /\ child(unit, 1, at).phnt
    /\ at' = at + 1
    /\ UNCHANGED <<unit, walked, index>>

\* A slip: anonymous structs at file level are lowered, under no name.
LowerUnnamedRecord ==
    LET node == child(unit, 1, at)
    IN  /\ Lower("record")
        /\ ~node.implicit /\ node.complete
        /\ calls' = {call(NoName, node.name, top[at], FALSE)}
        /\ UNCHANGED <<module, records>>

LowerRecord ==
    LET node == child(unit, 1, at)
    IN  /\ Lower("record")
        /\ ~node.implicit /\ tagged(node, "record")
        /\ calls' = {call(NoName, node.name, top[at], FALSE)}
        /\ UNCHANGED <<module, records>>

LowerEnum ==
    /\ Lower("enum")
    /\ module' = [module EXCEPT !.enums = @ \cup {lower_enum(child(unit, 1, at))}]
    /\ UNCHANGED <<records, calls>>

LowerTypedef ==
    /\ Lower("typedef")
    /\ ~child(unit, 1, at).implicit
    /\ module' = [module EXCEPT !.typedefs = @ \cup {lower_typedef(child(unit, 1, at))}]
    /\ UNCHANGED <<records, calls>>

LowerFunction ==
    LET node == child(unit, 1, at)
    IN  /\ Lower("function")
        /\ ~node.implicit
        /\ module' = IF node.body
                     THEN [module EXCEPT !.inline_functions = @ \cup {lower_function(node)}]
                     ELSE [module EXCEPT !.functions = @ \cup {lower_function(node)}]
        /\ UNCHANGED <<records, calls>>

SkipNode ==
    LET node == child(unit, 1, at)
    IN  /\ calls = {}
        /\ at \in DOMAIN top
        /\ \/ node.kind \in {"other", "field"}
           \/ node.kind \in {"record", "enum", "typedef", "function"} /\ ~node.phnt
           \/ node.kind \in {"record", "typedef", "function"} /\ node.implicit
           \/ node.kind = "record" /\ ~tagged(node, "record")
        /\ at' = at + 1
        /\ UNCHANGED <<unit, module, records, calls, walked, index>>

Lowered == calls = {} /\ at \notin DOMAIN top

-----------------------------------------------------------------------------
(* build_index                                                             *)

\* entry().or_insert for every name of g.
or_insert(f, g) ==
    [n \in DOMAIN f \cup DOMAIN g |-> IF n \in DOMAIN f THEN f[n] ELSE g[n]]

defines(u, i, kind) == [n \in {u[j].name : j \in {j \in {i} : tagged(u[j], kind)}} |-> i]

\* A slip: a comment hides the definition.
just_before(u, i, p) == p - 1

\* The child of i before the p-th, comments skipped.
previous(u, i, p) == Max({0} \cup {q \in 1 .. p - 1 : child(u, i, q).kind # "other"})

\* `typedef struct {..} T`: a self-alias right after an anonymous definition.
aliases(u, i, kind) ==
    {p \in DOMAIN u[i].inner :
        /\ child(u, i, p).kind = "typedef" /\ self_alias(child(u, i, p))
        /\ previous(u, i, p) # 0 /\ anonymous(child(u, i, previous(u, i, p)), kind)}

\* The first alias of a name, and the definition it names.
aliases_of(u, i, kind, n) == {p \in aliases(u, i, kind) : child(u, i, p).name = n}
pairs(u, i, kind) ==
    [n \in {child(u, i, p).name : p \in aliases(u, i, kind)} |->
        u[i].inner[previous(u, i, Min(aliases_of(u, i, kind, n)))]]

\* A slip: nested definitions are not walked.
visits_top_level(u, i) == IF u[i].kind = "other" THEN children(u, i) ELSE {}

\* `walk` calls itself for every child.
visits(u, i) == children(u, i)

to_walk == ({1} \cup UNION {visits(unit, i) : i \in walked}) \ walked

\* One call of `walk`; the next one is the next node of the document.
Walk ==
    LET i == Min(to_walk)
    IN  /\ Lowered
        /\ to_walk # {}
        /\ walked' = walked \cup {i}
        /\ index' =
              [rec_by_name       |-> or_insert(index.rec_by_name, defines(unit, i, "record")),
               enum_by_name      |-> or_insert(index.enum_by_name, defines(unit, i, "enum")),
               typedef_by_name   |-> or_insert(index.typedef_by_name, defines(unit, i, "typedef")),
               anon_typedef_rec  |-> or_insert(index.anon_typedef_rec, pairs(unit, i, "record")),
               anon_typedef_enum |-> or_insert(index.anon_typedef_enum, pairs(unit, i, "enum"))]
        /\ UNCHANGED <<unit, at, module, records, calls>>

Indexed == Lowered /\ to_walk = {}

-----------------------------------------------------------------------------
(* Records on demand. The closure asks at most once for a name, and for an   *)
(* anonymous definition when no tag has the name. lower_record_node takes    *)
(* the record's own name.                                                  *)

Batch(n) == {r \in records : r.batch = n}

PullRecord(n) ==
    /\ Indexed
    /\ n \in DOMAIN index.rec_by_name
    /\ Batch(n) = {}
    /\ calls' = {call(n, unit[index.rec_by_name[n]].name, index.rec_by_name[n], FALSE)}
    /\ UNCHANGED <<unit, at, module, records, walked, index>>

PullAnonRecord(n) ==
    /\ Indexed
    /\ n \in DOMAIN index.anon_typedef_rec \ DOMAIN index.rec_by_name
    /\ Batch(n) = {}
    /\ calls' = {call(n, n, index.anon_typedef_rec[n], FALSE)}
    /\ UNCHANGED <<unit, at, module, records, walked, index>>

Next ==
    \/ LowerRecord \/ LowerEnum \/ LowerTypedef \/ LowerFunction \/ SkipNode
    \/ \E c \in calls : lower_record(c)
    \/ Walk
    \/ \E n \in DOMAIN index.rec_by_name : PullRecord(n)
    \/ \E n \in DOMAIN index.anon_typedef_rec : PullAnonRecord(n)

Spec == Init /\ [][Next]_vars

-----------------------------------------------------------------------------
(* What the closure walks: see Closure.                                    *)

record_names == DOMAIN index.rec_by_name \cup DOMAIN index.anon_typedef_rec

\* The closure has asked for every record it can ask for.
Pulled == Indexed /\ \A n \in record_names : Batch(n) # {}

field_refs(f) == Refs(f.type) \cup ({f.anon} \ {NoName})
parts(n) == {[name |-> r.name,
              refs |-> UNION {field_refs(r.fields[p]) : p \in DOMAIN r.fields}] : r \in Batch(n)}
typedef(t) == [name |-> t.name, refs |-> Refs(t.type), direct |-> Bare(t.type) # {}]
refs_of(defs) == UNION {UNION {Refs(t) : t \in d.types} : d \in defs}

closure_unit ==
    [rec_by_name       |-> [n \in DOMAIN index.rec_by_name |-> parts(n)],
     anon_typedef_rec  |-> [n \in DOMAIN index.anon_typedef_rec |-> parts(n)],
     enum_by_name      |-> DOMAIN index.enum_by_name,
     anon_typedef_enum |-> DOMAIN index.anon_typedef_enum,
     typedef_by_name   |-> {typedef(lower_typedef(unit[index.typedef_by_name[n]])) :
                               n \in DOMAIN index.typedef_by_name},
     records           |-> parts(NoName),
     enums             |-> {e.name : e \in module.enums} \ {NoName},
     typedefs          |-> {typedef(t) : t \in module.typedefs},
     enum_refs         |-> refs_of(module.enums),
     signature_refs    |-> refs_of(module.functions)]

C == INSTANCE Closure WITH
    Names <- {}, Units <- {}, unit <- closure_unit, records <- {}, enums <- {},
    typedefs <- {}, opaque <- {}, queue <- {}

-----------------------------------------------------------------------------
(* Properties.                                                             *)

\* Every record has a name, a longer one than a tag if it was hoisted, and the
\* index maps a name to a definition of that name.
TypeOK ==
    /\ at \in 1 .. Len(top) + 1
    /\ walked \subseteq DOMAIN unit
    /\ \A r \in records \cup calls :
          /\ r.name # NoName /\ (r.anon <=> Len(r.name) > 1)
          /\ r.from \in DOMAIN unit /\ unit[r.from].kind = "record" /\ unit[r.from].complete
    /\ \A n \in DOMAIN index.rec_by_name :
          index.rec_by_name[n] \in DOMAIN unit /\ tagged(unit[index.rec_by_name[n]], "record")
          /\ unit[index.rec_by_name[n]].name = n
    /\ \A n \in DOMAIN index.enum_by_name :
          index.enum_by_name[n] \in DOMAIN unit /\ unit[index.enum_by_name[n]].kind = "enum"
          /\ unit[index.enum_by_name[n]].name = n
    /\ \A n \in DOMAIN index.anon_typedef_rec :
          index.anon_typedef_rec[n] \in DOMAIN unit
          /\ anonymous(unit[index.anon_typedef_rec[n]], "record")

\* In the headers' form of an anonymous member, its definition is "immediately
\* before the FieldDecl that uses it" (ir.rs 597): the definition q is that of
\* the field p, and no other definition or anonymous field is between them.
defines_member(u, i, q, p) ==
    /\ q \in anon_defs(u, i) /\ p \in anon_fields(u, i) /\ q < p
    /\ AnonLocs(child(u, i, p).type) = {child(u, i, q).loc}
    /\ \A k \in anon_defs(u, i) \cup anon_fields(u, i) : ~(q < k /\ k < p)

one_member_each(u, i) ==
    /\ \A p \in anon_fields(u, i) : \E q \in anon_defs(u, i) : defines_member(u, i, q, p)
    /\ \A q \in anon_defs(u, i) : \E p \in anon_fields(u, i) : defines_member(u, i, q, p)

\* A member of anonymous type refers to the record hoisted from its own
\* definition, at every depth and behind pointers and arrays: ir.rs:600, "line
\* up 1:1 with the fields whose type is anonymous".
AnonymousFieldsAreOwn ==
    calls = {} =>
        \A r \in records : one_member_each(unit, r.from) =>
            \A p \in DOMAIN r.fields : \A l \in AnonLocs(child(unit, r.from, p).type) :
                \E q \in Batch(r.batch) :
                    unit[q.from].loc = l /\ q.anon /\ q.name = r.fields[p].anon

\* Two records lowered under one name come from one declaration, whatever batch
\* they are in: the closure keeps the first of a name and drops the others.
OneRecordPerName ==
    \A r, q \in records : r.name = q.name => r.from = q.from

\* However deep a complete struct is declared, it is indexed.
IndexFindsRecords ==
    Indexed => \A i \in DOMAIN unit : tagged(unit[i], "record") =>
                    /\ unit[i].name \in DOMAIN index.rec_by_name
                    /\ index.rec_by_name[unit[i].name] = i

\* A definition that clang names after a typedef is found under that name.
LinkageNamesFound ==
    Indexed => \A i \in DOMAIN unit :
        LET t == unit[i]
        IN  t.kind = "typedef" /\ Linked(t.type) # {} =>
                \/ /\ t.name \in DOMAIN index.anon_typedef_rec
                   /\ Linked(t.type) = {unit[index.anon_typedef_rec[t.name]].loc}
                \/ /\ t.name \in DOMAIN index.anon_typedef_enum
                   /\ Linked(t.type) = {unit[index.anon_typedef_enum[t.name]].loc}

\* The closure may take the result for a translation unit (Closure's proofs rest
\* on Lowers, TagsApart and one typedef per name), and finds every hoisted record
\* that is mentioned: otherwise it would stub it.
ServesClosure ==
    Pulled =>
        /\ C!Lowers(closure_unit) /\ C!TagsApart(closure_unit)
        /\ \A s, t \in closure_unit.typedef_by_name : s.name = t.name => s = t
        /\ \A s, t \in closure_unit.typedefs : s.name = t.name => s = t
        /\ \A n \in record_names \cup {NoName} : \A p \in parts(n) : \A m \in p.refs :
              Len(m) > 1 => m \in C!names(parts(n))

\* "First complete definition wins; forward declarations are skipped", of enums
\* as well.
IndexedEnumsAreComplete ==
    Indexed => \A i \in DOMAIN unit :
        unit[i].kind = "enum" /\ unit[i].constants # <<>> /\ unit[i].name # NoName =>
            unit[index.enum_by_name[unit[i].name]].constants # <<>>
=============================================================================
