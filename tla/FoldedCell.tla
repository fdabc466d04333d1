------------------------------ MODULE FoldedCell ------------------------------
(***************************************************************************)
(* What the fold of EmitMerged receives from one cell (emit.rs, fold_cell): *)
(* the closure of the cell's translation unit, as Closure has it, turned    *)
(* into keys with their references and renderings with their mentions.      *)
(*                                                                         *)
(* A dump holds a unit of Closure and what the fold reads beside it: the    *)
(* names an enum's fixed underlying type mentions, the declared functions,  *)
(* and of a name's definition what is neither name nor reference (`shape`), *)
(* its comment (`doc`, which is rendered and not hashed) and what the       *)
(* layout dump adds to a record (`layout`: its repr and the padding, and    *)
(* for the names in `checked` the assertions).                              *)
(***************************************************************************)
EXTENDS EmitMerged

CONSTANT Dumps  \* what one cell's AST and layout dump may hold

C == INSTANCE Closure WITH
    Units <- {d.unit : d \in Dumps}, unit <- {}, records <- {}, enums <- {},
    typedefs <- {}, opaque <- {}, queue <- {}

key(kind, name, shape, refs) == [kind |-> kind, name |-> name, hash |-> shape, refs |-> refs]
text(space, name, words, mentions) ==
    [space |-> space, name |-> name, text |-> words, mentions |-> mentions]

\* A record mentions what its fields do, also the types of the bit-fields that
\* its text folds into units; an enum is an alias of a primitive.
record_text(d, p) ==
    text("type", p.name, <<d.shape[p.name], d.doc[p.name], d.layout[p.name]>>, p.refs)
enum_text(d, n)    == text("type", n, <<d.shape[n], d.doc[n]>>, {})
typedef_text(d, t) == text("type", t.name, <<d.shape[t.name], d.doc[t.name]>>, t.refs)
check_text(d, n)   == text("check", n, <<d.layout[n]>>, {n})

\* The hash of a function covers its calling convention, its text does not.
folded_fn(f) ==
    [key       |-> key("Function", f.name, <<f.conv, f.shape>>, f.refs),
     rendering |-> text("fn", f.name, <<f.shape, f.doc>>, f.refs),
     conv      |-> f.conv]

\* A slip: a typedef counts for nothing.
tag_keys(d, c) ==
    {key("Record", p.name, d.shape[p.name], p.refs) : p \in c.records}
    \cup {key("Enum", n, d.shape[n], d.underlying[n]) : n \in c.enums}

\* The keys of the cell's types: a self-alias has one. An enum's references are
\* those of its underlying type, whether or not the closure followed them.
type_keys(d, c) ==
    {key("Record", p.name, d.shape[p.name], p.refs) : p \in c.records}
    \cup {key("Enum", n, d.shape[n], d.underlying[n]) : n \in c.enums}
    \cup {key("Typedef", t.name, d.shape[t.name], t.refs) : t \in c.typedefs}

\* A slip: self-aliases are written out.
all_typedefs(c) == c.typedefs

\* emit_typedef drops a self-alias.
rendered_typedefs(c) == {t \in c.typedefs : ~C!self_alias(t)}

type_texts(d, c) ==
    {record_text(d, p) : p \in c.records}
    \cup {enum_text(d, n) : n \in c.enums}
    \cup {typedef_text(d, t) : t \in rendered_typedefs(c)}

check_texts(d, c) == {check_text(d, n) : n \in d.checked \cap C!names(c.records)}

folded(d) ==
    LET c == C!closure_of(d.unit)
    IN  [keys       |-> type_keys(d, c),
         renderings |-> type_texts(d, c) \cup check_texts(d, c),
         fns        |-> [i \in DOMAIN d.functions |-> folded_fn(d.functions[i])],
         opaque     |-> c.opaque]

\* A dump: a unit as lowering makes it (Lowering's ServesClosure), whose own
\* enums and functions the closure was seeded with.
Dump(d) ==
    /\ C!Unit(d.unit) /\ C!Lowers(d.unit) /\ C!TagsApart(d.unit)
    /\ d.unit.enum_refs = UNION {d.underlying[n] : n \in d.unit.enums}
    /\ d.unit.signature_refs = UNION {d.functions[i].refs : i \in DOMAIN d.functions}
    /\ d.unit.signature_refs \subseteq Names

ASSUME FoldedAssumption ==
    /\ \A d \in Dumps : Dump(d)
    /\ Closures \subseteq {folded(d) : d \in Dumps}

\* No rendering mentions a name that phnt aliases to itself without a named
\* definition of its own (Closure's UnresolvedSeedsDangle).
SeedsResolved(d) ==
    \A r \in cell_renderings(folded(d)) : r.mentions \cap C!unresolved(d.unit) = {}

-----------------------------------------------------------------------------
(* Properties.                                                             *)

available(cl, n) == n \in cl.opaque \/ \E k \in cl.keys : k.name = n

\* Gate closure "holds by construction" and its check "should never fire"
\* (emit.rs 84).
GateClosureHolds == phase # "dangling"

\* Nothing but the fixed underlying type of an enum makes it fire: of every
\* other reference of every cell the closure has a definition or a stub.
DanglesOnlyThroughEnums ==
    phase = "dangling" =>
        \E c \in Captured : \E k \in input[c].keys :
            k.kind = "Enum" /\ \E n \in k.refs \ Prims : ~available(input[c], n)
=============================================================================
