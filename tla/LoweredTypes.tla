----------------------------- MODULE LoweredTypes -----------------------------
(***************************************************************************)
(* Lowering with the C types of CTypes: what Lowering leaves to its         *)
(* constants, and whether types arrive as they were declared.               *)
(***************************************************************************)
EXTENDS Lowering, CTypes

CONSTANT Locations

parsed(t) == parse(spell(t))

\* The locations of the anonymous types a C type mentions.
RECURSIVE anon_locs(_)
anon_locs(t) ==
    CASE t.is = "anon" -> {t.loc}
      [] t.is = "ptr" -> anon_locs(t.to)
      [] t.is = "arr" -> anon_locs(t.of)
      [] t.is = "fn" -> anon_locs(t.ret) \cup UNION {anon_locs(t.params[i]) : i \in DOMAIN t.params}
      [] OTHER -> {}

linked_loc(t) == IF t.is = "linked" THEN {t.loc} ELSE {}

\* A location is no name.
named_refs(c) == {n \in collect_refs(c) : n[1] \notin Locations}
bare_name(c)  == IF c.is = "Named" THEN {c.name} ELSE {}
result(c)     == IF c.is = "FnPtr" THEN c.ret ELSE c

field_types(u) == {u[i].type : i \in {i \in DOMAIN u : u[i].kind = "field"}}

\* What lowered_field abstracts: map_leaves turns the anonymous leaves into the
\* name, and leaves the other references alone.
ASSUME FieldRefsAssumption ==
    \A u \in Units : \A t \in field_types(u) : \A n \in {<<"S", 1>>, <<"S", 1, 2>>} :
        HasAnon(Parsed(t)) => /\ collect_refs(name_anon(Parsed(t), n)) = Refs(Parsed(t)) \cup {n}
                              /\ ~HasAnon(name_anon(Parsed(t), n))

read_as(f) == IF f.anon = NoName THEN f.type ELSE name_anon(f.type, f.anon)

\* The type of every member and typedef of a supported form is read as what
\* was declared.
TypesReadBack ==
    /\ \A r \in records : \A p \in DOMAIN r.fields :
          LET t == child(unit, r.from, p).type
          IN  supported(t) => reads_as(read_as(r.fields[p]), t)
    /\ \A d \in module.typedefs : \A i \in DOMAIN unit :
          unit[i].kind = "typedef" /\ unit[i].name = d.name /\ supported(unit[i].type) =>
              reads_as(d.type, unit[i].type)

\* "Anything unrecognized becomes Unknown ... rather than silently
\* mis-emitted": a member's type is read as what was declared, or an Unknown
\* shows that it was not.
MisreadingsAreUnknown ==
    \A r \in records : \A p \in DOMAIN r.fields :
        \/ reads_as(read_as(r.fields[p]), child(unit, r.from, p).type)
        \/ has_unknown(r.fields[p].type)
=============================================================================
