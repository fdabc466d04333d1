----------------------------- MODULE MCFoldedCell -----------------------------
(***************************************************************************)
(* Small instances of FoldedCell. The phnt headers have a record S, a self- *)
(* alias of its own tag, and a function over it declared twice; outside are *)
(* a name H in every form, an enum E with a fixed underlying type or none,  *)
(* and a typedef W of a primitive. S hoists a member that holds its         *)
(* references. A `typedef struct {..} G` of phnt is mentioned nowhere: it is *)
(* written out nowhere either, and no reference dangles.                    *)
(***************************************************************************)
EXTENDS FoldedCell

CONSTANTS x86_64, user

At(v, a, s) == [ordinal |-> v, arch |-> a, surface |-> s]
Cells == {At(v, x86_64, user) : v \in {100, 107, 114}}

MCArchOrder == [a \in Arch |-> 1]

MCNames == {"S", "S__anon1", "F", "H", "E", "W", "G"}

Alias(n, rs) == [name |-> n, refs |-> rs, direct |-> TRUE]
Struct(n, rs) == [name |-> n, refs |-> rs]
Function(t, rs) == [name |-> "F", refs |-> rs, conv |-> "Default", shape |-> "a", doc |-> t]

UnitOf(refs, h) ==
    LET S == {Struct("S", {"S__anon1"}), Struct("S__anon1", refs)}
    IN  [rec_by_name       |-> [n \in IF h = "record" THEN {"S", "H"} ELSE {"S"} |->
                                   IF n = "S" THEN S ELSE {Struct("H", {"H"})}],
         anon_typedef_rec  |-> [n \in IF h = "anon_record" THEN {"H", "G"} ELSE {"G"} |->
                                   {Struct(n, IF n = "H" THEN {"E"} ELSE {})}],
         enum_by_name      |-> {"E"},
         anon_typedef_enum |-> {},
         typedef_by_name   |-> {Alias("S", {"S"}), Alias("G", {"G"}), Alias("W", {})}
                               \cup IF h = "tag" THEN {Alias("H", {"H"})} ELSE {}
                               \cup IF h = "typedef" THEN {Alias("H", {"W"})} ELSE {},
         records           |-> S,
         enums             |-> {},
         typedefs          |-> {Alias("S", {"S"}), Alias("G", {"G"})},
         enum_refs         |-> {},
         signature_refs    |-> {"S"}]

\* A release changes what S holds, what H is, how S is laid out, or a comment.
MCDumps ==
    {[unit |-> UnitOf(refs, h),
      underlying |-> [n \in MCNames |-> IF n = "E" THEN under ELSE {}],
      functions |-> <<Function("first", {"S"}), Function("again", {"S"})>>,
      shape |-> [n \in MCNames |-> IF n = "S" THEN refs ELSE IF n = "H" THEN h ELSE "a"],
      doc |-> [n \in MCNames |-> IF n = "E" /\ h = "tag" THEN "revised" ELSE "a"],
      layout |-> [n \in MCNames |-> IF refs = {"E"} THEN "packed" ELSE "natural"],
      checked |-> {"S"}] :
        refs \in {{"H"}, {"E"}, {"H", "E"}}, under \in {{}, {"W"}},
        h \in {"absent", "tag", "record", "anon_record", "typedef"}}

\* Nothing but G's own typedef mentions it, so that SeedsResolved is met.
ASSUME NoneMentionsG ==
    \A d \in MCDumps :
        /\ C!unresolved(d.unit) = {"G"}
        /\ \A k \in folded(d).keys : "G" \in k.refs => k.name = "G"
        /\ \A i \in DOMAIN folded(d).fns : "G" \notin folded(d).fns[i].rendering.mentions

MCClosures == {folded(d) : d \in MCDumps}

fn_decls == UNION {{cl.fns[i] : i \in DOMAIN cl.fns} : cl \in MCClosures}
MCKeys == UNION {cl.keys : cl \in MCClosures} \cup {f.key : f \in fn_decls}
MCRenderings == UNION {cl.renderings : cl \in MCClosures} \cup {f.rendering : f \in fn_decls}
=============================================================================
