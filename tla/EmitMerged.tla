------------------------------ MODULE EmitMerged ------------------------------
(***************************************************************************)
(* Merged emission (emit.rs, emit_merged): every captured cell's closure   *)
(* is folded into one state, the captured extent is taken from it, two     *)
(* checks may refuse it, and what is left is written as one source whose   *)
(* items carry #[cfg] predicates.                                          *)
(*                                                                         *)
(* A definition is known to the fold twice: by its key (kind, name,        *)
(* definition hash) and by its rendering (the emitted token text). `refs`  *)
(* of a key are the names its C types mention; `mentions` of a rendering   *)
(* are the names its text mentions. A self-alias typedef has a key and no  *)
(* rendering; a record's layout assertions have a rendering and no key.    *)
(***************************************************************************)
EXTENDS Merge, Sequences

CONSTANTS
    Names,
    Prims,       \* the names well_known_prim resolves
    Keys,        \* [kind, name, hash, refs]
    Renderings,  \* [space, name, text, mentions]
    Closures,    \* what one cell's dumps can lower and close to
    Unparsable,  \* a dump serde or the file system refuses
    Capturable,  \* the cells a capture may have been run for
    arch_order   \* the order in which the arches of a release are listed

Kind  == {"Record", "Enum", "Typedef", "Function"}
Space == {"type", "fn", "check"}
CallingConv == {"Default", "Stdcall", "Fastcall", "Cdecl", "Vectorcall"}
Abi == {"system", "C"}
Stub(n) == [space |-> "opaque", name |-> n]

\* Every real cell yields a non-empty module (CapturedAxis::cells rests on it).
ASSUME EmitAssumption ==
    /\ Capturable \subseteq Cell
    /\ arch_order \in [Arch -> Nat]
    /\ Prims \subseteq Names
    /\ \A k \in Keys : k.kind \in Kind /\ k.name \in Names /\ k.refs \subseteq Names
    /\ \A r \in Renderings :
          r.space \in Space /\ r.name \in Names /\ r.mentions \subseteq Names
    /\ \A cl \in Closures :
          /\ cl.keys \in SUBSET Keys
          /\ cl.keys # {}
          /\ cl.renderings \in SUBSET Renderings
          /\ cl.fns \in Seq([key : Keys, rendering : Renderings, conv : CallingConv])
          /\ cl.opaque \in SUBSET Names
    /\ Unparsable \notin Closures

VARIABLES
    input,        \* the captured cells, and what each one's dumps close to
    todo,         \* the cells still to fold
    occs,         \* occs[k]: the cells key k occurred in
    rendered,     \* rendered[r]: the cells that produced rendering r
    opaque_occs,  \* opaque_occs[n]: the cells in which n has no definition
    abi,          \* abi[r]: the extern block a function's rendering goes to
    axis,         \* the captured extent
    phase,
    crate         \* the emitted items, each with its cfg predicate

vars == <<input, todo, occs, rendered, opaque_occs, abi, axis, phase, crate>>

Phase == {"fold", "round_trip", "gate_closure", "assemble", "done",
          "unreadable", "phantom", "dangling"}

-----------------------------------------------------------------------------
(* One cell.                                                               *)

\* Functions deduplicated by name within a cell: the first declaration wins.
all_decls(fns) == {fns[i] : i \in DOMAIN fns}  \* a slip: no deduplication

first_decls(fns) ==
    {fns[i] : i \in {j \in DOMAIN fns :
        \A h \in 1 .. (j - 1) : fns[h].key.name # fns[j].key.name}}

cell_keys(cl)       == cl.keys \cup {f.key : f \in first_decls(cl.fns)}
cell_renderings(cl) == cl.renderings \cup {f.rendering : f \in first_decls(cl.fns)}

\* The extern block a cell would put a function's rendering in, if it has it.
reported_abi(cl, r) ==
    {IF f.conv = "Stdcall" THEN "system" ELSE "C" :
        f \in {f \in first_decls(cl.fns) : f.rendering = r}}

\* The cells in which `name` is a record, an enum or a typedef of any shape.
defined_occs(name) ==
    UNION {occs[k] : k \in {k \in Keys : k.kind # "Function" /\ k.name = name}}

-----------------------------------------------------------------------------
(* The two checks.                                                         *)

check_round_trip ==
    /\ \A k \in Keys : occs[k] # {} => exact(occs[k], axis)
    /\ \A r \in Renderings : rendered[r] # {} => exact(rendered[r], axis)

\* A referenced name that no cell ever made available is taken for a
\* primitive and skipped.
check_gate_closure ==
    \A k \in Keys : \A t \in k.refs \ Prims :
        LET avail == defined_occs(t) \cup opaque_occs[t]
        IN  avail # {} => occs[k] \subseteq avail

-----------------------------------------------------------------------------
(* Assembly.                                                               *)

stamped(item, cells) ==
    {[item |-> item, pred |-> p] : p \in arch_grouped_predicates(cells, axis)}

assemble_renderings ==
    UNION {stamped(r, rendered[r]) : r \in {r \in Renderings : rendered[r] # {}}}

\* A slip: the stub goes when the name is defined in any cell at all.
never_defined_occs(n) == IF defined_occs(n) = {} THEN opaque_occs[n] ELSE {}

undefined_occs(n) == opaque_occs[n] \ defined_occs(n)

assemble_opaque ==
    UNION {stamped(Stub(n), undefined_occs(n)) :
              n \in {n \in Names : undefined_occs(n) # {}}}

-----------------------------------------------------------------------------
Init ==
    /\ input \in UNION {[cells -> Closures \cup {Unparsable}] :
                           cells \in (SUBSET Capturable) \ {{}}}
    /\ todo = DOMAIN input
    /\ occs = [k \in Keys |-> {}]
    /\ rendered = [r \in Renderings |-> {}]
    /\ opaque_occs = [n \in Names |-> {}]
    /\ abi = [r \in Renderings |-> {}]
    /\ axis = {}
    /\ phase = "fold"
    /\ crate = {}

\* The caller lists the cells by ascending version, then by arch.
precedes(c, d) ==
    \/ c.ordinal < d.ordinal
    \/ c.ordinal = d.ordinal /\ arch_order[c.arch] < arch_order[d.arch]

next_cell(c) == c \in todo /\ \A d \in todo : ~precedes(d, c)

\* A slip: the extern block of a function is that of the cell folded last.
FoldCellOver(c) ==
    /\ phase = "fold"
    /\ next_cell(c)
    /\ input[c] # Unparsable
    /\ todo' = todo \ {c}
    /\ occs' = [k \in Keys |->
                  occs[k] \cup IF k \in cell_keys(input[c]) THEN {c} ELSE {}]
    /\ rendered' = [r \in Renderings |->
                  rendered[r] \cup IF r \in cell_renderings(input[c]) THEN {c} ELSE {}]
    /\ opaque_occs' = [n \in Names |->
                  opaque_occs[n] \cup IF n \in input[c].opaque THEN {c} ELSE {}]
    /\ abi' = [r \in Renderings |->
                  IF reported_abi(input[c], r) = {} THEN abi[r] ELSE reported_abi(input[c], r)]
    /\ UNCHANGED <<input, axis, phase, crate>>

FoldCell(c) ==
    /\ phase = "fold"
    /\ next_cell(c)
    /\ input[c] # Unparsable
    /\ todo' = todo \ {c}
    /\ occs' = [k \in Keys |->
                  occs[k] \cup IF k \in cell_keys(input[c]) THEN {c} ELSE {}]
    /\ rendered' = [r \in Renderings |->
                  rendered[r] \cup IF r \in cell_renderings(input[c]) THEN {c} ELSE {}]
    /\ opaque_occs' = [n \in Names |->
                  opaque_occs[n] \cup IF n \in input[c].opaque THEN {c} ELSE {}]
    /\ abi' = [r \in Renderings |->
                  IF abi[r] = {} THEN reported_abi(input[c], r) ELSE abi[r]]
    /\ UNCHANGED <<input, axis, phase, crate>>

FoldFails(c) ==
    /\ phase = "fold"
    /\ next_cell(c)
    /\ input[c] = Unparsable
    /\ phase' = "unreadable"
    /\ UNCHANGED <<input, todo, occs, rendered, opaque_occs, abi, axis, crate>>

\* A slip: the extent as the whole grid of captured versions and arches.
CaptureGrid ==
    /\ phase = "fold"
    /\ todo = {}
    /\ axis' = {c \in Cell : /\ c.ordinal \in ordinals(DOMAIN input)
                            /\ c.arch \in arches(DOMAIN input)}
    /\ phase' = "round_trip"
    /\ UNCHANGED <<input, todo, occs, rendered, opaque_occs, abi, crate>>

\* The extent is the union of every key's and every opaque name's cells.
CaptureExtent ==
    /\ phase = "fold"
    /\ todo = {}
    /\ axis' = UNION ({occs[k] : k \in Keys} \cup {opaque_occs[n] : n \in Names})
    /\ phase' = "round_trip"
    /\ UNCHANGED <<input, todo, occs, rendered, opaque_occs, abi, crate>>

CheckRoundTrip ==
    /\ phase = "round_trip"
    /\ phase' = IF check_round_trip THEN "gate_closure" ELSE "phantom"
    /\ UNCHANGED <<input, todo, occs, rendered, opaque_occs, abi, axis, crate>>

CheckGateClosure ==
    /\ phase = "gate_closure"
    /\ phase' = IF check_gate_closure THEN "assemble" ELSE "dangling"
    /\ UNCHANGED <<input, todo, occs, rendered, opaque_occs, abi, axis, crate>>

Assemble ==
    /\ phase = "assemble"
    /\ crate' = assemble_opaque \cup assemble_renderings
    /\ phase' = "done"
    /\ UNCHANGED <<input, todo, occs, rendered, opaque_occs, abi, axis>>

Next ==
    \/ \E c \in todo : FoldCell(c) \/ FoldFails(c)
    \/ CaptureExtent
    \/ CheckRoundTrip
    \/ CheckGateClosure
    \/ Assemble

Spec == Init /\ [][Next]_vars

-----------------------------------------------------------------------------
(* Properties.                                                             *)

Captured == DOMAIN input

\* The emitted entries a build at release v on arch a compiles.
Compiled(v, a) == {e \in crate : holds(e.pred, level(v), a)}

\* Type correctness of the fold state and of the emitted predicates: they
\* name only features of the floor's chain and captured arches.
TypeOK ==
    /\ Captured \subseteq Capturable
    /\ \A c \in Captured : input[c] \in Closures \cup {Unparsable}
    /\ todo \subseteq Captured
    /\ occs \in [Keys -> SUBSET Captured]
    /\ rendered \in [Renderings -> SUBSET Captured]
    /\ opaque_occs \in [Names -> SUBSET Captured]
    /\ abi \in [Renderings -> SUBSET Abi]
    /\ axis \subseteq Captured
    /\ phase \in Phase
    /\ \A e \in crate :
          /\ e.item \in Renderings \cup {Stub(n) : n \in Names}
          /\ e.pred.on \subseteq Modern
          /\ e.pred.off \subseteq Modern
          /\ e.pred.target_arch \subseteq arches(Captured)

\* A build never compiles two definitions of one name: two shapes of a type,
\* two declarations of a function, two sets of layout assertions for a record,
\* or one rendering twice through two of its gates. Two shapes of a type are
\* gated apart only through the whole chain fold, round trip, supersession.
OneDefinitionPerName ==
    \A v \in Modern, a \in arches(Captured) :
        \A e, f \in Compiled(v, a) :
            /\ e.item.space \in Space
            /\ e.item.space = f.item.space
            /\ e.item.name = f.item.name
            => e = f

\* Every name a compiled item's text mentions is compiled too, as a
\* definition or as an opaque stub (gate closure, cfg(A) => cfg(T)), in every
\* build from the floor onward, also one for a release that was not captured.
MentionsResolve ==
    \A v \in Modern, a \in arches(Captured) :
        \A e \in Compiled(v, a) :
            e.item.space \in Space =>
                \A n \in e.item.mentions :
                    \E d \in Compiled(v, a) :
                        d.item.space \in {"type", "opaque"} /\ d.item.name = n

\* The opaque stub of a name and a definition of it are never compiled
\* together: emit.rs says they are emitted "on gate-disjoint #[cfg]s".
StubsGateDisjoint ==
    \A v \in Modern, a \in arches(Captured) :
        \A e, f \in Compiled(v, a) :
            e.item.space = "opaque" /\ f.item.space = "type"
            => e.item.name # f.item.name

\* A build of a captured release declares a function with the convention that
\* its own dump reports: "the AST-reported calling convention picks "system" vs
\* "C"". On x64 the two are one; on x86 a stdcall function needs "system".
DeclaredAbi ==
    phase = "done" =>
        \A c \in Captured : c.ordinal >= FLOOR_ORDINAL =>
            \A f \in first_decls(input[c].fns) :
                f.conv = "Stdcall" => abi[f.rendering] = {"system"}

\* Stubs and definitions are apart, if the stubs pass the check that the round
\* trip makes of keys and renderings only.
StubsExact == \A n \in Names : undefined_occs(n) # {} => exact(undefined_occs(n), axis)

ExactStubsAreDisjoint == StubsExact => StubsGateDisjoint

\* A build does so, if the first cell folded that has the declaration does.
first_to_declare(r) ==
    {c \in Captured :
        /\ reported_abi(input[c], r) # {}
        /\ \A d \in Captured : reported_abi(input[d], r) # {} => ~precedes(d, c)}

FirstReportsStdcall ==
    \A c \in Captured : \A f \in first_decls(input[c].fns) : f.conv = "Stdcall" =>
        \A d \in first_to_declare(f.rendering) :
            reported_abi(input[d], f.rendering) = {"system"}

AbiOfTheFirst == phase = "done" => (FirstReportsStdcall => DeclaredAbi)

\* An item is missing from a captured cell in the middle of those it occurs in:
\* of an arch and a surface it has, and of a release within its span.
gap(cells) ==
    \E c \in axis \ cells :
        /\ c.arch \in arches(cells) /\ c.surface \in surfaces(cells)
        /\ \E lo, hi \in cells : lo.ordinal <= c.ordinal /\ c.ordinal <= hi.ordinal

\* The round trip refuses "a version gap or arch x version entanglement" and
\* nothing else: an item that came or went for good, on any part of a partly
\* captured matrix, never stops the generation.
RefusedForAGap ==
    phase = "phantom" =>
        \/ \E k \in Keys : gap(occs[k])
        \/ \E r \in Renderings : gap(rendered[r])

\* Merged emission implements GatedCrate: what a build sees is the projection
\* onto one captured cell. Opaque stubs are not part of that promise.
cellShape == [c \in Captured |->
    IF input[c] = Unparsable THEN {} ELSE cell_renderings(input[c])]

visibleItems == [v \in Modern |-> [a \in arches(Captured) |->
    {e.item : e \in Compiled(v, a)} \cap Renderings]]

crateOutcome == CASE phase = "done" -> "published"
                  [] phase \in {"unreadable", "phantom", "dangling"} -> "refused"
                  [] OTHER -> "pending"

Crate == INSTANCE GatedCrate WITH
    Items      <- Renderings,
    captured   <- Captured,
    unreadable <- {c \in Captured : input[c] = Unparsable},
    shape      <- cellShape,
    outcome    <- crateOutcome,
    visible    <- visibleItems

ImplementsGatedCrate == Crate!CrateSpec
=============================================================================
