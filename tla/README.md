# A formal model of phnt-bindgen

The TLA+ modules in this directory model the core of `phnt-bindgen`
(`crates/phnt-bindgen`), the generator that runs clang over a matrix of Windows
releases, architectures and surfaces and folds the results into one Rust source whose
items carry `#[cfg]` predicates. TLC checks the modules on small instances; TLAPS proves
the main results for every value of the constants.

## 1. The system

A *cell* is one configuration (version, arch, surface). For every cell the driver writes
a clang AST dump and a record-layout dump. `generate-merged` then folds all captured
cells into the crate.

| Part | Source | State | Operations | What makes it correct |
| --- | --- | --- | --- | --- |
| version matrix | `matrix.rs` | none (static table) | `lookup`, `floor`, `feature_for_ordinal`, `feature_chain_toml` | the `[features]` table gives a build the gates of one release and of all older ones |
| gate derivation | `merge.rs` | none (pure) | `derive_gate`, `enables`, `version_parts`, `arch_grouped_predicates` | the predicates of an item admit exactly the cells it occurred in |
| merged emission | `emit.rs` 74-537 | `FoldState`, `CapturedAxis` | `fold_cell`, `check_round_trip`, `check_gate_closure`, `assemble_*` | filtering the crate by a configuration gives that configuration's cell |
| closure | `emit.rs` 563-693 | `Closure`, worklist | `compute_closure` | everything mentioned is defined or stubbed, and nothing more is pulled in |
| universe index | `universe.rs` | `Index` | `build_index` | first complete definition wins; an anonymous struct gets its typedef's name |
| lowering | `ir.rs` | AST to `Module` | `lower*`, `definition_hash` | hoisted anonymous members keep their field, under a name of their own |
| C type parser | `ctype.rs` | none (pure) | `parse`, `collect_refs`, `map_leaves`, `to_rust` | the type read is the type declared, or it is marked unknown |
| item rendering | `emit.rs` 695-1380 | none (pure) | `emit_record`, `emit_enum`, `emit_typedef`, `emit_functions` | the text says what the item is |
| record layout | `emit.rs` 755-1160, `verify.rs` | per cell | `record_repr`, `synth_padded_fields`, `emit_bitfield_units`, `record_check` | Rust's layout equals clang's |
| capture driver and CLI | `driver.rs`, `main.rs` | files on disk | `capture_ast`, `capture_layouts`, `generate`, `generate-merged` | what is merged is what was captured, whole; bindings and feature table belong together |
| manifest, constants | `manifest.rs`, `constants.rs` | none (static table, placeholder) | `surface_headers` | outside the model |
| generated bindings | `src/ffi`, `src/cty` | none | | output of an older generator; 254,000 of the repository's 260,000 lines |
| build script and CI | `src/build.rs`, workflow | files on disk | vendored or regenerated `bindgen` output | outside the generator |

Within one command the parts call each other in one direction and in one thread: driver
to dumps, dumps through `ir`, `universe` and `compute_closure` to one closure per cell,
closures through the fold to gates, gates to the crate, and the crate together with
`features.toml` to Cargo and rustc. There are no threads, locks or callbacks inside a
command. The commands themselves are processes that meet in the artifact directory:
nothing is locked or replaced atomically, and each can be killed between any two writes.
What else is hard here is combination: many cells folded one after another, only some of
the matrix captured, an item that comes, changes and goes; a recursive walk whose order
decides what a name becomes; checks that judge one thing while another is emitted; and
features that are united by a tool outside the program. `PROJECT.json` ("hazards") lists
these at their lines.

## 2. Modules

- `Matrix` is the version table, the floor, the feature chain. `VERSIONS` and
  `FLOOR_ORDINAL` are constants; `MatrixAssumption` says what the code relies on (a
  finite table of naturals that holds the floor). A feature is named by the ordinal it
  stands for.
- `Merge` (extends `Matrix`) is gate derivation. An occurrence set is a set of cells. A
  predicate is a record of the features it requires, those it forbids and the arches it
  names; `holds` is rustc's evaluation. An `Option` is a set of at most one element.
- `EmitMerged` (extends `Merge`) is the fold. `input` is what the captured cells' dumps
  close to, or that one cannot be read. `occs`, `rendered`, `opaque_occs` and `abi` are
  `FoldState`; `axis` is `CapturedAxis`; `crate` is the output. `FoldCell`/`FoldFails`
  are one turn of the loop over cells (`fold_cell` with or without `?`), in the order of
  `run_generate_merged` (`next_cell`: by version and, in one version, by the order in
  which the driver lists the arches, `arch_order`). `CaptureExtent`, `CheckRoundTrip`,
  `CheckGateClosure` and `Assemble` are the rest of `emit_merged`, in order.
- `GatedCrate` is the abstract specification: a crate is published at once, and a build
  for release v on arch a sees the items of exactly one captured cell, the newest one of
  its arch not newer than v; or generation refuses. `EmitMerged` implements it with the
  mapping at its end.
- `Closure` is `compute_closure`. `unit` is one translation unit: the index and the phnt
  module. One action per branch of the loop; `Lower` is the common body of the two
  record branches. The worklist is a set: any of its names may be next. `closure_of` is
  the same walk as a function of the unit: the least closed set of names (`reached`),
  and what the index has under each.
- `FoldedCell` (extends `EmitMerged`, instantiates `Closure`) is the seam between the
  two. A dump is a unit of `Closure` with what the fold reads beside it: the names in
  the underlying types of enums, the declared functions, and for each name what tells
  its definitions apart (`shape`), its comment, and its layout. `folded(d)` is what the
  fold receives of it: keys, renderings, functions and stubs of `closure_of(d.unit)`.
  `FoldedAssumption` says that the `Closures` of `EmitMerged` are such.
- `Layout` is the record layout of one unit. `clang` is clang's layout of every record
  (operators that follow its windows-msvc rules; external), of which the emitter sees
  the tagged ones (`parse_layouts`); `cx` is the `AlignCtx` the emitter passes around.
  `Measure` and `Propagate` are the two passes of `compute_reprs`, `Emit` is
  `emit_record` for each record. `rustc` is rustc's layout of the result (external),
  `record_check` what the assertions compare.
- `CTypes` is the C type parser. A text is a sequence of tokens. `spell` is clang's
  declarator syntax (external); `parse` and the operators before it are `ctype.rs`,
  branch by branch and in its order; `meaning`, `supported` and `reads_as` say what the
  result should be and are used by properties only.
- `Lowering` turns a dump into what the closure walks. `unit` is the sequence of the
  dump's nodes in document order, each with the numbers of its children. `module` and
  `index` are `Module` and `Index`. One action per arm of `lower`'s match, which stands
  at the top-level node `at`. A record is lowered call by call: `lower_record` pushes
  the record to `records` and leaves in `calls` the calls it makes for the definitions
  its fields took. `Walk` is one call of `walk`, for the first node in document order
  that is not in `walked`. `PullRecord` and `PullAnonRecord` start the lowerings that
  `compute_closure` asks for; the records of one such lowering carry the name asked for
  in `batch`. A hoisted record's name is the sequence of its parent's name and its
  number, which is how `<parent>__anon<N>` is built. `closure_unit` is what
  `compute_closure` makes of all of it, in the form of `Closure`'s `unit`; the module
  instantiates `Closure` to ask for that module's assumption. What a C type is, and what
  is read off its text, are constant operators (`Parsed`, `Refs`, ...);
  `UnitsAssumption` says what a dump is: a tree (`Tree`), with C's one definition per
  tag and one type per typedef (`Declared`), clang's names for linkage (`Linkages`), and
  types that keep the names they mention (`Spelled`).
- `LoweredTypes` (extends `Lowering` and `CTypes`) gives those operators: the types of
  `CTypes` and what `parse` makes of their spelling. `TypesReadBack` is here.
- `Artifacts` is the artifact directory and the commands that share it. `wrapper`,
  `dump`, `crate` and `features` are files: absent, cut short or whole, with what they
  were made of. `capture[d]` is where the `ast` or `layout` command that writes dump d
  has got to, `merge` where `generate-merged` has. Creating a file and writing it are
  two steps, as `File::create` truncates; `Kill` and `KillMerge` may come in between.
- `CargoFeatures` (extends `Merge`) is the reader of the feature table: Cargo's
  unification of all requests and its implications. This is external code, modelled from
  how the gates use it.

`MC*` modules give the instances, `*Proofs` modules hold the theorems, and `Extrema` two
lemmas about minima and maxima that two of them need. A definition whose comment calls
it a slip is a plausible mistake in the operator next to it; no specification uses it,
and the runs find it when it takes that operator's place.

What the data abstracts: a key stands for (kind, name, definition hash) and a rendering
for (name, token text). Both are drawn from a small set. `refs` of a key and `mentions`
of a rendering are the names in the C type and in the text; they differ, and the
difference matters: a self-alias typedef has a key and no rendering, layout assertions
have a rendering and no key.

## 3. Runs

| Run | Question | Bounds |
| --- | --- | --- |
| `emit_merged` | Are the fold and its gates right for every partial capture? | five cells (three releases, one below the floor, on x86_64; two on x86), any nonempty subset captured, each with one of six closures or unreadable: 189,941 states |
| `folded_cell` | Does the fold keep its promises on what the walk makes of dumps? | thirty dumps that differ in what a record holds, in what is known of a name and in an enum's underlying type; three releases of one arch, any nonempty subset captured: 58,343 states |
| `closure` | Is the closure closed, minimal, right about stubs, does the order matter, and does it end? | every unit of three names in every declared form, phnt or not, with up to two references: about 450,000 states |
| `cargo_features` | Is a resolved build the level of one release? | two dependents, up to two requests each from six releases, `default` and `legacy`: 15,553 states |
| `layout` | Does rustc lay out what is emitted as clang measured it? | 8,748 units: one record of up to three fields under four packings, or over-aligned; a record in a record, each packed or aligned; anonymous in anonymous in tagged: 29,652 states |
| `lowering` | Are types, members and definitions read as they were declared? | 2,381 units: every C type of three wrappings of six base types, every struct of three members in eight forms, every file of three declarations in a dozen forms; the closure asks for the records in any order: 35,017 states |
| `artifacts` | What can a merge read and leave behind, with commands side by side and killed? | two cells, one change of headers, three captures, any number of merges: 600,095 states |
| `stubs_gate_disjoint` | violation: stubs and definitions "on gate-disjoint `#[cfg]`s" | three releases, one arch |
| `dangling_seed` | violation: no dangling reference is emitted | as `closure` |
| `unchecked_anon` | violation: the parity assertions catch what the emitter misjudges | a union of an anonymous struct and an integer |
| `misread_types` | violation: a type that is not read right is unknown | the types of `lowering` |
| `forward_enums` | violation: "first complete definition wins" for enums | the files of `lowering`, with enums declared ahead |

**Why the bounds are enough.** A gate has one lower and one upper bound per arch, so
three releases on one arch already give an item that appears, disappears and is
superseded; a release below the floor exercises clamping; a second arch captured for
other releases exercises the partial-capture rule and the arch grouping. The closures
hold a record that changes shape and layout, a layout assertion, a function declared
twice, a name that is opaque in one cell and defined in another, and an enum whose
underlying type is not followed. Builds are judged at a release that was never captured
(107), too. The dumps of `folded_cell` are chosen so that a name is in turn undefined,
an incomplete tag, a record, an anonymous record and a typedef, and so that an enum
brings a name that no other cell knows. The theorems below remove these bounds. In the
closure, three names are enough for every pair of declared forms to meet through a
third, self and mutual recursion, and a hoisted member that carries the references. In
the layout, a rule looks at a field, the one before it and the record's measured size
and alignment, so three fields put a field between two others; primitives of 1, 4 and 8
bytes with packings 1, 2 and 4 make each of packed, natural and over-aligned occur; two
anonymous levels make the propagation take two turns. In the lowering, the parser's
branches look at the two ends of a text and at its first `(*`, so three wrappings reach
every branch from every other; three members put an anonymous one before, between and
after others, and two hoisted levels let names of different depth meet; three
declarations are a definition, its typedef and something between them. `EveryForm` makes
TLC check that functions, pointers to them, callbacks and arrays of pointers are among
the types. In the artifact store, three captures are the two of one cell and one of the
other, or one that is repeated after a kill; two cells are enough for one to be listed
and truncated while the other is read. The proofs of that module remove the bounds.

**What the passing runs show.** `OneDefinitionPerName`: two shapes of a record, two
declarations of a function or two sets of layout assertions are never compiled together.
`MentionsResolve`: what a compiled item mentions is compiled with it, as a definition or
a stub. `ImplementsGatedCrate`: a build sees one captured cell, all of it and nothing
else. `RefusedForAGap`: an item is refused only if a captured cell amid its own arches
and releases lacks it. `ExactStubsAreDisjoint`: a stub and a definition are never
compiled together if the stub's cells pass the judgement that the round trip makes of
keys and renderings; without that premise it is the first finding. `AbiOfTheFirst`: a
stdcall function is declared as one in every captured release if the first cell folded
that has the declaration reports it so; without that premise it fails (section 4).
`DanglesOnlyThroughEnums`: the gate closure fails over an enum's underlying type or not
at all, and the run reaches states in which it fails. `ClosedWhenDone`,
`OpaqueOnlyUndefined`, `Minimal`, `Terminates`: the closure is the least closed set,
stubs only names without a definition, and ends. `OrderDecidesNothing`: every order of
the worklist ends with the tables of `closure_of`. `Progresses`: each turn settles a
name or shortens the queue. `UnresolvedSeedsDangle`: what is mentioned and not written
out is exactly what is mentioned of the names that phnt aliases to themselves without a
named definition of its own; that there are such mentions is the second finding.
`Faithful`: size, alignment and every field's offset agree, for anonymous records too,
in units all of whose records the emitter's rules cover (`reproducible`, which lists
what they do not: it is the emitter's support, found by letting TLC refute the
unconditional property). `VerbatimUnlessOverAligned`: padding is written for
over-aligned fields only. `Settles`: the packing propagation ends.
`AnonymousFieldsAreOwn`: a member of anonymous type refers to the record hoisted from
its own definition, at every depth; it holds for structs in the form `ir.rs` 600
describes (`one_member_each`: every anonymous definition is the type of one member). A
struct that declares two members of one anonymous type, or a member of an anonymous
enum, does shift the pairing. `OneRecordPerName`: no two records of different
declarations meet under one name, in the module or in what the closure asks for, where
the first of a name stays. `TypesReadBack`: every type in the forms the parser documents
is read as it was declared, but for the constness of what a pointer to a pointer points
to. `IndexFindsRecords`, `LinkageNamesFound`: a complete struct is indexed however deep
it is declared, and an anonymous definition under the typedef that names it.
`ServesClosure`: the result is a unit in the sense of `Closure`'s assumption, and every
hoisted record that is mentioned is in the batch of the record that mentions it.
`CrateHasEveryListedCell`: bindings hold every cell that was listed, each from an AST
clang had finished. `UnitsAreOfTheHeaders`: no unit comes from an empty wrapper; cells
whose `ast` and `layout` commands ran side by side are excluded (`overlapped`), because
one truncates the wrapper the other's clang reads and TLC finds the empty unit in the
crate. `TableBesideBindings`: bindings without their feature table are those of a merge
that is running or was killed. `OneLevel` and `NewestRequested`: the features a build
ends up with are what `level` in the emission properties takes for granted.

**Deadlock** is not checked: the generator, the closure, the lowering, the layout passes
and Cargo's resolution end, and the artifact store comes to rest when its bound of
captures is used up.

**Fairness.** `Closure` and `Layout` have weak fairness on their next step: each is a
sequential loop and nothing in its body waits. A command of `Artifacts` may be killed
and never run again, so nothing there is promised to happen. No other specification
needs fairness; the emission's phases are straight-line code and its promise is safety.

## 4. What the violation runs show

1. *Stubs are not gated apart from definitions* (`emit.rs` 385, 394). The stub's
   occurrence set is never round-trip-checked. Opaque in one release, defined in the
   next, opaque again in a third: the stub's gate is open and covers the middle one.
2. *A phnt self-alias is never stubbed* (`emit.rs` 580, 1220). Seeded typedefs count as
   known, so the worklist does not resolve them, and the emitter drops them. The trace
   has a tag that is completed nowhere. The same happens to a phnt `typedef struct {..}
   X`: its definition is complete but nameless, so `lower` skips it (`ir.rs` 533), and
   the walk never comes to the index entry that would lower it as X (`emit.rs` 623).
   `unresolved` in `Closure` has both.
3. *A misplaced anonymous record passes the assertions* (`emit.rs` 1140, `verify.rs`
   220). Bit-fields of two types of one size share storage in C; the emitter gives each
   its own. In an anonymous struct inside a union nothing compares the result. Outside a
   union the same mistake usually changes a size or an offset and the assertions stop
   the build, which is why it is the pair that is reported.
4. *A pointer to a function pointer is read as the function pointer* (`ctype.rs` 378).
   What stands between the `(*` and the parameters is not looked at. The documentation
   says that what is not recognized becomes `Unknown` and is counted; no `Unknown` is
   built here, and nothing counts them. `VOID (*x[4])(VOID)` is read the same way, but
   there the size assertion of the record fails.
5. *A forward declaration of an enum is indexed* (`universe.rs` 47, 61). Records are
   indexed when complete, enums always, and the first entry of a name stays. An enum
   that is declared ahead and pulled in by the closure is emitted without enumerators.

Three more things came up that no violation run stands for; the proofs say when they
matter.

- *An enum pulled from outside phnt does not queue its fixed underlying type* (`emit.rs`
  635; the seed does so for phnt's enums, 591-595), while the fold records the reference
  (324-327). As long as no cell has the type it passes for a primitive. Once another
  release mentions it elsewhere, the gate closure refuses the whole crate, which the
  comment at 80-86 says "should never fire". `ClosureFailsOverEnums` proves that nothing
  else makes it fire, and `GateClosureByConstruction` that it does not if those types
  are primitive or reached anyway.
- *The ABI of a function is that of the cell folded first* (`emit.rs` 352-362). The
  grouping key is the name and the declaration text, which holds no ABI. If the oldest
  capture that has a function is 64-bit only, x86 builds declare a stdcall function
  `extern "C"`. `FirstCellDecides` proves that this is the only way: where x86 is
  captured for the oldest such release it is folded first (the arches of a release are
  taken in the order of `Arch`), and `"system"` is right on both.
- *The round-trip check refuses items that are entangled over arches and releases*
  though the predicates stamped on them would be right (`emit.rs` 457): it judges the
  one rectangle around all occurrences. That is conservative and allowed by
  `GatedCrate`. `RefusalsAreWarranted` proves that what it refuses always has a gap in
  that rectangle.

## 5. Proofs

TLAPS checks every step; constants are arbitrary up to the named assumptions.

`MergeProofs` is the arithmetic of gates. `GateFaithful`: if one surface is captured and
`exact` (the round-trip check) accepts an occurrence set, then a stamped predicate of it
holds in a build for v on a exactly when the newest captured cell of a not above v is in
the set. The argument: on one arch an exact set is an interval of the captured releases
(`ExactIsInterval`), the version part of its predicate describes that interval in terms
of `level(v)` (`VersionPartsHold`), and the arch group adds the arch (`StampedReading`).
`OnePredicatePerArch` says that at most one of an item's predicates holds in a build.

`EmitMergedProofs` proves `Spec => []IInv`. The type invariant and the safety properties
are not inductive: they speak of the crate, which appears in one step. `IInv` says that
the fold state is exactly what the folded cells contain (`FoldInv`), that the extent is
the set of captured cells once taken (it rests on every closure having a key), and that
every later phase was reached through the checks before it (`PhaseInv`). From it follow

- `TypeCorrect`;
- `NeverTwoDefinitions`, assuming `OneRenderingPerName` (a cell renders a name once in
  each name space);
- `EveryMentionResolves`, assuming `ClosedClosures` (what a cell's renderings mention is
  rendered or opaque);
- `EmissionIsFaithful`: the refinement of `GatedCrate`, without either assumption;
- `RefusalsAreWarranted`: a set of cells without a gap passes the round trip
  (`InexactHasGap` in `MergeProofs`);
- `StubsAreDisjoint`: a stub and a definition of its name have disjoint occurrence sets,
  so the faithfulness of both gates keeps them apart;
- `FirstCellDecides`, by an invariant of its own, `AbiInv`: a block is that of the first
  reporter among the cells folded so far, and none of these is preceded by a cell still
  to fold.

The same module then takes `Closures` to be what `FoldedCell` makes of dumps, and the
two assumptions above become theorems. `CellsRenderOnce` proves `OneRenderingPerName`
for every dump. `CellsAreClosed` proves `ClosedClosures` if no rendering mentions an
unresolved name (`SeedsResolved`); the second finding is what happens otherwise. So
`DumpsNeverDefineTwice` and `DumpsNeverDangle` speak of the whole path from a
translation unit to a compiled build; of assumptions about closures only `SeedsResolved`
is left, in the second.
`ClosureFailsOverEnums` follows from the same facts: a reference of a record, a typedef
or a function is among what the walk followed, and only an enum's need not be.

What speaks of several cells at one build (`NeverTwoDefinitions`,
`EveryMentionResolves`, `EmissionIsFaithful`, `StubsAreDisjoint` and what is composed of
them) assumes `SingleSurface`: predicates do not name a surface, and `generate-merged`
captures the user surface only. The others hold for any surfaces.

`ClosureProofs` proves for every translation unit that the tables are disjoint
(`TypeCorrect`), that only undefined names are stubbed (`StubsAreUndefined`), that the
result is closed (`ClosureIsClosed`: every reference of a lowered definition is either
known or still in the queue), that it is minimal, and that it is a function of the unit.
For the last two every branch of the loop is first shown to do the same thing: it
settles the popped name with what the index has under it (`TurnSettles`). The invariant
`WalkInv` then says three things of the settled names: the tables hold what the index
has under them (`Tables`), what they lead to is settled or queued (`Followed`), and all
of them, with all that is queued, are in `reached` (`Needed`). When the queue is empty
the settled names are closed, and being within the least closed set they are that set:
`ClosureIsAFunction`. This is why the FIFO worklist of the code may be a set here, and
`closure_of` may stand for the walk in `FoldedCell`. `EveryTurnCounts` leaves of
termination only that there are finitely many names and that the loop goes on.
`WhatDangles` is the theorem of `UnresolvedSeedsDangle`: a seeded self-alias is known
from the start, so that nothing is pulled under its name (`UnresolvedIsNotEmitted`), and
every other name that is mentioned ends in a table that is written out.

`ArtifactsProofs` proves `Spec => []IInv` for any number of cells, captures and header
revisions, with any command killed at any step. The properties speak of the crate; what
makes them true is earlier. `IInv` says of a cell whose commands never ran side by side
that at most one is running (`Alone`), that past the wrapper it has the wrapper whole
(`Wrapped`), and that what clang streams and every whole dump is of some revision of the
headers (`Streamed`); and of the merge that listed cells are read or still to read
(`Accounted`), that what is written is what was read (`Written`), and that what was read
was whole and of the headers (`Sound`). `NoCellIsLeftOut`, `NoEmptyUnit` and
`TableAccompanies` follow from it.

`LayoutProofs` is about records of any number, fields and nesting, whose sizes and
alignments are powers of two. The layout of a record is defined from those of the
records it embeds; `ClangIsDefined` and `NaturalIsDefined` show that such definitions
have a solution (`NestingExists`, along the depth of the nesting that `LayoutAssumption`
provides), and `RunExists` does the same for a run over the fields. On that rests
`Invariance`, and `TypeCorrect` from it. `PaddingIsForOverAlignment`: in a record that
is not declined clang's run stands at the end of the previous field (`RunEnds`), the
alignment clang used divides the one the emitter assumes of the type
(`FieldAtMostNatural`), and rounding up to it therefore goes no further
(`RoundUpMonotone`).

`LayoutIsReproduced` is `Spec => []Faithful`. Its steps:

- clang's alignment of a field is the natural one capped by the `#pragma pack`
  (`AlignIsCapped`), also where the emitter takes a hoisted record's alignment from the
  dump (`HoistedAreBelieved`). The packing handed down to anonymous records stays
  between their own alignment and that pack at every turn, and at the fixpoint no record
  is missing one (`PackingIsHanded`); with the chosen repr every field and record has
  clang's alignment (`FieldIsAligned`, `RecordIsAligned`);
- the emitter opens a storage unit for a bit-field exactly when clang does
  (`JoinsIsShares`), so its run over the fields stays beside clang's (`InStep`);
- rustc's run over a record emitted verbatim stands where clang's does after every field
  (`VerbatimIsReproduced`); a padded record reaches every measured offset and the size,
  since under `packed` rustc adds nothing of its own (`PaddedStep`,
  `PaddedIsReproduced`);
- each uses that the records embedded have clang's size; `RustcIsClang` puts them
  together along the depth of the nesting.

Beside `LayoutAssumption` it assumes `reproducible`, the hypothesis of `Faithful`. The
proof showed that an earlier form of it was too weak, and TLC found the units: a
bit-field or a hoisted record beside an over-aligned field, and an anonymous record
under a pack that the record around it does not have. `Faithful` does not speak of
these; for named records the parity assertions decide, for anonymous ones see the third
finding.

`LoweringProofs` proves `Spec => []IInv` for units of any size and nesting, any types
that satisfy `Spelled`, and every order in which the closure asks for records. The
properties speak of finished lowerings; the invariant also speaks of the calls still to
be made (`lowerings`, records and calls together). `HoistInv` says that what is hoisted
is exactly what the fields of lowered records took; `OneName` follows for a new call
because its name ends in the number of the field that took it, so that two calls of one
name have parents of one name, which are one declaration. `BatchInv` says that the
outermost record of a batch is what the batch was started for, and that the closure asks
only when the walk has ended; a name it asks for therefore has no record of another
declaration. `IndexInv` relates the index to the nodes walked. From the invariant follow

- `MembersAreOwn`: the definitions up to a member's own and the anonymous fields up to
  the member are in bijection (`TakesItsOwn`), so that they have one number;
- `StructsAreIndexed` and `LinkagesAreFound`: a set of nodes that holds the first and
  the children of its nodes is the whole dump (`ReachesAll`: a least node outside it
  would have its parent inside), so what the walk has visited when it ends is
  everything;
- `NamesAreUnique`, `TypeCorrect`, and `LoweredUnitServes`, which discharges `Lowers`,
  `TagsApart` and the one typedef per name that `ClosureProofs` and `FoldedCell` assume.

They rest on `UnitsAssumption`, which TLC evaluates on every unit of the runs.

`CargoFeaturesProofs` proves, besides `TypeCorrect`, for every version table, any
dependents and any requests that a resolved build is a level (`BuildsAreLevels`: a set
of releases closed under "the one before" is an initial segment from the floor) and
which one it is (`NeverNewerThanRequested`). The emission properties read gates at
`level(v)`; this is why they may.

**Only model-checked:** `Terminates` and `Settles` (liveness under fairness is outside
the prover's reach; `EveryTurnCounts` is the part of the first that is not), and
`TypesReadBack`, since types nest and the operators over them are recursive. The
findings are traces, not theorems.

## 6. Not modelled, and the plan

Left to do, in this order:

1. `Layout`: records whose layout dump is missing or cut short keep `repr(C)` without an
   assertion.
2. Enumerator values and the width inferred from them (`emit.rs` 1230-1300): what a
   value node looks like is clang's choice, and the cases worth checking (an initializer
   wrapped in a cast, an underlying type that is a typedef) depend on it.

Within what is modelled, these are left out. In `Lowering`: a `typedef struct {..} *P,
T`, where the pointer's typedef stands between the definition and the name; a self-alias
of another tag right after an anonymous definition, which `walk` pairs with it; the
values and widths above; documentation. In `Layout`: a bit-field whose type is no
primitive (an enum, `_Bool`), for which the emitter takes a unit of 4 bytes (`emit.rs`
1129), and a record that only a typedef names, which has no entry in the layout dump
under that name (`verify.rs` 26) and therefore no measured repr and no assertion. In
`CTypes`: the spelling of the result (`to_rust`, `sanitize_ident`), and blanks. In
`Artifacts`: two commands with the same output; a clang that goes on after its command
was killed; a file read while it is written (a read is one step); the `stderr` files;
`generate`, which reads one cell's dumps and writes one file, `parse`, which writes
nothing, and `--print-cmdline`, which ends after the wrapper. Two things the code
accepts there are outcomes of the model that no property excludes: a dump left by a
clang that failed, and cells of different header revisions in one crate.

Not planned: token wording, `manifest.rs` and `constants.rs` (a static table, a
placeholder), `Merged::merge`, `keys_in` and `irregular_variants` (called from tests
only), `build.rs`, the workflow and the vendored `ffi` modules (process spawning and
generated text, which is nearly all of the repository's lines). A matrix with both
surfaces is not in the runs: no command builds one, and the gates would not tell the
surfaces apart.
