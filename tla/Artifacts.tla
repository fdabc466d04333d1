------------------------------- MODULE Artifacts -------------------------------
(***************************************************************************)
(* The files the commands leave for each other (driver.rs, main.rs). For    *)
(* each cell, `ast` and `layout` write the wrapper header, run clang on it   *)
(* and stream its dump to a file; `generate-merged` lists the dumps that     *)
(* exist, reads them one after the other and writes the bindings and then    *)
(* the feature table. The commands are processes of their own: they may run  *)
(* side by side and be killed between any two steps, and no file is locked   *)
(* or replaced atomically.                                                 *)
(*                                                                         *)
(* A command writes one dump, so it is named by it; two commands with one    *)
(* output are not run at once. clang reads the wrapper and the headers in   *)
(* one step, and reading or streaming one file is one step.                *)
(***************************************************************************)
EXTENDS Naturals

CONSTANTS
    NumCells,    \* the requested cells, numbered in the order they are listed
    MaxUpdates,  \* bounds how often the headers change
    MaxCommands  \* bounds how many `ast` and `layout` commands are started

ASSUME ArtifactsAssumption == {NumCells, MaxUpdates, MaxCommands} \subseteq Nat

Requested == 1 .. NumCells
Mode      == {"ast", "layouts"}
Dumps     == Requested \X Mode

VARIABLES
    headers,     \* the revision of the headers that are checked out
    wrapper,     \* wrapper[c]: the wrapper header of cell c
    dump,        \* dump[d]: the dump file d
    capture,     \* capture[d]: where the command that writes d is
    commands,    \* how many of them have been started
    overlapped,  \* the cells whose two commands have run side by side
    merge,       \* where generate-merged is
    crate,       \* the bindings file
    features,    \* the feature table file
    interrupted  \* a merge was killed while it wrote, and none has ended since

driverVars == <<wrapper, dump, capture, commands, overlapped>>
mergeVars  == <<merge, crate, features, interrupted>>
vars == <<headers, wrapper, dump, capture, commands, overlapped,
          merge, crate, features, interrupted>>

\* A file is absent, cut short or whole. What a dump is `of` is the revision
\* clang read, NoHeaders if the wrapper was empty. A whole dump may be one with
\* errors: clang recovers, and the file stays when its exit status is refused.
Text      == {"absent", "cut", "whole"}
NoHeaders == 0
Dump(text, of) == [text |-> text, of |-> of]
Absent    == Dump("absent", NoHeaders)

Idle      == [pc |-> "idle", of |-> NoHeaders]
At(pc)    == [pc |-> pc, of |-> NoHeaders]

\* `specs` are the cells listed, `measured` those with a layout dump, `todo` those
\* still to read, `folded` those read, each with its two dumps.
NoMerge == [pc |-> "idle", specs |-> {}, measured |-> {}, todo |-> {}, folded |-> {}]
cells_of(folded) == {r.cell : r \in folded}

Init ==
    /\ headers = 1
    /\ wrapper = [c \in Requested |-> "absent"]
    /\ dump = [d \in Dumps |-> Absent]
    /\ capture = [d \in Dumps |-> Idle]
    /\ commands = 0
    /\ overlapped = {}
    /\ merge = NoMerge
    /\ crate = [text |-> "absent", cells |-> {}]
    /\ features = "absent"
    /\ interrupted = FALSE

\* Another revision of the headers is checked out.
Update ==
    /\ headers <= MaxUpdates
    /\ headers' = headers + 1
    /\ UNCHANGED <<driverVars, mergeVars>>

-----------------------------------------------------------------------------
(* run_ast and run_layout.                                                 *)

running(c) == {d \in Dumps : d[1] = c /\ capture[d] # Idle}

Start(d) ==
    /\ capture[d] = Idle
    /\ commands < MaxCommands
    /\ commands' = commands + 1
    /\ overlapped' = IF running(d[1]) # {} THEN overlapped \cup {d[1]} ELSE overlapped
    /\ UNCHANGED <<headers, dump, mergeVars>>

\* A slip: a wrapper that is there is not written again.
CreateMissingWrapper(d) ==
    /\ Start(d)
    /\ wrapper' = [wrapper EXCEPT ![d[1]] = IF @ = "absent" THEN "cut" ELSE @]
    /\ capture' = [capture EXCEPT ![d] =
          At(IF wrapper[d[1]] = "absent" THEN "wrapping" ELSE "wrapped")]

\* write_wrapper: File::create truncates, write_all follows.
CreateWrapper(d) ==
    /\ Start(d)
    /\ wrapper' = [wrapper EXCEPT ![d[1]] = "cut"]
    /\ capture' = [capture EXCEPT ![d] = At("wrapping")]

WriteWrapper(d) ==
    /\ capture[d].pc = "wrapping"
    /\ wrapper' = [wrapper EXCEPT ![d[1]] = "whole"]
    /\ capture' = [capture EXCEPT ![d] = At("wrapped")]
    /\ UNCHANGED <<headers, dump, commands, overlapped, mergeVars>>

\* A slip: the output is opened and a dump that is there is kept.
OpenOutput(d) ==
    /\ capture[d].pc = "wrapped"
    /\ dump' = [dump EXCEPT ![d] = IF @ = Absent THEN Dump("cut", NoHeaders) ELSE @]
    /\ capture' = [capture EXCEPT ![d] = At("created")]
    /\ UNCHANGED <<headers, wrapper, commands, overlapped, mergeVars>>

\* run_to_file: the output is truncated before clang starts.
CreateOutput(d) ==
    /\ capture[d].pc = "wrapped"
    /\ dump' = [dump EXCEPT ![d] = Dump("cut", NoHeaders)]
    /\ capture' = [capture EXCEPT ![d] = At("created")]
    /\ UNCHANGED <<headers, wrapper, commands, overlapped, mergeVars>>

\* clang reads the wrapper, and the headers if it includes them.
Spawn(d) ==
    /\ capture[d].pc = "created"
    /\ capture' = [capture EXCEPT ![d] =
          [pc |-> "clang", of |-> IF wrapper[d[1]] = "whole" THEN headers ELSE NoHeaders]]
    /\ UNCHANGED <<headers, wrapper, dump, commands, overlapped, mergeVars>>

\* clang has streamed its dump, and exits 0 or with errors.
Finish(d) ==
    /\ capture[d].pc = "clang"
    /\ dump' = [dump EXCEPT ![d] = Dump("whole", capture[d].of)]
    /\ capture' = [capture EXCEPT ![d] = Idle]
    /\ UNCHANGED <<headers, wrapper, commands, overlapped, mergeVars>>

\* The command is killed, or clang cannot be started: files stay as they are.
Kill(d) ==
    /\ capture[d] # Idle
    /\ capture' = [capture EXCEPT ![d] = Idle]
    /\ UNCHANGED <<headers, wrapper, dump, commands, overlapped, mergeVars>>

-----------------------------------------------------------------------------
(* run_generate_merged.                                                    *)

exists(d) == dump[d].text # "absent"

listing == [pc       |-> "read",
            specs    |-> {c \in Requested : exists(<<c, "ast">>)},
            measured |-> {c \in Requested : exists(<<c, "layouts">>)},
            todo     |-> {c \in Requested : exists(<<c, "ast">>)},
            folded   |-> {}]

\* A slip: the bindings file is opened before the cells are read.
ListAndCreate ==
    /\ merge.pc = "idle"
    /\ \E c \in Requested : exists(<<c, "ast">>)
    /\ merge' = listing
    /\ crate' = [text |-> "cut", cells |-> {}]
    /\ UNCHANGED <<headers, driverVars, features, interrupted>>

\* Cells without a dump are skipped; without any, the command fails.
List ==
    /\ merge.pc = "idle"
    /\ \E c \in Requested : exists(<<c, "ast">>)
    /\ merge' = listing
    /\ UNCHANGED <<headers, driverVars, crate, features, interrupted>>

\* The cells are read in the order they are listed.
first(c) == \A other \in merge.todo : c <= other

\* parse_ast: a JSON text that is cut short does not deserialize.
ReadAst ==
    /\ merge.pc = "read"
    /\ \E c \in merge.todo :
          /\ first(c)
          /\ dump[<<c, "ast">>].text = "whole"
          /\ merge' = [merge EXCEPT !.pc = "measure",
                !.folded = @ \cup {[cell |-> c, ast |-> dump[<<c, "ast">>], layouts |-> Absent]}]
    /\ UNCHANGED <<headers, driverVars, crate, features, interrupted>>

\* A slip: a cell that cannot be read is left out.
SkipUnreadable ==
    /\ merge.pc = "read"
    /\ \E c \in merge.todo :
          /\ first(c)
          /\ dump[<<c, "ast">>].text # "whole"
          /\ merge' = [merge EXCEPT !.todo = @ \ {c}]
    /\ UNCHANGED <<headers, driverVars, crate, features, interrupted>>

\* An AST that cannot be read, or the checks of the emission, end the command.
Refuse ==
    /\ merge.pc = "read"
    /\ \A c \in merge.todo : first(c) => dump[<<c, "ast">>].text # "whole"
    /\ merge' = NoMerge
    /\ UNCHANGED <<headers, driverVars, crate, features, interrupted>>

\* parse_layouts reads whatever is there, line by line.
ReadLayouts ==
    /\ merge.pc = "measure"
    /\ \E c \in merge.todo :
          /\ first(c)
          /\ LET read == IF c \in merge.measured THEN dump[<<c, "layouts">>] ELSE Absent
             IN  merge' = [merge EXCEPT !.pc = "read", !.todo = @ \ {c},
                    !.folded = {[r EXCEPT !.layouts = IF r.cell = c THEN read ELSE @] : r \in @}]
    /\ UNCHANGED <<headers, driverVars, crate, features, interrupted>>

\* std::fs::write truncates, then writes.
CreateBindings ==
    /\ merge.pc = "read" /\ merge.todo = {}
    /\ crate' = [text |-> "cut", cells |-> {}]
    /\ merge' = [merge EXCEPT !.pc = "write"]
    /\ UNCHANGED <<headers, driverVars, features, interrupted>>

WriteBindings ==
    /\ merge.pc = "write"
    /\ crate' = [text |-> "whole", cells |-> merge.folded]
    /\ merge' = [merge EXCEPT !.pc = "features"]
    /\ UNCHANGED <<headers, driverVars, features, interrupted>>

CreateFeatures ==
    /\ merge.pc = "features"
    /\ features' = "cut"
    /\ merge' = [merge EXCEPT !.pc = "table"]
    /\ UNCHANGED <<headers, driverVars, crate, interrupted>>

WriteFeatures ==
    /\ merge.pc = "table"
    /\ features' = "whole"
    /\ interrupted' = FALSE
    /\ merge' = NoMerge
    /\ UNCHANGED <<headers, driverVars, crate>>

KillMerge ==
    /\ merge.pc # "idle"
    /\ merge' = NoMerge
    /\ interrupted' = (interrupted \/ merge.pc \in {"write", "features", "table"})
    /\ UNCHANGED <<headers, driverVars, crate, features>>

Next ==
    \/ Update
    \/ \E d \in Dumps :
          \/ CreateWrapper(d) \/ WriteWrapper(d) \/ CreateOutput(d)
          \/ Spawn(d) \/ Finish(d) \/ Kill(d)
    \/ List \/ ReadAst \/ ReadLayouts \/ Refuse
    \/ CreateBindings \/ WriteBindings \/ CreateFeatures \/ WriteFeatures
    \/ KillMerge

Spec == Init /\ [][Next]_vars

-----------------------------------------------------------------------------
(* Properties.                                                             *)

Revision == 0 .. MaxUpdates + 1
Content  == [text : Text, of : Revision]
Folded   == [cell : Requested, ast : Content, layouts : Content]

\* The files and the commands are well typed, and a command that has got to
\* clang has truncated its output: no dump is streamed over an older one.
TypeOK ==
    /\ headers \in Revision \ {NoHeaders}
    /\ wrapper \in [Requested -> Text]
    /\ dump \in [Dumps -> Content]
    /\ capture \in [Dumps -> [pc : {"idle", "wrapping", "wrapped", "created", "clang"},
                             of : Revision]]
    /\ overlapped \subseteq Requested
    /\ merge \in [pc : {"idle", "read", "measure", "write", "features", "table"},
                  specs : SUBSET Requested, measured : SUBSET Requested,
                  todo : SUBSET Requested, folded : SUBSET Folded]
    /\ crate \in [text : Text, cells : SUBSET Folded]
    /\ features \in Text
    /\ \A d \in Dumps : capture[d].pc \in {"created", "clang"} => dump[d].text = "cut"

\* All or nothing: bindings that are written have every cell that was listed,
\* each from an AST clang had finished, though a capture may truncate a dump
\* after it was listed and while others are read.
CrateHasEveryListedCell ==
    /\ \A r \in crate.cells : r.ast.text = "whole"
    /\ merge.pc \in {"features", "table"} =>
          crate.text = "whole" /\ cells_of(crate.cells) = merge.specs

\* A unit that is folded was parsed from the headers, never from an empty
\* wrapper: one left empty by a killed command is written again before clang
\* reads it. Only the two commands of one cell side by side can break that.
OfTheHeaders(content) == content.text = "whole" => content.of # NoHeaders

UnitsAreOfTheHeaders ==
    \A r \in crate.cells :
        r.cell \notin overlapped => OfTheHeaders(r.ast) /\ OfTheHeaders(r.layouts)

\* Bindings on disk have their feature table beside them, or a merge is about to
\* write it or was killed while it wrote; the next one that ends repairs it.
TableBesideBindings ==
    crate.text # "absent" =>
        \/ crate.text = "whole" /\ features = "whole"
        \/ merge.pc \in {"write", "features", "table"}
        \/ interrupted
=============================================================================
