----------------------------- MODULE GatedCrate -----------------------------
(***************************************************************************)
(* What merged emission promises (emit.rs: "filter(merged, cell) == cell", *)
(* the round-trip property): either nothing is published, or a crate is    *)
(* published all at once in which a build for release v on arch a sees     *)
(* exactly the items of one captured cell, the newest one of its arch that *)
(* is not newer than v, and nothing when there is none. It is never        *)
(* published when some cell's dump could not be read.                      *)
(***************************************************************************)
EXTENDS Merge

CONSTANT Items

VARIABLES
    captured,    \* the captured cells
    unreadable,  \* those of them whose dumps do not parse
    shape,       \* shape[c]: the items of captured cell c
    outcome,
    visible      \* visible[v][a]: what a build at release v on arch a sees

crateVars == <<captured, unreadable, shape, outcome, visible>>

NothingVisible == [v \in Modern |-> [a \in arches(captured) |-> {}]]

\* The one cell a build takes its items from, as the set of its items.
Projection(v, a) == UNION {shape[c] : c \in newest(captured, v, a)}

CrateInit ==
    /\ captured \in SUBSET Cell
    /\ unreadable \in SUBSET captured
    /\ shape \in [captured -> SUBSET Items]
    /\ outcome = "pending"
    /\ visible = NothingVisible

Publish ==
    /\ outcome = "pending"
    /\ unreadable = {}
    /\ outcome' = "published"
    /\ visible' = [v \in Modern |-> [a \in arches(captured) |-> Projection(v, a)]]
    /\ UNCHANGED <<captured, unreadable, shape>>

Refuse ==
    /\ outcome = "pending"
    /\ outcome' = "refused"
    /\ UNCHANGED <<captured, unreadable, shape, visible>>

CrateSpec == CrateInit /\ [][Publish \/ Refuse]_crateVars
=============================================================================
