------------------------------- MODULE Matrix -------------------------------
(***************************************************************************)
(* The configuration axes of the generator (matrix.rs): the version        *)
(* thresholds, the architectures and surfaces a matrix cell combines, the  *)
(* Windows 10 floor every emitted gate is clamped to, and the [features]   *)
(* chain of the crate the generated bindings live in.                      *)
(*                                                                         *)
(* A Cargo feature slug ("win11") is named by its version's ordinal (114): *)
(* the table VERSIONS pairs them one to one.                               *)
(***************************************************************************)
EXTENDS Naturals, FiniteSetsExt

CONSTANTS
    VERSIONS,       \* the ordinals of the version table
    FLOOR_ORDINAL,  \* the ordinal of the emitted floor, win10
    Arch,
    Surface

\* VERSIONS is a finite table of u32 ordinals that holds the floor: floor()
\* panics when it does not.
ASSUME MatrixAssumption ==
    /\ VERSIONS \subseteq Nat
    /\ \E last \in VERSIONS : \A v \in VERSIONS : v <= last
    /\ FLOOR_ORDINAL \in VERSIONS

Cell == [ordinal : VERSIONS, arch : Arch, surface : Surface]

Modern   == {v \in VERSIONS : v >= FLOOR_ORDINAL}
SubFloor == {v \in VERSIONS : v < FLOOR_ORDINAL}

clamp(ordinal) == IF ordinal < FLOOR_ORDINAL THEN FLOOR_ORDINAL ELSE ordinal

feature_for_ordinal(ordinal) ==
    IF clamp(ordinal) \in VERSIONS THEN clamp(ordinal) ELSE FLOOR_ORDINAL

-----------------------------------------------------------------------------
(* The [features] table: what each feature enables directly.               *)

\* Slips in the table the runs must catch: a chain that enables the release
\* itself, or the ordinal below, and a legacy feature that takes its top from
\* the whole table.
PreviousInclusive(chain, v) ==
    {p \in chain : p <= v /\ \A q \in chain : q <= v => q <= p}
feature_chain_by_ordinal == [v \in VERSIONS |-> {v - 1}]
legacy_features_unfiltered ==
    {FLOOR_ORDINAL} \cup {v \in VERSIONS : \A q \in VERSIONS : q <= v}

\* The release before v in one of the two chains: none for its first one.
Previous(chain, v) ==
    {p \in chain : p < v /\ \A q \in chain : q < v => q <= p}

feature_chain ==
    [v \in VERSIONS |-> Previous(IF v \in Modern THEN Modern ELSE SubFloor, v)]

default_features == {FLOOR_ORDINAL}

\* `legacy` enables the floor and the newest release below it.
legacy_features ==
    {FLOOR_ORDINAL} \cup {v \in SubFloor : \A q \in SubFloor : q <= v}

\* What selecting the one feature of release v is meant to enable: the gates
\* of v and of every older release down to the floor.
level(v) == {f \in Modern : f <= v}
=============================================================================
