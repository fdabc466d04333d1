-------------------------------- MODULE Merge --------------------------------
(***************************************************************************)
(* Gate derivation (merge.rs): from the set of captured cells an item      *)
(* occurred in, the compact gate the round-trip check judges and the       *)
(* #[cfg] predicates the emitter stamps.                                   *)
(*                                                                         *)
(* An Option is a set of at most one element. `axis` is the set of         *)
(* captured cells (CapturedAxis::cells); its versions, arches and surfaces *)
(* are the projections of that set.                                        *)
(***************************************************************************)
EXTENDS Matrix

ordinals(cells) == {c.ordinal : c \in cells}
arches(cells)   == {c.arch : c \in cells}
surfaces(cells) == {c.surface : c \in cells}

\* A slip the runs must catch: bounds taken over the whole axis, so that a
\* release captured for another arch only counts as a supersession.
whole_axis(axis, as, ss) == axis

\* The cells of the axis a gate over these arches and surfaces spans.
spanned(axis, as, ss) == {c \in axis : c.arch \in as /\ c.surface \in ss}

max_version_over(axis, as, ss) ==
    LET vs == ordinals(spanned(axis, as, ss))
    IN  IF vs = {} THEN {} ELSE {Max(vs)}

\* A slip: the gate is closed at the last release without the item.
last_version_over(axis, as, ss, after) ==
    LET vs == {v \in ordinals(spanned(axis, as, ss)) : v > after}
    IN  IF vs = {} THEN {} ELSE {Max(vs)}

next_version_over(axis, as, ss, after) ==
    LET vs == {v \in ordinals(spanned(axis, as, ss)) : v > after}
    IN  IF vs = {} THEN {} ELSE {Min(vs)}

\* A slip: a gate without an upper bound.
derive_open_gate(occs, axis) ==
    [min_ordinal |-> Min(ordinals(occs)), max_ordinal |-> {},
     arches      |-> arches(occs), surfaces |-> surfaces(occs)]

derive_gate(occs, axis) ==
    LET max_occ == Max(ordinals(occs))
    IN  [min_ordinal |-> Min(ordinals(occs)),
         max_ordinal |->
             IF {max_occ} = max_version_over(axis, arches(occs), surfaces(occs))
             THEN {} ELSE {max_occ},
         arches      |-> arches(occs),
         surfaces    |-> surfaces(occs)]

enables(gate, c) ==
    /\ c.ordinal >= gate.min_ordinal
    /\ \A mx \in gate.max_ordinal : c.ordinal <= mx
    /\ c.arch \in gate.arches
    /\ c.surface \in gate.surfaces

\* The gate admits exactly the captured cells the item occurred in.
exact(occs, axis) ==
    \A c \in axis : enables(derive_gate(occs, axis), c) <=> c \in occs

-----------------------------------------------------------------------------
(* The emitted predicates. A predicate requires the features in `on`,      *)
(* forbids those in `off`, and names the arches in target_arch, or no arch *)
(* at all when that set is empty.                                          *)

\* Of occurrences that all share one arch.
version_parts(occs, axis) ==
    LET as      == arches(occs)
        ss      == surfaces(occs)
        min     == Min(ordinals(occs))
        max_occ == Max(ordinals(occs))
    IN  [on  |-> IF clamp(min) > FLOOR_ORDINAL
                 THEN {feature_for_ordinal(clamp(min))} ELSE {},
         off |-> IF {max_occ} # max_version_over(axis, as, ss)
                 THEN {feature_for_ordinal(n) :
                          n \in next_version_over(axis, as, ss, max_occ)}
                 ELSE {}]

on_arch(occs, a) == {c \in occs : c.arch = a}

\* The arches of the occurrences that share the version predicate of arch a.
arch_group(occs, axis, a) ==
    {b \in arches(occs) :
        version_parts(on_arch(occs, b), axis) = version_parts(on_arch(occs, a), axis)}

grouped_predicate(occs, axis, a) ==
    LET parts == version_parts(on_arch(occs, a), axis)
        group == arch_group(occs, axis, a)
    IN  [on          |-> parts.on,
         off         |-> parts.off,
         target_arch |-> IF group = arches(axis) THEN {} ELSE group]

arch_grouped_predicates(occs, axis) ==
    {grouped_predicate(occs, axis, a) : a \in arches(occs)}

\* rustc's reading of #[cfg(pred)] in a build with these features and arch.
holds(pred, features, arch) ==
    /\ pred.on \subseteq features
    /\ pred.off \cap features = {}
    /\ pred.target_arch = {} \/ arch \in pred.target_arch

-----------------------------------------------------------------------------
\* The cells that say what a build for arch a at release v sees: the newest
\* captured ones of that arch that are not newer than v.
newest(axis, v, a) ==
    {c \in axis :
        /\ c.arch = a
        /\ c.ordinal <= v
        /\ \A d \in axis : d.arch = a /\ d.ordinal <= v => d.ordinal <= c.ordinal}
=============================================================================
