----------------------------- MODULE MergeProofs -----------------------------
(***************************************************************************)
(* What a stamped set of predicates admits, for every table of versions,   *)
(* every captured extent and every occurrence set that passes the          *)
(* round-trip check.                                                       *)
(***************************************************************************)
EXTENDS Merge, Extrema

\* The CLI captures one surface (main.rs passes Surface::User everywhere).
SingleSurface == \A s, t \in Surface : s = t

-----------------------------------------------------------------------------
(* Least and greatest ordinals.                                            *)

LEMMA VersionExtremes ==
    ASSUME NEW S \in SUBSET VERSIONS, S # {}
    PROVE  /\ Min(S) \in S /\ \A y \in S : Min(S) <= y
           /\ Max(S) \in S /\ \A y \in S : y <= Max(S)
<1>1. PICK last \in VERSIONS : \A v \in VERSIONS : v <= last
  BY MatrixAssumption
<1>2. S \in SUBSET Nat /\ last \in Nat /\ \A y \in S : y <= last
  BY <1>1, MatrixAssumption
<1>3. QED
  BY <1>2, MinOfNaturals, MaxOfNaturals

-----------------------------------------------------------------------------
(* The gate check, arch by arch.                                           *)

\* On each arch, an occurrence set that passes the check is an interval of
\* the captured releases of that arch.
LEMMA ExactIsInterval ==
    ASSUME SingleSurface,
           NEW axis \in SUBSET Cell, NEW occs \in SUBSET axis,
           exact(occs, axis),
           NEW c \in axis, c.arch \in arches(occs)
    PROVE  LET lo == Min(ordinals(on_arch(occs, c.arch)))
               hi == Max(ordinals(on_arch(occs, c.arch)))
           IN  c \in occs <=> lo <= c.ordinal /\ c.ordinal <= hi
<1> DEFINE own == ordinals(on_arch(occs, c.arch))
<1>1. own \in SUBSET VERSIONS /\ own # {}
  BY DEF ordinals, on_arch, arches, Cell
<1>2. /\ Min(own) \in own /\ \A y \in own : Min(own) <= y
      /\ Max(own) \in own /\ \A y \in own : y <= Max(own)
  <2> HIDE DEF own
  <2>1. QED
    BY <1>1, VersionExtremes
<1>3. c \in occs => Min(own) <= c.ordinal /\ c.ordinal <= Max(own)
  BY <1>2 DEF ordinals, on_arch
<1>4. ASSUME Min(own) <= c.ordinal, c.ordinal <= Max(own)
      PROVE  c \in occs
  <2> DEFINE all == ordinals(occs)
  <2>1. all \in SUBSET VERSIONS /\ all # {} /\ own \subseteq all
    BY DEF ordinals, on_arch, arches, Cell
  <2>2. /\ Min(all) \in all /\ \A y \in all : Min(all) <= y
        /\ Max(all) \in all /\ \A y \in all : y <= Max(all)
    <3> HIDE DEF all
    <3>1. QED
      BY <2>1, VersionExtremes
  <2>3. Min(all) <= Min(own) /\ Max(own) <= Max(all)
    <3> HIDE DEF all, own
    <3>1. QED
      BY <1>2, <2>1, <2>2
  <2>4. /\ Min(all) \in Nat /\ Min(own) \in Nat /\ Max(all) \in Nat
        /\ Max(own) \in Nat /\ c.ordinal \in Nat
    <3>1. c.ordinal \in VERSIONS
      BY DEF Cell
    <3>2. QED
      <4> HIDE DEF all, own
      <4>1. QED
        BY <3>1, <1>1, <1>2, <2>1, <2>2, MatrixAssumption
  <2>5. c.ordinal >= Min(all) /\ c.ordinal <= Max(all)
    <3> HIDE DEF all, own
    <3>1. QED
      BY <1>4, <2>3, <2>4
  <2>6. c.surface \in surfaces(occs)
    BY DEF SingleSurface, surfaces, arches, Cell
  <2>7. enables(derive_gate(occs, axis), c)
    BY <2>5, <2>6 DEF enables, derive_gate
  <2>8. QED
    BY <2>7 DEF exact
<1>5. QED
  BY <1>3, <1>4

\* The check refuses an occurrence set only for a captured cell it lacks within its
\* own arches, surfaces and span of releases.
LEMMA InexactHasGap ==
    ASSUME NEW axis \in SUBSET Cell, NEW occs \in SUBSET axis, occs # {}, ~exact(occs, axis)
    PROVE  \E c \in axis \ occs :
              /\ c.arch \in arches(occs) /\ c.surface \in surfaces(occs)
              /\ \E lo, hi \in occs : lo.ordinal <= c.ordinal /\ c.ordinal <= hi.ordinal
<1> DEFINE gate == derive_gate(occs, axis)
           all  == ordinals(occs)
<1>1. all \in SUBSET VERSIONS /\ all # {}
  BY DEF ordinals, Cell
<1>2. /\ Min(all) \in all /\ \A y \in all : Min(all) <= y
      /\ Max(all) \in all /\ \A y \in all : y <= Max(all)
  <2> HIDE DEF all
  <2>1. QED
    BY <1>1, VersionExtremes
<1>3. PICK lo \in occs : lo.ordinal = Min(all)
  BY <1>2 DEF ordinals
<1>4. PICK hi \in occs : hi.ordinal = Max(all)
  BY <1>2 DEF ordinals
<1>5. /\ gate.min_ordinal = Min(all) /\ gate.arches = arches(occs) /\ gate.surfaces = surfaces(occs)
      /\ gate.max_ordinal = IF {Max(all)} = max_version_over(axis, arches(occs), surfaces(occs))
                            THEN {} ELSE {Max(all)}
  BY DEF derive_gate
<1>6. ASSUME NEW c \in occs PROVE enables(gate, c)
  <2>1. c.ordinal \in all /\ c.arch \in arches(occs) /\ c.surface \in surfaces(occs)
    BY DEF ordinals, arches, surfaces
  <2>2. c.ordinal >= Min(all) /\ c.ordinal <= Max(all)
    <3>1. c.ordinal \in Nat /\ Min(all) \in Nat /\ Max(all) \in Nat
      BY <1>1, <1>2, <2>1, MatrixAssumption
    <3>2. QED
      BY <1>2, <2>1, <3>1
  <2>3. QED
    BY <1>5, <2>1, <2>2 DEF enables
<1>7. PICK c \in axis : enables(gate, c) /\ c \notin occs
  BY <1>6 DEF exact
<1>8. c.arch \in arches(occs) /\ c.surface \in surfaces(occs) /\ c.ordinal >= Min(all)
  BY <1>5, <1>7 DEF enables
<1>9. c.ordinal <= Max(all)
  <2>1. CASE gate.max_ordinal = {Max(all)}
    BY <1>7, <2>1 DEF enables
  <2>2. CASE {Max(all)} = max_version_over(axis, arches(occs), surfaces(occs))
    <3> DEFINE vs == ordinals(spanned(axis, arches(occs), surfaces(occs)))
    <3>1. vs \in SUBSET VERSIONS /\ c.ordinal \in vs
      BY <1>8 DEF ordinals, spanned, Cell
    <3>2. Max(all) = Max(vs)
      BY <2>2, <3>1 DEF max_version_over
    <3>3. \A y \in vs : y <= Max(vs)
      <4> HIDE DEF vs
      <4>1. QED
        BY <3>1, VersionExtremes
    <3>4. QED
      BY <3>1, <3>2, <3>3
  <2>3. QED
    BY <1>5, <2>1, <2>2
<1>10. lo.ordinal <= c.ordinal /\ c.ordinal <= hi.ordinal
  <2>1. c.ordinal \in Nat /\ Min(all) \in Nat /\ Max(all) \in Nat
    <3>1. c.ordinal \in VERSIONS
      BY DEF Cell
    <3>2. QED
      BY <1>1, <1>2, <3>1, MatrixAssumption
  <2>2. QED
    BY <1>3, <1>4, <1>8, <1>9, <2>1
<1>11. QED
  BY <1>7, <1>8, <1>10

\* A build satisfies the version parts of one arch's occurrences exactly when
\* it is not older than the first of them and no release captured for that
\* arch after the last of them is as old as the build.
LEMMA VersionPartsHold ==
    ASSUME SingleSurface,
           NEW axis \in SUBSET Cell, NEW a \in Arch,
           NEW occs \in SUBSET {c \in axis : c.arch = a}, occs # {},
           NEW v \in Modern
    PROVE  LET parts == version_parts(occs, axis)
           IN  (parts.on \subseteq level(v) /\ parts.off \cap level(v) = {})
               <=> /\ Min(ordinals(occs)) <= v
                   /\ \A d \in axis : d.arch = a /\ d.ordinal > Max(ordinals(occs))
                                      => d.ordinal > v
<1> DEFINE lo    == Min(ordinals(occs))
           hi    == Max(ordinals(occs))
           mine  == ordinals(spanned(axis, arches(occs), surfaces(occs)))
           later == {n \in mine : n > hi}
           parts == version_parts(occs, axis)
<1>1. ordinals(occs) \in SUBSET VERSIONS /\ ordinals(occs) # {}
  BY DEF ordinals, Cell
<1>2. /\ lo \in VERSIONS /\ hi \in VERSIONS /\ lo \in Nat /\ hi \in Nat
      /\ hi \in ordinals(occs)
  BY <1>1, VersionExtremes, MatrixAssumption
<1>3. spanned(axis, arches(occs), surfaces(occs)) = {d \in axis : d.arch = a}
  BY DEF spanned, arches, surfaces, SingleSurface, Cell
<1>4. mine = {d.ordinal : d \in {d \in axis : d.arch = a}}
  BY <1>3 DEF ordinals
<1>5. mine \in SUBSET VERSIONS /\ hi \in mine /\ mine # {}
  BY <1>4, <1>2 DEF ordinals, Cell
<1>6. /\ v \in Nat /\ FLOOR_ORDINAL \in Nat /\ v >= FLOOR_ORDINAL
      /\ FLOOR_ORDINAL \in VERSIONS /\ VERSIONS \subseteq Nat
  BY MatrixAssumption DEF Modern
<1>7. parts.on \subseteq level(v) <=> lo <= v
  <2>1. parts.on = IF clamp(lo) > FLOOR_ORDINAL THEN {feature_for_ordinal(clamp(lo))} ELSE {}
    BY DEF version_parts
  <2> HIDE DEF parts, lo
  <2>2. CASE lo > FLOOR_ORDINAL
    <3>1. clamp(lo) = lo /\ clamp(lo) > FLOOR_ORDINAL
      BY <2>2, <1>2, <1>6 DEF clamp
    <3>2. feature_for_ordinal(clamp(lo)) = lo
      BY <3>1, <1>2 DEF feature_for_ordinal
    <3>3. parts.on = {lo}
      BY <2>1, <3>1, <3>2
    <3>4. QED
      BY <3>3, <2>2, <1>2, <1>6 DEF level, Modern
  <2>3. CASE ~(lo > FLOOR_ORDINAL)
    <3>1. ~(clamp(lo) > FLOOR_ORDINAL)
      BY <2>3, <1>2, <1>6 DEF clamp
    <3>2. QED
      BY <3>1, <2>1, <2>3, <1>2, <1>6
  <2>4. QED
    BY <2>2, <2>3
<1>8. parts.off \cap level(v) = {} <=> \A n \in later : n > v
  <2>1. parts.off = IF {hi} # (IF mine = {} THEN {} ELSE {Max(mine)})
                    THEN {feature_for_ordinal(n) :
                             n \in (IF later = {} THEN {} ELSE {Min(later)})}
                    ELSE {}
    BY DEF version_parts, max_version_over, next_version_over
  <2>2. Max(mine) \in mine /\ \A y \in mine : y <= Max(mine)
    <3> HIDE DEF mine
    <3>1. QED
      BY <1>5, VersionExtremes
  <2>3. hi # Max(mine) <=> later # {}
    <3>1. Max(mine) \in Nat /\ hi \in Nat /\ hi <= Max(mine)
      <4> HIDE DEF mine, hi
      <4>1. QED
        BY <2>2, <1>2, <1>5, <1>6
    <3>2. ASSUME hi # Max(mine) PROVE Max(mine) \in later
      <4>1. Max(mine) \in mine /\ Max(mine) > hi
        <5> HIDE DEF mine, hi
        <5>1. QED
          BY <2>2, <3>1, <3>2
      <4> HIDE DEF mine, hi
      <4>2. QED
        BY <4>1
    <3>3. ASSUME NEW n \in later PROVE hi # Max(mine)
      <4> HIDE DEF mine, hi
      <4>1. n \in mine /\ n > hi /\ n \in Nat
        BY <1>5, <1>6
      <4>2. QED
        BY <2>2, <3>1, <4>1
    <3>4. QED
      <4> HIDE DEF mine, hi, later
      <4>1. QED
        BY <3>2, <3>3
  <2> HIDE DEF mine, hi, parts
  <2>4. CASE later = {}
    <3>1. parts.off = {}
      BY <2>1, <2>3, <2>4, <1>5
    <3>2. QED
      BY <3>1, <2>4
  <2>5. CASE later # {}
    <3> DEFINE next == Min(later)
    <3>1. later \in SUBSET VERSIONS
      BY <1>5
    <3>2. next \in later /\ \A n \in later : next <= n
      <4> HIDE DEF later
      <4>1. QED
        BY <2>5, <3>1, VersionExtremes
    <3>3. parts.off = {feature_for_ordinal(next)}
      BY <2>1, <2>3, <2>5, <1>5
    <3> HIDE DEF later, next
    <3>4. next \in VERSIONS /\ next \in Nat
      BY <3>1, <3>2, <1>6
    <3>5. feature_for_ordinal(next) = clamp(next) /\ clamp(next) \in Modern
      BY <3>4, <1>6 DEF feature_for_ordinal, clamp, Modern
    <3>6. clamp(next) \in level(v) <=> next <= v
      BY <3>4, <3>5, <1>6 DEF level, clamp, Modern
    <3>7. (\A n \in later : n > v) <=> next > v
      BY <3>1, <3>2, <3>4, <1>6
    <3>8. QED
      BY <3>3, <3>5, <3>6, <3>7, <3>4, <1>6
  <2>6. QED
    BY <2>4, <2>5
<1>9. (\A n \in later : n > v)
      <=> \A d \in axis : d.arch = a /\ d.ordinal > hi => d.ordinal > v
  <2> HIDE DEF hi
  <2>1. QED
    BY <1>4
<1>10. QED
  BY <1>7, <1>8, <1>9

\* The predicates of the arch groups agree, on each arch, with the version
\* parts of that arch's own occurrences: no group names an arch of another.
LEMMA StampedOnArch ==
    ASSUME NEW axis \in SUBSET Cell, NEW occs \in SUBSET axis,
           NEW a \in arches(axis), NEW features
    PROVE  LET parts == version_parts(on_arch(occs, a), axis)
           IN  (\E p \in arch_grouped_predicates(occs, axis) : holds(p, features, a))
               <=> /\ a \in arches(occs)
                   /\ parts.on \subseteq features
                   /\ parts.off \cap features = {}
<1> DEFINE partsOf(b) == version_parts(on_arch(occs, b), axis)
           groupOf(b) == arch_group(occs, axis, b)
<1>1. ASSUME NEW b \in arches(occs)
      PROVE  /\ grouped_predicate(occs, axis, b).on = partsOf(b).on
             /\ grouped_predicate(occs, axis, b).off = partsOf(b).off
             /\ grouped_predicate(occs, axis, b).target_arch
                   = IF groupOf(b) = arches(axis) THEN {} ELSE groupOf(b)
             /\ b \in groupOf(b)
  BY DEF grouped_predicate, arch_group
<1>2. ASSUME NEW b \in arches(occs), holds(grouped_predicate(occs, axis, b), features, a)
      PROVE  /\ a \in arches(occs)
             /\ partsOf(a).on \subseteq features
             /\ partsOf(a).off \cap features = {}
  <2>1. a \in groupOf(b)
    <3> HIDE DEF partsOf, groupOf
    <3>1. QED
      BY <1>1, <1>2 DEF holds
  <2>2. a \in arches(occs) /\ partsOf(a) = partsOf(b)
    BY <2>1 DEF arch_group
  <2>3. QED
    <3> HIDE DEF partsOf, groupOf
    <3>1. QED
      BY <2>2, <1>1, <1>2 DEF holds
<1>3. ASSUME a \in arches(occs), partsOf(a).on \subseteq features,
             partsOf(a).off \cap features = {}
      PROVE  holds(grouped_predicate(occs, axis, a), features, a)
  <2> HIDE DEF partsOf
  <2>1. a \in groupOf(a)
    BY <1>3, <1>1
  <2> HIDE DEF groupOf
  <2>2. QED
    BY <2>1, <1>3, <1>1 DEF holds
<1>4. QED
  <2> HIDE DEF partsOf, groupOf
  <2>1. (\E p \in arch_grouped_predicates(occs, axis) : holds(p, features, a))
        <=> \E b \in arches(occs) : holds(grouped_predicate(occs, axis, b), features, a)
    BY DEF arch_grouped_predicates
  <2>2. (\E p \in arch_grouped_predicates(occs, axis) : holds(p, features, a))
        <=> /\ a \in arches(occs)
            /\ partsOf(a).on \subseteq features
            /\ partsOf(a).off \cap features = {}
    BY <2>1, <1>2, <1>3
  <2>3. QED
    BY <2>2 DEF partsOf

\* Of the predicates stamped for one occurrence set, a build satisfies at most
\* one: two groups that share an arch are one group.
LEMMA OnePredicatePerArch ==
    ASSUME NEW axis \in SUBSET Cell, NEW occs \in SUBSET axis,
           NEW a \in arches(axis), NEW features,
           NEW p \in arch_grouped_predicates(occs, axis), holds(p, features, a),
           NEW q \in arch_grouped_predicates(occs, axis), holds(q, features, a)
    PROVE  p = q
<1>1. ASSUME NEW b \in arches(occs), holds(grouped_predicate(occs, axis, b), features, a)
      PROVE  grouped_predicate(occs, axis, b) = grouped_predicate(occs, axis, a)
  <2>1. /\ grouped_predicate(occs, axis, b).target_arch
               = IF arch_group(occs, axis, b) = arches(axis)
                 THEN {} ELSE arch_group(occs, axis, b)
        /\ b \in arch_group(occs, axis, b)
    BY DEF grouped_predicate, arch_group
  <2>2. a \in arch_group(occs, axis, b)
    BY <2>1, <1>1 DEF holds
  <2>3. version_parts(on_arch(occs, a), axis) = version_parts(on_arch(occs, b), axis)
    BY <2>2 DEF arch_group
  <2>4. arch_group(occs, axis, a) = arch_group(occs, axis, b)
    BY <2>3 DEF arch_group
  <2>5. QED
    BY <2>3, <2>4 DEF grouped_predicate
<1>2. PICK b \in arches(occs) : p = grouped_predicate(occs, axis, b)
  BY DEF arch_grouped_predicates
<1>3. PICK c \in arches(occs) : q = grouped_predicate(occs, axis, c)
  BY DEF arch_grouped_predicates
<1>4. QED
  BY <1>1, <1>2, <1>3

\* What the stamped predicates of any occurrence set admit: the builds for an
\* arch it occurs on, from its first release there, until a release captured
\* for that arch after its last one.
LEMMA StampedReading ==
    ASSUME SingleSurface,
           NEW axis \in SUBSET Cell, NEW occs \in SUBSET axis,
           NEW v \in Modern, NEW a \in arches(axis)
    PROVE  LET lo == Min(ordinals(on_arch(occs, a)))
               hi == Max(ordinals(on_arch(occs, a)))
           IN  /\ (\E p \in arch_grouped_predicates(occs, axis) : holds(p, level(v), a))
                  <=> /\ a \in arches(occs)
                      /\ lo <= v
                      /\ \A d \in axis : d.arch = a /\ d.ordinal > hi => d.ordinal > v
               /\ a \in arches(occs) =>
                     /\ lo \in ordinals(on_arch(occs, a)) /\ lo \in Nat /\ hi \in Nat
                     /\ \A n \in ordinals(on_arch(occs, a)) : lo <= n /\ n <= hi
<1> DEFINE mine  == on_arch(occs, a)
           lo    == Min(ordinals(mine))
           hi    == Max(ordinals(mine))
           parts == version_parts(mine, axis)
<1>1. v \in Nat /\ VERSIONS \subseteq Nat /\ a \in Arch
  BY MatrixAssumption DEF Modern, arches, Cell
<1>2. \A d \in axis : d.ordinal \in VERSIONS /\ d.ordinal \in Nat
  BY <1>1 DEF Cell
<1>3. ASSUME a \in arches(occs)
      PROVE  /\ lo \in ordinals(mine) /\ \A n \in ordinals(mine) : lo <= n /\ n <= hi
             /\ hi \in ordinals(mine) /\ lo \in Nat /\ hi \in Nat
             /\ (parts.on \subseteq level(v) /\ parts.off \cap level(v) = {})
                <=> /\ lo <= v
                    /\ \A d \in axis : d.arch = a /\ d.ordinal > hi => d.ordinal > v
  <2>1. mine \in SUBSET {d \in axis : d.arch = a} /\ mine # {}
    BY <1>3 DEF on_arch, arches
  <2>2. ordinals(mine) \in SUBSET VERSIONS /\ ordinals(mine) # {}
    BY <2>1, <1>2 DEF ordinals
  <2> HIDE DEF mine
  <2>3. (parts.on \subseteq level(v) /\ parts.off \cap level(v) = {})
        <=> /\ lo <= v
            /\ \A d \in axis : d.arch = a /\ d.ordinal > hi => d.ordinal > v
    BY <2>1, <1>1, VersionPartsHold
  <2>4. /\ lo \in ordinals(mine) /\ \A n \in ordinals(mine) : lo <= n
        /\ hi \in ordinals(mine) /\ \A n \in ordinals(mine) : n <= hi
    BY <2>2, VersionExtremes
  <2> HIDE DEF lo, hi, parts
  <2>5. lo \in Nat /\ hi \in Nat
    BY <2>4, <2>2, <1>1
  <2>6. QED
    BY <2>3, <2>4, <2>5
<1>4. (\E p \in arch_grouped_predicates(occs, axis) : holds(p, level(v), a))
      <=> /\ a \in arches(occs)
          /\ parts.on \subseteq level(v)
          /\ parts.off \cap level(v) = {}
  BY StampedOnArch
<1>5. QED
  <2> HIDE DEF lo, hi, parts
  <2>1. /\ (\E p \in arch_grouped_predicates(occs, axis) : holds(p, level(v), a))
           <=> /\ a \in arches(occs)
               /\ lo <= v
               /\ \A d \in axis : d.arch = a /\ d.ordinal > hi => d.ordinal > v
        /\ a \in arches(occs) =>
              /\ lo \in ordinals(mine) /\ lo \in Nat /\ hi \in Nat
              /\ \A n \in ordinals(mine) : lo <= n /\ n <= hi
    BY <1>3, <1>4
  <2>2. QED
    BY <2>1 DEF lo, hi

\* A build never loses an item of the cell it should see, whether or not the
\* occurrence set passes the round-trip check.
LEMMA StampedCoversNewest ==
    ASSUME SingleSurface,
           NEW axis \in SUBSET Cell, NEW occs \in SUBSET axis,
           NEW v \in Modern, NEW a \in arches(axis),
           NEW c \in newest(axis, v, a), c \in occs
    PROVE  \E p \in arch_grouped_predicates(occs, axis) : holds(p, level(v), a)
<1> DEFINE mine == on_arch(occs, a)
           lo   == Min(ordinals(mine))
           hi   == Max(ordinals(mine))
<1>1. /\ c \in axis /\ c.arch = a /\ c.ordinal <= v
      /\ \A d \in axis : d.arch = a /\ d.ordinal <= v => d.ordinal <= c.ordinal
  BY DEF newest
<1>2. v \in Nat /\ \A d \in axis : d.ordinal \in Nat
  BY MatrixAssumption DEF Modern, Cell
<1>3. c.ordinal \in ordinals(mine) /\ a \in arches(occs)
  BY <1>1 DEF ordinals, on_arch, arches
<1>4. lo <= c.ordinal /\ c.ordinal <= hi /\ lo \in Nat /\ hi \in Nat /\ c.ordinal \in Nat
  BY <1>3, <1>2, <1>1, StampedReading
<1>5. lo <= v /\ \A d \in axis : d.arch = a /\ d.ordinal > hi => d.ordinal > v
  <2> HIDE DEF lo, hi
  <2>1. lo <= v
    BY <1>1, <1>4, <1>2
  <2>2. ASSUME NEW d \in axis, d.arch = a, d.ordinal > hi PROVE d.ordinal > v
    BY <1>1, <1>4, <2>2, <1>2
  <2>3. QED
    BY <2>1, <2>2
<1>6. QED
  BY <1>3, <1>5, StampedReading

\* The gates stamped for an occurrence set that passes the round-trip check
\* admit it in a build at release v on a captured arch exactly when the newest
\* captured cell of that arch not newer than v is one it occurred in.
THEOREM GateFaithful ==
    ASSUME SingleSurface,
           NEW axis \in SUBSET Cell, NEW occs \in SUBSET axis,
           exact(occs, axis),
           NEW v \in Modern, NEW a \in arches(axis)
    PROVE  (\E p \in arch_grouped_predicates(occs, axis) : holds(p, level(v), a))
           <=> (\E c \in newest(axis, v, a) : c \in occs)
<1> DEFINE mine == on_arch(occs, a)
           lo   == Min(ordinals(mine))
           hi   == Max(ordinals(mine))
           upto == {d \in axis : d.arch = a /\ d.ordinal <= v}
<1>1. v \in Nat /\ VERSIONS \subseteq Nat
  BY MatrixAssumption DEF Modern
<1>2. \A d \in axis : d.ordinal \in VERSIONS /\ d.ordinal \in Nat
  BY <1>1 DEF Cell
<1>3. a \in arches(occs) => lo \in ordinals(mine) /\ lo \in Nat /\ hi \in Nat
  BY StampedReading
<1>4. ASSUME a \in arches(occs), lo <= v,
             \A d \in axis : d.arch = a /\ d.ordinal > hi => d.ordinal > v
      PROVE  \E c \in newest(axis, v, a) : c \in occs
  <2>1. PICK first \in mine : first.ordinal = lo
    BY <1>3, <1>4 DEF ordinals
  <2>2. first \in upto
    BY <2>1, <1>4 DEF on_arch
  <2>3. ordinals(upto) \in SUBSET VERSIONS /\ ordinals(upto) # {}
    BY <2>2, <1>2 DEF ordinals
  <2> DEFINE top == Max(ordinals(upto))
  <2>4. top \in ordinals(upto) /\ \A n \in ordinals(upto) : n <= top
    <3> HIDE DEF upto
    <3>1. QED
      BY <2>3, VersionExtremes
  <2> HIDE DEF top
  <2>5. PICK c \in upto : c.ordinal = top
    BY <2>4 DEF ordinals
  <2>6. \A d \in upto : d.ordinal <= c.ordinal
    BY <2>4, <2>5 DEF ordinals
  <2>7. c \in newest(axis, v, a)
    BY <2>5, <2>6 DEF newest
  <2>8. c.ordinal \in Nat /\ lo \in Nat /\ hi \in Nat
    BY <2>5, <1>2, <1>3, <1>4
  <2>9. lo <= c.ordinal
    BY <2>1, <2>2, <2>6
  <2>10. c.ordinal <= hi
    <3> HIDE DEF lo, hi
    <3>1. QED
      BY <2>5, <2>8, <1>4, <1>1
  <2>11. c \in axis /\ c.arch = a
    BY <2>5
  <2>12. c \in occs <=> lo <= c.ordinal /\ c.ordinal <= hi
    BY <2>11, <1>4, ExactIsInterval
  <2>13. QED
    BY <2>7, <2>9, <2>10, <2>12
<1>5. QED
  <2> HIDE DEF lo, hi
  <2>1. (\E p \in arch_grouped_predicates(occs, axis) : holds(p, level(v), a))
        => \E c \in newest(axis, v, a) : c \in occs
    BY <1>4, StampedReading DEF lo, hi
  <2>2. QED
    BY <2>1, StampedCoversNewest

\* The emitted predicates stay within the floor's chain and the item's arches.
LEMMA StampedType ==
    ASSUME NEW axis \in SUBSET Cell, NEW occs \in SUBSET axis,
           NEW p \in arch_grouped_predicates(occs, axis)
    PROVE  p.on \subseteq Modern /\ p.off \subseteq Modern /\ p.target_arch \subseteq arches(occs)
<1>1. PICK a \in arches(occs) : p = grouped_predicate(occs, axis, a)
  BY DEF arch_grouped_predicates
<1> DEFINE mine  == on_arch(occs, a)
           parts == version_parts(mine, axis)
<1>2. p.on = parts.on /\ p.off = parts.off /\ p.target_arch \subseteq arches(occs)
  BY <1>1 DEF grouped_predicate, arch_group
<1>3. ASSUME NEW n PROVE feature_for_ordinal(n) \in Modern
  <2>1. FLOOR_ORDINAL \in Modern
    BY MatrixAssumption DEF Modern
  <2>2. ASSUME clamp(n) \in VERSIONS PROVE clamp(n) \in Modern
    <3>1. CASE n < FLOOR_ORDINAL
      BY <3>1, <2>1 DEF clamp
    <3>2. CASE ~(n < FLOOR_ORDINAL)
      <4>1. n \in VERSIONS /\ n \in Nat /\ FLOOR_ORDINAL \in Nat
        BY <3>2, <2>2, MatrixAssumption DEF clamp
      <4>2. QED
        BY <3>2, <4>1 DEF clamp, Modern
    <3>3. QED
      BY <3>1, <3>2
  <2>3. QED
    BY <2>1, <2>2 DEF feature_for_ordinal
<1>4. parts.on \subseteq Modern /\ parts.off \subseteq Modern
  <2> HIDE DEF mine
  <2>1. QED
    BY <1>3 DEF version_parts
<1>5. QED
  BY <1>2, <1>4
=============================================================================
