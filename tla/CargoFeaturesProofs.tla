------------------------- MODULE CargoFeaturesProofs -------------------------
(***************************************************************************)
(* Feature resolution, proved for every table of versions and every set of *)
(* requests.                                                               *)
(***************************************************************************)
EXTENDS CargoFeatures, MergeProofs

\* A set of releases that follows the floor's chain downward is a level.
LEMMA ChainClosedIsLevel ==
    ASSUME NEW S \in SUBSET Modern, S # {},
           \A v \in S : Previous(Modern, v) \subseteq S
    PROVE  S = level(Max(S))
<1> DEFINE top     == Max(S)
           missing == {u \in Modern : u < top /\ u \notin S}
<1>1. Modern \in SUBSET VERSIONS /\ Modern \in SUBSET Nat
  BY MatrixAssumption DEF Modern
<1>2. top \in S /\ \A y \in S : y <= top
  BY <1>1, VersionExtremes
<1> HIDE DEF top
<1>3. S \subseteq level(top)
  BY <1>2 DEF level
<1>4. missing = {}
  <2> SUFFICES ASSUME missing # {} PROVE FALSE
    OBVIOUS
  <2> DEFINE w == Max(missing)
  <2>1. missing \in SUBSET VERSIONS
    BY <1>1
  <2>2. w \in missing /\ \A y \in missing : y <= w
    <3> HIDE DEF missing
    <3>1. QED
      BY <2>1, VersionExtremes
  <2> HIDE DEF w
  <2> DEFINE above == {x \in Modern : x > w /\ x <= top}
             s     == Min(above)
  <2>3. top \in above /\ above \in SUBSET VERSIONS
    BY <1>1, <1>2, <2>2
  <2>4. s \in above /\ \A y \in above : s <= y
    <3> HIDE DEF above
    <3>1. QED
      BY <2>3, VersionExtremes
  <2> HIDE DEF s
  <2>5. w \in Nat /\ s \in Nat /\ top \in Nat /\ w \in Modern /\ s \in Modern
    BY <1>1, <1>2, <2>2, <2>4
  <2>6. s \in S
    <3>1. s \notin missing
      BY <2>2, <2>4, <2>5
    <3>2. s = top \/ s < top
      BY <2>4, <2>5
    <3>3. QED
      BY <1>2, <2>5, <3>1, <3>2
  <2>7. w \in Previous(Modern, s)
    <3>1. w < s
      BY <2>4, <2>5
    <3>2. ASSUME NEW q \in Modern, q < s PROVE q <= w
      <4>1. q \in Nat
        BY <1>1
      <4>2. CASE q > w
        <5>1. q \in above
          BY <3>2, <4>1, <4>2, <2>4, <2>5
        <5>2. s <= q
          BY <5>1, <2>4
        <5>3. QED
          BY <5>2, <3>2, <4>1, <2>5
      <4>3. QED
        BY <4>1, <4>2, <2>5
    <3>3. QED
      BY <3>1, <3>2, <2>5 DEF Previous
  <2>8. w \in S
    BY <2>6, <2>7
  <2>9. QED
    BY <2>2, <2>8
<1>5. level(top) \subseteq S
  <2> SUFFICES ASSUME NEW u \in Modern, u <= top PROVE u \in S
    BY DEF level
  <2>1. u \in Nat /\ top \in Nat
    BY <1>1, <1>2
  <2>2. u = top \/ u < top
    BY <2>1
  <2>3. QED
    BY <1>2, <1>4, <2>2
<1>6. QED
  BY <1>3, <1>5 DEF top

\* A resolved build has the gates of exactly one release and its predecessors,
\* for every table of versions and every dependents' requests.
THEOREM BuildsAreLevels == Spec => []OneLevel
<1>1. OneLevel
  <2> SUFFICES ASSUME Resolved, modern # {} PROVE modern = level(Max(modern))
    BY DEF OneLevel
  <2>1. ASSUME NEW v \in modern PROVE Previous(Modern, v) \subseteq modern
    <3>1. v \in VERSIONS /\ v \in Modern /\ v \in enabled
      BY DEF modern, Modern
    <3>2. implied(v) = Previous(Modern, v)
      BY <3>1, FeatureAssumption DEF implied, feature_chain
    <3>3. implied(v) \subseteq enabled
      BY <3>1 DEF Resolved
    <3>4. QED
      BY <3>2, <3>3 DEF Previous, modern
  <2>2. modern \in SUBSET Modern
    BY DEF modern
  <2>3. QED
    BY <2>1, <2>2, ChainClosedIsLevel
<1>2. QED
  BY <1>1, PTL

LEMMA VersionFacts ==
    /\ VERSIONS \subseteq Nat /\ FLOOR_ORDINAL \in Nat /\ FLOOR_ORDINAL \in VERSIONS
    /\ \A v \in VERSIONS : v <= v
    /\ Modern \subseteq VERSIONS /\ SubFloor \subseteq VERSIONS
    /\ Modern \cap SubFloor = {} /\ VERSIONS = Modern \cup SubFloor
<1>1. VERSIONS \subseteq Nat /\ FLOOR_ORDINAL \in Nat /\ FLOOR_ORDINAL \in VERSIONS
  BY MatrixAssumption
<1>2. \A v \in VERSIONS : v \in Nat
  BY <1>1
<1>3. \A v \in VERSIONS : v <= v /\ (v >= FLOOR_ORDINAL \/ v < FLOOR_ORDINAL)
                                /\ ~(v >= FLOOR_ORDINAL /\ v < FLOOR_ORDINAL)
  BY <1>1, <1>2
<1>4. QED
  BY <1>1, <1>3 DEF Modern, SubFloor

-----------------------------------------------------------------------------
\* The requests united so far are in, and every enabled release is asked for,
\* implied by a newer one that is, or the floor of a request for the default or
\* the legacy features.
Asked ==
    /\ enabled \subseteq Feature
    /\ \A d \in united : request[d] \subseteq enabled
    /\ \A f \in enabled \cap {Default, Legacy} : f \in requested
    /\ \A f \in modern :
          \/ \E r \in requested \cap VERSIONS : f <= r
          \/ f = FLOOR_ORDINAL /\ requested \cap {Default, Legacy} # {}

LEMMA AskedInvariant == Spec => []Asked
<1>1. Init => Asked
  BY DEF Init, Asked, modern
<1>2. request \in [Dependents -> Requests] /\ Asked /\ [Next]_vars => Asked'
  <2> SUFFICES ASSUME request \in [Dependents -> Requests], Asked, [Next]_vars PROVE Asked'
    OBVIOUS
  <2>1. request' = request
    BY DEF Next, vars, Unite, Imply
  <2>2. requested' = requested
    BY <2>1 DEF requested
  <2>3. CASE UNCHANGED vars
    BY <2>2, <2>3 DEF vars, Asked, modern
  <2>4. ASSUME NEW d \in Dependents, Unite(d) PROVE Asked'
    <3>1. enabled' = enabled \cup request[d]
      BY <2>4 DEF Unite
    <3>2. request[d] \subseteq requested /\ request[d] \subseteq Feature
      BY FeatureAssumption DEF requested
    <3>3. ASSUME NEW f \in request[d] \cap Modern
          PROVE  \E r \in requested \cap VERSIONS : f <= r
      BY <3>2, VersionFacts
    <3>4. united' = united \cup {d}
      BY <2>4 DEF Unite
    <3>5. QED
      BY <2>1, <2>2, <3>1, <3>2, <3>3, <3>4 DEF Asked, modern
  <2>5. ASSUME NEW g \in Feature, Imply(g) PROVE Asked'
    <3>1. enabled' = enabled \cup implied(g) /\ g \in enabled /\ united' = united
      BY <2>5 DEF Imply
    <3>2. CASE g \in {Default, Legacy}
      <4>1. implied(g) \subseteq VERSIONS /\ implied(g) \cap Modern \subseteq {FLOOR_ORDINAL}
        <5>1. /\ default_features \subseteq {FLOOR_ORDINAL} \cup SubFloor
              /\ legacy_features \subseteq {FLOOR_ORDINAL} \cup SubFloor
          BY DEF default_features, legacy_features
        <5>2. implied(g) \subseteq {FLOOR_ORDINAL} \cup SubFloor
          BY <3>2, <5>1 DEF implied
        <5>3. QED
          BY <5>2, VersionFacts
      <4>2. requested \cap {Default, Legacy} # {}
        BY <3>1, <3>2 DEF Asked
      <4>3. QED
        BY <2>1, <2>2, <3>1, <4>1, <4>2, FeatureAssumption DEF Asked, modern, Feature
    <3>3. CASE g \in Modern
      <4>1. g \in VERSIONS /\ g \in Nat
        BY <3>3, MatrixAssumption DEF Modern
      <4>2. implied(g) = Previous(Modern, g)
        BY <3>3, <4>1, FeatureAssumption DEF implied, feature_chain
      <4>3. implied(g) \subseteq VERSIONS /\ \A p \in implied(g) : p < g /\ p \in Nat
                                                 /\ p >= FLOOR_ORDINAL
        BY <4>2, MatrixAssumption DEF Previous, Modern
      <4>4. ASSUME NEW p \in implied(g)
            PROVE  \E r \in requested \cap VERSIONS : p <= r
        <5>1. g \in modern
          BY <3>1, <3>3 DEF modern
        <5>2. CASE \E r \in requested \cap VERSIONS : g <= r
          <6>1. PICK r \in requested \cap VERSIONS : g <= r
            BY <5>2
          <6>2. p < g /\ p \in Nat /\ g \in Nat /\ r \in Nat
            BY <4>1, <4>3, <6>1, VersionFacts
          <6>3. p <= r
            BY <6>1, <6>2
          <6>4. QED
            BY <6>1, <6>3
        <5>3. CASE g = FLOOR_ORDINAL
          <6>1. p < FLOOR_ORDINAL /\ p >= FLOOR_ORDINAL /\ p \in Nat
            BY <4>3, <5>3
          <6>2. FALSE
            BY <6>1, VersionFacts
          <6>3. QED
            BY <6>2
        <5>4. QED
          BY <5>1, <5>2, <5>3 DEF Asked
      <4>5. QED
        BY <2>1, <2>2, <3>1, <4>3, <4>4, FeatureAssumption DEF Asked, modern, Feature
    <3>4. CASE g \in SubFloor
      <4>1. implied(g) = Previous(SubFloor, g)
        BY <3>4, VersionFacts, FeatureAssumption DEF implied, feature_chain
      <4>2. implied(g) \subseteq VERSIONS /\ implied(g) \cap Modern = {}
        <5>1. implied(g) \subseteq SubFloor
          BY <4>1 DEF Previous
        <5>2. QED
          BY <5>1, VersionFacts
      <4>3. QED
        BY <2>1, <2>2, <3>1, <4>2, FeatureAssumption DEF Asked, modern, Feature
    <3>5. QED
      BY <3>2, <3>3, <3>4, VersionFacts DEF Feature
  <2>6. QED
    BY <2>3, <2>4, <2>5 DEF Next
<1>3. Init => request \in [Dependents -> Requests]
  BY DEF Init
<1>4. request \in [Dependents -> Requests] /\ [Next]_vars
      => (request \in [Dependents -> Requests])'
  BY DEF Next, vars, Unite, Imply
<1>5. QED
  BY <1>1, <1>2, <1>3, <1>4, PTL DEF Spec

\* No build is moved past the newest release its dependents asked for.
THEOREM NeverNewerThanRequested == Spec => []NewestRequested
<1>1. Asked => NewestRequested
  <2> SUFFICES ASSUME Asked, Resolved, modern # {}
               PROVE  \/ Max(modern) \in requested
                      \/ Max(modern) = FLOOR_ORDINAL /\ requested \cap {Default, Legacy} # {}
    BY DEF NewestRequested
  <2> DEFINE top == Max(modern)
  <2>1. modern \in SUBSET VERSIONS
    BY DEF modern, Modern
  <2>2. top \in modern /\ \A y \in modern : y <= top
    BY <2>1, VersionExtremes
  <2> HIDE DEF top
  <2>3. CASE \E r \in requested \cap VERSIONS : top <= r
    <3>1. PICK r \in requested \cap VERSIONS : top <= r
      BY <2>3
    <3>2. top \in Nat /\ r \in Nat /\ top >= FLOOR_ORDINAL /\ FLOOR_ORDINAL \in Nat
      BY <2>1, <2>2, MatrixAssumption DEF modern, Modern
    <3>3. r \in Modern
      BY <3>1, <3>2 DEF Modern
    <3>4. r \in enabled
      <4>1. PICK d \in Dependents : r \in request[d]
        BY <3>1 DEF requested
      <4>2. QED
        BY <4>1 DEF Resolved, Asked
    <3>5. QED
      BY <3>1, <3>2, <3>3, <3>4, <2>2 DEF modern, top
  <2>4. QED
    BY <2>2, <2>3 DEF Asked, top
<1>2. QED
  BY AskedInvariant, <1>1, PTL

\* Feature resolution stays within the table: no entry of it names a feature
\* the crate does not declare.
THEOREM TypeCorrect == Spec => []TypeOK
<1>1. Init => TypeOK
  BY DEF Init, TypeOK
<1>2. TypeOK /\ [Next]_vars => TypeOK'
  <2> SUFFICES ASSUME TypeOK, [Next]_vars PROVE TypeOK'
    OBVIOUS
  <2> USE DEF TypeOK
  <2>1. CASE UNCHANGED vars
    BY <2>1 DEF vars
  <2>2. ASSUME NEW d \in Dependents, Unite(d) PROVE TypeOK'
    <3>1. request[d] \subseteq Feature
      BY FeatureAssumption
    <3>2. QED
      BY <2>2, <3>1 DEF Unite
  <2>3. ASSUME NEW f \in Feature, Imply(f) PROVE TypeOK'
    <3>1. default_features \subseteq VERSIONS /\ legacy_features \subseteq VERSIONS
      BY VersionFacts DEF default_features, legacy_features
    <3>2. f \in VERSIONS => feature_chain[f] \subseteq VERSIONS
      BY VersionFacts DEF feature_chain, Previous
    <3>3. implied(f) \subseteq Feature
      BY <3>1, <3>2, FeatureAssumption DEF implied, Feature
    <3>4. QED
      BY <2>3, <3>3 DEF Imply
  <2>4. QED
    BY <2>1, <2>2, <2>3 DEF Next
<1>3. QED
  BY <1>1, <1>2, PTL DEF Spec
=============================================================================
