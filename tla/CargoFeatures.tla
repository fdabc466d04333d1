---------------------------- MODULE CargoFeatures ----------------------------
(***************************************************************************)
(* What a build of the generated crate has enabled: Cargo unites what all  *)
(* dependents request of it and follows the [features] table that          *)
(* matrix.rs writes (feature_chain_toml). The gates of Merge are read      *)
(* against the result; they expect it to be the level of one release.      *)
(***************************************************************************)
EXTENDS Merge

CONSTANTS
    Dependents,
    Requests,  \* the feature lists a dependent may write
    Default,   \* the feature "default"; a dependent may turn it off
    Legacy     \* the feature "legacy"

Feature == VERSIONS \cup {Default, Legacy}

ASSUME FeatureAssumption ==
    /\ Requests \subseteq SUBSET Feature
    /\ Default \notin VERSIONS /\ Legacy \notin VERSIONS /\ Default # Legacy

VARIABLES
    request,   \* request[d]: what dependent d asks for
    united,    \* the dependents whose requests are in
    enabled

vars == <<request, united, enabled>>

\* What a feature of the table enables directly.
implied(f) ==
    IF f = Default THEN default_features
    ELSE IF f = Legacy THEN legacy_features
    ELSE feature_chain[f]

Init ==
    /\ request \in [Dependents -> Requests]
    /\ united = {}
    /\ enabled = {}

Unite(d) ==
    /\ d \notin united
    /\ united' = united \cup {d}
    /\ enabled' = enabled \cup request[d]
    /\ UNCHANGED request

Imply(f) ==
    /\ f \in enabled
    /\ ~(implied(f) \subseteq enabled)
    /\ enabled' = enabled \cup implied(f)
    /\ UNCHANGED <<request, united>>

Next ==
    \/ \E d \in Dependents : Unite(d)
    \/ \E f \in Feature : Imply(f)

Spec == Init /\ [][Next]_vars

-----------------------------------------------------------------------------
(* Properties.                                                             *)

Resolved ==
    /\ united = Dependents
    /\ \A f \in enabled : implied(f) \subseteq enabled

requested == UNION {request[d] : d \in Dependents}

modern == enabled \cap Modern

\* Requests and the enabled features stay within the table.
TypeOK ==
    /\ request \in [Dependents -> Requests]
    /\ united \subseteq Dependents
    /\ enabled \subseteq Feature

\* "a consumer selects a single winNN feature and inherits every older gate":
\* a resolved build has exactly the gates of one release and of all before it,
\* however many dependents asked for which releases, or none from the floor on.
OneLevel == Resolved => modern = {} \/ modern = level(Max(modern))

\* That release is the newest one asked for, the floor if only `default` or
\* `legacy` was: no feature implies a newer release.
NewestRequested ==
    Resolved /\ modern # {} =>
        \/ Max(modern) \in requested
        \/ Max(modern) = FLOOR_ORDINAL /\ requested \cap {Default, Legacy} # {}
=============================================================================
