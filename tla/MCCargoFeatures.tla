--------------------------- MODULE MCCargoFeatures ---------------------------
(***************************************************************************)
(* Two dependents, each asking for up to two features of a table with two  *)
(* releases below the floor and four from it on.                           *)
(***************************************************************************)
EXTENDS CargoFeatures

MCVersions == {60, 61, 100, 101, 107, 114}
MCFeature  == MCVersions \cup {Default, Legacy}
MCRequests == {s \in SUBSET MCFeature : Cardinality(s) <= 2}
=============================================================================
