------------------------------ MODULE MCArtifacts ------------------------------
(***************************************************************************)
(* Two cells, one change of the headers and three capture commands: enough *)
(* for a killed command, the one that repeats it and one of the other mode. *)
(***************************************************************************)
EXTENDS Artifacts
=============================================================================
