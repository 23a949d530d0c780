------------------------------- MODULE MCTriage -------------------------------
(* Two clusters, each named for its dialect, which makes them symmetric.  The *)
(* second catalog renames rule a to c, which is over the threshold and also   *)
(* answers to an older alias x.                                               *)
EXTENDS Triage, TLC

CONSTANTS elasticsearch, opensearch, a, c, x

MCClusters  == {elasticsearch, opensearch}
MCDialectOf == [k \in MCClusters |-> k]
Swap        == Permutations(MCClusters)

MCVersions ==
  << [severity |-> (a :> 2), alias |-> << >>],
     [severity |-> (c :> 3), alias |-> (a :> c) @@ (x :> c)] >>
==============================================================================
