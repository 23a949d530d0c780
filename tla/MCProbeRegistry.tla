-------------------------- MODULE MCProbeRegistry --------------------------
(* Snapshots: two repositories, three snapshots and three hours, with limits  *)
(* of no and one hour, so that each is met, just missed and exceeded.  Drift: *)
(* two templates over patterns like "*" and "logs-a*", the second for an      *)
(* index either may claim, so that one wins or they tie, and a system index.  *)
(* Tiers: two nodes, the generic role among theirs, and two tiers.            *)
EXTENDS ProbeRegistry, TLC

CONSTANTS r1, r2, s1, s2, s3, n1, n2

MCRepos == {r1, r2}
MCIds == {s1, s2, s3}
MCNodes == {n1, n2}
MCSymmetry == Permutations(MCRepos) \cup Permutations(MCIds)

MCTemplates == {1, 2}
MCIndices == {"logs-ab", ".sys"}
MCSystem == {".sys"}
MCPatterns == {"short", "long"}
MCCovers == [p \in MCPatterns |-> IF p = "short" THEN MCIndices ELSE {"logs-ab"}]
MCLength == [p \in MCPatterns |-> IF p = "short" THEN 1 ELSE 6]
MCPatternSets == {{"short"}, MCPatterns}

MCTiers == {"data_hot", "data_warm"}
MCRoleSets == {{}, {"data"}, {"data_hot"}, {"data_warm", "master"}, MCTiers}
MCPreferences == SUBSET MCTiers
=============================================================================
