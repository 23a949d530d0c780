----------------------------- MODULE MCCatalog -----------------------------
(* Two releases, of which the second has renamed rule a to c; custom rules    *)
(* that tune a, clash with one another, take a retired name, are invalid or   *)
(* do not compile; profiles and flags that use old and new names and tags.    *)
EXTENDS ValidateRules, TLC

CONSTANTS a, b, c, typo, perf, safety, none, noProfile

Rule(i, al, t, sev, v, k) ==
  [id |-> i, aliases |-> al, tags |-> t, severity |-> sev, valid |-> v, compiles |-> k]

MCReleases ==
  { {Rule(a, {}, {perf}, 2, TRUE, TRUE), Rule(b, {}, {safety}, 3, TRUE, TRUE)},
    {Rule(c, {a}, {perf}, 2, TRUE, TRUE), Rule(b, {}, {safety}, 3, TRUE, TRUE)} }

MCTuned == Rule(a, {}, {perf}, 4, TRUE, TRUE)
MCUnderRules == {MCTuned}
MCCustom ==
  { MCTuned,
    Rule(c, {a}, {perf, safety}, 4, TRUE, FALSE),
    Rule(a, {}, {safety}, 1, FALSE, TRUE),
    Rule(b, {}, {}, 1, TRUE, TRUE),
    Rule(none, {}, {}, 1, FALSE, TRUE) }

Prof(ids, inc, sk, over) == [rules |-> ids, include |-> inc, skip |-> sk, overrides |-> over]

MCProfiles ==
  { noProfile,
    Prof({}, {}, {}, (a :> 4) @@ (typo :> 1)),
    Prof({a, b}, {}, {safety}, << >>),
    Prof({a}, {perf}, {}, (b :> 1)) }

Filt(ids, inc, sk) == [rules |-> ids, include |-> inc, skip |-> sk]

MCFilters ==
  { NoFilter, Filt({a}, {}, {}), Filt({b, typo}, {}, {}), Filt({}, {perf}, {safety}),
    Filt({a, b}, {}, {safety}), Filt({}, {typo}, {}) }
============================================================================
