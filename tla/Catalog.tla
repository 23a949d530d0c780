------------------------------ MODULE Catalog ------------------------------
(***************************************************************************)
(* How a scan comes by the rules it runs (internal/cli/catalog.go,         *)
(* internal/rules, internal/profiles, engine.Compile): the embedded rules  *)
(* are layered with --rules-dir, --rules-pack and the user's rules.d, a    *)
(* rule shadowing those of the same id below it; the whole is validated;   *)
(* a profile selects rules and overrides severities, the --rule-id and     *)
(* tag flags select further, and what is left is compiled.                 *)
(*                                                                         *)
(* The operator's files are written against one release and used with the  *)
(* next: the embedded rules are any of Releases, the others any subset of  *)
(* Custom, so that renamed rules and their deprecated aliases meet.        *)
(***************************************************************************)
EXTENDS Integers, Sequences, FiniteSets

CONSTANTS
  Releases,  \* the catalogs a binary may embed, sets of rules
  Custom,    \* the rules the operator's directories may hold
  NoId,      \* the empty id
  Profiles,  \* profiles, with NoProfile for none
  NoProfile,
  Filters    \* values of --rule-id, --tags and --skip-tags

\* A rule: [id, aliases, tags, severity, valid, compiles].  valid stands for the
\* checks of one rule by itself (validateRule, ValidateProbes), compiles for CEL.
\* A profile: [rules, include, skip, overrides]; a filter has the first three.
Layers == <<"embedded", "rulesDir", "rulesPack", "userDir">>
Severities == 1 .. 4

ASSUME CatalogAssumption ==
  /\ \A R \in Releases : \A r \in R : r.valid /\ r.compiles /\ r.id # NoId
  /\ \A r \in (UNION Releases) \cup Custom :
       /\ r \in [id : {r.id}, aliases : {r.aliases}, tags : {r.tags},
                 severity : Severities, valid : BOOLEAN, compiles : BOOLEAN]
       /\ NoId \notin r.aliases
  /\ NoProfile \in Profiles
  /\ \A p \in Profiles \ {NoProfile} :
       \A i \in DOMAIN p.overrides : p.overrides[i] \in Severities

VARIABLES
  pc,        \* "load", "validate", "profile", "filter", "compile", "ready", "failed"
  layer,     \* the next layer to read
  read,      \* the rules each layer had (history)
  cat,       \* the catalog
  full,      \* the catalog as validated, from which aliasIndex is built
  profile,   \* the profile in use
  filter,    \* the flags in use, NoFilter for none
  log,       \* what was logged at info and warn level
  code       \* 0, or the exit code of the error

vars == <<pc, layer, read, cat, full, profile, filter, log, code>>

NoFilter == [rules |-> {}, include |-> {}, skip |-> {}]
Fail(e) == pc' = "failed" /\ code' = e
----------------------------------------------------------------------------
(* Names.                                                                  *)

Ids(C) == {r.id : r \in C}
Names(r) == {r.id} \cup r.aliases
AllNames(C) == UNION {Names(r) : r \in C}
AllTags(C) == UNION {r.tags : r \in C}

\* Variant: a rule also shadows the rules that list its id as an alias.
MergeWithOverride_Aliases(base, extra) ==
  extra \cup {r \in base : Names(r) \cap Ids(extra) = {}}

\* Variant: the lower layer keeps its rule.
MergeWithOverride_FirstWins(base, extra) ==
  base \cup {r \in extra : r.id \notin Ids(base)}

\* mergeWithOverride: the rules of the upper layer replace those with their ids.
MergeWithOverride(base, extra) ==
  extra \cup {r \in base : r.id = NoId \/ r.id \notin Ids(extra)}

\* Variant: only ids are compared.
Invalid_IdsOnly(C) ==
  {r \in C : ~r.valid \/ r.id = NoId \/ \E s \in C \ {r} : r.id = s.id}

\* Catalog.Validate and ValidateProbes: the rules something is wrong with, by
\* themselves or because another rule, or they themselves, claim a name twice.
Invalid(C) ==
  {r \in C : \/ ~r.valid \/ r.id = NoId \/ r.id \in r.aliases
             \/ \E s \in C \ {r} : (Names(r) \cap Names(s)) \ {NoId} # {}}

\* aliasIndex: the rules an alias stands for.
AliasOf(C, a) == {r.id : r \in {s \in C : a \in s.aliases /\ a # s.id}}
----------------------------------------------------------------------------
(* Selection.                                                              *)

TagsAllow(sel, r) ==
  /\ sel.include = {} \/ r.tags \cap sel.include # {}
  /\ r.tags \cap sel.skip = {}

\* profiles.ruleMatches: ids only.
RuleMatches(p, r) == (p.rules = {} \/ r.id \in p.rules) /\ TagsAllow(p, r)

\* Variant: aliases are not looked at.
FilterMatches_IdOnly(f, r) == (f.rules = {} \/ r.id \in f.rules) /\ TagsAllow(f, r)

\* filterMatches: ids and deprecated aliases.
FilterMatches(f, r) == (f.rules = {} \/ Names(r) \cap f.rules # {}) /\ TagsAllow(f, r)

Overridden(p, r) ==
  IF r.id \in DOMAIN p.overrides THEN [r EXCEPT !.severity = p.overrides[r.id]] ELSE r

\* Profile.Apply.
Apply(p, C) == {Overridden(p, r) : r \in {s \in C : RuleMatches(p, s)}}

\* UnknownSeverityOverrides: an alias counts as known.
UnknownSeverityOverrides(p, C) == DOMAIN p.overrides \ AllNames(C)

\* What applyCatalogFilter finds unknown.
UnknownSelectors(f, C) ==
  (f.rules \ AllNames(C)) \cup ((f.include \cup f.skip) \ AllTags(C))
----------------------------------------------------------------------------
Init ==
  /\ pc = "load" /\ layer = 1
  /\ read = [k \in 1 .. Len(Layers) |-> {}] /\ cat = {} /\ full = {}
  /\ profile = NoProfile /\ filter = NoFilter
  /\ log = {} /\ code = 0

\* LoadFS over each layer: whatever *.yaml files the directory has, none included.
LayerContents(k) == IF k = 1 THEN Releases ELSE SUBSET Custom

\* assembleLayeredCatalogWithPack, one layer.  Layers other than the embedded one
\* may be absent, or unreadable, unparseable or a pack that fails verification.
LoadLayer ==
  /\ pc = "load" /\ layer <= Len(Layers)
  /\ \/ \E extra \in LayerContents(layer) :
          /\ read' = [read EXCEPT ![layer] = extra]
          /\ cat' = MergeWithOverride(cat, extra)
          /\ log' = log \cup {<<"overridden", r, layer>> :
                                r \in {s \in cat : s.id \in Ids(extra) \ {NoId}}}
          /\ layer' = layer + 1
          /\ UNCHANGED <<pc, code>>
     \/ layer > 1 /\ Fail(21) /\ UNCHANGED <<read, cat, log, layer>>
  /\ UNCHANGED <<full, profile, filter>>

LoadLayers ==
  /\ pc = "load" /\ layer > Len(Layers)
  /\ pc' = "validate"
  /\ UNCHANGED <<layer, read, cat, full, profile, filter, log, code>>

Validate ==
  /\ pc = "validate"
  /\ \/ Invalid(cat) # {} /\ Fail(21) /\ UNCHANGED full
     \/ Invalid(cat) = {} /\ full' = cat /\ pc' = "profile" /\ UNCHANGED code
  /\ UNCHANGED <<layer, read, cat, profile, filter, log>>

\* resolveProfile: an unknown name or missing file, two flags at once; a file that
\* does not parse.
ProfileErrors == {2, 21}

\* applyProfile: none, one that is found, or an error.  An empty selection is warned about, and goes on.
ApplyProfile ==
  /\ pc = "profile"
  /\ \/ /\ \E p \in Profiles :
             /\ profile' = p
             /\ cat' = IF p = NoProfile THEN cat ELSE Apply(p, cat)
             /\ log' = log \cup
                  IF p = NoProfile THEN {}
                  ELSE {<<"unknownOverride", i>> : i \in UnknownSeverityOverrides(p, cat)}
                       \cup (IF cat' = {} THEN {<<"zeroRules">>} ELSE {})
        /\ pc' = "filter" /\ UNCHANGED code
     \/ (\E e \in ProfileErrors : Fail(e)) /\ UNCHANGED <<cat, profile, log>>
  /\ UNCHANGED <<layer, read, full, filter>>

\* applyScanFilters: the flags narrow what the profile selected.
ApplyScanFilters ==
  /\ pc = "filter"
  /\ \E f \in Filters :
       /\ filter' = f
       /\ cat' = IF f = NoFilter THEN cat ELSE {r \in cat : FilterMatches(f, r)}
       /\ log' = log \cup
            IF f = NoFilter THEN {}
            ELSE {<<"unknownSelector", x>> : x \in UnknownSelectors(f, cat)}
                 \cup (IF cat' = {} THEN {<<"zeroRules">>} ELSE {})
  /\ pc' = "compile"
  /\ UNCHANGED <<layer, read, full, profile, code>>

\* engine.Compile: every selected rule compiles, or the scan does not start.
Compile ==
  /\ pc = "compile"
  /\ \/ (\E r \in cat : ~r.compiles) /\ Fail(21)
     \/ (\A r \in cat : r.compiles) /\ pc' = "ready" /\ UNCHANGED code
  /\ UNCHANGED <<layer, read, cat, full, profile, filter, log>>

Loaded == pc \in {"ready", "failed"} /\ UNCHANGED vars

Next == \/ LoadLayer \/ LoadLayers \/ Validate \/ ApplyProfile \/ ApplyScanFilters
        \/ Compile \/ Loaded

Spec == Init /\ [][Next]_vars
----------------------------------------------------------------------------
(* Properties.                                                             *)

Read == UNION {read[k] : k \in DOMAIN read}

\* The highest layer with a rule of this id.
Top(i) == CHOOSE k \in DOMAIN read :
            i \in Ids(read[k]) /\ \A l \in k + 1 .. Len(Layers) : i \notin Ids(read[l])

\* The definition of a rule that runs is that of the highest layer that has its
\* id ("a rule in a later layer with the same id as an earlier one shadows the
\* earlier rule", docs/rules.md:125); only a profile may have changed its severity.
TopLayerRuns ==
  pc = "ready" => \A r \in cat :
    \E s \in read[Top(r.id)] :
      /\ s.id = r.id /\ [s EXCEPT !.severity = r.severity] = r
      /\ r.severity # s.severity =>
           profile # NoProfile /\ r.id \in DOMAIN profile.overrides
             /\ r.severity = profile.overrides[r.id]

\* Layering loses nothing without a word: a rule that was read is in the validated
\* catalog, or a rule of the same id from a later layer is, and the override was
\* logged when it happened.
NothingVanishes ==
  full # {} => \A k \in DOMAIN read : \A r \in read[k] :
    \/ r \in full
    \/ \E l \in k + 1 .. Len(Layers) :
         r.id \in Ids(read[l]) /\ <<"overridden", r, l>> \in log

\* In a scan that starts every name, id or deprecated alias, stands for one rule,
\* so the alias index by which waivers are resolved is a function, whatever order
\* it is built in; in particular a custom rule under an id that a release has
\* retired to an alias stops the scan.
NamesUnambiguous ==
  pc = "ready" =>
    /\ \A r, s \in full : r # s => Names(r) \cap Names(s) = {}
    /\ \A r \in full : \A a \in r.aliases : AliasOf(full, a) = {r.id}

\* A rule named with --rule-id, by its id or a deprecated alias, runs unless the
\* profile or a tag leaves it out; a name that stands for no rule the profile
\* selected is warned about ("a typo'd --rule-id heeap_size would otherwise
\* silently filter to zero rules and pass the gate", scan.go:621).
NamedRulesRun ==
  pc = "ready" => \A n \in filter.rules :
    \/ \E r \in cat : n \in Names(r)
    \/ <<"unknownSelector", n>> \in log
    \/ \E r \in full : n \in Names(r) /\ ~TagsAllow(filter, r)

----------------------------------------------------------------------------
(* What a comment says, and the code does not do.                          *)

\* "An operator typo doesn't silently no-op for the rest of a scan's life"
\* (profile.go:142): an override is applied to a rule or warned about.
OverridesApplyOrWarn ==
  pc = "ready" /\ profile # NoProfile =>
    \A i \in DOMAIN profile.overrides :
      i \in Ids(full) \/ <<"unknownOverride", i>> \in log
=============================================================================
