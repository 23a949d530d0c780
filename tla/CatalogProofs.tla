--------------------------- MODULE CatalogProofs ---------------------------
(***************************************************************************)
(* Proofs about Catalog and ValidateRules for all rules, releases,         *)
(* profiles and flags: what a scan runs is what the layers, the profile    *)
(* and the flags come to, and validate-rules judges the same catalog.      *)
(***************************************************************************)
EXTENDS ValidateRules, SequenceTheorems, TLAPS

Written == (UNION Releases) \cup Custom
Rules == [id : {r.id : r \in Written}, aliases : {r.aliases : r \in Written},
          tags : {r.tags : r \in Written},
          severity : Severities, valid : BOOLEAN, compiles : BOOLEAN]

TypeOK ==
  /\ pc \in {"load", "validate", "profile", "filter", "compile", "ready", "failed"}
  /\ layer \in 1 .. 5 /\ read \in [1 .. 4 -> SUBSET Rules]
  /\ cat \subseteq Rules /\ full \subseteq Rules /\ profile \in Profiles
  /\ verdict \in {"none", "ok", "rejected", "fixtures"}

\* A rule is that of the highest layer with its id.
FromTop(r) == \E k \in 1 .. 4 : r \in read[k] /\ \A l \in k + 1 .. 4 : r.id \notin Ids(read[l])

\* A rule of layer k was overridden, and that was logged.
Shadowed(r, k) ==
  \E l \in k + 1 .. 4 : r.id \in Ids(read[l]) /\ <<"overridden", r, l>> \in log

\* C is what the layers come to.
Stacked(C) ==
  /\ \A r \in C : r.id # NoId => FromTop(r)
  /\ \A k \in 1 .. 4 : \A r \in read[k] : r \in C \/ Shadowed(r, k)

\* The layers are read from the bottom to the top, and the catalog is their merge; what
\* is validated is that.
LayersInv ==
  /\ \A k \in layer .. 4 : read[k] = {}
  /\ pc \in {"load", "validate"} => full = {} /\ Stacked(cat)
  /\ full # {} => Stacked(full)
  /\ Invalid(full) = {}

\* Rule r of the selection is rule s of the catalog, but for the profile's severity.
Selected(s, r) ==
  /\ r.id = s.id /\ r.aliases = s.aliases /\ r.tags = s.tags /\ r.compiles = s.compiles
  /\ [s EXCEPT !.severity = r.severity] = r
  /\ r.severity # s.severity => /\ profile # NoProfile /\ r.id \in DOMAIN profile.overrides
                                /\ r.severity = profile.overrides[r.id]

\* The profile and then the flags select from the validated catalog.
SelectionInv ==
  /\ pc \in {"load", "validate", "profile", "filter"} => filter = NoFilter
  /\ pc = "profile" => cat = full
  /\ pc \in {"filter", "compile", "ready"} =>
       /\ \A r \in cat : \E s \in full : Selected(s, r)
       /\ profile = NoProfile /\ filter = NoFilter => cat = full
  /\ pc \in {"compile", "ready"} =>
       \A n \in filter.rules :
         \/ \E r \in cat : n \in Names(r)
         \/ <<"unknownSelector", n>> \in log
         \/ \E r \in full : n \in Names(r) /\ ~TagsAllow(filter, r)
  /\ pc = "ready" => \A r \in cat : r.compiles

\* What the gate said of the catalog is so until the scan has dealt with it.
VerdictInv ==
  /\ pc = "load" => verdict = "none"
  /\ pc = "validate" => /\ verdict = "ok" => RuleIssues(cat) = {}
                        /\ verdict = "rejected" => RuleIssues(cat) # {}
  /\ pc \in {"profile", "filter", "compile"} /\ verdict = "ok" => \A r \in cat : r.compiles
  /\ pc \in {"profile", "filter", "compile", "ready"} /\ verdict = "rejected" =>
       \E r \in full : ~r.compiles

IInv == TypeOK /\ LayersInv /\ SelectionInv /\ VerdictInv
----------------------------------------------------------------------------
(* Facts about rules.                                                      *)

LEMMA Four == Len(Layers) = 4
BY DEF Layers

LEMMA WrittenRules == \A r \in Written : r \in Rules /\ NoId \notin r.aliases
<1> SUFFICES ASSUME NEW r \in Written PROVE r \in Rules /\ NoId \notin r.aliases
  OBVIOUS
<1>1. /\ r \in [id : {r.id}, aliases : {r.aliases}, tags : {r.tags},
                severity : Severities, valid : BOOLEAN, compiles : BOOLEAN]
      /\ NoId \notin r.aliases
  BY CatalogAssumption DEF Written
<1>2. /\ r = [id |-> r.id, aliases |-> r.aliases, tags |-> r.tags, severity |-> r.severity,
              valid |-> r.valid, compiles |-> r.compiles]
      /\ r.severity \in Severities
  BY <1>1
<1>3. r.valid \in BOOLEAN /\ r.compiles \in BOOLEAN
  BY <1>1
<1>4. r.id \in {s.id : s \in Written} /\ r.aliases \in {s.aliases : s \in Written}
      /\ r.tags \in {s.tags : s \in Written}
  OBVIOUS
<1>5. [id |-> r.id, aliases |-> r.aliases, tags |-> r.tags, severity |-> r.severity,
       valid |-> r.valid, compiles |-> r.compiles] \in Rules
  BY <1>2, <1>3, <1>4, Zenon DEF Rules
<1> QED
  BY <1>1, <1>2, <1>5

LEMMA RuleFacts ==
  ASSUME NEW r \in Rules
  PROVE  /\ NoId \notin r.aliases /\ r.severity \in Severities
         /\ [r EXCEPT !.severity = r.severity] = r
<1>1. PICK s \in Written : r.aliases = s.aliases
  BY DEF Rules
<1>2. NoId \notin r.aliases
  BY <1>1, WrittenRules
<1> QED
  BY <1>2 DEF Rules

\* A layer holds rules, whichever it is.
LEMMA LayersHoldRules == \A k \in 1 .. 4 : \A extra \in LayerContents(k) : extra \subseteq Rules
<1> SUFFICES ASSUME NEW k \in 1 .. 4, NEW extra \in LayerContents(k), NEW r \in extra
             PROVE  r \in Rules
  OBVIOUS
<1>1. extra \in Releases \/ extra \subseteq Custom
  BY DEF LayerContents
<1>2. r \in Written
  BY <1>1 DEF Written
<1> QED
  BY <1>2, WrittenRules

LEMMA OverriddenFacts ==
  ASSUME NEW p \in Profiles, p # NoProfile, NEW r \in Rules
  PROVE  LET o == Overridden(p, r)
         IN  /\ o \in Rules
             /\ o.id = r.id /\ o.aliases = r.aliases /\ o.tags = r.tags
             /\ o.compiles = r.compiles /\ [r EXCEPT !.severity = o.severity] = o
             /\ o.severity # r.severity =>
                  o.id \in DOMAIN p.overrides /\ o.severity = p.overrides[o.id]
<1>1. CASE r.id \in DOMAIN p.overrides
  <2>1. p.overrides[r.id] \in Severities
    BY <1>1, CatalogAssumption
  <2> DEFINE o == [r EXCEPT !.severity = p.overrides[r.id]]
  <2>2. o \in Rules
    BY <2>1 DEF Rules
  <2>3. /\ o.id = r.id /\ o.aliases = r.aliases /\ o.tags = r.tags
        /\ o.compiles = r.compiles /\ o.severity = p.overrides[r.id]
    BY DEF Rules
  <2>4. Overridden(p, r) = o
    BY <1>1 DEF Overridden
  <2> QED
    BY <1>1, <2>2, <2>3, <2>4
<1>2. CASE r.id \notin DOMAIN p.overrides
  BY <1>2, RuleFacts DEF Overridden
<1> QED
  BY <1>1, <1>2
----------------------------------------------------------------------------
(* The invariant holds at first and is kept by every step.                 *)

LEMMA InitInv == InitGate => IInv
<1> SUFFICES ASSUME InitGate PROVE IInv
  OBVIOUS
<1> USE DEF InitGate, Init
<1>1. \A k \in 1 .. 4 : read[k] = {}
  BY Four
<1>2. TypeOK
  BY Four, CatalogAssumption DEF TypeOK
<1>3. LayersInv
  BY <1>1 DEF LayersInv, Stacked, Invalid
<1> QED
  BY <1>2, <1>3 DEF IInv, SelectionInv, VerdictInv

\* Merging a layer onto the catalog keeps it what the layers come to.
LEMMA LoadLayerInv == IInv /\ LoadLayer /\ UNCHANGED verdict => IInv'
<1> SUFFICES ASSUME IInv, LoadLayer, UNCHANGED verdict PROVE IInv'
  OBVIOUS
<1>0. /\ TypeOK /\ LayersInv /\ pc = "load" /\ layer \in 1 .. 4 /\ verdict = "none"
      /\ UNCHANGED <<full, profile, filter>> /\ full = {}
  BY Four DEF IInv, TypeOK, LoadLayer, LayersInv, VerdictInv
<1>1. CASE pc' = "failed"
  <2>1. UNCHANGED <<read, cat, log, layer>>
    BY <1>0, <1>1 DEF LoadLayer
  <2> QED
    BY <1>0, <1>1, <2>1
    DEF IInv, TypeOK, LayersInv, Stacked, Invalid, SelectionInv, VerdictInv
<1>2. CASE pc' # "failed"
  <2>1. PICK extra \in LayerContents(layer) :
          /\ read' = [read EXCEPT ![layer] = extra]
          /\ cat' = MergeWithOverride(cat, extra)
          /\ log' = log \cup {<<"overridden", r, layer>> :
                                r \in {s \in cat : s.id \in Ids(extra) \ {NoId}}}
          /\ layer' = layer + 1 /\ UNCHANGED pc
    BY <1>2 DEF LoadLayer, Fail
  <2>2. extra \subseteq Rules
    BY <1>0, LayersHoldRules
  <2>3. /\ read'[layer] = extra /\ \A k \in 1 .. 4 : k # layer => read'[k] = read[k]
        /\ read' \in [1 .. 4 -> SUBSET Rules]
    BY <1>0, <2>1, <2>2 DEF TypeOK
  <2>4. TypeOK'
    BY <1>0, <2>1, <2>2, <2>3 DEF TypeOK, MergeWithOverride
  <2>5. \A k \in layer + 1 .. 4 : read'[k] = {}
    BY <1>0, <2>3 DEF LayersInv
  <2>6. ASSUME NEW r \in cat', r.id # NoId PROVE FromTop(r)'
    <3>1. CASE r \in extra
      <4>1. \A l \in layer + 1 .. 4 : r.id \notin Ids(read'[l])
        BY <2>5 DEF Ids
      <4> QED
        BY <1>0, <2>3, <3>1, <4>1 DEF FromTop
    <3>2. CASE r \notin extra
      <4>1. r \in cat /\ r.id \notin Ids(extra)
        BY <2>1, <2>6, <3>2 DEF MergeWithOverride
      <4>2. PICK k \in 1 .. 4 : r \in read[k] /\ \A l \in k + 1 .. 4 : r.id \notin Ids(read[l])
        BY <1>0, <2>6, <4>1 DEF LayersInv, Stacked, FromTop
      <4>3. k # layer
        BY <1>0, <4>2 DEF LayersInv
      <4> QED
        BY <2>3, <4>1, <4>2, <4>3 DEF FromTop
    <3> QED
      BY <3>1, <3>2
  <2>7. ASSUME NEW k \in 1 .. 4, NEW r \in read'[k] PROVE r \in cat' \/ Shadowed(r, k)'
    <3>1. CASE k = layer
      BY <2>1, <2>3, <3>1 DEF MergeWithOverride
    <3>2. CASE k # layer
      <4>1. r \in read[k] /\ k < layer
        BY <1>0, <2>3, <2>7, <3>2 DEF LayersInv
      <4>2. CASE Shadowed(r, k)
        <5>1. PICK l \in k + 1 .. 4 : r.id \in Ids(read[l]) /\ <<"overridden", r, l>> \in log
          BY <4>2 DEF Shadowed
        <5>2. l # layer
          BY <1>0, <5>1 DEF LayersInv, Ids
        <5> QED
          BY <2>1, <2>3, <5>1, <5>2 DEF Shadowed
      <4>3. CASE r \in cat /\ r \notin cat'
        <5>1. r.id \in Ids(extra) \ {NoId}
          BY <2>1, <4>3 DEF MergeWithOverride
        <5>2. <<"overridden", r, layer>> \in log' /\ layer \in k + 1 .. 4
          BY <1>0, <2>1, <4>1, <4>3, <5>1
        <5> QED
          BY <2>3, <5>1, <5>2 DEF Shadowed
      <4>4. r \in cat \/ Shadowed(r, k)
        BY <1>0, <4>1 DEF LayersInv, Stacked
      <4> QED
        BY <4>2, <4>3, <4>4
    <3> QED
      BY <3>1, <3>2
  <2>8. Stacked(cat)'
    BY <2>6, <2>7 DEF Stacked
  <2>9. LayersInv'
    BY <1>0, <2>1, <2>5, <2>8 DEF LayersInv, Invalid
  <2> QED
    BY <1>0, <2>1, <2>4, <2>9 DEF IInv, SelectionInv, VerdictInv
<1> QED
  BY <1>1, <1>2

\* Once the layers have been read, what they come to stays so.
LEMMA LayersStay ==
  ASSUME LayersInv, UNCHANGED <<read, layer, full>>, log \subseteq log',
         pc' \notin {"load", "validate"}
  PROVE  LayersInv'
<1>1. \A r : FromTop(r) => FromTop(r)'
  BY DEF FromTop
<1>2. \A r, k : Shadowed(r, k) => Shadowed(r, k)'
  BY DEF Shadowed
<1> QED
  BY <1>1, <1>2 DEF LayersInv, Stacked

LEMMA ValidateInv == IInv /\ Validate /\ UNCHANGED verdict => IInv'
<1> SUFFICES ASSUME IInv, Validate, UNCHANGED verdict PROVE IInv'
  OBVIOUS
<1>0. /\ TypeOK /\ LayersInv /\ pc = "validate" /\ full = {} /\ Stacked(cat)
      /\ UNCHANGED <<layer, read, cat, profile, filter, log>>
  BY DEF IInv, Validate, LayersInv
<1>1. CASE Invalid(cat) # {}
  <2>1. pc' = "failed" /\ UNCHANGED full
    BY <1>1 DEF Validate, Fail
  <2>2. LayersInv'
    BY <1>0, <2>1, LayersStay
  <2> QED
    BY <1>0, <2>1, <2>2 DEF IInv, TypeOK, SelectionInv, VerdictInv
<1>2. CASE Invalid(cat) = {}
  <2>1. pc' = "profile" /\ full' = cat
    BY <1>2 DEF Validate
  <2>2. (\A r : FromTop(r)' = FromTop(r)) /\ \A r, k : Shadowed(r, k)' = Shadowed(r, k)
    BY <1>0 DEF FromTop, Shadowed
  <2>3. LayersInv'
    BY <1>0, <1>2, <2>1, <2>2 DEF LayersInv, Stacked
  <2>4. /\ verdict = "ok" => \A r \in cat : r.compiles
        /\ verdict = "rejected" => \E r \in cat : ~r.compiles
    BY <1>0, <1>2 DEF IInv, VerdictInv, RuleIssues
  <2> QED
    BY <1>0, <2>1, <2>3, <2>4 DEF IInv, TypeOK, SelectionInv, VerdictInv
<1> QED
  BY <1>1, <1>2

LEMMA ApplyProfileInv == IInv /\ ApplyProfile /\ UNCHANGED verdict => IInv'
<1> SUFFICES ASSUME IInv, ApplyProfile, UNCHANGED verdict PROVE IInv'
  OBVIOUS
<1>0. /\ TypeOK /\ LayersInv /\ pc = "profile" /\ cat = full /\ filter = NoFilter
      /\ UNCHANGED <<layer, read, full, filter>>
      /\ \A r \in cat : r \in Rules
  BY DEF IInv, TypeOK, ApplyProfile, SelectionInv
<1>1. CASE pc' = "failed"
  <2>1. UNCHANGED <<cat, profile, log>>
    BY <1>1 DEF ApplyProfile
  <2>2. LayersInv'
    BY <1>0, <1>1, <2>1, LayersStay
  <2> QED
    BY <1>0, <1>1, <2>1, <2>2 DEF IInv, TypeOK, SelectionInv, VerdictInv
<1>2. CASE pc' # "failed"
  <2>1. PICK p \in Profiles :
          /\ profile' = p /\ pc' = "filter"
          /\ cat' = IF p = NoProfile THEN cat ELSE Apply(p, cat)
    BY <1>2 DEF ApplyProfile, Fail
  <2>2. log \subseteq log'
    BY <1>2 DEF ApplyProfile, Fail
  <2>3. LayersInv'
    BY <1>0, <2>1, <2>2, LayersStay
  <2>4. ASSUME NEW r \in cat' PROVE r \in Rules /\ \E s \in full : Selected(s, r)'
    <3>1. CASE p = NoProfile
      BY <1>0, <2>1, <3>1, RuleFacts DEF Selected
    <3>2. CASE p # NoProfile
      <4>1. PICK s \in cat : r = Overridden(p, s)
        BY <2>1, <3>2 DEF Apply
      <4>2. /\ r \in Rules
            /\ r.id = s.id /\ r.aliases = s.aliases /\ r.tags = s.tags
            /\ r.compiles = s.compiles /\ [s EXCEPT !.severity = r.severity] = r
            /\ r.severity # s.severity =>
                 r.id \in DOMAIN p.overrides /\ r.severity = p.overrides[r.id]
        BY <1>0, <3>2, <4>1, OverriddenFacts
      <4> QED
        BY <1>0, <2>1, <3>2, <4>2 DEF Selected
    <3> QED
      BY <3>1, <3>2
  <2>5. profile' = NoProfile => cat' = full'
    BY <1>0, <2>1
  <2>6. ASSUME verdict = "ok", NEW r \in cat' PROVE r.compiles
    <3>1. PICK s \in full : r.compiles = s.compiles
      BY <2>4 DEF Selected
    <3> QED
      BY <1>0, <2>6, <3>1 DEF IInv, VerdictInv
  <2> QED
    BY <1>0, <2>1, <2>3, <2>4, <2>5, <2>6 DEF IInv, TypeOK, SelectionInv, VerdictInv
<1> QED
  BY <1>1, <1>2

LEMMA ApplyScanFiltersInv == IInv /\ ApplyScanFilters /\ UNCHANGED verdict => IInv'
<1> SUFFICES ASSUME IInv, ApplyScanFilters, UNCHANGED verdict PROVE IInv'
  OBVIOUS
<1>0. /\ TypeOK /\ LayersInv /\ pc = "filter" /\ pc' = "compile" /\ filter = NoFilter
      /\ UNCHANGED <<layer, read, full, profile>>
      /\ \A r \in cat : \E s \in full : Selected(s, r)
      /\ profile = NoProfile => cat = full
  BY DEF IInv, ApplyScanFilters, SelectionInv
<1>1. PICK f \in Filters :
        /\ filter' = f
        /\ cat' = IF f = NoFilter THEN cat ELSE {r \in cat : FilterMatches(f, r)}
        /\ log' = log \cup
             IF f = NoFilter THEN {}
             ELSE {<<"unknownSelector", x>> : x \in UnknownSelectors(f, cat)}
                  \cup (IF cat' = {} THEN {<<"zeroRules">>} ELSE {})
  BY DEF ApplyScanFilters
<1>2. LayersInv'
  BY <1>0, <1>1, LayersStay
<1>3. cat' \subseteq cat
  BY <1>1
<1>4. ASSUME NEW n \in f.rules
      PROVE  \/ \E r \in cat' : n \in Names(r)
             \/ <<"unknownSelector", n>> \in log'
             \/ \E r \in full : n \in Names(r) /\ ~TagsAllow(f, r)
  <2>1. f # NoFilter
    BY <1>4 DEF NoFilter
  <2>2. CASE n \notin AllNames(cat)
    BY <1>1, <1>4, <2>1, <2>2 DEF UnknownSelectors
  <2>3. CASE n \in AllNames(cat)
    <3>1. PICK r \in cat : n \in Names(r)
      BY <2>3 DEF AllNames
    <3>2. CASE TagsAllow(f, r)
      <4>1. FilterMatches(f, r)
        BY <1>4, <3>1, <3>2 DEF FilterMatches
      <4> QED
        BY <1>1, <2>1, <3>1, <4>1
    <3>3. CASE ~TagsAllow(f, r)
      <4>1. PICK s \in full : r.id = s.id /\ r.aliases = s.aliases /\ r.tags = s.tags
        BY <1>0 DEF Selected
      <4> QED
        BY <3>1, <3>3, <4>1 DEF Names, TagsAllow
    <3> QED
      BY <3>2, <3>3
  <2> QED
    BY <2>2, <2>3
<1>5. \A s, r : Selected(s, r)' = Selected(s, r)
  BY <1>0 DEF Selected
<1>6. SelectionInv'
  BY <1>0, <1>1, <1>3, <1>4, <1>5 DEF SelectionInv
<1> QED
  BY <1>0, <1>2, <1>3, <1>6 DEF IInv, TypeOK, VerdictInv

LEMMA CompileInv == IInv /\ Compile /\ UNCHANGED verdict => IInv'
<1> SUFFICES ASSUME IInv, Compile, UNCHANGED verdict PROVE IInv'
  OBVIOUS
<1>0. /\ TypeOK /\ LayersInv /\ pc = "compile" /\ pc' \in {"failed", "ready"}
      /\ UNCHANGED <<layer, read, cat, full, profile, filter, log>>
  BY DEF IInv, Compile, Fail
<1>1. LayersInv'
  BY <1>0, LayersStay
<1>2. pc' = "ready" => \A r \in cat : r.compiles
  BY DEF Compile, Fail
<1>3. \A s, r : Selected(s, r)' = Selected(s, r)
  BY <1>0 DEF Selected
<1>4. SelectionInv'
  BY <1>0, <1>2, <1>3 DEF IInv, SelectionInv
<1> QED
  BY <1>0, <1>1, <1>4 DEF IInv, TypeOK, VerdictInv

LEMMA RunValidateRulesInv == IInv /\ RunValidateRules => IInv'
<1> SUFFICES ASSUME IInv, RunValidateRules PROVE IInv'
  OBVIOUS
<1>1. UNCHANGED <<pc, layer, read, cat, full, profile, filter, log>> /\ pc = "validate"
  BY DEF RunValidateRules, vars
<1>2. /\ verdict' \in {"ok", "rejected", "fixtures"}
      /\ verdict' = "ok" => RuleIssues(cat) = {}
      /\ verdict' = "rejected" => RuleIssues(cat) # {}
  BY DEF RunValidateRules
<1>3. (\A r : FromTop(r)' = FromTop(r)) /\ \A r, k : Shadowed(r, k)' = Shadowed(r, k)
  BY <1>1 DEF FromTop, Shadowed
<1>4. LayersInv'
  BY <1>1, <1>3 DEF IInv, LayersInv, Stacked
<1> QED
  BY <1>1, <1>2, <1>4 DEF IInv, TypeOK, SelectionInv, VerdictInv

LEMMA NextInv == IInv /\ [NextGate]_<<vars, verdict>> => IInv'
<1> SUFFICES ASSUME IInv, [NextGate]_<<vars, verdict>> PROVE IInv'
  OBVIOUS
<1>1. CASE LoadLayers /\ UNCHANGED verdict
  <2>1. (\A r : FromTop(r)' = FromTop(r)) /\ \A r, k : Shadowed(r, k)' = Shadowed(r, k)
    BY <1>1 DEF LoadLayers, FromTop, Shadowed
  <2>2. LayersInv'
    BY <1>1, <2>1 DEF LoadLayers, IInv, LayersInv, Stacked
  <2> QED
    BY <1>1, <2>2 DEF LoadLayers, IInv, TypeOK, SelectionInv, VerdictInv
<1>2. CASE UNCHANGED <<vars, verdict>>
  <2>1. (\A r : FromTop(r)' = FromTop(r)) /\ \A r, k : Shadowed(r, k)' = Shadowed(r, k)
    BY <1>2 DEF vars, FromTop, Shadowed
  <2>2. \A s, r : Selected(s, r)' = Selected(s, r)
    BY <1>2 DEF vars, Selected
  <2>3. LayersInv'
    BY <1>2, <2>1 DEF vars, IInv, LayersInv, Stacked
  <2>4. SelectionInv'
    BY <1>2, <2>2 DEF vars, IInv, SelectionInv
  <2> QED
    BY <1>2, <2>3, <2>4 DEF vars, IInv, TypeOK, VerdictInv
<1> QED
  BY <1>1, <1>2, LoadLayerInv, ValidateInv, ApplyProfileInv, ApplyScanFiltersInv, CompileInv,
     RunValidateRulesInv
  DEF NextGate, Scan, Next, Loaded

THEOREM Invariance == SpecGate => []IInv
BY InitInv, NextInv, PTL DEF SpecGate
----------------------------------------------------------------------------
(* What follows.                                                           *)

\* Top names the layer a rule of the validated catalog comes from.
LEMMA TopIsWhereFrom ==
  ASSUME IInv, NEW r \in full
  PROVE  r.id # NoId /\ r \in read[Top(r.id)]
<1>1. r.id # NoId /\ Stacked(full)
  BY DEF IInv, LayersInv, Invalid
<1>2. PICK k \in 1 .. 4 : r \in read[k] /\ \A l \in k + 1 .. 4 : r.id \notin Ids(read[l])
  BY <1>1 DEF Stacked, FromTop
<1>3. DOMAIN read = 1 .. 4
  BY DEF IInv, TypeOK
<1>4. ASSUME NEW j \in DOMAIN read, r.id \in Ids(read[j]),
             \A l \in j + 1 .. Len(Layers) : r.id \notin Ids(read[l])
      PROVE  j = k
  <2>1. r.id \in Ids(read[k])
    BY <1>2 DEF Ids
  <2>2. ~(j < k) /\ ~(k < j)
    BY <1>2, <1>3, <1>4, <2>1, Four
  <2> QED
    BY <1>3, <2>2
<1>5. k \in DOMAIN read /\ r.id \in Ids(read[k])
      /\ \A l \in k + 1 .. Len(Layers) : r.id \notin Ids(read[l])
  BY <1>2, <1>3, Four DEF Ids
<1>6. Top(r.id) = k
  BY <1>4, <1>5 DEF Top
<1> QED
  BY <1>1, <1>2, <1>6

\* The definition of a rule that runs is that of the highest layer with its id, and only
\* the profile may have changed its severity.
THEOREM TopLayerWins == SpecGate => []TopLayerRuns
<1>1. IInv => TopLayerRuns
  <2> SUFFICES ASSUME IInv, pc = "ready", NEW r \in cat
               PROVE  \E s \in read[Top(r.id)] :
                        /\ s.id = r.id /\ [s EXCEPT !.severity = r.severity] = r
                        /\ r.severity # s.severity =>
                             /\ profile # NoProfile /\ r.id \in DOMAIN profile.overrides
                             /\ r.severity = profile.overrides[r.id]
    BY DEF TopLayerRuns
  <2>1. PICK s \in full : Selected(s, r)
    BY DEF IInv, SelectionInv
  <2>2. s \in read[Top(s.id)] /\ s.id = r.id
    BY <2>1, TopIsWhereFrom DEF Selected
  <2> QED
    BY <2>1, <2>2 DEF Selected
<1> QED
  BY Invariance, <1>1, PTL

\* Layering loses no rule without logging the one that overrides it.
THEOREM LayeringLosesNothing == SpecGate => []NothingVanishes
<1>1. IInv => NothingVanishes
  <2>1. IInv => DOMAIN read = 1 .. 4
    BY DEF IInv, TypeOK
  <2> QED
    BY <2>1, Four DEF IInv, LayersInv, Stacked, Shadowed, NothingVanishes
<1> QED
  BY Invariance, <1>1, PTL

\* Every name stands for one rule of the catalog a scan runs with.
THEOREM OneRulePerName == SpecGate => []NamesUnambiguous
<1>1. IInv => NamesUnambiguous
  <2> SUFFICES ASSUME IInv PROVE NamesUnambiguous
    OBVIOUS
  <2>1. \A r \in full : r.id # NoId /\ r.id \notin r.aliases /\ NoId \notin r.aliases
    BY RuleFacts DEF IInv, TypeOK, LayersInv, Invalid
  <2>2. \A r, s \in full : r # s => Names(r) \cap Names(s) = {}
    <3> SUFFICES ASSUME NEW r \in full, NEW s \in full, r # s PROVE Names(r) \cap Names(s) = {}
      OBVIOUS
    <3>1. (Names(r) \cap Names(s)) \ {NoId} = {}
      BY DEF IInv, LayersInv, Invalid
    <3>2. NoId \notin Names(r)
      BY <2>1 DEF Names
    <3> QED
      BY <3>1, <3>2
  <2>3. \A r \in full : \A a \in r.aliases : AliasOf(full, a) = {r.id}
    <3> SUFFICES ASSUME NEW r \in full, NEW a \in r.aliases PROVE AliasOf(full, a) = {r.id}
      OBVIOUS
    <3>1. a # r.id
      BY <2>1
    <3>2. \A s \in full : a \in s.aliases => s = r
      BY <2>2 DEF Names
    <3> QED
      BY <3>1, <3>2 DEF AliasOf
  <2> QED
    BY <2>2, <2>3 DEF NamesUnambiguous
<1> QED
  BY Invariance, <1>1, PTL

\* A rule named with --rule-id runs, is left out by a tag, or its name is warned about.
THEOREM NamedRulesAreRun == SpecGate => []NamedRulesRun
<1>1. IInv => NamedRulesRun
  BY DEF IInv, SelectionInv, NamedRulesRun
<1> QED
  BY Invariance, <1>1, PTL

\* What validate-rules rejects for the rules themselves, no scan of all of them runs.
THEOREM RejectedStops == SpecGate => []RejectedCatalogStops
<1>1. IInv => RejectedCatalogStops
  BY DEF IInv, SelectionInv, VerdictInv, RejectedCatalogStops
<1> QED
  BY Invariance, <1>1, PTL

\* And what it accepts, every scan runs.
THEOREM AcceptedRuns == SpecGate => AcceptedCatalogRuns
<1>1. IInv /\ [NextGate]_<<vars, verdict>> =>
        [verdict = "ok" /\ (Validate \/ Compile) => pc' # "failed"]_<<vars, verdict>>
  <2> SUFFICES ASSUME IInv, verdict = "ok", Validate \/ Compile PROVE pc' # "failed"
    OBVIOUS
  <2>1. CASE Validate
    <3>1. Invalid(cat) = {}
      BY <2>1 DEF IInv, VerdictInv, RuleIssues, Validate
    <3> QED
      BY <2>1, <3>1 DEF Validate
  <2>2. CASE Compile
    BY <2>2 DEF IInv, VerdictInv, Compile
  <2> QED
    BY <2>1, <2>2
<1> QED
  BY Invariance, <1>1, PTL DEF SpecGate, AcceptedCatalogRuns
=============================================================================
