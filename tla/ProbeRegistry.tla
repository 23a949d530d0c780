--------------------------- MODULE ProbeRegistry ---------------------------
(***************************************************************************)
(* The probe registry (internal/probes/probes.go): a rule's probe, by its  *)
(* name, is sent to the adapter that asks the cluster, if the client has   *)
(* every capability the adapter calls.  The adapters are those that make   *)
(* two calls and reduce the answers; the cluster changes while they do.    *)
(***************************************************************************)
EXTENDS Integers, Sequences, FiniteSets

CONSTANTS
  Repos, Ids, MaxTime, Slo, GapLimit, Ends,                      \* SnapshotRecency
  Templates, Patterns, Covers, Length, PatternSets, Dynamics,    \* MappingDrift
  Nodes, RoleSets, DataTiers, Preferences,                       \* TierLayout
  Indices, System,                                               \* both
  SnapshotChanges, DriftChanges, TierChanges                     \* their bounds

ASSUME TimesAssumption == MaxTime \in Nat \ {0} /\ Slo \in Nat /\ GapLimit \in Nat
ASSUME EndsAssumption == Ends \subseteq {"SUCCESS", "FAILED", "PARTIAL", "other"}
ASSUME NamesAssumption ==
  /\ Templates \subseteq Nat /\ System \subseteq Indices
  /\ IsFiniteSet(Templates) /\ IsFiniteSet(Ids)
ASSUME PatternsAssumption ==
  /\ Covers \in [Patterns -> SUBSET Indices] /\ Length \in [Patterns -> Nat]
  /\ PatternSets \subseteq SUBSET Patterns /\ "absent" \notin Dynamics
ASSUME TiersAssumption == Preferences \subseteq SUBSET DataTiers /\ {} \in Preferences

VARIABLES
  name,       \* the probe a rule asks for
  configured, \* the capabilities the client has, of those the probe calls
  answer,     \* "none", "asked", "data", or why there are none
  pc, listed, out, changes,                     \* of the adapter, see its module
  now, repos, snaps, known, kept,               \* SnapshotRecency
  tpl, dyn, before, quiet, fresh, edited,       \* MappingDrift, edited also TierLayout
  roles, prefs, stranded, placed, moved         \* TierLayout

adapter == <<pc, listed, out, changes>>
ofSnapshots == <<now, repos, snaps, known, kept>>
ofDrift == <<tpl, dyn, before, quiet, fresh>>
ofTiers == <<roles, prefs, stranded, placed, moved>>
vars == <<name, configured, answer, adapter, ofSnapshots, ofDrift, edited, ofTiers>>

Recency == INSTANCE SnapshotRecency WITH MaxChanges <- SnapshotChanges
Drift == INSTANCE MappingDrift WITH MaxChanges <- DriftChanges
Tiers == INSTANCE TierLayout WITH MaxChanges <- TierChanges

\* The capability each call of an adapter goes through, by the pc it is made at.
Calls ==
  [snapshot_recency |-> [idle |-> "Snapshot", snapshots |-> "Snapshot"],
   mapping_drift |-> [idle |-> "IndexTemplateGet", templates |-> "Mappings"],
   tier_layout |-> [idle |-> "Nodes", nodes |-> "IndexSettings"]]

Called(p) == {Calls[p][c] : c \in DOMAIN Calls[p]}

\* Variant: the capability of the first call only.
Needs_First(p) == {Calls[p].idle}

\* What an arm of dispatch checks for nil.
Needs(p) ==
  CASE p = "snapshot_recency" -> {"Snapshot"}
    [] p = "mapping_drift" -> {"Mappings", "IndexTemplateGet"}
    [] p = "tier_layout" -> {"Nodes", "IndexSettings"}
----------------------------------------------------------------------------
\* The client of a cluster has what it has: chosen here, where it is looked at.
NotFound ==
  /\ pc = "idle" /\ pc' = "failed" /\ answer' = "not found"
  /\ configured' \in SUBSET Called(name) /\ ~(Needs(name) \subseteq configured')
  /\ UNCHANGED <<name, listed, out, changes, ofSnapshots, ofDrift, edited, ofTiers>>

\* The arm of a probe calls its adapter, which makes the first of its calls.
Dispatch(p) ==
  IF pc = "idle" /\ pc' # "idle"
  THEN configured' \in SUBSET Called(p) /\ Needs(p) \subseteq configured'
  ELSE UNCHANGED configured

\* ErrUnsupported becomes ErrProbeNotApplicable, any other error stays what it is.
Probe ==
  answer' \in CASE pc' = pc -> {answer}
                [] pc' = "failed" -> {"not applicable", "error"}
                [] pc' = "done" -> {"data"}
                [] pc' = "idle" -> {"none"}
                [] OTHER -> {"asked"}

\* A step of the adapter or of the cluster.
Step(p, next) == name = p /\ next /\ Dispatch(p) /\ Probe /\ UNCHANGED name

StepRecency == Step("snapshot_recency", Recency!Next) /\ UNCHANGED <<ofDrift, edited, ofTiers>>
StepDrift == Step("mapping_drift", Drift!Next) /\ UNCHANGED <<ofSnapshots, ofTiers>>
StepTiers == Step("tier_layout", Tiers!Next) /\ UNCHANGED <<ofSnapshots, ofDrift>>
----------------------------------------------------------------------------
\* The state of the adapters not in play.
NoSnapshots == now = 1 /\ repos = {} /\ snaps = <<>> /\ known = {} /\ kept = {}
NoDrift == tpl = <<>> /\ dyn = <<>> /\ before = <<>> /\ quiet = TRUE /\ fresh = {}
NoTiers == roles = <<>> /\ prefs = <<>> /\ stranded = {} /\ placed = {} /\ moved = FALSE

Init ==
  /\ name \in DOMAIN Calls /\ answer = "none" /\ configured = {}
  /\ \/ name = "snapshot_recency" /\ Recency!Init /\ NoDrift /\ edited = {} /\ NoTiers
     \/ name = "mapping_drift" /\ Drift!Init /\ NoSnapshots /\ NoTiers
     \/ name = "tier_layout" /\ Tiers!Init /\ NoSnapshots /\ NoDrift

Next == NotFound \/ StepRecency \/ StepDrift \/ StepTiers

Spec == Init /\ [][Next]_vars
----------------------------------------------------------------------------
(* Properties.                                                             *)

\* A probe is asked only if every call it will make has a capability behind it, the
\* second one included ("the registry must report a clean Skipped result rather than
\* panic on nil method receivers", probes.go:185-189), and is skipped as not found only
\* if some call has none.
DispatchIsExact ==
  LET missing == Called(name) \ configured
  IN  (answer \in {"asked", "data"} => missing = {}) /\ (answer = "not found" => missing # {})

\* The gap in days since and between successes is the longest silence there was.
GapIsLongestSilence == name = "snapshot_recency" => Recency!GapIsLongestSilence

\* The three rules over snapshots leave neither a false alarm nor a hole, whatever the
\* cluster does between the list of snapshots and the list of repositories.
RecencyRulesAgree == name = "snapshot_recency" => Recency!RecencyRulesAgree

\* The same index does not produce different drift findings in two scans of a cluster
\* that did not change.
RepeatScanAgrees == name = "mapping_drift" => Drift!RepeatScanAgrees

\* A drift report on an index fresh from a template is stale by a template that changed
\* between the calls, or is the false alarm of a template that won by its priority over
\* one with a pattern as long or longer.
FreshIndexIsClean ==
  [][name = "mapping_drift" /\ Drift!GetMappings =>
       \A r \in out', t \in Templates : <<r.index, t>> \in fresh =>
         \/ {t, r.template} \cap edited # {}
         \/ /\ r.template # t
            /\ Drift!Specificity(tpl[t], r.index) <= Drift!Specificity(tpl[r.template], r.index)]_vars

\* The verdict on the tiers of an index held at some moment of the probe, unless the
\* nodes and that preference both changed.
VerdictHeldOnce == name = "tier_layout" => Tiers!VerdictHeldOnce
=============================================================================
