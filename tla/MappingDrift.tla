---------------------------- MODULE MappingDrift ----------------------------
(***************************************************************************)
(* The mapping_drift probe (internal/probes/mapping_drift.go): it lists    *)
(* the composable templates, then the mappings, pairs each index with the  *)
(* template of the longest matching pattern and reports those whose        *)
(* `dynamic` differs.  Templates and indices change between the calls and  *)
(* from one scan to the next.                                              *)
(***************************************************************************)
EXTENDS Integers, Sequences, FiniteSets, SequencesExt

CONSTANTS
  Templates,   \* template names: numbers, in the order of the alphabet
  Indices,
  System,      \* the indices whose name starts with a dot
  Patterns,
  Covers,      \* Covers[p]: the indices path.Match matches p with
  Length,      \* Length[p]: the characters of p
  PatternSets, \* the index_patterns a template may have
  Dynamics,    \* values of `dynamic`; "" stands for none
  MaxChanges   \* bound on what the cluster does between two scans, or in one

VARIABLES
  tpl,     \* tpl[t]: Absent, or its patterns and its dynamic
  dyn,     \* dyn[i]: "absent", or the dynamic of the live index
  pc,      \* "idle", "templates" listed, "done", "failed"
  listed,  \* the templates of the first call, in the order of the answer
  out,     \* the report: for each index in it, the template and the two settings
  before,  \* history: the report of the scan before, if it had one
  quiet,   \* history: nothing has changed since that scan began
  fresh,   \* history: <<i, t>> if i was made from template t and neither was edited since
  edited,  \* history: the templates that have changed since they were listed
  changes  \* changes since the last step of a scan (counted only for the bound)

vars == <<tpl, dyn, pc, listed, out, before, quiet, fresh, edited, changes>>
probe == <<pc, listed, out, before>>

Absent == [dynamic |-> "absent"]
None == <<>>
Info == [patterns : PatternSets, dynamic : Dynamics]
Defined == {t \in Templates : tpl[t] # Absent}
Live == {i \in Indices : dyn[i] # "absent"}

\* The length of the longest pattern of template x that matches i, 0 if none does.
Specificity(x, i) ==
  LET L == {Length[p] : p \in {q \in x.patterns : i \in Covers[q]}}
  IN  IF L = {} THEN 0 ELSE CHOOSE n \in L : \A m \in L : m <= n
----------------------------------------------------------------------------
(* The cluster.                                                            *)

Change == pc \in {"idle", "templates"} /\ changes < MaxChanges /\ changes' = changes + 1 /\ quiet' = FALSE

PutTemplate(t) ==
  /\ Change
  /\ \E x \in Info \cup {Absent} : x # tpl[t] /\ tpl' = [tpl EXCEPT ![t] = x]
  /\ fresh' = {p \in fresh : p[2] # t} /\ edited' = edited \cup {t}
  /\ UNCHANGED <<dyn, probe>>

\* A new index takes its setting from the matching template of the highest priority
\* (rules/mappings/composable_template_priority.yaml:8-9). The probe does not read the
\* priorities: to it, that may be any template that matches, whatever its pattern.
CreateIndex(i) ==
  LET matching == {t \in Defined : Specificity(tpl[t], i) > 0}
  IN  /\ Change /\ dyn[i] = "absent"
      /\ \/ /\ matching = {}
            /\ dyn' = [dyn EXCEPT ![i] = ""] /\ UNCHANGED fresh
         \/ \E t \in matching :
              dyn' = [dyn EXCEPT ![i] = tpl[t].dynamic] /\ fresh' = fresh \cup {<<i, t>>}
      /\ UNCHANGED <<tpl, probe, edited>>

EditIndex(i) ==
  /\ Change /\ dyn[i] # "absent"
  /\ \E d \in Dynamics \cup {"absent"} : d # dyn[i] /\ dyn' = [dyn EXCEPT ![i] = d]
  /\ fresh' = {p \in fresh : p[1] # i}
  /\ UNCHANGED <<tpl, probe, edited>>
----------------------------------------------------------------------------
(* The probe.                                                              *)

\* The answer lists the templates in any order.
GetTemplates ==
  /\ pc = "idle"
  /\ \E o \in SetToSeqs(Defined) :
       listed' = [n \in DOMAIN o |-> [name |-> o[n], patterns |-> tpl[o[n]].patterns,
                                      dynamic |-> tpl[o[n]].dynamic]]
  /\ pc' = "templates" /\ edited' = {} /\ changes' = 0
  /\ quiet' = (quiet \/ before = None)
  /\ UNCHANGED <<tpl, dyn, out, before, fresh>>

\* Variant: the order of the answer.
TemplatesByName_AsListed == listed

\* The templates T in the order of their names.
ByName(T) == CHOOSE s \in SetToSeqs(T) : \A j, k \in DOMAIN s : j < k => s[j].name < s[k].name

TemplatesByName == ByName({listed[n] : n \in DOMAIN listed})

\* Variant: any template that matches.
MatchTemplate_First(i, T) ==
  LET matching == {n \in DOMAIN T : Specificity(T[n], i) > 0}
  IN  {T[n] : n \in {m \in matching : \A k \in matching : m <= k}}

\* {} or the template with the longest matching pattern, the first of those that tie.
MatchTemplate(i, T) ==
  LET best == {n \in DOMAIN T : /\ Specificity(T[n], i) > 0
                                /\ \A m \in DOMAIN T : Specificity(T[m], i) <= Specificity(T[n], i)}
  IN  {T[n] : n \in {m \in best : \A k \in best : m <= k}}

\* The cluster's default is "true".
LiveDynamic(d) == IF d = "" THEN "true" ELSE d

\* The rows of the indices S, at most one each.
DriftOf(S) ==
  UNION {{[index |-> i, template |-> t.name, promised |-> t.dynamic, live |-> LiveDynamic(dyn[i])] :
            t \in {u \in MatchTemplate(i, TemplatesByName) :
                     u.dynamic # "" /\ u.dynamic # LiveDynamic(dyn[i])}} :
         i \in S}

Drift == DriftOf(Live \ System)

\* The second call and the join, which reads nothing but the two answers.
GetMappings ==
  /\ pc = "templates"
  /\ out' = Drift /\ pc' = "done" /\ changes' = 0
  /\ UNCHANGED <<tpl, dyn, listed, before, quiet, fresh, edited>>

Fails ==
  /\ pc \in {"idle", "templates"} /\ pc' = "failed"
  /\ listed' = <<>> /\ fresh' = {} /\ edited' = {} /\ changes' = 0
  /\ UNCHANGED <<tpl, dyn, out, before, quiet>>

\* Another scan, after one that reported.
ScanAgain ==
  /\ pc = "done" /\ before = None
  /\ before' = <<out>> /\ pc' = "idle" /\ out' = {}
  /\ UNCHANGED <<tpl, dyn, listed, quiet, fresh, edited, changes>>
----------------------------------------------------------------------------
Init ==
  /\ tpl \in [Templates -> Info \cup {Absent}]
  /\ dyn \in [Indices -> Dynamics \cup {"absent"}]
  /\ pc = "idle" /\ listed = <<>> /\ out = {} /\ before = None
  /\ quiet = TRUE /\ fresh = {} /\ edited = {} /\ changes = 0

ClusterStep ==
  \/ \E t \in Templates : PutTemplate(t)
  \/ \E i \in Indices : CreateIndex(i) \/ EditIndex(i)

Finished == (pc = "failed" \/ (pc = "done" /\ before # None)) /\ UNCHANGED vars

Next == ClusterStep \/ GetTemplates \/ GetMappings \/ Fails \/ ScanAgain \/ Finished

Spec == Init /\ [][Next]_vars
----------------------------------------------------------------------------
(* Properties.                                                             *)

\* Two scans of a cluster that does not change report the same, in whatever order it
\* lists its templates: "the rule message would be misleading if the same index
\* produced different findings across scans" (mapping_drift.go:53-55).
RepeatScanAgrees ==
  pc = "done" /\ before # None /\ quiet => <<out>> = before

\* An index made from a template, with neither edited since, be it before the scan or
\* between its calls, is reported only if that template, or the one the report names,
\* changed between the calls, or if the report names another that matches by a pattern
\* as long or longer. The last is a false alarm of the code: the cluster went by priority,
\* which the probe takes to be the longest pattern (mapping_drift.go:50-52).
FreshIndexIsClean ==
  [][GetMappings => \A r \in out', t \in Templates : <<r.index, t>> \in fresh =>
       \/ {t, r.template} \cap edited # {}
       \/ /\ r.template # t
          /\ Specificity(tpl[t], r.index) <= Specificity(tpl[r.template], r.index)]_vars

=============================================================================
