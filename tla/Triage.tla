------------------------------- MODULE Triage -------------------------------
(***************************************************************************)
(* What becomes of failing rules over successive scans: the waivers file   *)
(* (internal/waivers), the baseline file (internal/baseline), the report's *)
(* sections and the --fail-on gate (internal/report, internal/cli/scan.go) *)
(* and `esops-doctor diff'.  Between scans days pass, the operator edits   *)
(* the waivers, records a report as the next baseline or upgrades to a     *)
(* catalog that renamed rules.  A scan loads both files once, then visits  *)
(* its clusters one after the other.                                       *)
(*                                                                         *)
(* ProbeEngine says how a rule gets its status; here it is any status.     *)
(***************************************************************************)
EXTENDS Integers, FiniteSets

CONSTANTS
  Clusters,    \* the clusters a scan may visit
  DialectOf,   \* DialectOf[c]: the dialect of cluster c
  AnyDialect,  \* the empty dialect of an entry whose file did not embed one
  Versions,    \* catalogs: severity of every rule id, and alias -> canonical id
  Statuses,    \* the statuses a rule can get
  Expiries,    \* the expires_at days a waiver may be given
  NoExpiry,    \* a waiver without expires_at
  NoWaiver,
  Formats,     \* formats of recorded reports, of the four Harvest knows
  FailOn,      \* --fail-on
  MaxDay,      \* bound on the calendar
  MaxEdits     \* bound on the operator's edits of the waivers file

RuleIds == UNION {DOMAIN Versions[v].severity : v \in DOMAIN Versions}
AliasIds == UNION {DOMAIN Versions[v].alias : v \in DOMAIN Versions}
Ids == RuleIds \cup AliasIds
Severities == 0 .. 4      \* SeverityUnknown < info < warn < error < critical
Terms == Expiries \cup {NoExpiry}
Dialects == {DialectOf[c] : c \in Clusters}

ASSUME FormatsAssumption ==
  Formats \subseteq {"json", "sarif", "legacySARIF", "summary"}

\* Every value of --fail-on is a severity, and SeverityUnknown is none.
ASSUME TermsAssumption == Expiries \subseteq Nat /\ FailOn \in Severities \ {0}

\* Catalog.Validate keeps ids and aliases of one catalog apart.
ASSUME VersionsAssumption ==
  /\ 1 \in DOMAIN Versions
  /\ \A v \in DOMAIN Versions :
       /\ Versions[v].severity \in [DOMAIN Versions[v].severity -> Severities \ {0}]
       /\ DOMAIN Versions[v].alias \cap DOMAIN Versions[v].severity = {}
       /\ \A a \in DOMAIN Versions[v].alias :
            Versions[v].alias[a] \in DOMAIN Versions[v].severity

VARIABLES
  day,       \* the date (UTC)
  version,   \* the catalog the installed binary carries
  waivers,   \* the waivers file: a term, or NoWaiver, per key
  baseline,  \* the baseline file: its entries and (history) the fails it was taken from
  loaded,    \* what the scan in progress, or the last one, loaded when it started
  report,    \* its documents, one per cluster visited
  edits,     \* edits of the waivers file so far (counted only for the bound)
  code       \* Running during a scan, else its exit code (0 before the first)

vars == <<day, version, waivers, edits, baseline, loaded, report, code>>

Running == -1
Visited == DOMAIN report
Failed(c) == {i \in DOMAIN report[c].rows : report[c].rows[i].status = "fail"}
----------------------------------------------------------------------------
(* Waivers.                                                                *)

\* The waived keys that the alias index of catalog v maps to rule i.
WaivedAliases(W, v, i) ==
  {a \in DOMAIN Versions[v].alias : Versions[v].alias[a] = i /\ W[a] # NoWaiver}

\* ResolveAliases: an alias' waiver moves to the canonical id unless that has
\* one.  The aliases are visited in Go's map order, so among several waived
\* aliases of one rule any may win.
ResolveAliases(W, v) ==
  {R \in [Ids -> Terms \cup {NoWaiver}] :
     \A k \in Ids :
       R[k] \in IF k \in DOMAIN Versions[v].alias THEN {NoWaiver}
                ELSE IF W[k] # NoWaiver \/ WaivedAliases(W, v, k) = {} THEN {W[k]}
                ELSE {W[a] : a \in WaivedAliases(W, v, k)}}

\* waivers.Set.Apply on a finding of rule i; expires_at is the end of its day.
Suppression(W, i, now) ==
  IF W[i] = NoWaiver THEN "none"
  ELSE IF W[i] # NoExpiry /\ now > W[i] THEN "expired" ELSE "active"
----------------------------------------------------------------------------
(* Baselines.                                                              *)

Key(e) == <<e.rule, e.dialect>>
Keys(B) == {Key(e) : e \in B}

\* Variant: only the exact fingerprint is looked up.
MatchKeys_ExactOnly(B, i, d) == Keys(B) \cap {<<i, d>>}

\* baseline.Set.Apply: the key that matches a finding, exact form first.
MatchKeys(B, i, d) ==
  IF <<i, d>> \in Keys(B) THEN {<<i, d>>}
  ELSE Keys(B) \cap {<<i, AnyDialect>>}

\* What SARIF keeps of a severity: critical is written as error.
SARIFLevel(s) == IF s = 4 THEN 3 ELSE s

FailRows(docs) ==
  {ci \in (DOMAIN docs) \X RuleIds :
     /\ ci[2] \in DOMAIN docs[ci[1]].rows
     /\ docs[ci[1]].rows[ci[2]].status = "fail"}

\* The entries baseline.Load reads from a report written in a format: one per
\* fail row, waived and baselined ones included.  A --summary-only document has
\* no rows; SARIF of other or older producers has no dialect.
Harvest(docs, format) ==
  {[rule |-> ci[2],
    dialect |-> IF format = "legacySARIF" THEN AnyDialect ELSE DialectOf[ci[1]],
    severity |-> IF format = "json" THEN docs[ci[1]].rows[ci[2]].severity
                 ELSE SARIFLevel(docs[ci[1]].rows[ci[2]].severity)] :
     ci \in IF format = "summary" THEN {} ELSE FailRows(docs)}

\* Variant: entries of unknown rules are dropped without a word.
Drift_KnownOnly(B, rows, d) ==
  LET matched == UNION {MatchKeys(B, i, d) : i \in {r \in DOMAIN rows : rows[r].status = "fail"}}
  IN  {[entry |-> e, reason |-> "did_not_fire"] :
         e \in {f \in B : Key(f) \notin matched /\ f.rule \in DOMAIN rows}}

\* The entries reported as drift after one cluster's results were annotated.
Drift(B, rows, d) ==
  LET matched == UNION {MatchKeys(B, i, d) : i \in {r \in DOMAIN rows : rows[r].status = "fail"}}
  IN  {[entry |-> e,
        reason |-> IF e.rule \in DOMAIN rows THEN "did_not_fire" ELSE "rule_unknown"] :
         e \in {f \in B : Key(f) \notin matched}}
----------------------------------------------------------------------------
(* The report and the gate.                                                *)

IsActiveWaiver(row) == row.waiver = "active"
IsBaselined(row) == row.baselined

InFindings(row) ==
  row.status = "fail" /\ ~IsActiveWaiver(row) /\ ~IsBaselined(row)
InBaselined(row) == row.status = "fail" /\ IsBaselined(row) /\ ~IsActiveWaiver(row)
\* MaxFailingSeverity takes the largest of these.
GateSeverities(rows) ==
  {0} \cup {rows[i].severity : i \in {r \in DOMAIN rows :
              /\ rows[r].status = "fail"
              /\ ~IsActiveWaiver(rows[r]) /\ ~IsBaselined(rows[r])}}

\* runScan, runMultiClusterScan: the exit code for the documents.
GateCode(docs) ==
  IF \E c \in DOMAIN docs : \E s \in GateSeverities(docs[c].rows) : s >= FailOn
  THEN 20 ELSE 0
----------------------------------------------------------------------------
(* diff OLD NEW.                                                           *)

\* Variant: a finding counts as added only when its rule is new to the report.
Added_ByRule(old, new) == {e \in new : \A f \in old : f.rule # e.rule}

Added(old, new) == {e \in new : Key(e) \notin Keys(old)}

\* severityChanged: error and critical count as one severity, as in SARIF.
SeverityChanged(a, b) == a # b /\ ~({a, b} \subseteq {3, 4}) /\ 0 \notin {a, b}

\* regressed: the exit code of diff.
DiffCode(old, new) ==
  IF \/ Added(old, new) # {}
     \/ \E f \in old, e \in new :
          Key(e) = Key(f) /\ SeverityChanged(f.severity, e.severity)
            /\ e.severity > f.severity
  THEN 20 ELSE 0
----------------------------------------------------------------------------
NoBaseline == [entries |-> {}, from |-> {}]

Init ==
  /\ day = 0
  /\ version = 1
  /\ waivers = [k \in Ids |-> NoWaiver]
  /\ edits = 0
  /\ baseline = NoBaseline
  /\ loaded = [file |-> waivers, waivers |-> waivers, baseline |-> baseline,
               version |-> 1, rules |-> {}, todo |-> {}]
  /\ report = << >>
  /\ code = 0

\* Midnight, also while a scan is under way.
NextDay ==
  /\ day < MaxDay
  /\ day' = day + 1
  /\ UNCHANGED <<version, waivers, edits, baseline, loaded, report, code>>

\* The operator adds, changes or removes a waiver.
EditWaiver ==
  /\ edits < MaxEdits
  /\ \E k \in Ids, w \in Terms \cup {NoWaiver} :
       waivers[k] # w /\ waivers' = [waivers EXCEPT ![k] = w]
  /\ edits' = edits + 1
  /\ UNCHANGED <<day, version, baseline, loaded, report, code>>

\* A binary with the next catalog is installed.
Upgrade ==
  /\ version + 1 \in DOMAIN Versions /\ code # Running
  /\ version' = version + 1
  /\ UNCHANGED <<day, waivers, edits, baseline, loaded, report, code>>

\* The operator keeps the last report as the baseline of the scans to come.
Record ==
  /\ code # Running /\ Visited # {}
  /\ \E format \in Formats :
       baseline' =
         [entries |-> Harvest(report, format),
          from    |-> IF format = "summary" THEN {}
                      ELSE UNION {{<<i, DialectOf[c], report[c].rows[i].waiver>> :
                                     i \in Failed(c)} : c \in Visited}]
  /\ UNCHANGED <<day, version, waivers, edits, loaded, report, code>>

\* buildEngineAndWaivers and loadBaseline: both files are read, aliases are
\* resolved against the whole catalog, a profile or filter narrows the rules.
StartScan ==
  /\ code # Running
  /\ \E T \in SUBSET Clusters \ {{}},
        rules \in SUBSET DOMAIN Versions[version].severity,
        R \in ResolveAliases(waivers, version) :
       loaded' = [file |-> waivers, waivers |-> R, baseline |-> baseline,
                  version |-> version, rules |-> rules, todo |-> T]
  /\ report' = << >>
  /\ code' = Running
  /\ UNCHANGED <<day, version, waivers, edits, baseline>>

\* Variant: the waivers file is read again for every cluster.
Annotate_Reread(c, status) ==
  [i \in loaded.rules |->
     [status    |-> status[i],
      severity  |-> Versions[loaded.version].severity[i],
      waiver    |-> IF status[i] = "fail" THEN Suppression(waivers, i, day) ELSE "none",
      baselined |-> status[i] = "fail" /\ MatchKeys(loaded.baseline.entries, i, DialectOf[c]) # {}]]

\* The results of cluster c once waivers and baseline have been applied.
Annotate(c, status) ==
  [i \in loaded.rules |->
     [status    |-> status[i],
      severity  |-> Versions[loaded.version].severity[i],
      waiver    |-> IF status[i] = "fail" THEN Suppression(loaded.waivers, i, day) ELSE "none",
      baselined |-> status[i] = "fail" /\ MatchKeys(loaded.baseline.entries, i, DialectOf[c]) # {}]]

\* scanOneCluster: the day is that of this cluster's scanStart.
ScanCluster(c) ==
  /\ code = Running /\ c \in loaded.todo
  /\ \E status \in [loaded.rules -> Statuses] :
       report' = [d \in Visited \cup {c} |->
                    IF d = c THEN [day |-> day, rows |-> Annotate(c, status)]
                    ELSE report[d]]
  /\ loaded' = [loaded EXCEPT !.todo = @ \ {c}]
  /\ UNCHANGED <<day, version, waivers, edits, baseline, code>>

\* The report is rendered and the gate decides.
Finish ==
  /\ code = Running /\ loaded.todo = {}
  /\ code' = GateCode(report)
  /\ UNCHANGED <<day, version, waivers, edits, baseline, loaded, report>>

Next == \/ NextDay \/ EditWaiver \/ Upgrade \/ Record \/ StartScan \/ Finish
        \/ \E c \in Clusters : ScanCluster(c)

Spec == Init /\ [][Next]_vars
----------------------------------------------------------------------------
(* Properties.                                                             *)

\* A finding is waived just when the file the scan started with excuses its rule
\* on the day its cluster was scanned, under the rule's id or a deprecated alias;
\* the explicit id wins, and an expired waiver excuses nothing (docs/waivers.md).
WaiverCountsOnItsDay ==
  \A c \in Visited : \A i \in Failed(c) :
    LET keys  == {i} \cup {a \in DOMAIN Versions[loaded.version].alias :
                             Versions[loaded.version].alias[a] = i}
        given == {k \in keys : loaded.file[k] # NoWaiver}
        valid == {k \in given : loaded.file[k] = NoExpiry
                                  \/ report[c].day <= loaded.file[k]}
        w     == report[c].rows[i].waiver
    IN  /\ w = "none" <=> given = {}
        /\ w = "active" => valid # {}
        /\ w = "expired" => given \ valid # {}
        /\ i \in given => (w = "active" <=> i \in valid)

\* Within one fleet scan a waiver can lapse between two clusters, at midnight,
\* but never come back.
LapsedStaysLapsed ==
  \A c, d \in Visited : \A i \in Failed(c) \cap Failed(d) :
    report[c].day <= report[d].day /\ report[c].rows[i].waiver = "expired"
      => report[d].rows[i].waiver = "expired"

\* A waiver excuses what it names, to the end of its last day and not again.
WaiversHonoured == WaiverCountsOnItsDay /\ LapsedStaysLapsed

\* The baseline hides a finding only if the recorded report showed that rule
\* failing on that dialect (on any dialect, when the file names none).
OnlyKnownFailuresHidden ==
  \A c \in Visited : \A i \in Failed(c) :
    report[c].rows[i].baselined =>
      \E f \in loaded.baseline.from :
        /\ f[1] = i
        /\ f[2] = DialectOf[c]
           \/ [rule |-> i, dialect |-> AnyDialect] \in
                {[rule |-> e.rule, dialect |-> e.dialect] : e \in loaded.baseline.entries}

\* What the recorded report showed failing, and still fails under the same id,
\* does not trip the gate: a baseline can be adopted with everything red.
RecordedStaysQuiet ==
  \A c \in Visited : \A i \in Failed(c) :
    (\E f \in loaded.baseline.from : f[1] = i /\ f[2] = DialectOf[c])
      => ~InFindings(report[c].rows[i])

\* The baseline is exact: it hides what was recorded, and nothing else.
BaselineIsExact == OnlyKnownFailuresHidden /\ RecordedStaysQuiet

DriftOf(c) == Drift(loaded.baseline.entries, report[c].rows, DialectOf[c])

\* "Reported so baselines don't rot silently" (apply.go:27): per cluster an entry
\* hides a finding or is reported as drift, and as unknown just when no rule that
\* was evaluated has its id.
NoSilentRot ==
  \A c \in Visited, e \in loaded.baseline.entries :
    \/ e.rule \in Failed(c) /\ e.dialect \in {DialectOf[c], AnyDialect}
    \/ \E r \in DriftOf(c) :
         r.entry = e /\ (r.reason = "rule_unknown" <=> e.rule \notin loaded.rules)

\* The two ratchets agree: a scan that loaded a baseline exits 20 only if diff, from
\* that baseline to the report of the scan, finds something added and exits 20 too.
DiffAgreesWithGate ==
  code = 20 =>
    LET old == loaded.baseline.entries
        new == Harvest(report, "json")
    IN  Added(old, new) # {} /\ DiffCode(old, new) = 20
----------------------------------------------------------------------------
(* What docs and comments say, and the code does not do.                   *)

\* "Active waivers were not failures at the time the baseline was written, so
\* they shouldn't suppress a fresh failure now" (baseline/json.go:105-108).
ActiveWaiversNotHarvested ==
  \A c \in Visited : \A i \in Failed(c) :
    InBaselined(report[c].rows[i]) =>
      \E f \in loaded.baseline.from : f[1] = i /\ f[3] # "active"

\* did_not_fire: "the baseline entry's rule did run but did not fail in the
\* current scan" (baseline/apply.go:20).
DidNotFireMeansRan ==
  \A c \in Visited : \A r \in DriftOf(c) :
    r.reason = "did_not_fire" =>
      /\ r.entry.rule \in loaded.rules
      /\ report[c].rows[r.entry.rule].status = "pass"

============================================================================
