------------------------------ MODULE Reports ------------------------------
(***************************************************************************)
(* The report of a scan in each of its formats (internal/report): table,   *)
(* JSON (YAML and HTML show the same document), SARIF and JUnit, for one   *)
(* cluster and for a fleet.  Each renderer decides anew what to make of a  *)
(* row that failed under a waiver or a baseline; a CI job reads one of     *)
(* them, and the exit code.                                                *)
(*                                                                         *)
(* The clusters are scanned one after the other, rule by rule; documents   *)
(* are functions of what was found and of the output flags.  Triage says   *)
(* how rows come by their annotations; here they have any.                 *)
(***************************************************************************)
EXTENDS Integers, Sequences, FiniteSets, SequencesExt

CONSTANTS
  Fleets,      \* the sequences of clusters that may be scanned
  DialectOf,   \* DialectOf[c]: the dialect of cluster c
  Catalog,     \* the ids of the rules, a sequence
  SeverityOf,  \* SeverityOf[i]: the severity of rule i, and of its findings
  FailOn,      \* --fail-on
  NoDialect    \* the dialect an entry without one has

Severities == 1 .. 4      \* info < warn < error < critical

\* ParseTargets names a cluster once.
ASSUME FleetsAssumption ==
  \A f \in Fleets : f # <<>> /\ f \in Seq(DOMAIN DialectOf) /\ IsInjective(f)
\* Catalog.Validate: an id names one rule.
ASSUME CatalogAssumption ==
  /\ Catalog \in Seq(ToSet(Catalog)) /\ IsInjective(Catalog)
  /\ \A k \in DOMAIN Catalog : SeverityOf[Catalog[k]] \in Severities
ASSUME FailOnAssumption == FailOn \in Severities

VARIABLES
  pc,       \* "connect", "evaluate", "write", "written", or "failed": no report
  targets,  \* the clusters to scan
  multi,    \* whether --targets named them; else there is one
  next,     \* the position of the next target
  clusters, \* a report for each cluster visited so far
  opts      \* the output flags, chosen when the report is written

vars == <<pc, targets, multi, next, clusters, opts>>

\* What a rule can come to: sup is the waiver's suppression, base a baseline match.
Rows(i) ==
  [rule : {i}, status : {"pass", "skipped", "error"}, severity : {SeverityOf[i]},
   sup : {"none"}, base : {FALSE}]
  \cup [rule : {i}, status : {"fail"}, severity : {SeverityOf[i]},
        sup : {"none", "active", "expired"}, base : BOOLEAN]

Options == [quiet : BOOLEAN, summaryOnly : BOOLEAN, includePassed : BOOLEAN]

Sum(s) ==
  LET sum[n \in 0 .. Len(s)] == IF n = 0 THEN 0 ELSE sum[n - 1] + s[n] IN sum[Len(s)]

\* What is left of s when only the positions in K are kept.
Kept(s, K) ==
  LET at == CHOOSE p \in [1 .. Cardinality(K) -> K] :
              \A i, j \in 1 .. Cardinality(K) : i < j => p[i] < p[j]
  IN  [i \in 1 .. Cardinality(K) |-> s[at[i]]]
----------------------------------------------------------------------------
(* Annotations, and the counts of the table's footer.                      *)

IsActiveWaiver(r) == r.sup = "active"
IsBaselined(r) == r.base
Status(r, s) == r.status = s

Live == <<"info", "warn", "error", "critical">>
Columns == {"passed", "skipped", "errored", "waived", "baselined", "info", "warn", "error", "critical"}

\* The count of the summary that a row adds to: a failing row is waived, else baselined,
\* else counted by severity.
Column(r) ==
  CASE r.status = "pass" -> "passed"
    [] r.status = "skipped" -> "skipped"
    [] r.status = "error" -> "errored"
    [] r.status = "fail" -> IF IsActiveWaiver(r) THEN "waived"
                            ELSE IF IsBaselined(r) THEN "baselined" ELSE Live[r.severity]

Classify(rows) == [c \in Columns |-> Cardinality({k \in DOMAIN rows : Column(rows[k]) = c})]

LiveOf(s) == s["info"] + s["warn"] + s["error"] + s["critical"]

\* Variant: a baseline match does not excuse.
FailingSeverities_NoBaseline(rows) ==
  {r.severity : r \in {x \in ToSet(rows) : Status(x, "fail") /\ ~IsActiveWaiver(x)}}

\* MaxFailingSeverity, as the set of severities it is the largest of.
FailingSeverities(rows) ==
  {r.severity : r \in {x \in ToSet(rows) :
     Status(x, "fail") /\ ~IsActiveWaiver(x) /\ ~IsBaselined(x)}}

\* Variant: --quiet leaves out every row that does not trip the gate.
Shown_GateOnly(rows, o) ==
  Kept(rows, {k \in DOMAIN rows :
    o.quiet => \/ rows[k].status = "error"
               \/ rows[k].status = "fail" /\ ~IsActiveWaiver(rows[k]) /\ ~IsBaselined(rows[k])})

\* buildResults, sarifResults, junitTestCases: what --quiet leaves of the rows.
Shown(rows, o) ==
  Kept(rows, {k \in DOMAIN rows : o.quiet => rows[k].status \notin {"pass", "skipped"}})
----------------------------------------------------------------------------
(* The table.                                                              *)

\* The sections a row may stand in.
InWaived(r) == Status(r, "fail") /\ IsActiveWaiver(r)
InBaselined(r) == Status(r, "fail") /\ IsBaselined(r) /\ ~IsActiveWaiver(r)

\* Variant: baselined failures stay among the findings.
InFindings_ShowAll(r) == Status(r, "fail") /\ ~IsActiveWaiver(r)

InFindings(r) == Status(r, "fail") /\ ~IsActiveWaiver(r) /\ ~IsBaselined(r)

\* writeSkipped and writeErrors.
InSkipped(r) == Status(r, "skipped")
InErrors(r) == Status(r, "error")

\* Table: its sections, and the counts of its footer.
Table(rows, o) ==
  LET sect(K) == IF o.summaryOnly THEN <<>> ELSE Kept(rows, K)
      D == DOMAIN rows
  IN  [findings |-> sect({k \in D : InFindings(rows[k])}),
       waived |-> sect({k \in D : InWaived(rows[k])}),
       baselined |-> sect({k \in D : InBaselined(rows[k])}),
       passed |-> sect({k \in D : o.includePassed /\ Status(rows[k], "pass")}),
       skipped |-> sect({k \in D : ~o.quiet /\ InSkipped(rows[k])}),
       errors |-> sect({k \in D : InErrors(rows[k])}),
       footer |-> Classify(rows)]

\* MultiTable: the blocks before the fleet's summary line.
MultiTable(cs, o) ==
  [k \in DOMAIN cs |-> [connectFailed |-> cs[k].failed,
                        table |-> Table(IF cs[k].failed THEN <<>> ELSE cs[k].rows, o)]]
----------------------------------------------------------------------------
(* JSON, and the HTML made from it.                                        *)

\* toResult: the wire status is the rule's, whatever annotations it has.
ToResult(r, d) ==
  [rule |-> r.rule, status |-> r.status, severity |-> r.severity,
   fingerprint |-> IF r.status = "fail" THEN {<<r.rule, d>>} ELSE {},
   suppression |-> r.sup, baseline |-> r.base]

\* BuildDocument; results is empty under --summary-only.
BuildDocument(c, o) ==
  LET shown == IF o.summaryOnly THEN <<>> ELSE Shown(c.rows, o)
  IN  [dialect |-> DialectOf[c.target], ruleCount |-> Len(c.rows),
       summary |-> Classify(c.rows),
       results |-> [k \in DOMAIN shown |-> ToResult(shown[k], DialectOf[c.target])]]

\* displayStatus: what the HTML page says of a result.
DisplayStatus(res) ==
  IF res.status = "fail" /\ res.suppression = "active" THEN "waived" ELSE res.status

\* buildFleetDocument's totals, and those of the table's fleet line: a cluster that
\* could not be reached adds to none of the counts.
FleetSummary(cs) ==
  LET count(k, c) == IF cs[k].failed THEN 0 ELSE Classify(cs[k].rows)[c]
      unreachable == {k \in DOMAIN cs : cs[k].failed}
  IN  [total |-> Len(cs), unreachable |-> Cardinality(unreachable),
       scanned |-> Cardinality(DOMAIN cs \ unreachable),
       counts |-> [c \in Columns |-> Sum([k \in DOMAIN cs |-> count(k, c)])]]

\* The JSON of a scan: its top-level keys, and a document for each cluster reached;
\* that of a fleet (buildFleetDocument) has an entry for every cluster.
JSONReport(cs, o) ==
  [keys |-> {"schema_version", "tool"} \cup (IF multi THEN {"clusters"} ELSE {"cluster"}),
   entries |-> [k \in DOMAIN cs |->
     [label |-> cs[k].target,
      documents |-> IF cs[k].failed THEN <<>> ELSE <<BuildDocument(cs[k], o)>>]]]
----------------------------------------------------------------------------
(* SARIF.                                                                  *)

SarifKind(s) ==
  CASE s = "pass" -> "pass" [] s = "fail" -> "fail"
    [] s = "skipped" -> "notApplicable" [] s = "error" -> "review"

\* Critical is written as error.
SarifLevel(v) == IF v = 4 THEN 3 ELSE v

\* sarifRules: one descriptor per rule id, in order, of all rows.
SarifRules(rows) == [k \in DOMAIN rows |-> rows[k].rule]

\* sarifResultOf, with the index of the rule's descriptor.
SarifResultOf(c, shown, k) ==
  LET r == shown[k] IN
  [rule |-> r.rule,
   index |-> CHOOSE n \in DOMAIN SarifRules(c.rows) : SarifRules(c.rows)[n] = r.rule,
   kind |-> SarifKind(r.status),
   level |-> IF r.status = "fail" THEN SarifLevel(r.severity) ELSE 0,
   suppression |-> IF r.status # "fail" THEN "none"
                   ELSE IF IsActiveWaiver(r) THEN "accepted"
                   ELSE IF IsBaselined(r) THEN "underReview" ELSE "none",
   fingerprint |-> IF r.status = "fail" THEN {<<r.rule, DialectOf[c.target]>>} ELSE {}]

\* Variant: only a cluster that could not be reached is unsuccessful.
SarifRun_AlwaysOk(c, o) ==
  LET shown == IF o.summaryOnly \/ c.failed THEN <<>> ELSE Shown(c.rows, o)
  IN  [dialect |-> IF c.failed THEN NoDialect ELSE DialectOf[c.target],
       rules |-> IF c.failed THEN <<>> ELSE SarifRules(c.rows),
       results |-> [k \in DOMAIN shown |-> SarifResultOf(c, shown, k)],
       successful |-> ~c.failed]

\* buildSarif, and the run MultiSARIF writes for a cluster it could not reach.
SarifRun(c, o) ==
  LET shown == IF o.summaryOnly \/ c.failed THEN <<>> ELSE Shown(c.rows, o)
  IN  [dialect |-> IF c.failed THEN NoDialect ELSE DialectOf[c.target],
       rules |-> IF c.failed THEN <<>> ELSE SarifRules(c.rows),
       results |-> [k \in DOMAIN shown |-> SarifResultOf(c, shown, k)],
       successful |-> ~c.failed /\ \A r \in ToSet(c.rows) : ~Status(r, "error")]

SarifRuns(cs, o) == [k \in DOMAIN cs |-> SarifRun(cs[k], o)]
SarifReport(cs, o) == [keys |-> {"$schema", "version", "runs"}, runs |-> SarifRuns(cs, o)]
----------------------------------------------------------------------------
(* JUnit.                                                                  *)

\* junitTestCases: a waived failure is a skipped test, a baselined one a failure.
JUnitCase(r) ==
  CASE r.status = "pass" -> "pass"
    [] r.status = "skipped" -> "skipped"
    [] r.status = "error" -> "error"
    [] r.status = "fail" -> IF IsActiveWaiver(r) THEN "skipped" ELSE "failure"

\* buildJUnit, and the suite MultiJUnit writes for a cluster it could not reach.
JUnitSuite(c, o) ==
  LET s == Classify(c.rows)
      shown == IF o.summaryOnly THEN <<>> ELSE Shown(c.rows, o)
  IN  IF c.failed THEN [tests |-> 1, failures |-> 0, errors |-> 1, skipped |-> 0, cases |-> <<"error">>]
      ELSE [tests |-> Len(c.rows), failures |-> LiveOf(s), errors |-> s["errored"],
            skipped |-> s["skipped"] + s["waived"],
            cases |-> [k \in DOMAIN shown |-> JUnitCase(shown[k])]]

\* The totals of the <testsuites> element.
JUnitTotals(cs, o) ==
  [tests |-> Sum([k \in DOMAIN cs |-> JUnitSuite(cs[k], o).tests]),
   failures |-> Sum([k \in DOMAIN cs |-> JUnitSuite(cs[k], o).failures]),
   errors |-> Sum([k \in DOMAIN cs |-> JUnitSuite(cs[k], o).errors]),
   skipped |-> Sum([k \in DOMAIN cs |-> JUnitSuite(cs[k], o).skipped])]
----------------------------------------------------------------------------
(* Reading a report back as a baseline.                                    *)

Formats == {"table", "json", "yaml", "sarif", "junit", "html"}

\* Render and RenderMulti; the formats that are no JSON object have no keys.
Render(format, cs, o) ==
  CASE format = "json" -> JSONReport(cs, o)
    [] format = "sarif" -> SarifReport(cs, o)
    [] OTHER -> [keys |-> {}]

\* What a file holds, whatever it is called; the name decides if that does not.
DetectFormat(report, ext) ==
  CASE report.keys = {} -> "refused"
    [] "$schema" \in report.keys \/ {"runs", "version"} \subseteq report.keys -> "sarif"
    [] {"schema_version", "tool"} \subseteq report.keys -> "json"
    [] OTHER -> IF ext = ".sarif" THEN "sarif" ELSE "refused"

\* parseJSON: the fingerprint block, else rule id and document dialect.
FromJSON(report) ==
  UNION {UNION {UNION {IF res.fingerprint # {} THEN res.fingerprint ELSE {<<res.rule, d.dialect>>} :
                         res \in {x \in ToSet(d.results) : x.status = "fail"}} :
                  d \in ToSet(e.documents)} : e \in ToSet(report.entries)}

\* parseSARIF: partialFingerprints, else rule id and the run's dialect.
FromSARIF(report) ==
  UNION {UNION {IF res.fingerprint # {} THEN res.fingerprint ELSE {<<res.rule, u.dialect>>} :
                  res \in {x \in ToSet(u.results) : x.kind = "fail"}} : u \in ToSet(report.runs)}

\* The entries of a baseline file; a file that is refused fails the command.
LoadBaseline(report, ext) ==
  LET format == DetectFormat(report, ext)
  IN  [refused |-> format = "refused",
       entries |-> CASE format = "json" -> FromJSON(report)
                     [] format = "sarif" -> FromSARIF(report)
                     [] OTHER -> {}]
----------------------------------------------------------------------------
(* explain-finding.                                                        *)

\* The rows of rule i in a document: none, or one.
FindResultRow(d, i) == {res \in ToSet(d.results) : res.rule = i}

\* The clusters a report has a row of rule i for, of those in T.
Carrying(report, i, T) ==
  {e \in ToSet(report.entries) :
     e.label \in T /\ e.documents # <<>> /\ FindResultRow(e.documents[1], i) # {}}

\* Variant: without a --target the first cluster that has it will do.
ResolveFleetClusterForRule_First(report, i, target) ==
  LET found == Carrying(report, i, IF target = {} THEN ToSet(targets) ELSE target)
  IN  {e \in found : \A x \in found :
         \E n \in DOMAIN targets : targets[n] = e.label /\ \A m \in 1 .. n - 1 : targets[m] # x.label}

\* The cluster --target names, else the only one that has a row of the rule; none is
\* an error.
ResolveFleetClusterForRule(report, i, target) ==
  IF target # {} THEN Carrying(report, i, target)
  ELSE LET found == Carrying(report, i, ToSet(targets))
       IN  IF Cardinality(found) = 1 THEN found ELSE {}

\* The cluster and row explained, if any.  target is {} or the label asked for, which
\* a scan of one cluster refuses; a report that is not a doctor document is refused.
ExplainFinding(report, i, target) ==
  LET picked == CASE "schema_version" \notin report.keys -> {}
                  [] "clusters" \in report.keys -> ResolveFleetClusterForRule(report, i, target)
                  [] OTHER -> IF target = {} THEN Carrying(report, i, ToSet(targets)) ELSE {}
  IN  UNION {{<<e.label, row>> : row \in FindResultRow(e.documents[1], i)} : e \in picked}
----------------------------------------------------------------------------
Full == [quiet |-> FALSE, summaryOnly |-> FALSE, includePassed |-> FALSE]

Init ==
  /\ targets \in Fleets /\ multi \in BOOLEAN /\ (~multi => Len(targets) = 1)
  /\ pc = "connect" /\ next = 1 /\ clusters = <<>> /\ opts = Full

Current == clusters[Len(clusters)]
Visited(failed) ==
  clusters' = Append(clusters, [target |-> targets[next], failed |-> failed, rows |-> <<>>])

\* The cluster answers; or it does not, which ends a scan of one cluster and is
\* an entry of its own in a fleet.
Connect ==
  /\ pc = "connect" /\ next <= Len(targets)
  /\ \/ Visited(FALSE) /\ pc' = "evaluate"
     \/ multi /\ Visited(TRUE) /\ UNCHANGED pc
     \/ ~multi /\ pc' = "failed" /\ UNCHANGED clusters
  /\ next' = next + 1
  /\ UNCHANGED <<targets, multi, opts>>

\* The next rule's result, with the annotations waivers and baseline give it.
Evaluate ==
  /\ pc = "evaluate" /\ Len(Current.rows) < Len(Catalog)
  /\ \E r \in Rows(Catalog[Len(Current.rows) + 1]) :
       clusters' = [clusters EXCEPT ![Len(clusters)].rows = Append(@, r)]
  /\ UNCHANGED <<pc, targets, multi, next, opts>>

ClusterDone ==
  /\ pc = "evaluate" /\ Len(Current.rows) = Len(Catalog)
  /\ pc' = "connect"
  /\ UNCHANGED <<targets, multi, next, clusters, opts>>

\* A signal between clusters ends a fleet scan without a report.
Canceled ==
  /\ pc = "connect" /\ multi /\ next <= Len(targets)
  /\ pc' = "failed"
  /\ UNCHANGED <<targets, multi, next, clusters, opts>>

\* Every cluster has been visited: the report is written.
Write ==
  /\ pc = "connect" /\ next > Len(targets)
  /\ \E o \in Options : opts' = o
  /\ pc' = "written"
  /\ UNCHANGED <<targets, multi, next, clusters>>

Stopped == pc \in {"written", "failed"} /\ UNCHANGED vars

Next == Connect \/ Evaluate \/ ClusterDone \/ Canceled \/ Write \/ Stopped

Spec == Init /\ [][Next]_vars
----------------------------------------------------------------------------
(* Properties.                                                             *)

Written == pc = "written"
Reached == {c \in ToSet(clusters) : ~c.failed}

\* A reader of the report comes to the decision the exit code announces. The gate trips
\* (MaxFailingSeverityFleet) exactly when the JSON totals have a finding at or above the
\* threshold, whatever the flags; exactly when SARIF has a failing result without
\* suppression whose level can be one, also under --quiet but not under --summary-only,
\* where SARIF has no results at all (sarif.go:158-160); and there are findings exactly
\* when the failures JUnit counts are some. That count, not the <failure> cases: a
\* baselined row is such a case and no finding.
FormatsAgreeWithGate ==
  Written =>
    LET fleet == FleetSummary(clusters)
        tripped == \E c \in ToSet(clusters) : \E v \in FailingSeverities(c.rows) : v >= FailOn
        sarif == SarifRuns(clusters, opts)
    IN  /\ tripped = (\E v \in FailOn .. 4 : fleet.counts[Live[v]] > 0)
        /\ tripped /\ ~opts.summaryOnly => \E u \in ToSet(sarif) : \E res \in ToSet(u.results) :
             res.kind = "fail" /\ res.suppression = "none" /\ res.level >= SarifLevel(FailOn)
        /\ ~tripped => \A u \in ToSet(sarif) : \A res \in ToSet(u.results) :
             res.kind = "fail" /\ res.suppression = "none" =>
               res.level < FailOn \/ (FailOn = 4 /\ res.level = 3)
        /\ (\E v \in Severities : fleet.counts[Live[v]] > 0)
             <=> JUnitTotals(clusters, opts).failures > 0

\* A row shown is the same in the formats as far as they tell it apart: waived in the
\* table exactly when SARIF marks it accepted, HTML shows it as waived and JUnit as
\* skipped; baselined exactly when SARIF marks it under review; a finding otherwise. HTML
\* and JUnit do not tell a baselined row from a finding: either is "fail" and a <failure>
\* case (junit.go:145-154), and nothing else is. So an expired waiver is loud in all of
\* them; and the ruleIndex of a SARIF result points at its own rule, also when --quiet
\* leaves results out and not their descriptors.
OneVerdictPerRow ==
  Written /\ ~opts.summaryOnly =>
    \A c \in Reached : \A k \in DOMAIN Shown(c.rows, opts) :
      LET r == Shown(c.rows, opts)[k]
          t == Table(c.rows, opts)
          s == SarifRun(c, opts).results[k]
          h == DisplayStatus(BuildDocument(c, opts).results[k])
          j == JUnitSuite(c, opts).cases[k]
          in(sect) == \E x \in ToSet(sect) : x.rule = r.rule
      IN  /\ s.rule = r.rule /\ BuildDocument(c, opts).results[k].rule = r.rule
          /\ SarifRun(c, opts).rules[s.index] = r.rule
          /\ in(t.waived) <=> s.suppression = "accepted"
          /\ in(t.waived) <=> h = "waived"
          /\ in(t.waived) <=> j = "skipped" /\ r.status = "fail"
          /\ in(t.baselined) <=> s.suppression = "underReview"
          /\ in(t.findings) <=> s.kind = "fail" /\ s.suppression = "none"
          /\ in(t.findings) \/ in(t.baselined) <=> h = "fail"
          /\ in(t.findings) \/ in(t.baselined) <=> j = "failure"
          /\ in(t.errors) <=> s.kind = "review"
          /\ in(t.findings) /\ r.sup = "expired" => h = "fail" /\ j = "failure"

\* Every row is in one column of the summary whatever is shown, and the fleet's
\* totals account for every rule of every cluster reached.
SummaryIsWhole ==
  Written =>
    LET all(s) == (s["passed"] + s["skipped"] + s["errored"]) + (s["waived"] + s["baselined"]) + LiveOf(s)
    IN  /\ \A c \in Reached : all(BuildDocument(c, opts).summary) = Len(Catalog)
        /\ all(FleetSummary(clusters).counts) = Sum([k \in DOMAIN clusters |-> Len(clusters[k].rows)])

\* A cluster that could not be reached is in every report of the fleet, and the
\* totals tell "scanned and clean" from "could not scan"; also if no rule was to run.
UnreachableIsVisible ==
  Written =>
    LET fleet == FleetSummary(clusters)
        runs == SarifRuns(clusters, opts)
        blocks == MultiTable(clusters, opts)
        unscanned == {k \in DOMAIN runs : runs[k].rules = <<>> /\ ~runs[k].successful}
    IN  /\ fleet.total = Len(targets) /\ Len(runs) = Len(targets) /\ Len(blocks) = Len(targets)
        /\ \A k \in DOMAIN blocks : blocks[k].connectFailed = (k \in unscanned)
        /\ fleet.unreachable = Cardinality(unscanned)
        /\ fleet.scanned = Len(targets) - fleet.unreachable
        /\ JUnitTotals(clusters, opts).errors = fleet.counts["errored"] + fleet.unreachable

\* A SARIF run claims success exactly when its cluster was reached and none of
\* its rules errored, as JSON counts them: a partial scan is never a clean one.
PartialScanIsMarked ==
  Written => \A k \in DOMAIN clusters :
    SarifRun(clusters[k], opts).successful =
      (~clusters[k].failed /\ BuildDocument(clusters[k], opts).summary["errored"] = 0)

\* What was not scanned shows: every cluster and every row is accounted for, and
\* no format takes a scan that missed some for a clean one.
ReportIsComplete == SummaryIsWhole /\ UnreachableIsVisible /\ PartialScanIsMarked

\* A report read back as a baseline, under any file name, gives the same fingerprints
\* in JSON and in SARIF, with the right dialect for each cluster of a fleet, and --quiet
\* loses none of them; a report in another format is refused, and never taken for a
\* baseline without findings ("a typo'd --baseline path should not silently match
\* nothing", baseline.go:167-168).
BaselineRoundTrip ==
  Written /\ ~opts.summaryOnly =>
    LET failing == UNION {{<<r.rule, DialectOf[c.target]>> : r \in {x \in ToSet(c.rows) : x.status = "fail"}} :
                            c \in Reached}
    IN  \A format \in Formats, ext \in {".json", ".sarif", ".txt"} :
          LoadBaseline(Render(format, clusters, opts), ext) =
            IF format \in {"json", "sarif"} THEN [refused |-> FALSE, entries |-> failing]
            ELSE [refused |-> TRUE, entries |-> {}]

\* A finding in a JSON report can be explained: with its cluster as the --target of a
\* fleet, and without one if no other cluster has a row of the rule.  What is explained
\* is the row of that cluster and never, without a --target, one of two clusters that
\* both have the finding.
ExplainFindsTheRow ==
  Written /\ ~opts.summaryOnly =>
    LET report == JSONReport(clusters, opts)
        rowsOf(c) == {ToResult(r, DialectOf[c.target]) : r \in ToSet(Shown(c.rows, opts))}
        has(c, i) == \E row \in rowsOf(c) : row.rule = i
        failing(c, i) == \E row \in rowsOf(c) : row.rule = i /\ row.status = "fail"
    IN  \A c \in Reached, i \in ToSet(Catalog) :
          LET named == ExplainFinding(report, i, {c.target})
              picked == ExplainFinding(report, i, {})
              only == \A d \in Reached \ {c} : ~has(d, i)
          IN  /\ failing(c, i) /\ multi => Cardinality(named) = 1
              /\ failing(c, i) /\ only => Cardinality(picked) = 1
              /\ \A x \in named \cup picked : x[1] = c.target => x[2] \in rowsOf(c)
              /\ \A x \in picked : failing(c, i) => x[1] = c.target
=============================================================================
