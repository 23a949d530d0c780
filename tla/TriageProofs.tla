---------------------------- MODULE TriageProofs ----------------------------
(***************************************************************************)
(* Proofs about Triage for every catalog, fleet and calendar: waivers and  *)
(* the baseline hide what they name and nothing else, however the operator *)
(* edits, records and upgrades between the scans and during them; and, at  *)
(* the end, about WaiverFile: how a scan comes by its waivers.             *)
(***************************************************************************)
EXTENDS Triage, WaiverFile, TLAPS

Waivers == [Ids -> Terms \cup {NoWaiver}]
Entries == [rule : RuleIds, dialect : Dialects \cup {AnyDialect}, severity : Severities]
Baselines == [entries : SUBSET Entries, from : SUBSET (RuleIds \X Dialects \X {"none", "active", "expired"})]

TypeOK ==
  /\ day \in Nat /\ version \in DOMAIN Versions
  /\ waivers \in Waivers /\ baseline \in Baselines
  /\ loaded \in [file : Waivers, waivers : Waivers, baseline : Baselines,
                 version : DOMAIN Versions, rules : SUBSET RuleIds, todo : SUBSET Clusters]
  /\ Visited \subseteq Clusters

\* A baseline has an entry for every failure it was taken from, and no other.
Faithful(B) ==
  /\ \A f \in B.from : \E e \in B.entries : e.rule = f[1] /\ e.dialect \in {f[2], AnyDialect}
  /\ \A e \in B.entries : \E f \in B.from :
       f[1] = e.rule /\ (f[2] = e.dialect \/ e.dialect = AnyDialect)

BaselinesFaithful == Faithful(baseline) /\ Faithful(loaded.baseline)

\* The rules and waivers of a scan are those of one catalog and one file.
LoadedInv ==
  /\ loaded.rules \subseteq DOMAIN Versions[loaded.version].severity
  /\ loaded.waivers \in ResolveAliases(loaded.file, loaded.version)

\* Every row of the report is annotated from what the scan loaded when it started.
Annotated(c, i) ==
  LET row == report[c].rows[i]
  IN  /\ row.severity = Versions[loaded.version].severity[i]
      /\ row.waiver = IF row.status = "fail"
                      THEN Suppression(loaded.waivers, i, report[c].day) ELSE "none"
      /\ row.baselined <=> /\ row.status = "fail"
                           /\ MatchKeys(loaded.baseline.entries, i, DialectOf[c]) # {}

ReportInv ==
  /\ \A c \in Visited :
       /\ report[c].day \in Nat
       /\ DOMAIN report[c].rows = loaded.rules
       /\ \A i \in loaded.rules : Annotated(c, i)
  /\ code = 20 => GateCode(report) = 20

IInv == TypeOK /\ BaselinesFaithful /\ LoadedInv /\ ReportInv
----------------------------------------------------------------------------
(* Facts about catalogs, baselines and the report of a scan.               *)

LEMMA Catalogs ==
  ASSUME NEW v \in DOMAIN Versions
  PROVE  /\ DOMAIN Versions[v].severity \subseteq RuleIds
         /\ DOMAIN Versions[v].severity \subseteq Ids /\ DOMAIN Versions[v].alias \subseteq Ids
         /\ DOMAIN Versions[v].alias \cap DOMAIN Versions[v].severity = {}
         /\ \A i \in DOMAIN Versions[v].severity : Versions[v].severity[i] \in 1 .. 4
<1>1. Versions[v].severity \in [DOMAIN Versions[v].severity -> 1 .. 4]
  BY VersionsAssumption DEF Severities
<1>2. /\ DOMAIN Versions[v].severity \subseteq RuleIds
      /\ DOMAIN Versions[v].alias \subseteq AliasIds
  BY DEF RuleIds, AliasIds
<1> QED
  BY <1>1, <1>2, VersionsAssumption DEF Ids

LEMMA Keyed ==
  ASSUME NEW B, NEW i, NEW d, NEW k
  PROVE  /\ k \in Keys(B) <=> \E e \in B : k = <<e.rule, e.dialect>>
         /\ k \in MatchKeys(B, i, d) => k \in Keys(B) /\ k \in {<<i, d>>, <<i, AnyDialect>>}
         /\ <<i, d>> \in Keys(B) => MatchKeys(B, i, d) # {}
<1>1. k \in Keys(B) <=> \E e \in B : k = <<e.rule, e.dialect>>
  BY DEF Keys, Key
<1> QED
  BY <1>1, Zenon DEF MatchKeys

\* What a row of the report says, and that it is a row of the catalog.
LEMMA RowFacts ==
  ASSUME IInv, NEW c \in Visited, NEW i \in Failed(c)
  PROVE  /\ c \in Clusters /\ i \in loaded.rules /\ i \in DOMAIN report[c].rows
         /\ loaded.version \in DOMAIN Versions
         /\ i \in DOMAIN Versions[loaded.version].severity /\ i \in RuleIds
         /\ report[c].day \in Nat /\ report[c].rows[i].status = "fail"
         /\ report[c].rows[i].severity \in 1 .. 4
         /\ report[c].rows[i].waiver = Suppression(loaded.waivers, i, report[c].day)
         /\ report[c].rows[i].baselined <=>
              MatchKeys(loaded.baseline.entries, i, DialectOf[c]) # {}
<1>1. c \in Clusters /\ loaded.version \in DOMAIN Versions
  BY DEF IInv, TypeOK
<1>2. i \in DOMAIN report[c].rows /\ report[c].rows[i].status = "fail"
  BY DEF Failed
<1>3. i \in loaded.rules /\ report[c].day \in Nat /\ Annotated(c, i)
  BY <1>2 DEF IInv, ReportInv
<1>4. i \in DOMAIN Versions[loaded.version].severity
  BY <1>3 DEF IInv, LoadedInv
<1>5. i \in RuleIds /\ Versions[loaded.version].severity[i] \in 1 .. 4
  BY <1>1, <1>4, Catalogs
<1> QED
  BY <1>1, <1>2, <1>3, <1>4, <1>5 DEF Annotated

LEMMA RowsHarvested ==
  ASSUME IInv, NEW ci
  PROVE  ci \in FailRows(report) <=> \E c \in Visited : \E i \in Failed(c) : ci = <<c, i>>
<1>1. ASSUME NEW c \in Visited, NEW i \in Failed(c) PROVE <<c, i>> \in FailRows(report)
  <2>1. c \in DOMAIN report /\ i \in RuleIds /\ i \in DOMAIN report[c].rows
        /\ report[c].rows[i].status = "fail"
    BY RowFacts DEF Visited
  <2>2. <<c, i>> \in (DOMAIN report) \X RuleIds /\ <<c, i>>[1] = c /\ <<c, i>>[2] = i
    BY <2>1
  <2> QED
    BY <2>1, <2>2 DEF FailRows
<1>2. ASSUME ci \in FailRows(report)
      PROVE  \E c \in Visited : \E i \in Failed(c) : ci = <<c, i>>
  <2>1. PICK c \in Visited, i \in RuleIds : ci = <<c, i>>
    BY <1>2 DEF FailRows, Visited
  <2>2. i \in Failed(c)
    BY <1>2, <2>1 DEF FailRows, Failed
  <2> QED
    BY <2>1, <2>2
<1> QED
  BY <1>1, <1>2

\* The entry that a format keeps of a row.
Kept(c, i, format) ==
  [rule |-> i,
   dialect |-> IF format = "legacySARIF" THEN AnyDialect ELSE DialectOf[c],
   severity |-> IF format = "json" THEN report[c].rows[i].severity
                ELSE SARIFLevel(report[c].rows[i].severity)]

LEMMA Harvested ==
  ASSUME IInv, NEW format, NEW e
  PROVE  e \in Harvest(report, format) <=>
           format # "summary" /\ \E c \in Visited : \E i \in Failed(c) : e = Kept(c, i, format)
<1>1. e \in Harvest(report, format) <=>
        format # "summary" /\ \E ci \in FailRows(report) : e = Kept(ci[1], ci[2], format)
  BY DEF Harvest, Kept
<1>2. (\E ci \in FailRows(report) : e = Kept(ci[1], ci[2], format))
        <=> \E c \in Visited : \E i \in Failed(c) : e = Kept(c, i, format)
  <2>1. ASSUME NEW ci \in FailRows(report), e = Kept(ci[1], ci[2], format)
        PROVE  \E c \in Visited : \E i \in Failed(c) : e = Kept(c, i, format)
    <3>1. PICK c \in Visited : \E i \in Failed(c) : ci = <<c, i>>
      BY RowsHarvested
    <3>2. PICK i \in Failed(c) : ci = <<c, i>>
      BY <3>1
    <3> QED
      BY <2>1, <3>2
  <2>2. ASSUME NEW c \in Visited, NEW i \in Failed(c), e = Kept(c, i, format)
        PROVE  \E ci \in FailRows(report) : e = Kept(ci[1], ci[2], format)
    <3>1. <<c, i>> \in FailRows(report)
      BY RowsHarvested
    <3> QED
      BY <2>2, <3>1
  <2> QED
    BY <2>1, <2>2
<1> QED
  BY <1>1, <1>2

LEMMA KeptFields ==
  ASSUME NEW c, NEW i, NEW format
  PROVE  /\ Kept(c, i, format).rule = i
         /\ Kept(c, i, format).dialect =
              IF format = "legacySARIF" THEN AnyDialect ELSE DialectOf[c]
BY DEF Kept

LEMMA Suppressions == ASSUME NEW W, NEW i, NEW d
                      PROVE  Suppression(W, i, d) \in {"none", "active", "expired"}
BY DEF Suppression

\* What is recorded is what the report showed failing.
LEMMA RecordedFaithful ==
  ASSUME IInv, Record
  PROVE  baseline' \in Baselines /\ Faithful(baseline')
<1>1. PICK format \in Formats :
        baseline' = [entries |-> Harvest(report, format),
                     from |-> IF format = "summary" THEN {}
                              ELSE UNION {{<<i, DialectOf[c], report[c].rows[i].waiver>> :
                                             i \in Failed(c)} : c \in Visited}]
  BY DEF Record
<1> DEFINE E == Harvest(report, format)
           F == IF format = "summary" THEN {}
                ELSE UNION {{<<i, DialectOf[c], report[c].rows[i].waiver>> :
                               i \in Failed(c)} : c \in Visited}
<1>2. baseline'.entries = E /\ baseline'.from = F /\ baseline' = [entries |-> E, from |-> F]
  BY <1>1
<1>3. \A f : f \in F <=> format # "summary" /\ \E c \in Visited : \E i \in Failed(c) :
                             f = <<i, DialectOf[c], report[c].rows[i].waiver>>
  OBVIOUS
<1>4. \A e : e \in E <=> format # "summary" /\ \E c \in Visited : \E i \in Failed(c) :
                             e = Kept(c, i, format)
  BY Harvested
<1> HIDE DEF E, F
<1>5. ASSUME NEW e \in E PROVE e \in Entries /\ \E f \in F :
                             f[1] = e.rule /\ (f[2] = e.dialect \/ e.dialect = AnyDialect)
  <2>1. PICK c \in Visited : \E i \in Failed(c) : e = Kept(c, i, format)
    BY <1>4
  <2>2. PICK i \in Failed(c) : e = Kept(c, i, format)
    BY <2>1
  <2>3. <<i, DialectOf[c], report[c].rows[i].waiver>> \in F
    BY <1>3, <1>4
  <2>4. e.rule = i /\ e.dialect \in {DialectOf[c], AnyDialect}
    BY <2>2, KeptFields
  <2>5. c \in Clusters /\ i \in RuleIds /\ report[c].rows[i].severity \in 1 .. 4
    BY RowFacts
  <2>6. e \in Entries
    <3>1. DialectOf[c] \in Dialects
      BY <2>5 DEF Dialects
    <3> QED
      BY <2>2, <2>5, <3>1 DEF Kept, Entries, Severities, SARIFLevel
  <2> QED
    BY <2>3, <2>4, <2>6
<1>6. ASSUME NEW f \in F
      PROVE  /\ f \in RuleIds \X Dialects \X {"none", "active", "expired"}
             /\ \E e \in E : e.rule = f[1] /\ e.dialect \in {f[2], AnyDialect}
  <2>1. PICK c \in Visited : \E i \in Failed(c) : f = <<i, DialectOf[c], report[c].rows[i].waiver>>
    BY <1>3
  <2>2. PICK i \in Failed(c) : f = <<i, DialectOf[c], report[c].rows[i].waiver>>
    BY <2>1
  <2>3. Kept(c, i, format) \in E
    BY <1>3, <1>4
  <2>4. c \in Clusters /\ i \in RuleIds
        /\ report[c].rows[i].waiver \in {"none", "active", "expired"}
    BY RowFacts, Suppressions
  <2>5. DialectOf[c] \in Dialects
    BY <2>4 DEF Dialects
  <2> QED
    BY <2>2, <2>3, <2>4, <2>5, KeptFields
<1>7. E \subseteq Entries /\ F \subseteq RuleIds \X Dialects \X {"none", "active", "expired"}
  BY <1>5, <1>6
<1> QED
  BY <1>2, <1>5, <1>6, <1>7 DEF Baselines, Faithful
----------------------------------------------------------------------------
(* The invariant holds at first and is kept by every step.                 *)

LEMMA InitInv == Init => IInv
<1> SUFFICES ASSUME Init PROVE IInv
  OBVIOUS
<1> DEFINE W == [k \in Ids |-> NoWaiver]
<1>1. W \in Waivers /\ NoBaseline \in Baselines /\ Faithful(NoBaseline)
      /\ NoBaseline.entries = {} /\ NoBaseline.from = {}
  BY DEF Waivers, NoBaseline, Baselines, Faithful
<1>2. 1 \in DOMAIN Versions
  BY VersionsAssumption
<1>3. loaded = [file |-> W, waivers |-> W, baseline |-> NoBaseline,
                version |-> 1, rules |-> {}, todo |-> {}]
  BY DEF Init
<1>4. W \in ResolveAliases(W, 1)
  <2>1. \A k \in Ids : W[k] = NoWaiver
    OBVIOUS
  <2>2. \A k \in Ids : WaivedAliases(W, 1, k) = {}
    BY <1>2, <2>1, Catalogs DEF WaivedAliases
  <2>3. W \in [Ids -> Terms \cup {NoWaiver}]
    OBVIOUS
  <2> HIDE DEF W
  <2> QED
    BY <2>1, <2>2, <2>3 DEF ResolveAliases
<1>5. DOMAIN report = {}
  BY DEF Init
<1> HIDE DEF W
<1>6. loaded \in [file : Waivers, waivers : Waivers, baseline : Baselines,
                  version : DOMAIN Versions, rules : SUBSET RuleIds, todo : SUBSET Clusters]
  BY <1>1, <1>2, <1>3
<1>7. TypeOK
  BY <1>1, <1>2, <1>5, <1>6 DEF Init, TypeOK, W, Visited
<1>8. BaselinesFaithful
  BY <1>1, <1>3 DEF Init, BaselinesFaithful
<1>9. LoadedInv
  BY <1>3, <1>4 DEF LoadedInv
<1> QED
  BY <1>5, <1>7, <1>8, <1>9 DEF IInv, ReportInv, Visited, Init

LEMMA StartScanInv == IInv /\ StartScan => IInv'
<1> SUFFICES ASSUME IInv, StartScan PROVE IInv'
  OBVIOUS
<1>1. PICK T \in SUBSET Clusters \ {{}}, rules \in SUBSET DOMAIN Versions[version].severity,
           R \in ResolveAliases(waivers, version) :
        loaded' = [file |-> waivers, waivers |-> R, baseline |-> baseline,
                   version |-> version, rules |-> rules, todo |-> T]
  BY DEF StartScan
<1>2. DOMAIN report' = {} /\ code' = -1 /\ UNCHANGED <<day, version, waivers, baseline>>
  BY DEF StartScan, Running
<1>3. /\ waivers \in Waivers /\ R \in Waivers /\ baseline \in Baselines
      /\ version \in DOMAIN Versions /\ rules \in SUBSET RuleIds /\ T \in SUBSET Clusters
  BY Catalogs DEF IInv, TypeOK, ResolveAliases, Waivers
<1>4. TypeOK'
  BY <1>1, <1>2, <1>3 DEF IInv, TypeOK, Visited
<1>5. BaselinesFaithful' /\ LoadedInv'
  <2>1. loaded'.baseline = baseline /\ loaded'.version = version /\ loaded'.rules = rules
        /\ loaded'.waivers = R /\ loaded'.file = waivers
    BY <1>1
  <2> QED
    BY <1>2, <2>1 DEF IInv, BaselinesFaithful, LoadedInv
<1>6. ReportInv'
  BY <1>2 DEF ReportInv, Visited
<1> QED
  BY <1>4, <1>5, <1>6 DEF IInv

LEMMA ScanClusterInv == ASSUME NEW c \in Clusters, IInv, ScanCluster(c) PROVE IInv'
<1>1. /\ UNCHANGED <<day, version, waivers, baseline, code>> /\ code = -1
      /\ loaded' = [loaded EXCEPT !.todo = @ \ {c}]
  BY DEF ScanCluster, Running
<1>2. PICK status \in [loaded.rules -> Statuses] :
        report' = [d \in Visited \cup {c} |->
                     IF d = c THEN [day |-> day, rows |-> Annotate(c, status)] ELSE report[d]]
  BY DEF ScanCluster
<1>3. /\ loaded' \in [file : Waivers, waivers : Waivers, baseline : Baselines,
                      version : DOMAIN Versions, rules : SUBSET RuleIds, todo : SUBSET Clusters]
      /\ loaded'.file = loaded.file /\ loaded'.waivers = loaded.waivers
      /\ loaded'.baseline = loaded.baseline /\ loaded'.version = loaded.version
      /\ loaded'.rules = loaded.rules
  BY <1>1 DEF IInv, TypeOK
<1>4. /\ DOMAIN report' = Visited \cup {c}
      /\ report'[c].day = day /\ report'[c].rows = Annotate(c, status)
      /\ \A d \in Visited : d # c => report'[d] = report[d]
  BY <1>2
<1>5. TypeOK'
  BY <1>1, <1>3, <1>4 DEF IInv, TypeOK, Visited
<1>6. BaselinesFaithful' /\ LoadedInv'
  BY <1>1, <1>3 DEF IInv, BaselinesFaithful, LoadedInv
<1>7. ASSUME NEW d \in Visited'
      PROVE  /\ report'[d].day \in Nat /\ DOMAIN report'[d].rows = loaded'.rules
             /\ \A i \in loaded'.rules : Annotated(d, i)'
  <2>1. CASE d # c
    <3>1. d \in Visited /\ report'[d] = report[d]
      BY <1>4, <2>1 DEF Visited
    <3> QED
      <4>1. report'[d].day \in Nat /\ DOMAIN report'[d].rows = loaded'.rules
        BY <1>3, <3>1 DEF IInv, ReportInv
      <4>2. ASSUME NEW i \in loaded.rules PROVE Annotated(d, i)'
        <5>1. Annotated(d, i)
          BY <3>1 DEF IInv, ReportInv
        <5> QED
          BY <1>3, <3>1, <5>1 DEF Annotated
      <4> QED
        BY <1>3, <4>1, <4>2
  <2>2. CASE d = c
    <3>1. day \in Nat
      BY DEF IInv, TypeOK
    <3>2. DOMAIN Annotate(c, status) = loaded.rules
      BY DEF Annotate
    <3>3. ASSUME NEW i \in loaded.rules
          PROVE  LET row == Annotate(c, status)[i]
                 IN  /\ row.severity = Versions[loaded.version].severity[i]
                     /\ row.waiver = IF row.status = "fail"
                                     THEN Suppression(loaded.waivers, i, day) ELSE "none"
                     /\ row.baselined <=>
                          /\ row.status = "fail"
                          /\ MatchKeys(loaded.baseline.entries, i, DialectOf[c]) # {}
      BY DEF Annotate
    <3> QED
      BY <1>3, <1>4, <2>2, <3>1, <3>2, <3>3 DEF Annotated
  <2> QED
    BY <2>1, <2>2
<1>8. ReportInv'
  BY <1>1, <1>7 DEF ReportInv
<1> QED
  BY <1>5, <1>6, <1>8 DEF IInv

LEMMA NextInv == IInv /\ [Next]_vars => IInv'
<1> SUFFICES ASSUME IInv, [Next]_vars PROVE IInv'
  OBVIOUS
<1>1. ASSUME UNCHANGED <<loaded, report>>
      PROVE  (ReportInv /\ (code' = 20 => GateCode(report) = 20) => ReportInv')
             /\ (LoadedInv => LoadedInv') /\ Visited' = Visited
  <2>1. \A c, i : Annotated(c, i) => Annotated(c, i)'
    BY <1>1 DEF Annotated
  <2>2. Visited' = Visited
    BY <1>1 DEF Visited
  <2> QED
    BY <1>1, <2>1, <2>2 DEF ReportInv, LoadedInv
<1>2. CASE NextDay
  BY <1>1, <1>2 DEF NextDay, IInv, TypeOK, BaselinesFaithful, ReportInv
<1>3. CASE EditWaiver
  <2>1. waivers' \in Waivers
    BY <1>3 DEF EditWaiver, IInv, TypeOK, Waivers
  <2> QED
    BY <1>1, <1>3, <2>1 DEF EditWaiver, IInv, TypeOK, BaselinesFaithful, ReportInv
<1>4. CASE Upgrade
  BY <1>1, <1>4 DEF Upgrade, IInv, TypeOK, BaselinesFaithful, ReportInv
<1>5. CASE Record
  BY <1>1, <1>5, RecordedFaithful DEF Record, IInv, TypeOK, BaselinesFaithful, ReportInv
<1>6. CASE Finish
  <2>1. code' = 20 => GateCode(report) = 20
    BY <1>6 DEF Finish
  <2> QED
    BY <1>1, <1>6, <2>1 DEF Finish, IInv, TypeOK, BaselinesFaithful
<1>7. CASE UNCHANGED vars
  BY <1>1, <1>7 DEF vars, IInv, TypeOK, BaselinesFaithful, ReportInv
<1> QED
  BY <1>2, <1>3, <1>4, <1>5, <1>6, <1>7, StartScanInv, ScanClusterInv DEF Next

THEOREM Invariance == Spec => []IInv
BY InitInv, NextInv, PTL DEF Spec
----------------------------------------------------------------------------
(* What follows.                                                           *)

\* The waiver in force for a rule comes from one of the keys that excuse it.
LEMMA Resolved ==
  ASSUME IInv, NEW c \in Visited, NEW i \in Failed(c)
  PROVE  LET keys  == {i} \cup {a \in DOMAIN Versions[loaded.version].alias :
                                  Versions[loaded.version].alias[a] = i}
             given == {k \in keys : loaded.file[k] # NoWaiver}
             w     == loaded.waivers[i]
         IN  /\ w = NoWaiver <=> given = {}
             /\ w # NoWaiver => \E k \in given : loaded.file[k] = w
             /\ i \in given => w = loaded.file[i]
             /\ w \in Expiries \cup {NoExpiry, NoWaiver}
<1> DEFINE v == loaded.version
           A == WaivedAliases(loaded.file, v, i)
           R == loaded.waivers
<1>1. v \in DOMAIN Versions /\ i \in DOMAIN Versions[v].severity
  BY RowFacts
<1>2. i \in Ids /\ i \notin DOMAIN Versions[v].alias
  BY <1>1, Catalogs
<1>3. R \in ResolveAliases(loaded.file, v)
  BY DEF IInv, LoadedInv
<1>4. R[i] \in IF loaded.file[i] # NoWaiver \/ A = {} THEN {loaded.file[i]}
               ELSE {loaded.file[a] : a \in A}
  BY <1>2, <1>3 DEF ResolveAliases
<1>5. R[i] \in Terms \cup {NoWaiver}
  BY <1>2, <1>3 DEF ResolveAliases
<1>6. A = {a \in DOMAIN Versions[v].alias : Versions[v].alias[a] = i /\ loaded.file[a] # NoWaiver}
  BY DEF WaivedAliases
<1> HIDE DEF v, A, R
<1>7. \/ R[i] = loaded.file[i] /\ (loaded.file[i] # NoWaiver \/ A = {})
      \/ loaded.file[i] = NoWaiver /\ \E a \in A : R[i] = loaded.file[a]
  BY <1>4
<1> QED
  BY <1>5, <1>6, <1>7 DEF Terms, v, R

\* A waiver excuses what it names, to the end of its last day and not again, whatever
\* happens to the file while the scan runs.
THEOREM WaiversAreHonoured == Spec => []WaiversHonoured
<1>1. IInv => WaiverCountsOnItsDay
  <2> SUFFICES ASSUME IInv, NEW c \in Visited, NEW i \in Failed(c)
               PROVE  LET keys  == {i} \cup {a \in DOMAIN Versions[loaded.version].alias :
                                               Versions[loaded.version].alias[a] = i}
                          given == {k \in keys : loaded.file[k] # NoWaiver}
                          valid == {k \in given : loaded.file[k] = NoExpiry
                                                    \/ report[c].day <= loaded.file[k]}
                          w     == report[c].rows[i].waiver
                      IN  /\ w = "none" <=> given = {}
                          /\ w = "active" => valid # {}
                          /\ w = "expired" => given \ valid # {}
                          /\ i \in given => (w = "active" <=> i \in valid)
    BY DEF WaiverCountsOnItsDay
  <2> DEFINE keys  == {i} \cup {a \in DOMAIN Versions[loaded.version].alias :
                                  Versions[loaded.version].alias[a] = i}
             given == {k \in keys : loaded.file[k] # NoWaiver}
             t     == loaded.waivers[i]
             w     == report[c].rows[i].waiver
  <2>1. /\ t = NoWaiver <=> given = {}
        /\ t # NoWaiver => \E k \in given : loaded.file[k] = t
        /\ i \in given => t = loaded.file[i]
        /\ t \in Expiries \cup {NoExpiry, NoWaiver}
    BY Resolved
  <2>2. report[c].day \in Nat
        /\ w = IF t = NoWaiver THEN "none"
               ELSE IF t # NoExpiry /\ report[c].day > t THEN "expired" ELSE "active"
    BY RowFacts DEF Suppression
  <2>3. t \in Expiries => t \in Nat
    BY TermsAssumption
  <2> HIDE DEF given, t, w
  <2>4. t # NoWaiver => (w = "active" <=> (t = NoExpiry \/ report[c].day <= t))
                        /\ (w = "expired" <=> ~(t = NoExpiry \/ report[c].day <= t)) /\ w # "none"
    BY <2>1, <2>2, <2>3
  <2>5. t = NoWaiver => w = "none"
    BY <2>2
  <2>6. \A k \in given : loaded.file[k] # NoWaiver
    BY DEF given
  <2> QED
    BY <2>1, <2>4, <2>5, <2>6 DEF given, w
<1>2. IInv => LapsedStaysLapsed
  <2> SUFFICES ASSUME IInv, NEW c \in Visited, NEW d \in Visited,
                      NEW i \in Failed(c) \cap Failed(d),
                      report[c].day <= report[d].day, report[c].rows[i].waiver = "expired"
               PROVE  report[d].rows[i].waiver = "expired"
    BY DEF LapsedStaysLapsed
  <2> DEFINE t == loaded.waivers[i]
  <2>1. /\ report[c].rows[i].waiver = Suppression(loaded.waivers, i, report[c].day)
        /\ report[d].rows[i].waiver = Suppression(loaded.waivers, i, report[d].day)
        /\ report[c].day \in Nat /\ report[d].day \in Nat
    BY RowFacts
  <2>2. t \in Expiries \cup {NoExpiry, NoWaiver}
    BY Resolved
  <2>3. t # NoWaiver /\ t # NoExpiry /\ report[c].day > t
    BY <2>1 DEF Suppression
  <2>4. t \in Nat
    BY <2>2, <2>3, TermsAssumption
  <2>5. report[d].day > t
    BY <2>1, <2>3, <2>4
  <2> QED
    BY <2>1, <2>3, <2>5 DEF Suppression
<1>3. IInv => WaiversHonoured
  BY <1>1, <1>2 DEF WaiversHonoured
<1> QED
  BY Invariance, <1>3, PTL

\* A baseline hides the failures it was taken from, and no other.
THEOREM BaselinesAreExact == Spec => []BaselineIsExact
<1>1. IInv => OnlyKnownFailuresHidden
  <2> SUFFICES ASSUME IInv, NEW c \in Visited, NEW i \in Failed(c), report[c].rows[i].baselined
               PROVE  \E f \in loaded.baseline.from :
                        /\ f[1] = i
                        /\ \/ f[2] = DialectOf[c]
                           \/ [rule |-> i, dialect |-> AnyDialect] \in
                                {[rule |-> e.rule, dialect |-> e.dialect] :
                                   e \in loaded.baseline.entries}
    BY DEF OnlyKnownFailuresHidden
  <2> DEFINE B == loaded.baseline
  <2>1. PICK k : k \in MatchKeys(B.entries, i, DialectOf[c])
    BY RowFacts
  <2>2. k \in Keys(B.entries) /\ k \in {<<i, DialectOf[c]>>, <<i, AnyDialect>>}
    BY <2>1, Keyed
  <2>3. PICK e \in B.entries : k = <<e.rule, e.dialect>>
    BY <2>2, Keyed
  <2>4. e.rule = i /\ e.dialect \in {DialectOf[c], AnyDialect}
    BY <2>2, <2>3
  <2>5. PICK f \in B.from : f[1] = e.rule /\ (f[2] = e.dialect \/ e.dialect = AnyDialect)
    BY DEF IInv, BaselinesFaithful, Faithful
  <2>6. CASE e.dialect = AnyDialect
    <3>1. [rule |-> i, dialect |-> AnyDialect] = [rule |-> e.rule, dialect |-> e.dialect]
      BY <2>4, <2>6
    <3> QED
      BY <2>4, <2>5, <3>1
  <2>7. CASE e.dialect # AnyDialect
    BY <2>4, <2>5, <2>7
  <2> QED
    BY <2>6, <2>7
<1>2. IInv => RecordedStaysQuiet
  <2> SUFFICES ASSUME IInv, NEW c \in Visited, NEW i \in Failed(c),
                      NEW f \in loaded.baseline.from, f[1] = i, f[2] = DialectOf[c]
               PROVE  ~InFindings(report[c].rows[i])
    BY DEF RecordedStaysQuiet
  <2> DEFINE B == loaded.baseline
  <2>1. PICK e \in B.entries : e.rule = i /\ e.dialect \in {DialectOf[c], AnyDialect}
    BY DEF IInv, BaselinesFaithful, Faithful
  <2> DEFINE k == <<e.rule, e.dialect>>
  <2>2. k \in Keys(B.entries)
    BY Keyed
  <2>3. k \in {<<i, DialectOf[c]>>, <<i, AnyDialect>>}
    BY <2>1
  <2> HIDE DEF k
  <2>4. MatchKeys(B.entries, i, DialectOf[c]) # {}
    BY <2>2, <2>3, Zenon DEF MatchKeys
  <2> QED
    BY <2>4, RowFacts DEF InFindings, IsBaselined
<1>3. IInv => BaselineIsExact
  BY <1>1, <1>2 DEF BaselineIsExact
<1> QED
  BY Invariance, <1>3, PTL

\* An entry of the baseline that hides nothing is reported, under the right reason.
THEOREM BaselinesDoNotRot == Spec => []NoSilentRot
<1>1. IInv => NoSilentRot
  <2> SUFFICES ASSUME IInv, NEW c \in Visited, NEW e \in loaded.baseline.entries
               PROVE  \/ e.rule \in Failed(c) /\ e.dialect \in {DialectOf[c], AnyDialect}
                      \/ \E r \in DriftOf(c) :
                           r.entry = e /\ (r.reason = "rule_unknown" <=> e.rule \notin loaded.rules)
    BY DEF NoSilentRot
  <2> DEFINE B == loaded.baseline.entries
             rows == report[c].rows
             d == DialectOf[c]
             matched == UNION {MatchKeys(B, i, d) : i \in {r \in DOMAIN rows : rows[r].status = "fail"}}
             Reason(x) == IF x.rule \in DOMAIN rows THEN "did_not_fire" ELSE "rule_unknown"
  <2>1. CASE Key(e) \in matched
    <3>1. PICK i \in Failed(c) : Key(e) \in MatchKeys(B, i, d)
      BY <2>1 DEF Failed
    <3>2. <<e.rule, e.dialect>> \in {<<i, d>>, <<i, AnyDialect>>}
      BY <3>1, Keyed DEF Key
    <3> QED
      BY <3>2
  <2>2. CASE Key(e) \notin matched
    <3>1. DriftOf(c) = {[entry |-> x, reason |-> Reason(x)] : x \in {y \in B : Key(y) \notin matched}}
      BY DEF DriftOf, Drift
    <3>2. DOMAIN rows = loaded.rules
      BY DEF IInv, ReportInv
    <3> DEFINE r == [entry |-> e, reason |-> Reason(e)]
    <3>3. r \in DriftOf(c)
      BY <2>2, <3>1
    <3>4. r.entry = e /\ (r.reason = "rule_unknown" <=> e.rule \notin loaded.rules)
      BY <3>2
    <3> QED
      BY <3>3, <3>4
  <2> QED
    BY <2>1, <2>2
<1> QED
  BY Invariance, <1>1, PTL

\* A scan that fails against its baseline fails as a diff from that baseline too.
THEOREM RatchetsAgree == Spec => []DiffAgreesWithGate
<1>1. IInv => DiffAgreesWithGate
  <2> SUFFICES ASSUME IInv, code = 20
               PROVE  LET old == loaded.baseline.entries
                          new == Harvest(report, "json")
                      IN  Added(old, new) # {} /\ DiffCode(old, new) = 20
    BY DEF DiffAgreesWithGate
  <2> DEFINE old == loaded.baseline.entries
             new == Harvest(report, "json")
  <2>1. PICK c \in Visited : \E s \in GateSeverities(report[c].rows) : s >= FailOn
    BY DEF IInv, ReportInv, GateCode, Visited
  <2>2. PICK s \in GateSeverities(report[c].rows) : s >= FailOn
    BY <2>1
  <2>3. s # 0
    BY <2>2, TermsAssumption DEF Severities
  <2>4. PICK i \in Failed(c) : ~IsBaselined(report[c].rows[i])
    BY <2>3 DEF GateSeverities, Failed
  <2>5. MatchKeys(old, i, DialectOf[c]) = {}
    BY <2>4, RowFacts DEF IsBaselined
  <2>6. <<i, DialectOf[c]>> \notin Keys(old)
    BY <2>5, Keyed
  <2> DEFINE e == Kept(c, i, "json")
  <2>7. e \in new
    BY Harvested
  <2>8. e.rule = i /\ e.dialect = DialectOf[c]
    BY KeptFields
  <2>9. e \in Added(old, new)
    BY <2>6, <2>7, <2>8 DEF Added, Key
  <2> QED
    BY <2>9 DEF DiffCode
<1> QED
  BY Invariance, <1>1, PTL
----------------------------------------------------------------------------
(***************************************************************************)
(* How a scan comes by its waivers: proofs about WaiverFile for every      *)
(* number of default paths, every file and every alias index.  A file Stat *)
(* finds is used, and what it says is in force, whatever happens to the *)
(* files meanwhile.                                                        *)
(***************************************************************************)
FileTypeOK ==
  /\ files \in [Paths -> States] /\ flag \in BOOLEAN
  /\ pc \in {"start", "search", "read", "parse", "resolve", "ready", "failed"}
  /\ at \in 0 .. Defaults + 1 /\ (pc = "read" => at \in Paths)
  /\ content \in Contents \cup {<<>>} /\ n \in 1 .. Len(content) + 1
  /\ todo \subseteq DOMAIN Aliases

\* At no path before the one looked at could Stat find a file all along.
SearchInv ==
  /\ \A p \in present : p \in Paths /\ Found(p)
  /\ pc = "search" => ~flag
  /\ pc # "start" => /\ flag => at = 0
                     /\ ~flag => \A p \in present \ {0} : at <= p

\* Nothing has been parsed before a file was read.
UnreadInv ==
  pc \in {"start", "search", "read"} => content = <<>> /\ n = 1 /\ problems = {} /\ set = <<>>

\* The entries so far are in the set, each the first of its id, or are problems.
ParseInv ==
  pc = "parse" =>
    /\ \A k \in 1 .. n - 1 :
         k \in problems \/ (content[k].id \in DOMAIN set /\ set[content[k].id] = k)
    /\ \A i \in DOMAIN set : set[i] \in 1 .. n - 1 /\ content[set[i]].id = i

\* The aliases gone through have left the set, and the rule they stand for is in it; all
\* else is still where parse has put it.
AliasesDone == DOMAIN Aliases \ todo

ResolveInv ==
  pc = "resolve" =>
    /\ \A k \in DOMAIN content :
         IF content[k].id \in AliasesDone THEN Aliases[content[k].id] \in DOMAIN set
         ELSE content[k].id \in DOMAIN set /\ set[content[k].id] = k
    /\ \A i \in DOMAIN set :
         /\ i \notin AliasesDone /\ set[i] \in DOMAIN content
         /\ \/ content[set[i]].id = i
            \/ content[set[i]].id \in AliasesDone /\ Aliases[content[set[i]].id] = i

FileInv == FileTypeOK /\ SearchInv /\ UnreadInv /\ ParseInv /\ ResolveInv /\ EveryEntryInForce
----------------------------------------------------------------------------
LEMMA ContentIsSequence ==
  ASSUME FileTypeOK
  PROVE  /\ content \in Seq({content[k] : k \in DOMAIN content})
         /\ Len(content) \in Nat /\ DOMAIN content = 1 .. Len(content)
<1>1. content \in Seq({content[k] : k \in DOMAIN content})
  <2>1. CASE content \in Contents
    BY <2>1, ContentsAssumption
  <2>2. CASE content = <<>>
    BY <2>2
  <2> QED
    BY <2>1, <2>2 DEF FileTypeOK
<1> QED
  BY <1>1

LEMMA FileStarts == LoadInit => FileInv
<1> SUFFICES ASSUME LoadInit
             PROVE  FileInv
  OBVIOUS
<1>1. FileTypeOK
  BY DefaultsAssumption DEF LoadInit, FileTypeOK, Paths
<1>2. SearchInv /\ UnreadInv /\ ParseInv /\ ResolveInv /\ EveryEntryInForce
  BY DEF LoadInit, SearchInv, UnreadInv, ParseInv, ResolveInv, EveryEntryInForce
<1> QED
  BY <1>1, <1>2 DEF FileInv
----------------------------------------------------------------------------
(* What the operator does to the files touches only what is to be read.    *)

LEMMA SavePreserves ==
  ASSUME FileInv, NEW p \in Paths, Save(p)
  PROVE  FileInv'
<1> USE DEF Save
<1>1. FileTypeOK'
  BY DEF FileInv, FileTypeOK
<1>2. SearchInv'
  BY DEF FileInv, SearchInv, Found
<1>3. UnreadInv' /\ ParseInv'
  BY DEF FileInv, UnreadInv, ParseInv
<1>4. ResolveInv'
  BY DEF FileInv, ResolveInv, AliasesDone
<1>5. EveryEntryInForce'
  BY DEF EveryEntryInForce
<1> QED
  BY <1>1, <1>2, <1>3, <1>4, <1>5 DEF FileInv
----------------------------------------------------------------------------
(* The search and the reading of the file.                                 *)

LEMMA LoadWaiversPreserves ==
  ASSUME FileInv, LoadWaivers
  PROVE  FileInv'
<1> USE DEF LoadWaivers, world
<1>1. FileTypeOK'
  BY DefaultsAssumption DEF FileInv, FileTypeOK, Paths
<1>2. SearchInv'
  BY DEF FileInv, SearchInv, Found, Paths, FileTypeOK
<1>3. UnreadInv' /\ ParseInv' /\ ResolveInv' /\ EveryEntryInForce'
  BY DEF FileInv, UnreadInv, ParseInv, ResolveInv, EveryEntryInForce
<1> QED
  BY <1>1, <1>2, <1>3 DEF FileInv

LEMMA LoadDefaultPreserves ==
  ASSUME FileInv, LoadDefault
  PROVE  FileInv'
<1> USE DEF LoadDefault, world
<1>1. FileTypeOK'
  BY DefaultsAssumption DEF FileInv, FileTypeOK, Paths
<1>2. SearchInv'
  BY DEF FileInv, SearchInv, Found, Paths, FileTypeOK
<1>3. UnreadInv' /\ ParseInv' /\ ResolveInv'
  BY DEF FileInv, UnreadInv, ParseInv, ResolveInv
<1>4. EveryEntryInForce'
  BY DEF FileInv, UnreadInv, EveryEntryInForce
<1> QED
  BY <1>1, <1>2, <1>3, <1>4 DEF FileInv

\* What is read is one of the texts the files hold.
LEMMA TextIsContent ==
  ASSUME FileTypeOK, pc = "read", files[at].state = "text"
  PROVE  files[at].entries \in Contents
<1>1. files[at] \in States
  BY DEF FileTypeOK
<1> QED
  BY <1>1 DEF States, Missing, Unsearchable, Unreadable, Malformed

LEMMA LoadPreserves ==
  ASSUME FileInv, Load
  PROVE  FileInv'
<1> USE DEF Load, world
<1>1. CASE ReadContent
  <2> USE <1>1 DEF ReadContent
  <2>1. content' \in Contents /\ pc' = "parse" /\ n' = 1 /\ set' = <<>>
    BY TextIsContent DEF FileInv, UnreadInv
  <2>2. FileTypeOK'
    <3>1. content' \in Seq({content'[k] : k \in DOMAIN content'})
      BY <2>1, ContentsAssumption
    <3>2. n' \in 1 .. Len(content') + 1
      BY <2>1, <3>1
    <3> QED
      BY <2>1, <3>2 DEF FileInv, FileTypeOK
  <2>3. SearchInv'
    BY DEF FileInv, SearchInv, Found
  <2>4. ParseInv'
    BY <2>1 DEF ParseInv
  <2>5. UnreadInv' /\ ResolveInv' /\ EveryEntryInForce'
    BY <2>1 DEF UnreadInv, ResolveInv, EveryEntryInForce
  <2> QED
    BY <2>2, <2>3, <2>4, <2>5 DEF FileInv
<1>2. CASE \E e \in {2, 21} : Fail(e)
  <2> USE <1>2 DEF Fail
  <2>1. FileTypeOK'
    BY DEF FileInv, FileTypeOK
  <2>2. SearchInv'
    BY DEF FileInv, SearchInv, Found
  <2>3. UnreadInv' /\ ParseInv' /\ ResolveInv' /\ EveryEntryInForce'
    BY DEF UnreadInv, ParseInv, ResolveInv, EveryEntryInForce
  <2> QED
    BY <2>1, <2>2, <2>3 DEF FileInv
<1> QED
  BY <1>1, <1>2
----------------------------------------------------------------------------
(* The entries.                                                            *)

LEMMA ParseEntryPreserves ==
  ASSUME FileInv, ParseEntry
  PROVE  FileInv'
<1> DEFINE e == content[n]
<1> USE DEF ParseEntry, world
<1>1. n \in 1 .. Len(content) /\ n' = n + 1 /\ n' \in 1 .. Len(content) + 1 /\ pc' = "parse"
  BY ContentIsSequence DEF FileInv, FileTypeOK
<1>2. FileTypeOK'
  BY <1>1 DEF FileInv, FileTypeOK
<1>3. SearchInv'
  BY DEF FileInv, SearchInv, Found
<1>4. ParseInv'
  <2>1. CASE WellFormed(e) /\ e.id \notin DOMAIN set
    <3>1. /\ problems' = problems /\ DOMAIN set' = DOMAIN set \cup {e.id}
          /\ set'[e.id] = n /\ \A i \in DOMAIN set : set'[i] = set[i]
      BY <2>1
    <3> QED
      BY <1>1, <2>1, <3>1 DEF FileInv, ParseInv
  <2>2. CASE ~(WellFormed(e) /\ e.id \notin DOMAIN set)
    BY <1>1, <2>2 DEF FileInv, ParseInv
  <2> QED
    BY <2>1, <2>2
<1>5. UnreadInv' /\ ResolveInv' /\ EveryEntryInForce'
  BY <1>1 DEF UnreadInv, ResolveInv, EveryEntryInForce
<1> QED
  BY <1>2, <1>3, <1>4, <1>5 DEF FileInv

LEMMA ParseReturnsPreserves ==
  ASSUME FileInv, ParseReturns
  PROVE  FileInv'
<1> USE DEF ParseReturns, Parsed, Fail, world
<1>1. FileTypeOK'
  BY DEF FileInv, FileTypeOK
<1>2. SearchInv'
  BY DEF FileInv, SearchInv, Found
<1>3. UnreadInv' /\ ParseInv' /\ EveryEntryInForce'
  BY DEF UnreadInv, ParseInv, EveryEntryInForce
<1>4. ResolveInv'
  <2> SUFFICES ASSUME problems = {}, Parsed
               PROVE  ResolveInv'
    BY DEF ResolveInv
  <2>1. DOMAIN content = 1 .. n - 1
    BY ContentIsSequence DEF FileInv, FileTypeOK
  <2>2. /\ \A k \in DOMAIN content : content[k].id \in DOMAIN set /\ set[content[k].id] = k
        /\ \A i \in DOMAIN set : set[i] \in DOMAIN content /\ content[set[i]].id = i
    BY <2>1 DEF FileInv, ParseInv
  <2>3. \A i \in DOMAIN set : i \notin AliasesDone'
    BY DEF AliasesDone
  <2>4. \A k \in DOMAIN content : content[k].id \notin AliasesDone'
    BY <2>2, <2>3
  <2> QED
    BY <2>2, <2>3, <2>4 DEF ResolveInv
<1> QED
  BY <1>1, <1>2, <1>3, <1>4 DEF FileInv
----------------------------------------------------------------------------
(* The aliases.                                                            *)

\* A step for one alias takes it out of the set and leaves the rule it stands for in
\* it, with the waiver it had or, without one, that of the alias.
LEMMA MovedFacts ==
  ASSUME NEW a \in DOMAIN Aliases, a \in DOMAIN set
  PROVE  /\ DOMAIN Moved(a) = (DOMAIN set \cup {Aliases[a]}) \ {a}
         /\ Aliases[a] # a
         /\ \A i \in DOMAIN set \ {a} : Moved(a)[i] = set[i]
         /\ Aliases[a] \notin DOMAIN set => Moved(a)[Aliases[a]] = set[a]
<1>1. Aliases[a] # a
  BY AliasAssumption
<1> QED
  BY <1>1 DEF Moved, Rewritten

LEMMA ResolveAliasPreserves ==
  ASSUME FileInv, ResolveAlias
  PROVE  FileInv'
<1>1. PICK a \in todo : set' = (IF a \in DOMAIN set THEN Moved(a) ELSE set) /\ todo' = todo \ {a}
  BY DEF ResolveAlias
<1>2. /\ pc = "resolve" /\ pc' = pc /\ at' = at /\ content' = content /\ n' = n
      /\ files' = files /\ flag' = flag /\ present' = present
  BY DEF ResolveAlias, world
<1>3. a \in DOMAIN Aliases /\ a \notin AliasesDone /\ AliasesDone' = AliasesDone \cup {a}
  BY <1>1 DEF FileInv, FileTypeOK, AliasesDone
<1>4. FileTypeOK'
  BY <1>1, <1>2 DEF FileInv, FileTypeOK
<1>5. SearchInv'
  BY <1>2 DEF FileInv, SearchInv, Found
<1>6. UnreadInv' /\ ParseInv' /\ EveryEntryInForce'
  BY <1>2 DEF UnreadInv, ParseInv, EveryEntryInForce
<1>7. Aliases[a] \notin DOMAIN Aliases /\ Aliases[a] \notin AliasesDone'
  BY <1>3, AliasAssumption DEF AliasesDone, FileInv, FileTypeOK
<1>8. ResolveInv'
  <2>1. CASE a \in DOMAIN set
    <3>1. /\ DOMAIN set' = (DOMAIN set \cup {Aliases[a]}) \ {a} /\ Aliases[a] # a
          /\ \A i \in DOMAIN set \ {a} : set'[i] = set[i]
          /\ Aliases[a] \notin DOMAIN set => set'[Aliases[a]] = set[a]
      BY <1>1, <1>3, <2>1, MovedFacts
    <3>2. content[set[a]].id = a
      BY <1>2, <1>3, <2>1, AliasAssumption DEF FileInv, ResolveInv, AliasesDone
    <3>3. ASSUME NEW k \in DOMAIN content
          PROVE  IF content[k].id \in AliasesDone' THEN Aliases[content[k].id] \in DOMAIN set'
                 ELSE content[k].id \in DOMAIN set' /\ set'[content[k].id] = k
      <4>1. CASE content[k].id \in AliasesDone
        <5>1. Aliases[content[k].id] # a
          BY <1>3, <4>1, AliasAssumption DEF AliasesDone
        <5> QED
          BY <1>2, <1>3, <3>1, <4>1, <5>1 DEF FileInv, ResolveInv
      <4>2. CASE content[k].id \notin AliasesDone
        BY <1>2, <1>3, <3>1, <4>2 DEF FileInv, ResolveInv
      <4> QED
        BY <4>1, <4>2
    <3>4. ASSUME NEW i \in DOMAIN set'
          PROVE  /\ i \notin AliasesDone' /\ set'[i] \in DOMAIN content
                 /\ \/ content[set'[i]].id = i
                    \/ content[set'[i]].id \in AliasesDone' /\ Aliases[content[set'[i]].id] = i
      <4>1. CASE i \in DOMAIN set
        BY <1>2, <1>3, <3>1, <4>1 DEF FileInv, ResolveInv
      <4>2. CASE i \notin DOMAIN set
        <5>1. i = Aliases[a] /\ set'[i] = set[a]
          BY <3>1, <4>2
        <5>2. set[a] \in DOMAIN content
          BY <1>2, <2>1 DEF FileInv, ResolveInv
        <5> QED
          BY <1>3, <1>7, <3>2, <5>1, <5>2
      <4> QED
        BY <4>1, <4>2
    <3> QED
      BY <1>2, <3>3, <3>4 DEF ResolveInv
  <2>2. CASE a \notin DOMAIN set
    <3>1. set' = set
      BY <1>1, <2>2
    <3>2. \A k \in DOMAIN content : content[k].id # a
      BY <1>2, <1>3, <2>2 DEF FileInv, ResolveInv
    <3> QED
      BY <1>2, <1>3, <2>2, <3>1, <3>2 DEF FileInv, ResolveInv
  <2> QED
    BY <2>1, <2>2
<1> QED
  BY <1>4, <1>5, <1>6, <1>8 DEF FileInv

LEMMA ResolveReturnsPreserves ==
  ASSUME FileInv, ResolveReturns
  PROVE  FileInv'
<1> USE DEF ResolveReturns, world
<1>1. FileTypeOK'
  BY DEF FileInv, FileTypeOK
<1>2. SearchInv'
  BY DEF FileInv, SearchInv, Found
<1>3. UnreadInv' /\ ParseInv' /\ ResolveInv'
  BY DEF UnreadInv, ParseInv, ResolveInv
<1>4. EveryEntryInForce'
  <2>1. AliasesDone = DOMAIN Aliases
    BY DEF AliasesDone
  <2>2. ASSUME NEW k \in DOMAIN content
        PROVE  Canonical(content[k].id) \in DOMAIN set
    BY <2>1 DEF FileInv, ResolveInv, Canonical
  <2>3. ASSUME NEW k \in DOMAIN content, NEW j \in DOMAIN content,
               content[j].id = Canonical(content[k].id)
        PROVE  set[Canonical(content[k].id)] = j
    <3>1. Canonical(content[k].id) \notin DOMAIN Aliases
      BY AliasAssumption DEF Canonical
    <3> QED
      BY <2>1, <2>3, <3>1 DEF FileInv, ResolveInv
  <2>4. ASSUME NEW c \in DOMAIN set
        PROVE  Canonical(content[set[c]].id) = c
    BY <2>1 DEF FileInv, ResolveInv, Canonical
  <2> QED
    BY <2>2, <2>3, <2>4 DEF EveryEntryInForce
<1> QED
  BY <1>1, <1>2, <1>3, <1>4 DEF FileInv
----------------------------------------------------------------------------
LEMMA FileInvariance == LoadSpec => []FileInv
<1>1. FileInv /\ [LoadNext]_loadVars => FileInv'
  <2> SUFFICES ASSUME FileInv, [LoadNext]_loadVars
               PROVE  FileInv'
    OBVIOUS
  <2>1. CASE \E p \in Paths : Save(p)
    BY <2>1, SavePreserves
  <2>2. CASE LoadWaivers
    BY <2>2, LoadWaiversPreserves
  <2>3. CASE LoadDefault
    BY <2>3, LoadDefaultPreserves
  <2>4. CASE Load
    BY <2>4, LoadPreserves
  <2>5. CASE ParseEntry
    BY <2>5, ParseEntryPreserves
  <2>6. CASE ParseReturns
    BY <2>6, ParseReturnsPreserves
  <2>7. CASE ResolveAlias
    BY <2>7, ResolveAliasPreserves
  <2>8. CASE ResolveReturns
    BY <2>8, ResolveReturnsPreserves
  <2>9. CASE UNCHANGED loadVars
    BY <2>9 DEF loadVars, FileInv, FileTypeOK, SearchInv, Found, UnreadInv, ParseInv, ResolveInv,
       AliasesDone, EveryEntryInForce
  <2> QED
    BY <2>1, <2>2, <2>3, <2>4, <2>5, <2>6, <2>7, <2>8, <2>9 DEF LoadNext, Loaded
<1> QED
  BY <1>1, FileStarts, PTL DEF LoadSpec

\* A default file that Stat could find since the start is the one in use, or one of an
\* earlier path is, also when that was removed after Stat found it (LoadDefault, Load). A
\* file in a directory that may not be searched is no such file: it is passed over.
THEOREM DefaultIsNotPassedOver == LoadSpec => []PresentFileIsUsed
<1>1. FileInv => PresentFileIsUsed
  BY DEF FileInv, SearchInv, PresentFileIsUsed
<1> QED
  BY <1>1, FileInvariance, PTL

\* Every entry of an accepted file is in force under the name of its rule, in whatever
\* order the map of aliases is gone through (parse, ResolveAliases).
THEOREM EntriesAreInForce == LoadSpec => []EveryEntryInForce
<1>1. FileInv => EveryEntryInForce
  BY DEF FileInv
<1> QED
  BY <1>1, FileInvariance, PTL
=============================================================================
