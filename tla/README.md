# esops-doctor in TLA+

esops-doctor lints Elasticsearch and OpenSearch clusters: it fetches *probes*
(what the cluster's APIs say), evaluates a catalog of *rules* over them, and
turns the failing ones into a report and an exit code that CI acts on. This
directory models the parts of it where order, concurrency, time and the
interplay of files decide the outcome. Paths below are relative to `src/`.

## 1. Inventory

| Component | State it keeps | Operations | Talks to | What makes it correct |
|---|---|---|---|---|
| Process and signals: `cmd/esops-doctor/main.go`, `internal/exit` | one-slot signal channel, stored signal, root context | receive, store, cancel, exit | the scan through the context and `cli.Run`'s error | the code names what happened: signal, then findings, then connect error |
| Scan command: `internal/cli/scan.go`, `multicluster.go`, `targets.go` | targets, outcomes per cluster, first connect error | resolve targets, load, visit, connect, render, gate | engine, waivers, baseline, report | every target once; deadlines per cluster; 0 only for a scan that reached everything |
| Engine: `internal/engine/prefetch.go`, `evaluate.go` | semaphore, WaitGroup, mutex, `ProbeCache`, results | `Prefetch`, `Evaluate`, `EvaluateWithCache` | the probe registry, from several goroutines | one observation per probe, bounded concurrency, one result per rule, cancellation cuts a suffix |
| Engine compilation and CEL: `internal/engine/engine.go` | compiled programs | `Compile` | catalog | type errors are collected per rule |
| Probe registry: `internal/probes` | client capabilities | `Connect`, `Probe`, 37 adapters | the cluster | a probe is asked only if every call it makes has a capability; unknown and unconfigured ones become "skipped", errors keep their class |
| Probe reductions: `mapping_drift.go`, `snapshot_recency.go`, `tier_layout.go`, `mapping_fields.go` | none | two requests and a join (one, for the last) | the cluster, rules | what is flagged was so at some moment while the probe looked, although the cluster changes between the requests |
| Waivers: `internal/waivers` | waivers by rule id | `Load`, `ResolveAliases`, `Apply` | results | suppress what they name until the end of the day, and no longer |
| Baseline: `internal/baseline`, `internal/cli/diff.go` | fingerprints | `Load`, `Apply` with drift, `Compare` | reports of earlier scans | hide what was known, nothing else, and report what rots |
| Reports: `internal/report` | none | table, JSON, YAML, SARIF, JUnit, HTML, and their fleet forms | results | each row in one place; the gate over the same rows |
| Findings: `internal/findings` | none | severities and their order | everything above | - |
| Catalog: `internal/rules`, `internal/cli/catalog.go`, `internal/profiles` | rules by id | load layers, shadow, validate, profile, filter | engine | which definition of a rule runs |
| Rule packs: `internal/rulepack`, `internal/cli/rules_pack.go` | a directory and its manifest | create, verify, load | catalog | what is loaded is what was listed; half a manifest is none |
| `validate-rules`: `internal/cli/validate.go` | none | judge the layered catalog and, with `--strict`, its fixtures | catalog, engine | what it accepts a scan can load |
| Configuration: `internal/cli/root.go`, `config_*.go` | the esops config file, the defaults the Before hook stashed | `Before`, use-context, show, view, get-contexts; the scan's own lookups | the esops library | what the commands announce is what the next scan does |
| `explain-finding`: `internal/cli/explain_finding.go` | none | pick a cluster and a row of a JSON report | reports | the row explained is the one that was asked for |
| Introspection and scaffolding: `list-rules`, `explain`, `docs`, `coverage`, `new-rule`, `new-profile`, `completion`, `probe`, `version` | none | print | catalog | - |

How a scan runs: `main` starts a goroutine that waits for one signal, and calls
`cli.Run` with a context that goroutine cancels. `runScan` resolves `--targets`,
loads the catalog, waivers and baseline once, and visits the clusters one after
the other. For each: connect, prefetch the probes in parallel, evaluate the
rules in order, annotate the failing rows with waivers, then with the baseline.
At the end one report is written and the exit code is decided.

Hard behaviours: the prefetch goroutines against a cancellation; a deadline or
a signal between any two steps; clusters that cannot be reached in the middle
of a fleet; files that outlive the catalog they were written for; a date that
changes during a scan; three decisions (section, summary, gate) taken
separately over the same annotations, and again in every output format; probes
whose two requests see two different clusters; files that are read twice, or
written by a process that may be killed. `PROJECT.json` lists the hazards by line.

## 2. Modules

| Module | Models | Builds on |
|---|---|---|
| `RuleScan` | abstract: what the engine promises its callers | - |
| `ProbeEngine` | `Prefetch`, `EvaluateWithCache`, `evalOne`, the registry's edge | implements `RuleScan` |
| `MCProbeEngine` | instance of `ProbeEngine` | |
| `ProbeEngineProofs` | inductive invariant, its consequences, the refinement of `RuleScan` | extends `ProbeEngine` |
| `ScanCommand` | one process: signals, deadlines, targets, fleet walk, exit code | engine as in `RuleScan`: one result per rule, a cut anywhere |
| `MCScanCommand` | instance of `ScanCommand` | |
| `ScanCommandProofs` | exit codes, the fleet report, where interruptions end | extends `ScanCommand` |
| `Triage` | waivers, baseline, gate, drift, diff over successive scans | statuses as the engine can give them |
| `MCTriage` | instance of `Triage`, for three configurations | |
| `TriageProofs` | waivers, baseline, drift and diff over any number of scans; the waivers file used, and its entries in force | extends `Triage` and `WaiverFile` |
| `Catalog` | layers, shadowing, validation, profile, filters, compilation | - |
| `ValidateRules` | `validate-rules`, and the scan that follows it | extends `Catalog` |
| `MCCatalog` | instance of `ValidateRules`, and with it of `Catalog`, for two configurations | |
| `CatalogProofs` | which rules run, and what `validate-rules` promises | extends `ValidateRules` |
| `WaiverFile` | finding, checking and resolving the waivers file | catalog names as `Catalog` leaves them |
| `MCWaiverFile` | instance of `WaiverFile` | |
| `Reports` | what table, JSON, HTML, SARIF and JUnit say, for one cluster and a fleet | annotations as `Triage` can give them |
| `MCReports` | instance of `Reports` | |
| `ReportsProofs` | the formats agree as far as they tell rows apart; nothing is missing; what is read back is what was written | extends `Reports` |
| `SnapshotRecency`, `MappingDrift`, `TierLayout` | the probes that join two answers, and the rules over them | - |
| `ProbeRegistry` | the dispatch of a probe to these adapters, and the class of what comes back | composes the three (INSTANCE) |
| `MCProbeRegistry` | instance of `ProbeRegistry` | |
| `ProbeRegistryProofs` | the dispatch, and the three joining probes | extends `ProbeRegistry` |
| `RulePack` | create, verify and load of a rule pack, while its author edits it | - |
| `MCRulePack` | instance of `RulePack` | |
| `RulePackProofs` | half a manifest does not pass; what is loaded is what was listed, but for files named MANIFEST.yaml | extends `RulePack` |
| `Config` | the Before hook, the `config` commands and what a scan takes from the same file | - |
| `ConfigProofs` | commands and scan agree | extends `Config` |

`ProbeEngine`, `ScanCommand` and `Triage` are three scales of the same system: the steps
of one engine phase, the steps of one process, the scans of months. The finer one
justifies what the coarser one takes as one step: `ScanCommand` appends results one by
one and lets the context be done between any two, which is what `RuleScan` (hence
`ProbeEngine`, by refinement) promises; `Triage` gives each rule any status, which is
what a scan under `ScanCommand` can give it. `ProbeRegistry` is inside one `Fetch` of
`ProbeEngine`, which gives it one step per end and takes from it that the answer is
data, not found, not applicable or an error. In the same way `Catalog` shows of the
rules that run what the others assume of them (an id or alias names one rule; the
assumption of `WaiverFile` and `Reports`), `WaiverFile` shows that what `Triage` starts
with is what the operator wrote, and `Triage` that a row can be waived, lapsed,
baselined or two of these, which is what `Reports` starts with. `RulePack` is behind the
step of `Catalog` in which a layer loads or ends the command.

Names follow the code: `Spawn`, `StoreEntry`, `ReleaseToken` are the lines of
the goroutine in `Prefetch`; `SemCap`, `UniqueProbes`, `RuleSupportsDialect`,
`ResolveAliases`, `IsActiveWaiver`, `Code`, `SignalCode` the functions of those
names. An operator called `X_Something`, defined before `X`, is a variant of `X`
with a plausible bug; the mutation check puts it in the place of `X` and the
property named with it must then fail.

### ProbeEngine

`pc` is the calling goroutine, `worker[i]` the goroutine for catalog position
`i`. A goroutine is named for its position and not for its probe, so that a
duplicate in `uniqueProbes` would be two goroutines, as in the code. `sem` and
`wg` count tokens and the WaitGroup, `mu` is the mutex, `cache` the `ProbeCache`
(`"absent"` for a missing key; the entry of a failed fetch is its error).
`asked` is a history variable. The `select` on the semaphore and `ctx.Done()` is
two actions that can both be enabled (`Spawn`, `StopScheduling`), as Go picks
either. A call to the registry is two steps, so that requests overlap; a probe
without its capability, and a call under a done context, come back at once
without a request (`Immediate`). The adapters' own errors are classes:
not found and not applicable (skipped), failed and cancelled (error). `Outcome`
says what a rule's condition makes of a payload, for every payload.

### ScanCommand

`sigCh`, `watcher`, `held`, `sig`, `root` are main's goroutine, split at every
step of it that another goroutine can see. `scan` is the context of the cluster
being visited, a child of the root with the deadline. Loading can fail in the
two classes the code gives it, connecting in the five the client reports.
`lapsed` is a history variable. A result is `pass`, `fail`, `error` or the
context's error; skipped rules count as `pass` here, as only `fail` is looked
at. `fail` means a failing row that no waiver or baseline excuses.

### Triage

`waivers` and `baseline` are the two files, `loaded` what the scan read when it
started, `report` its documents, one per cluster. The operator edits waivers,
installs another release (whose catalog may rename rules and keep the old name
as an alias) and records a report as the next baseline in any of the accepted
formats; days pass at any moment, also between two clusters. `baseline.from`
is a history variable: what the recorded report showed failing.
`ResolveAliases` returns a set because the code ranges over a Go map.

### Catalog and ValidateRules

`cat` grows layer by layer (`LoadLayer`), is validated as a whole, narrowed by a
profile and by the flags, and compiled; `full` is the catalog that
`aliasIndex` is built from, `read` a history variable with the contents of each
layer. A rule is an id, aliases, tags, a severity and two flags: whether the
checks that look at the rule alone accept it, and whether it compiles. A layer
other than the embedded one may fail, which also stands for a rule pack that
does not verify. `log` keeps the warnings, as several properties are of the
form "done or said". `ValidateRules` adds the gate, which may run between
assembly and `Validate` on the same layers, with or without `--strict`; the scan
then goes on, by the actions of `Catalog`. The source path by which
`isEmbeddedRule` judges is the layer a rule came from and, for the operator's
rules, whether it was in a directory called `rules` (`UnderRules`). A fixture is
complete or it is not.

### WaiverFile

The search for a file takes a step for each path, reading another, and files may
be created, replaced and removed, and directories closed to a search, between any two
(`Save`). A path is passed over whenever `os.Stat` answers with an error, be the file
`Missing` or `Unsearchable` (`Found` is the contrary). `parse` goes through
the entries one by one, `ResolveAlias` takes the aliases in any order, as the
code ranges over a map. `set` maps a rule id to the number of the entry in force,
so that two entries for one rule can be told apart. `present` is a history
variable: the paths where `os.Stat` would have found a file all along.

### Reports

The clusters are visited as in `ScanCommand`, and each row is given any status
and annotations. The documents are not state but functions of the rows and the
output flags, one operator per renderer (`Table`, `BuildDocument`, `SarifRun`,
`JUnitSuite`, and the fleet's `MultiTable`, `FleetSummary`, `SarifRuns`,
`JUnitTotals`), each with the classification its code makes; `multi` tells a
fleet, which may have one cluster, from a scan without `--targets`. A report is
read again by two readers: `LoadBaseline`, which goes by the top-level keys of
the file and then by its suffix (`DetectFormat`), and `ExplainFinding`, which
picks the cluster and the row of a rule. What a format leaves of the rows is
what stands at the positions it keeps (`Kept`); a count is the number of positions in a
`Column`, which is the code's switch over one row. A rendered report is therefore kept as its
keys and what they hold; a format that is no JSON object has no keys.

### ProbeRegistry and the joining probes

`ProbeRegistry` composes the three adapters by INSTANCE: `name` is the probe a
rule asks for, and each behaviour has the adapter of that probe in play and
the variables of the other two at rest. An arm of `dispatch` checks capabilities
(`Needs`) before the adapter's first call; what the adapter goes on to call is
`Calls`, and that the two agree is a property. The client's capabilities are chosen
at the moment they are looked at. The other 34 arms check one capability and make
one call, and are not repeated here.

In each adapter, the first request stores what the cluster said (`listed`), the cluster
moves on by its own actions, and the second request is joined with the first.
`snapshot_recency` reads the clock once, after both. The cluster is external: it takes,
ends and prunes snapshots, registers repositories, puts templates, creates an index from
any template that matches it (it goes by priority, which the probe does not read, so to
the probe that is a choice), moves nodes and edits tier preferences. Names and patterns
are abstract (`Covers` says what `path.Match` matches, `Length` how long a pattern is).
History variables say what held all through the probe (`kept`; `fresh`, the pairs of an
index and the template it was made from; `edited`, the templates changed between the
calls; `quiet`), or at some moment of it (`stranded`, `placed`): the properties are
about those, because nothing can be promised of what changed between the requests.
`VerdictHeldOnce` is as strong as it can be: when the nodes and an index's preference
both change between the calls, the pair the probe looks at need not have been true at
any moment. `FreshIndexIsClean` has to except the index that the cluster made by
priority and the probe judges by the longest pattern: a false alarm (section 5).

### RulePack

A rule file is its content or `"absent"`, and a hash is the content it stands
for. `create` lists the directory, hashes file by file, truncates the
manifest and writes it, possibly in parts; it may be killed at any step. A
manifest cut between two entries parses, one cut within an entry does not
(`ragged`). `verify` reads the manifest once, hashes file by file, and lists the
directory for files that are not in it; `LoadDir` lists it again and parses file by
file. A path is one of three kinds, because `create` and `verify` pass over whatever is
called MANIFEST.yaml, at any depth, and `LoadFS` loads every `*.yaml`: `Files` have another
name, `Nested` are the manifests of subdirectories, and `Root` is the pack's own for the
checks it may have, which `create` overwrites. `Lower` is what tells a `.YAML`, which the
manifest lists, from a `.yaml`, which is also loaded. `whole`, `exact`, `steady` and
`touched` are history.

### Config

`file` is the esops file; it is read in the `Before` hook for the defaults
(`InitLogger`) and again by the command, and others may rewrite it in between. Each
command is one action after the hook, except `use-context`, which looks up and then
rewrites what the file is by then, and a scan, which resolves the output at its start
and the context much later. `said` and `saidOut` are history: what was first announced
since the file last changed. `config show` says three things of the context (`Answer`):
the one it stars and the one it resolves, which follow `--context`, and its
`current_context`, which is the file's whatever `--context` says. `use-context`
announces the name it wrote also when others have removed that context since it looked.
The four commands have four ideas of which formats they accept (`FormatAccepted`), kept
as they are.

## 3. Runs

| Run | Shows | States |
|---|---|---|
| `engine` | the cache and its protocol, termination, and the refinement of `RuleScan` | 144 thousand |
| `command` | exit codes under signals and deadlines at every step, the shape of a fleet report, termination | 209 thousand |
| `triage` | suppression, gate, drift and diff agree over successive scans | 508 thousand |
| `catalog` | which rules run, under which definition, what is said of the rest, and that `validate-rules` comes to the scan's verdict | 368 thousand |
| `reports` | the formats agree with the exit code, and with one another as far as they tell rows apart | 70 thousand |
| `registry` | no call without its capability; what the joining probes flag was so although the cluster moves | 1.9 million |
| `waiver_file` | no file that `Stat` finds is passed over, and all of the one used is in force or none | 384 thousand |
| `rule_pack` | half a manifest never passes, and what is loaded is what was listed, but for files named MANIFEST.yaml | 4.7 million |
| `config` | the commands and the scan name one context and one output | 1.0 million |
| `triage_harvest` | a comment contradicted: a waived finding is taken into the baseline | - |
| `triage_drift` | a comment contradicted: `did_not_fire` for a rule that errored | - |
| `catalog_override` | a comment contradicted: an override under an alias is silently void | - |

Properties, by the question they answer:

- *Is the cache safe to read without a lock?* `CacheIsSafe`: one
  writer at a time, and none left when `Prefetch` has returned.
- *Is the cluster spared?* `InFlightBounded`, `FetchedAtMostOnce`,
  `CancelStopsRequests`, and `PrefetchIsExact`, which joins `NoWastedFetch` and
  `PrefetchSuffices`.
- *Do the results mean what the report says?* `ImplementsRuleScan`: in
  particular rules that share a probe share its outcome (`SharedObservation`)
  and a cancellation cuts off a suffix of the catalog
  (`CancellationCutsSuffix`); these two and `CacheEntriesFinal` are proved.
- *Does it come back?* `ScanTerminates`, `Terminates`.
- *Can CI rely on the exit code?* `ExitCodeNamesSignal`,
  `ExitCodeTellsTheReport` (`FindingsBeatConnectErrors` and
  `ZeroMeansEveryClusterReached`), `DiffAgreesWithGate`.
- *Is a fleet report complete and consistent?* `EveryTargetOnce`,
  `InterruptionsStayLocal` (`DeadlineIsPerCluster` and `CutOnlyAtTheEnd`).
- *Is anything hidden that should not be, or the other way round?*
  `WaiversHonoured` (`WaiverCountsOnItsDay`, `LapsedStaysLapsed`),
  `BaselineIsExact` (`OnlyKnownFailuresHidden`, `RecordedStaysQuiet`),
  `NoSilentRot`; from the file on, `PresentFileIsUsed`, `EveryEntryInForce`.
- *Which rules ran?* `TopLayerRuns`, `NothingVanishes`, `NamesUnambiguous`,
  `NamedRulesRun`; of a pack, `VerifiesExactlyWhole` and `LoadedAsListed`.
- *Is a green `validate-rules` a promise?* `AcceptedCatalogRuns`,
  `RejectedCatalogStops`.
- *Does it matter which format one reads?* `FormatsAgreeWithGate`,
  `OneVerdictPerRow`, and `ReportIsComplete`, which joins
  `SummaryIsWhole`, `UnreachableIsVisible` and `PartialScanIsMarked`. *And
  can it be read back?* `BaselineRoundTrip`, `ExplainFindsTheRow`.
- *Is a finding true although the cluster moved under the probe?*
  `RecencyRulesAgree` (`FreshSuccessIsNotFlagged` and `StaleRepositoryIsFlagged`),
  `GapIsLongestSilence`, `FreshIndexIsClean`, `RepeatScanAgrees`,
  `VerdictHeldOnce`. *And is it asked at all only when it can be?*
  `DispatchIsExact`.
- *Does the configuration mean what the commands say?* `ContextAsSaid`,
  `OutputAsSaid`.

`TypeOK` says what shape the state of `ProbeEngine` keeps, for the proofs.

### Bounds

- `engine`: five rules, of which two share a probe, one is for the other
  dialect, one has a probe without capability; two payloads that lead conditions
  to pass, fail and error; concurrency 0 (the default of 4, more than there are
  probes), 1 and 2, so that the semaphore is both full and never full. Three
  goroutines are enough for two to compete for the mutex while a third waits for
  a token.
- `command`: two contexts in a `--targets` list with a repetition and a blank,
  a list with an unknown name, a blank list, and a scan without it; one rule
  below the threshold and one at it; with and without a deadline. Any number of
  signals. With two clusters there is a first, a last, and every combination of
  reached and not reached.
- `triage`: two clusters of different dialects, two releases, of which the
  second renames its rule and also answers to an older alias; one expiry day and
  two days; two edits of the waivers file (`MaxEdits`). Any number of scans and
  recordings: the state does not count them. Two edits are what a conflict
  between an alias and its canonical id takes. The two clusters are
  interchangeable, hence the symmetry set.
- `catalog`: two releases, of which the second has renamed a rule and kept the
  old id as an alias; each of the three other layers any set of five custom
  rules that tune, clash, take the retired name, are invalid or do not compile;
  four profiles and six settings of the flags with old, new and mistyped names.
  Two rules and an alias are what every conflict of names takes. One of the
  custom rules is in a directory called `rules`.
- `waiver_file`: two default paths and that of the flag, nine contents and four ways to
  have none (missing, out of reach of `Stat`, unreadable, malformed); one change of a
  file (`MaxSaves`), at any step. A second change could only undo the first or touch a
  path already passed.
- `reports`: two clusters, or one with and without `--targets`, and two rules, of
  the severities on both sides of the threshold. Every row has every combination
  of status, waiver and baseline, under all eight settings of the flags.
- `registry`: for snapshots, two repositories, three snapshots, three hours, a limit
  of 0 for ages and 1 for gaps, so that both sides of each are met; before the probe
  the cluster does as it likes, during it two things (`SnapshotChanges`). Three
  snapshots make two gaps, and the open one to now. For drift, two templates over a
  short and a long pattern, an index both may claim and a system index; two scans,
  one change in each and between them (`DriftChanges`). Two templates make a tie,
  and a tie is where order shows, and a rivalry of priority and length; a template put and
  an index created in one interval take two changes, which the theorem has and the run
  only in two intervals. For tiers, two nodes with five sets of roles, the
  generic one and none among them, two tiers and every preference; two changes
  (`TierChanges`), one of each kind being what the property excepts. For each, every
  set of capabilities the client may have.
- `rule_pack`: three files, one with its suffix in capitals, two versions of a rule
  and one that does not parse, a MANIFEST.yaml in a subdirectory and checks in the pack's
  own; two edits (`MaxEdits`) at any moments. Any number of
  creates, verifies and loads. Three files are what it takes for a manifest to break
  off before, within and after an entry and still leave one unlisted.
- `config`: two contexts, one with secrets that do not resolve, three values of
  `--output` and of the default, of which one each is known to a scan and not to the
  commands or the other way round, a good and a bad log level; one edit by others
  (`MaxEdits`), at any step of any sequence of commands.

### Fairness

`ProbeEngine`: weak fairness of the calling goroutine and of each prefetch
goroutine. The Go scheduler runs every runnable goroutine, and a request ends
because the HTTP client has a timeout and honours the context. Cancellation is
not fair: nothing need cancel a scan. `ScanCommand`: weak fairness of the main
goroutine (with the engine's termination, shown by the other module, inside
it) and of the signal goroutine; no signal need be sent and no deadline need
pass. The other modules claim no liveness: what they model has no loop but over
a finite list, and no waiting.

## 4. Proofs

Each proof module extends the module it is about and holds one inductive
invariant `IInv`, the lemma that every step keeps it, and the theorems that follow
from it. Every safety property of the runs is proved for all values of the
constants. A theorem's hypotheses are
the `ASSUME`s of its module, and those say what the code or its neighbours guarantee.
The bounds (`MaxEdits`, `MaxSaves`, `MaxTime`, the three on changes) are constants like
the others: the theorems hold for every value of them.

**`ProbeEngineProofs`** (`CatalogAssumption`, `DataAssumption`: the constants are of
the right kind, and a payload is not mistaken for an error). `IInv` adds what the code
relies on without saying it:

- the tokens in the semaphore are the goroutines that have been started and
  have not released theirs, the WaitGroup those that are not done, and the
  mutex belongs to the one goroutine between lock and unlock;
- a goroutine exists only for a position in `UniqueProbes`, so two goroutines
  never have the same probe; those not yet started are exactly `todo`;
- a probe has been asked for exactly when its goroutine is past the call or the
  evaluation has fetched it lazily, and the cache has an entry exactly when the
  one that asked has stored its answer.

From it: `TypeCorrect`, `BoundedConcurrency`, `CacheSafety`, `AtMostOnce`,
`EntriesFinal`, `CancellationStops`. For `PrefetchExact` it is further strengthened by
`PrefetchInv`: the fan-out leaves nothing of `UniqueProbes` out unless the context is
done, and then no rule is evaluated. That every applicable rule's probe is in
`UniqueProbes` needs that it has a first position, which a well-founded order on the
positions gives.
Each result is the verdict over the cache's entry (`OneObservation`), a result
from the context means the context is done (`SuffixCut`), and every step
is a step of `RuleScan` or a stutter (`Refinement`): storing an entry is
`Observe`, a lazy fetch reports and observes at once, the fan-out is invisible.

**`ScanCommandProofs`** (`ScanAssumption`: target flags are sequences, no context is
called like a blank entry, severities are 1 to 4). `SignalInv` ties the signal stored to the
steps of main's goroutine, which stores before it cancels: with it, the code of a process
whose context was cancelled is the signal's (`ExitCodes`). `CancelInv` and `CutInv` follow
an interruption from the root context to a result; `TargetsInv` and `VisitInv` say how far
the list has been taken and visited, `GateInv` what the error means. `Confinement`,
`FleetReport` and `ExitCodeIsTheVerdict` are consequences.

**`ConfigProofs`** (`ContextsAssumption`, `FlagsAssumption`). `said` is not in the
code, and that it is still true is not inductive without what the running command
has read: `CalmInv` says that unless others wrote the file, the defaults of the hook are
the file's. Gives `ContextAgreement`, `OutputAgreement`.

**`RulePackProofs`** (`FilesAssumption`: paths are numbers in their order and finitely
many; `ContentsAssumption`). `WalkInv` is the writer's half, `Exact` the manifest's,
`VerifyInv` and `LoadInv` the reader's: of a walk over files that change, what has been
gone past and not touched since is as it was read. Gives `AcceptsExactlyWhole`,
`LoadsAsListed`.

**`TriageProofs`** (`FleetsAssumption`, `CatalogAssumption`, `FormatsAssumption`,
`TermsAssumption`, `VersionsAssumption`: the ids and aliases of a release are apart,
which `Catalog.Validate` checks). `BaselinesFaithful` says what an entry of a baseline
comes from, `Annotated` what the annotations of a row are computed from, and that this is
what the scan loaded when it started, whatever the files hold by now. Gives
`WaiversAreHonoured`, `BaselinesAreExact`, `BaselinesDoNotRot`, and `RatchetsAgree`: what
`diff` does with a baseline follows from what the gate did with it.

The second half of the module is about `WaiverFile` (`AliasAssumption`: an alias does not stand for an
alias; `DefaultsAssumption`, `ContentsAssumption`), with an invariant of its own,
`FileInv`. `SearchInv`: at no path passed over could `Stat` find a file all along.
`ParseInv` and `ResolveInv`: the entries gone through are in the set, under their own
name before and under the rule's after their alias has been resolved, in any order.
Gives `DefaultIsNotPassedOver`, `EntriesAreInForce`.

**`CatalogProofs`** (`CatalogAssumption`: the embedded rules of a release are valid and
compile, and rules are records). `LayersInv` says that the catalog is the merge of the
layers read so far, `SelectionInv` that what runs is a rule of it but for its severity,
`VerdictInv` what a verdict of `validate-rules` still means at each stage of the scan. Gives
`TopLayerWins`, `LayeringLosesNothing`, `OneRulePerName`, `NamedRulesAreRun`,
`RejectedStops`, `AcceptedRuns`.

**`ProbeRegistryProofs`** (`NamesAssumption`: finitely many snapshots and templates,
names are numbers in their order; `PatternsAssumption`; `TimesAssumption`,
`EndsAssumption`, `TiersAssumption`). `DispatchInv`: past its first call a probe has all
it calls (`DispatchExact`). Of the adapters, each invariant relates the first answer to
the cluster of now:

- `PairedInv`: nodes unchanged, or a preference unchanged, the list tells what is so now
  or was when it was taken (`VerdictsHeldOnce`);
- `ListedInv`, `FreshInv`: unless edited since, the templates listed are those there
  are, and an index made from a template that matches it still has its setting, so that a
  row of that index names another template, with a pattern as long or longer
  (`FreshIsClean`);
  `QuietInv`: every report of a cluster at rest is a function of the cluster alone
  (`ScansRepeat`), which needs that the cluster's order is gone after the sort (`Sorted`);
- `Past`, `ReportInv`: nothing listed starts after the clock is read, and the report is
  that of the list (`RecencyRules`). The gaps between neighbours in order are all the
  gaps there are (`MaxGapIsLongest`), hence `GapIsSilence`.

Where the code sorts, the modules take *the* enumeration in order (`Sorted` of `RulePack`,
`ByName`, `InOrder`: a CHOOSE). That there is one is a lemma of the proofs, by
counting for each member those before it (`Enumeration`, `Ordered`), and not an assumption.

**`ReportsProofs`** (`FleetsAssumption`: a fleet names a cluster once; `CatalogAssumption`:
a catalog names a rule once; `FailOnAssumption`). The walk needs little: `VisitInv` says
that the clusters visited are the first of the targets, `RowsInv` that the rows of one are
those of the rules so far. The rest is about documents, which are functions of the rows:

- *What is kept.* Any set of positions can be gone through in order (`InOrder`), so
  `Kept` has what stands at each of them and nothing else (`KeptFacts`). With
  `OneRowPerRule` a row is in a section of the table just when its position is kept
  (`TableShows`), and the results of SARIF, JSON and JUnit are those of the same rows
  (`FormatsShow`). Gives `VerdictsAgree`.
- *What is counted.* `Sum` is a recursive function; that it exists, is positive when a
  term is, adds up place by place and counts ones (`PartialSums`, `SumPositive`,
  `SumOfSums`, `SumOfOnes`) is shown for any length, by way of the set of positions up to
  which it holds (`CountsUpTo`). Each row is in one column (`ColumnsPartition`), and a
  column of a severity is above zero just when the gate sees that severity (`LiveCounts`).
  Gives `FormatsAgree`, `ReportsAreComplete`.
- *What is read back.* The entries a reader finds are the fingerprints of the failing rows
  (`JsonRead`, `SarifRead`), whatever `--quiet` left out, for it leaves none of those out;
  a target is in a fleet once, so its entry is the only one under its label
  (`CarryingFacts`). Gives `BaselinesRoundTrip`, `ExplainsTheRow`.

*Model-checked only.* `ScanTerminates` and `Terminates`: liveness under fairness needs
ENABLED, which the prover does not have. What a divergence of section 5 shows is a
counterexample and needs no proof.

## 5. Divergences found

Each is a run that TLC finds violated:

1. `internal/baseline/json.go:105-108` says active waivers are not harvested
   into a baseline. They are: a waived row keeps the status `fail`, and that is
   all line 112 looks at (run `triage_harvest`).
2. `internal/baseline/apply.go:20-24` says `did_not_fire` means the rule ran
   and did not fail. A rule that errored or was skipped is reported the same
   way, with the advice to drop the entry (run `triage_drift`).
3. `internal/profiles/profile.go:142-143` says an override that does not apply
   is warned about. One under a deprecated alias is neither applied nor warned
   about (run `catalog_override`).

Seen while reading and not the subject of a run:

- `docs/baseline.md:38` has a severity increase make `diff` exit 20. From error
  to critical it does not (`severityChanged`), even between two JSON files,
  which keep the two apart.
- The help of `--rules-dir` (`internal/cli/scan.go:78`) says it is layered over
  the user's rules.d; it is below it, as `docs/rules.md:123` has it.
- `internal/cli/catalog.go:191` says selection by flags mirrors that by
  profiles. `--rule-id` takes deprecated aliases, a profile does not.
- `internal/report/junit.go:101-102` wants a suite's counts to agree with its
  cases. A baselined failure is a failed case that `failures` leaves out.
- `internal/cli/validate.go:144-145` says rules of `--rules-dir` are not asked
  for fixtures. Those in a subdirectory called `rules` are: their source is a
  relative path as well.
- `internal/probes/snapshot_recency.go:46-47` and
  `rules/lifecycle/retention_gap.yaml:13` say a repository with fewer than two
  successes has no gap. One dated success is enough: line 154 takes the silence from
  it to now. `SnapshotRecency` does as the code does.
- `explain-finding` without `--target` says a rule "fired on N clusters"; what it
  counts are the clusters with a row of the rule, whatever its status
  (`internal/cli/explain_finding.go:164-176`, `226-252`). A finding on one cluster
  of a fleet that passes on the others is refused as ambiguous, which is why
  `ExplainFindsTheRow` promises less.
- `docs/rules-packs.md:38` and `:100` have a pack refused for any YAML file that its
  manifest does not list. A `MANIFEST.yaml` in a subdirectory is passed over by `create`
  and `verify` (`internal/rulepack/rulepack.go:195`, `146`) and loaded like any other
  `.yaml` (`internal/rules/loader.go:80`): its `checks` run unlisted and without a hash.
  So do those of the pack's own manifest, of which there is no hash either. The model
  loads both; `LoadedAsListed` claims nothing of files of that name.
- The comment of `LoadDefault` (`internal/waivers/waiver.go:80-84`) has it load the first
  default file that exists. It passes over one that `Stat` cannot reach, for any error
  (line 90): with a directory closed to the search a scan goes on with a later file or
  without waivers, and says nothing. `PresentFileIsUsed` is of the files `Stat` finds.
- `internal/probes/mapping_drift.go:50-52` takes the longest pattern for the cluster's
  rule. The cluster picks the template of the higher priority, as
  `rules/mappings/composable_template_priority.yaml:8-9` says, so an index it has just
  made from that one is reported as drifted from one with a longer pattern.
- Under `--summary-only` SARIF has no results at all (`internal/report/sarif.go:158-160`),
  while the scan may exit 20; the totals of JSON and JUnit are there. A reader of SARIF
  cannot tell, which is why `FormatsAgreeWithGate` makes an exception for it.
- A baselined row is `fail` in HTML and a `<failure>` case in JUnit
  (`internal/report/junit.go:145-154`), as a finding is: those two do not tell them apart,
  and `OneVerdictPerRow` does not say they do.
- A file of a pack whose name begins with two dots is listed by `create` and refused by
  `verify` (`sanitisePath`).
- A rule pack's `.YAML` file is listed and verified, and never loaded: `LoadFS`
  compares the suffix as written.
- `config show` promises the current context "after --context override"
  (`internal/cli/config_show.go:26`) and prints the file's, labelled `(source: --context
  flag)` (lines 140, 149-152, 229). Its star and its `selected_context` follow the flag.
  `ContextAsSaid` claims nothing of that line under `--context`. It also trims
  `--context`, which a scan does not, does not look at `--url`, accepts a default output
  of `text` or `yml`, which a scan refuses, and refuses `sarif`, which a scan accepts.

## 6. Not modelled

- CEL itself: what a condition computes is a constant of `ProbeEngine`. Of
  compilation, `Catalog` has whether a rule compiles.
- The 33 adapters that make one call and pass the answer on, and `mapping_fields`,
  which flattens one answer: they have no order to get wrong, and what they return
  is their input with other names. `ProbeEngine` has what becomes of their errors.
- Layout, colours, wording and logging; the syntax of the YAML, JSON and SARIF
  files, of which only "does not parse" is kept; duplicate fingerprints of one
  baseline file, which are one entry.
- The esops library (configuration, client, TLS), of which only the classes of error
  it reports and what it reads and writes are used. `config view --all` and the
  redaction of secrets are layout.
- Paths in a manifest that leave the pack, its version and its algorithm: each is a
  check of one entry by itself.
- The commands that only print: `list-rules`, `explain`, `docs`, `coverage`,
  `new-rule`, `new-profile`, `completion`, `probe`, `version`. They read the catalog
  or one probe, keep nothing and decide nothing.
- A second esops-doctor working on the same waivers or baseline. `WaiverFile`,
  `RulePack` and `Config` have others who change their files.

## 7. Plan

Done, in this order: `ProbeEngine` with `RuleScan` and their proofs; `Triage`;
`ScanCommand`; `Catalog`; `Reports`; `SnapshotRecency` and `MappingDrift`;
`WaiverFile`; `ValidateRules`; `TierLayout` and `ProbeRegistry`; `RulePack`;
`Config`; the readers of a report in `Reports`; the proofs of `ScanCommand`,
`Config`, `RulePack`, `Triage`, `Catalog` with `ValidateRules`, `WaiverFile`,
`ProbeRegistry` with its three probes, and `Reports`.

Left:

1. That `ScanCommand` implements an abstract specification of a scan's promise
   to CI (one exit code, decided by what happened first), proved as the engine's is.
2. `ProbeRegistry` inside the fetch of `ProbeEngine`, and `RulePack` inside the
   layers of `Catalog`, as compositions rather than by their outcomes.
